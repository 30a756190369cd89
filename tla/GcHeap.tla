------------------------------- MODULE GcHeap -------------------------------
(***************************************************************************)
(* What the collector of duckVM.c promises to the instructions and C       *)
(* callbacks that use it, in terms of the pointer graph alone.  Objects    *)
(* are allocated from free cells, pointers are copied between places that  *)
(* can be reached, and a collection recycles exactly the cells that cannot *)
(* be reached any more, in one step.  The client keeps the rule of         *)
(* docs/internals.md: "All objects stay on the stack.  Never let an object *)
(* out of sight of the garbage collector."                                 *)
(***************************************************************************)
EXTENDS HeapGraph

VARIABLES
    graph,  \* the cells each cell points to
    roots,  \* the cells the VM's stacks, globals and call frames point to
    free    \* the cells that may be handed out

heapVars == <<graph, roots, free>>

Live == Reachable(graph, roots)

HeapTypeOK ==
    /\ graph \in [Cells -> SUBSET Cells]
    /\ roots \subseteq Cells
    /\ free \subseteq Cells

HeapInit ==
    /\ graph = [c \in Cells |-> {}]
    /\ roots = {}
    /\ free = Cells

\* A free cell, one that a collection would find if need be, is overwritten with
\* an object that points to live cells.  The client links it to a root or to one
\* live object, or loses it when the allocation fails halfway.
Allocate ==
    LET live == Live
    IN  \E available \in {free, Cells \ live} : \E c \in available :
            /\ free' = available \ {c}
            /\ graph' \in [Cells -> SUBSET Cells]
            /\ \E d \in live \cup {c} :
                  /\ \A e \in {c, d} : graph'[e] \subseteq live \cup {c}
                  /\ \A e \in Cells \ {c, d} : graph'[e] = graph[e]
            /\ roots' \subseteq live \cup {c}

\* The client overwrites the pointers of a live cell, or its roots.
Mutate ==
    LET live == Live
    IN  /\ graph' \in [Cells -> SUBSET Cells]
        /\ \A e \in Cells \ live : graph'[e] = graph[e]
        /\ \A d, e \in live :
              graph'[d] # graph[d] /\ graph'[e] # graph[e] => d = e
        /\ \A d \in live : graph'[d] # graph[d] => graph'[d] \subseteq live
        /\ roots' \subseteq live
        /\ UNCHANGED free

Collect ==
    /\ free' = Cells \ Live
    /\ UNCHANGED <<graph, roots>>

HeapNext == Allocate \/ Mutate \/ Collect

HeapSpec == HeapInit /\ [][HeapNext]_heapVars

\* No cell that a program can still reach is up for reuse.
FreeIsDead == free \cap Live = {}
=============================================================================
