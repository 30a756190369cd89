----------------------------- MODULE HeapGraph -----------------------------
(***************************************************************************)
(* The object heap of the duck-lisp VM as a graph: a fixed array of cells  *)
(* (duckVM_gclist_t.objects), each holding one duckVM_object_t.            *)
(*                                                                         *)
(* An object keeps what the collector can tell apart.  `type' is a class   *)
(* of C types:                                                             *)
(*   "cell"   list, cons, closure, upvalue, vector, string, symbol,        *)
(*            composite, internalComposite: traced pointers, no buffer     *)
(*   "array"  upvalueArray and internalVector: a malloc'ed table of traced *)
(*            pointers; `initialized' is the internalVector's flag, TRUE   *)
(*            for every upvalueArray                                       *)
(*   "bytes"  bytecode and internalString: a malloc'ed buffer, no pointers *)
(*   "user"   a user object: pointers handed out by its marker, and data   *)
(*            its destructor gives back                                    *)
(* `refs' are the object pointers in the order the marker pushes them and  *)
(* `buffer' is the block the object holds, or Null.                        *)
(***************************************************************************)
EXTENDS Naturals, Sequences, Functions

CONSTANTS
    ObjectsLength,  \* number of cells (gclist.objects_length, maxObjects)
    Blocks,         \* the blocks malloc can hand out
    Null            \* the null pointer

ASSUME ObjectsLengthAssumption == ObjectsLength \in Nat \ {0}

Cells == 1 .. ObjectsLength

ASSUME NullAssumption == Null \notin Cells /\ Null \notin Blocks

Types == {"cell", "array", "bytes", "user"}

Pointers == Cells \cup {Null}

Object == [type : Types, refs : Seq(Pointers),
           buffer : Blocks \cup {Null}, initialized : BOOLEAN]

\* What an untouched cell holds: dl_memclear'ed, type "none".
EmptyObject ==
    [type |-> "cell", refs |-> <<>>, buffer |-> Null, initialized |-> TRUE]

-----------------------------------------------------------------------------

\* The pointers markObject pushes on its dispatch stack for an object.
Traced(object) ==
    IF object.type = "array" /\ ~object.initialized THEN <<>> ELSE object.refs

\* The cells an object points to, as far as the collector can see.
Children(object) == Range(Traced(object)) \ {Null}

\* The heap's pointer graph: which cells each cell points to.
Graph(heap) == [c \in Cells |-> Children(heap[c])]

\* S holds the cells of R and everything the cells of S point to.
ClosedOver(graph, R, S) ==
    R \subseteq S /\ \A c \in S : graph[c] \subseteq S

\* The cells that can be reached from those of R: the least closed set.
Reachable(graph, R) ==
    LET closed == {S \in SUBSET Cells : ClosedOver(graph, R, S)}
    IN  {c \in Cells : \A S \in closed : c \in S}

\* Whether the sweep gives the object's buffer back: the internal vector's only
\* when it was initialized, a user object's through its destructor.
FreesBuffer(object) ==
    /\ object.buffer # Null
    /\ object.type \in {"array", "bytes", "user"}
    /\ object.type = "array" => object.initialized
=============================================================================
