----------------------------- MODULE MarkSweep -----------------------------
(***************************************************************************)
(* The mark-and-sweep collector of duckVM.c, one step per iteration of its *)
(* loops: duckVM_gclist_pushObject takes a free cell and collects when     *)
(* there is none; duckVM_gclist_garbageCollect clears the in-use flags,    *)
(* marks from every root with duckVM_gclist_markObject and sweeps the      *)
(* cells in index order.  The client between two collections is any        *)
(* program that keeps the rule of GcHeap: it only copies pointers it can   *)
(* reach and links every new object to a root before the next allocation.  *)
(***************************************************************************)
EXTENDS HeapGraph

CONSTANTS
    Shapes,          \* the objects the client asks for, as [type, length, initialized]
    CallerBlock,     \* a block of the C caller, the source buffer of a pushObject
    StackBound,      \* bound: objects on the VM stack
    RootsLength,     \* number of other root pointers
    DuckLibMalloc,   \* built with USE_DUCKLIB_MALLOC
    DispatchCanFail  \* whether the dispatch stack may fail to grow

ASSUME MarkSweepAssumption ==
    /\ Shapes \subseteq [type : Types, length : Nat, initialized : BOOLEAN]
    /\ CallerBlock \in Blocks
    /\ StackBound \in Nat \ {0}
    /\ RootsLength \in Nat
    /\ DuckLibMalloc \in BOOLEAN
    /\ DispatchCanFail \in BOOLEAN

VARIABLES
    heap,           \* gclist.objects: [Cells -> Object]
    inUse,          \* gclist.objectInUse
    freeObjects,    \* gclist.freeObjects, a stack of cells
    stack,          \* the VM stack: objects by value, not cells
    rootPointers,   \* upvalue_stack, globals, call_stack's bytecodes, currentBytecode
    allocated,      \* the blocks malloc has handed out
    phase,          \* "run", "scan", "mark" or "sweep"
    next,           \* the next root to mark from, or the next cell to sweep
    dispatchStack,  \* markObject's pointers that are still to be traced
    pending,        \* the object a pushObject is waiting to store, or Null
    result          \* how the last pushObject or garbageCollect ended

gcVars == <<inUse, phase, next, dispatchStack, pending>>
rootVars == <<stack, rootPointers>>
vars == <<heap, inUse, freeObjects, stack, rootPointers, allocated, phase, next,
          dispatchStack, pending, result>>

Phases == {"run", "scan", "mark", "sweep"}
Results == {"ok", "outOfMemory", "allocationFailed", "collectionFailed"}

TypeOK ==
    /\ heap \in [Cells -> Object]
    /\ inUse \in [Cells -> BOOLEAN]
    /\ freeObjects \in Seq(Cells)
    /\ stack \in Seq(Object)
    /\ rootPointers \in [1 .. RootsLength -> Pointers]
    /\ allocated \subseteq Blocks
    /\ phase \in Phases
    /\ next \in Nat \ {0}
    /\ dispatchStack \in Seq(Pointers)
    /\ pending \in Object \cup {Null}
    /\ result \in Results

-----------------------------------------------------------------------------
(* What the program can reach. *)

StackCells == UNION {Children(stack[i]) : i \in DOMAIN stack}

RootCells == StackCells \cup (Range(rootPointers) \ {Null})

Live == Reachable(Graph(heap), RootCells)

\* A stack object that points to cell c: a list, vector, string, closure...
Handle(c) ==
    [type |-> "cell", refs |-> <<c>>, buffer |-> Null, initialized |-> TRUE]

Init ==
    /\ heap = [c \in Cells |-> EmptyObject]
    /\ inUse \in [Cells -> BOOLEAN]    \* malloc'ed and not cleared
    /\ freeObjects = [i \in Cells |-> i]
    /\ stack = <<>>
    /\ rootPointers = [i \in 1 .. RootsLength |-> Null]
    /\ allocated = {CallerBlock}
    /\ phase = "run"
    /\ next = 1
    /\ dispatchStack = <<>>
    /\ pending = Null
    /\ result = "ok"

-----------------------------------------------------------------------------
(* The client. *)

\* The client stores a pointer to cell c in one of its roots.
Link(c) ==
    \/ /\ Len(stack) < StackBound
       /\ stack' = Append(stack, Handle(c))
       /\ UNCHANGED rootPointers
    \/ /\ \E i \in DOMAIN stack : stack' = [stack EXCEPT ![i] = Handle(c)]
       /\ UNCHANGED rootPointers
    \/ /\ \E i \in DOMAIN rootPointers :
              rootPointers' = [rootPointers EXCEPT ![i] = c]
       /\ UNCHANGED stack

ClientStep ==
    /\ phase = "run"
    /\ result' = "ok"
    /\ UNCHANGED gcVars

Load ==
    /\ ClientStep
    /\ \E c \in Live : Link(c)
    /\ UNCHANGED <<heap, freeObjects, allocated>>

Pop ==
    /\ ClientStep
    /\ stack # <<>>
    /\ stack' = SubSeq(stack, 1, Len(stack) - 1)
    /\ UNCHANGED <<heap, freeObjects, rootPointers, allocated>>

ClearPointer ==
    /\ ClientStep
    /\ \E i \in DOMAIN rootPointers :
           rootPointers' = [rootPointers EXCEPT ![i] = Null]
    /\ UNCHANGED <<heap, freeObjects, stack, allocated>>

\* set-car, set-cdr, a composite's setters, an upvalue set or released...
Store ==
    /\ ClientStep
    /\ \E c \in Live :
          /\ heap[c].initialized
          /\ \E k \in DOMAIN heap[c].refs, d \in Live \cup {Null} :
                 heap' = [heap EXCEPT ![c].refs[k] = d]
    /\ UNCHANGED <<freeObjects, rootVars, allocated>>

\* An internal vector gets its elements and only then is shown to the marker.
InitializeVector ==
    /\ ClientStep
    /\ \E c \in Live :
          /\ ~heap[c].initialized
          /\ \E d \in Live \cup {Null} :
                 heap' = [heap EXCEPT ![c].refs = [k \in DOMAIN @ |-> d],
                                      ![c].initialized = TRUE]
    /\ UNCHANGED <<freeObjects, rootVars, allocated>>

\* A C callback pushes a user object with data of its own on the stack.
PushUser ==
    /\ ClientStep
    /\ \E shape \in Shapes, b \in Blocks \ allocated :
          /\ shape.type = "user"
          /\ Len(stack) < StackBound
          /\ stack' = Append(stack, [type |-> "user", refs |-> <<>>, buffer |-> b,
                                     initialized |-> TRUE])
          /\ allocated' = allocated \cup {b}
    /\ UNCHANGED <<heap, freeObjects, rootPointers>>

-----------------------------------------------------------------------------
(* duckVM_gclist_pushObject. *)

\* The objects a client may ask for: their pointers are null or live, and a
\* buffer is copied from the caller's.  Heap copies of a user object on the
\* stack share its data.
Requests ==
    {[type |-> shape.type,
      refs |-> [k \in 1 .. shape.length |-> d],
      buffer |-> IF \/ shape.type = "bytes"
                    \/ shape.type = "array" /\ shape.initialized
                 THEN CallerBlock ELSE Null,
      initialized |-> shape.initialized] :
        shape \in {sh \in Shapes : sh.type # "user"}, d \in Live \cup {Null}}
    \cup {stack[i] : i \in {j \in DOMAIN stack : stack[j].type = "user"}}

NeedsBuffer(object) ==
    \/ object.type = "bytes"
    \/ object.type = "array" /\ object.refs # <<>>

\* The top free cell is overwritten, and its buffer allocated after that; an empty
\* table gets none.  When malloc fails the cell is neither free nor given to the
\* caller.  The system's malloc has then cleared the pointer, DuckLib's leaves the
\* caller's in it.
TakeCell(object) ==
    LET c == freeObjects[Len(freeObjects)]
    IN  /\ freeObjects' = SubSeq(freeObjects, 1, Len(freeObjects) - 1)
        /\ \/ /\ ~NeedsBuffer(object)
              /\ heap' = [heap EXCEPT ![c] = IF object.type = "array"
                             THEN [object EXCEPT !.buffer = Null] ELSE object]
              /\ Link(c)
              /\ result' = "ok"
              /\ UNCHANGED allocated
           \/ /\ NeedsBuffer(object)
              /\ \E b \in Blocks \ allocated :
                    /\ heap' = [heap EXCEPT ![c] = [object EXCEPT !.buffer = b]]
                    /\ allocated' = allocated \cup {b}
              /\ Link(c)
              /\ result' = "ok"
           \/ /\ NeedsBuffer(object)
              /\ heap' = [heap EXCEPT ![c] = [object EXCEPT !.buffer =
                              IF DuckLibMalloc THEN @ ELSE Null]]
              /\ result' = "allocationFailed"
              /\ UNCHANGED <<rootVars, allocated>>

PushObject ==
    /\ phase = "run"
    /\ freeObjects # <<>>
    /\ \E object \in Requests : TakeCell(object)
    /\ UNCHANGED gcVars

\* Seeded bug: the flags of the last collection are kept.
StartCollectionStaleFlags(object) ==
    /\ phase = "run"
    /\ pending' = object
    /\ phase' = "scan"
    /\ next' = 1
    /\ result' = "ok"
    /\ UNCHANGED <<heap, inUse, freeObjects, rootVars, allocated, dispatchStack>>

\* garbageCollect clears the flags and starts marking from the first root.
StartCollection(object) ==
    /\ phase = "run"
    /\ pending' = object
    /\ inUse' = [c \in Cells |-> FALSE]
    /\ phase' = "scan"
    /\ next' = 1
    /\ result' = "ok"
    /\ UNCHANGED <<heap, freeObjects, rootVars, allocated, dispatchStack>>

PushObjectCollects ==
    freeObjects = <<>> /\ \E object \in Requests : StartCollection(object)

GarbageCollect == StartCollection(Null)

-----------------------------------------------------------------------------
(* duckVM_gclist_garbageCollect: marking. *)

\* A root object on the stack is traced but not marked, for it is not a cell.
ScanStack ==
    /\ phase = "scan"
    /\ next <= Len(stack)
    /\ dispatchStack' = Traced(stack[next])
    /\ phase' = "mark"
    /\ next' = next + 1
    /\ UNCHANGED <<heap, inUse, freeObjects, rootVars, allocated, pending, result>>

ScanPointer ==
    /\ phase = "scan"
    /\ next > Len(stack)
    /\ next <= Len(stack) + RootsLength
    /\ dispatchStack' = <<rootPointers[next - Len(stack)]>>
    /\ phase' = "mark"
    /\ next' = next + 1
    /\ UNCHANGED <<heap, inUse, freeObjects, rootVars, allocated, pending, result>>

\* Seeded bug: a marked object's own pointers are not traced.
MarkObjectShallow ==
    /\ phase = "mark"
    /\ dispatchStack # <<>>
    /\ LET object == dispatchStack[Len(dispatchStack)]
       IN  inUse' = IF object = Null THEN inUse ELSE [inUse EXCEPT ![object] = TRUE]
    /\ dispatchStack' = SubSeq(dispatchStack, 1, Len(dispatchStack) - 1)
    /\ UNCHANGED <<heap, freeObjects, rootVars, allocated, phase, next, pending, result>>

\* Seeded bug: an object that is marked already is traced again.
MarkObjectAgain ==
    /\ phase = "mark"
    /\ dispatchStack # <<>>
    /\ LET object == dispatchStack[Len(dispatchStack)]
           rest == SubSeq(dispatchStack, 1, Len(dispatchStack) - 1)
       IN  IF object # Null
           THEN /\ inUse' = [inUse EXCEPT ![object] = TRUE]
                /\ dispatchStack' = rest \o Traced(heap[object])
           ELSE /\ dispatchStack' = rest
                /\ UNCHANGED inUse
    /\ UNCHANGED <<heap, freeObjects, rootVars, allocated, phase, next, pending, result>>

\* One iteration of markObject: the last pointer of the dispatch stack is marked
\* and its own pointers take its place, unless it is null or marked already.
MarkObject ==
    /\ phase = "mark"
    /\ dispatchStack # <<>>
    /\ LET object == dispatchStack[Len(dispatchStack)]
           rest == SubSeq(dispatchStack, 1, Len(dispatchStack) - 1)
       IN  IF object # Null /\ ~inUse[object]
           THEN /\ inUse' = [inUse EXCEPT ![object] = TRUE]
                /\ dispatchStack' = rest \o Traced(heap[object])
           ELSE /\ dispatchStack' = rest
                /\ UNCHANGED inUse
    /\ UNCHANGED <<heap, freeObjects, rootVars, allocated, phase, next, pending, result>>

MarkDone ==
    /\ phase = "mark"
    /\ dispatchStack = <<>>
    /\ phase' = "scan"
    /\ UNCHANGED <<heap, inUse, freeObjects, rootVars, allocated, next,
                   dispatchStack, pending, result>>

\* The dispatch stack cannot take the pointers of the object being traced: a
\* heap object is marked by then.  markObject gives up on the pointers it still
\* had to trace, and its error is overwritten by the result of dl_array_quit, so
\* the collection goes on.
StackTraceFails ==
    /\ DispatchCanFail
    /\ phase = "scan"
    /\ next <= Len(stack)
    /\ Traced(stack[next]) # <<>>
    /\ next' = next + 1
    /\ UNCHANGED <<heap, inUse, freeObjects, rootVars, allocated, phase,
                   dispatchStack, pending, result>>

CellTraceFails ==
    /\ DispatchCanFail
    /\ phase = "mark"
    /\ dispatchStack # <<>>
    /\ LET object == dispatchStack[Len(dispatchStack)]
       IN  /\ object # Null
           /\ ~inUse[object]
           /\ Traced(heap[object]) # <<>>
           /\ inUse' = [inUse EXCEPT ![object] = TRUE]
    /\ dispatchStack' = <<>>
    /\ phase' = "scan"
    /\ UNCHANGED <<heap, freeObjects, rootVars, allocated, next, pending, result>>

-----------------------------------------------------------------------------
(* duckVM_gclist_garbageCollect: the sweep. *)

\* Seeded bug: the free list of the last collection is kept.
StartSweepKeepsList ==
    /\ phase = "scan"
    /\ next > Len(stack) + RootsLength
    /\ phase' = "sweep"
    /\ next' = 1
    /\ UNCHANGED <<heap, inUse, freeObjects, rootVars, allocated, dispatchStack,
                   pending, result>>

StartSweep ==
    /\ phase = "scan"
    /\ next > Len(stack) + RootsLength
    /\ freeObjects' = <<>>
    /\ phase' = "sweep"
    /\ next' = 1
    /\ UNCHANGED <<heap, inUse, rootVars, allocated, dispatchStack, pending, result>>

KeepCell ==
    /\ phase = "sweep"
    /\ next <= ObjectsLength
    /\ inUse[next]
    /\ next' = next + 1
    /\ UNCHANGED <<heap, inUse, freeObjects, rootVars, allocated, phase,
                   dispatchStack, pending, result>>

\* DuckLib's dl_free refuses a block that is not allocated.
FreeFails(object) ==
    /\ DuckLibMalloc
    /\ FreesBuffer(object)
    /\ object.type # "user"
    /\ object.buffer \notin allocated

\* Seeded bug: the pointer to a buffer that was given back is kept.
FreeCellKeepsPointer ==
    /\ phase = "sweep"
    /\ next <= ObjectsLength
    /\ ~inUse[next]
    /\ freeObjects' = Append(freeObjects, next)
    /\ allocated' = IF FreesBuffer(heap[next])
                    THEN allocated \ {heap[next].buffer} ELSE allocated
    /\ next' = next + 1
    /\ UNCHANGED <<heap, inUse, rootVars, phase, dispatchStack, pending, result>>

\* Seeded bug: the free list gets the cell after the one that is free.
FreeCellOffByOne ==
    /\ phase = "sweep"
    /\ next <= ObjectsLength
    /\ ~inUse[next]
    /\ freeObjects' = Append(freeObjects, next + 1)
    /\ next' = next + 1
    /\ UNCHANGED <<heap, inUse, rootVars, allocated, phase, dispatchStack, pending, result>>

\* An unmarked cell is free at once; its buffer is given back and forgotten.  An
\* error of dl_free ends the sweep where it stands.
FreeCell ==
    /\ phase = "sweep"
    /\ next <= ObjectsLength
    /\ ~inUse[next]
    /\ freeObjects' = Append(freeObjects, next)
    /\ IF FreesBuffer(heap[next])
       THEN /\ heap' = [heap EXCEPT ![next].buffer = Null]
            /\ allocated' = allocated \ {heap[next].buffer}
       ELSE UNCHANGED <<heap, allocated>>
    /\ IF FreeFails(heap[next])
       THEN /\ phase' = "run"
            /\ next' = 1
            /\ pending' = Null
            /\ result' = "collectionFailed"
       ELSE /\ next' = next + 1
            /\ UNCHANGED <<phase, pending, result>>
    /\ UNCHANGED <<inUse, rootVars, dispatchStack>>

\* The collection is over: pushObject tries its free list a second time.
FinishSweep ==
    /\ phase = "sweep"
    /\ next > ObjectsLength
    /\ phase' = "run"
    /\ next' = 1
    /\ pending' = Null
    /\ \/ /\ pending # Null
          /\ freeObjects # <<>>
          /\ TakeCell(pending)
       \/ /\ pending = Null \/ freeObjects = <<>>
          /\ result' = IF pending = Null THEN "ok" ELSE "outOfMemory"
          /\ UNCHANGED <<heap, freeObjects, rootVars, allocated>>
    /\ UNCHANGED <<inUse, dispatchStack>>

-----------------------------------------------------------------------------

Client == Load \/ Pop \/ ClearPointer \/ Store \/ InitializeVector \/ PushUser

Collector ==
    \/ ScanStack \/ ScanPointer \/ MarkObject \/ MarkDone
    \/ StackTraceFails \/ CellTraceFails
    \/ StartSweep \/ KeepCell \/ FreeCell \/ FinishSweep

Next == Client \/ PushObject \/ PushObjectCollects \/ GarbageCollect \/ Collector

\* The collector runs to its end once it is called: it is a loop of the one
\* thread, and nothing else runs meanwhile.
Spec == Init /\ [][Next]_vars /\ WF_vars(Collector)

-----------------------------------------------------------------------------
(* What the collector promises. *)

\* The abstract heap: once the flags are complete the cells without one are the
\* free cells, although the free list is still being filled.
FreeCells ==
    IF phase = "sweep" THEN {c \in Cells : ~inUse[c]} ELSE Range(freeObjects)

Abstract == INSTANCE GcHeap WITH
    graph <- Graph(heap), roots <- RootCells, free <- FreeCells

\* A collection recycles exactly the unreachable cells, however its marking and
\* sweeping steps run, and pushObject hands out only cells that are free.
ImplementsGcHeap == Abstract!HeapSpec

\* No cell that the program can reach is on the free list, not even while the
\* free list is being rebuilt: an allocation never overwrites a live object.
FreeIsDead == Range(freeObjects) \cap Live = {}

\* pushObject fails with outOfMemory only when every cell is reachable: one
\* collection is always enough to find every cell that can be reused.
OutOfMemoryMeansFull == result = "outOfMemory" => Live = Cells

\* Every buffer the collector would free is allocated, is not the C caller's,
\* and belongs to one cell, whatever stale objects the free cells still hold and
\* even when marking ran out of memory: nothing is freed twice.
BuffersOwnedOnce ==
    \A c \in Cells : FreesBuffer(heap[c]) =>
        /\ heap[c].buffer \in allocated \ {CallerBlock}
        /\ \A d \in Cells \ {c} : heap[d].buffer # heap[c].buffer

\* The data of a user object is not destroyed while an object that holds it can
\* be reached (docs/api.md: the destructor "is called exactly once for each
\* object that is destroyed").
UserDataAlive ==
    \A i \in DOMAIN stack : stack[i].buffer \in allocated \cup {Null}

\* A collection that was started ends, even when the objects form cycles.
CollectionEnds == phase # "run" ~> phase = "run"

-----------------------------------------------------------------------------
(* Why it holds: the invariant of the collection's phases. *)

Marked == {c \in Cells : inUse[c]}

\* The cells that wait on the dispatch stack.
Gray == Range(dispatchStack) \ {Null}

RootAt(i) ==
    IF i <= Len(stack) THEN Children(stack[i])
                       ELSE {rootPointers[i - Len(stack)]} \ {Null}

\* Only live cells are marked, and what a marked cell or a scanned root points to
\* is marked or waits to be: nothing marked points to a cell that was missed.
MarkInv ==
    phase \in {"scan", "mark"} =>
        /\ Marked \cup Gray \subseteq Live
        /\ \A c \in Marked : Children(heap[c]) \subseteq Marked \cup Gray
        /\ \A i \in 1 .. Len(stack) + RootsLength :
               i < next => RootAt(i) \subseteq Marked \cup Gray

\* The flags are exact, and the free list has the unmarked cells swept so far.
SweepInv ==
    phase = "sweep" =>
        /\ Marked = Live
        /\ Range(freeObjects) = {c \in Cells : c < next /\ ~inUse[c]}

\* A request that waits for the collection points to live cells only.
PendingInv ==
    /\ phase = "run" => pending = Null
    /\ pending # Null => Children(pending) \subseteq Live

PhaseInv ==
    /\ phase # "mark" => dispatchStack = <<>>
    /\ phase # "run" => result = "ok"

CollectorInv ==
    /\ FreeIsDead
    /\ IsInjective(freeObjects)
    /\ MarkInv
    /\ SweepInv
    /\ PendingInv
    /\ PhaseInv
    /\ OutOfMemoryMeansFull

\* Without user objects and with the system's malloc: every buffer in a cell, the
\* sweep would free it or not, is allocated, not the caller's, and in no other
\* cell; and a request that waits has no buffer that it could leave in its cell.
BuffersInv ==
    /\ CallerBlock \in allocated
    /\ \A c \in Cells : heap[c].buffer # Null =>
           /\ heap[c].buffer \in allocated \ {CallerBlock}
           /\ \A d \in Cells \ {c} : heap[d].buffer # heap[c].buffer
    /\ \A i \in DOMAIN stack : stack[i].type # "user"
    /\ pending # Null =>
           /\ pending.type # "user"
           /\ pending.type = "cell" => pending.buffer = Null
=============================================================================
