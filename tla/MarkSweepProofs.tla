-------------------------- MODULE MarkSweepProofs --------------------------
(***************************************************************************)
(* Proofs about MarkSweep, for any number of cells, roots and blocks and   *)
(* any shapes of objects.                                                  *)
(***************************************************************************)
EXTENDS MarkSweep, HeapGraphLemmas, SequenceTheorems, TLAPS

-----------------------------------------------------------------------------
(* Sequences. *)

\* Dropping the last element of a sequence, as popping from an array does.
LEMMA PopProperties ==
    ASSUME NEW S, NEW s \in Seq(S), s # <<>>
    PROVE  /\ Len(s) \in Nat \ {0}
           /\ s[Len(s)] \in S
           /\ SubSeq(s, 1, Len(s) - 1) \in Seq(S)
           /\ Len(SubSeq(s, 1, Len(s) - 1)) = Len(s) - 1
           /\ \A i \in 1 .. Len(s) - 1 : SubSeq(s, 1, Len(s) - 1)[i] = s[i]
  <1>1. /\ Len(s) \in Nat \ {0}
        /\ \A i \in 1 .. Len(s) : s[i] \in S
    BY EmptySeq, ElementOfSeq
  <1> DEFINE n == Len(s) - 1
  <1>2. n \in Int /\ 1 \in Int /\ n - 1 + 1 = n /\ \A i \in 1 .. n : s[i] \in S
    BY <1>1
  <1> HIDE DEF n
  <1>3. /\ SubSeq(s, 1, n) \in Seq(S)
        /\ Len(SubSeq(s, 1, n)) = IF 1 <= n THEN n - 1 + 1 ELSE 0
        /\ \A i \in 1 .. n - 1 + 1 : SubSeq(s, 1, n)[i] = s[1 + i - 1]
    BY <1>2, SubSeqProperties
  <1> QED
    BY <1>1, <1>2, <1>3 DEF n

\* The elements of a sequence are those left by a pop and the one popped.
LEMMA PopRange ==
    ASSUME NEW S, NEW s \in Seq(S), s # <<>>
    PROVE  Range(s) = Range(SubSeq(s, 1, Len(s) - 1)) \cup {s[Len(s)]}
  <1> DEFINE t == SubSeq(s, 1, Len(s) - 1)
  <1>1. /\ Len(s) \in Nat \ {0}
        /\ t \in Seq(S)
        /\ Len(t) = Len(s) - 1
        /\ \A i \in 1 .. Len(s) - 1 : t[i] = s[i]
    BY PopProperties
  <1>2. DOMAIN s = 1 .. Len(s) /\ DOMAIN t = 1 .. Len(s) - 1
    BY <1>1, LenProperties
  <1> HIDE DEF t
  <1>3. Range(s) \subseteq Range(t) \cup {s[Len(s)]}
    BY <1>1, <1>2 DEF Range
  <1>4. Range(t) \cup {s[Len(s)]} \subseteq Range(s)
    BY <1>1, <1>2 DEF Range
  <1> QED
    BY <1>3, <1>4 DEF t

LEMMA ConcatRange ==
    ASSUME NEW S, NEW s \in Seq(S), NEW t \in Seq(S)
    PROVE  Range(s \o t) = Range(s) \cup Range(t)
  <1>1. /\ DOMAIN s = 1 .. Len(s) /\ DOMAIN t = 1 .. Len(t)
        /\ s \o t \in Seq(S)
        /\ DOMAIN (s \o t) = 1 .. Len(s) + Len(t)
        /\ \A i \in 1 .. Len(s) + Len(t) : (s \o t)[i] =
               IF i <= Len(s) THEN s[i] ELSE t[i - Len(s)]
        /\ Len(s) \in Nat /\ Len(t) \in Nat
    BY ConcatProperties, LenProperties
  <1>2. Range(s \o t) \subseteq Range(s) \cup Range(t)
    BY <1>1 DEF Range
  <1>3. \A i \in 1 .. Len(s) : s[i] = (s \o t)[i]
    BY <1>1
  <1>4. \A i \in 1 .. Len(t) : t[i] = (s \o t)[i + Len(s)]
    BY <1>1
  <1>5. Range(s) \subseteq Range(s \o t)
    BY <1>1, <1>3 DEF Range
  <1>6. Range(t) \subseteq Range(s \o t)
    <2> SUFFICES ASSUME NEW i \in 1 .. Len(t) PROVE t[i] \in Range(s \o t)
      BY <1>1 DEF Range
    <2>1. i + Len(s) \in 1 .. Len(s) + Len(t)
      BY <1>1
    <2> QED
      BY <2>1, <1>1, <1>4 DEF Range
  <1> QED
    BY <1>2, <1>5, <1>6

LEMMA SeqRange ==
    ASSUME NEW S, NEW s \in Seq(S)
    PROVE  Range(s) \subseteq S
  BY ElementOfSeq, LenProperties DEF Range

\* A sequence given by the one value of all its elements.
LEMMA ConstantSeq ==
    ASSUME NEW S, NEW n \in Nat, NEW d \in S
    PROVE  [k \in 1 .. n |-> d] \in Seq(S)
  BY SeqDef

-----------------------------------------------------------------------------
(* Type correctness. *)

LEMMA LiveIsCells == Live \subseteq Cells
  BY DEF Live, Reachable

LEMMA HandleType == \A c \in Cells : Handle(c) \in Object
  <1> SUFFICES ASSUME NEW c \in Cells PROVE Handle(c) \in Object
    OBVIOUS
  <1>1. <<c>> \in Seq(Pointers)
    BY DEF Pointers
  <1> QED
    BY <1>1 DEF Handle, Object, Types

LEMMA LinkType ==
    ASSUME TypeOK, NEW c \in Cells, Link(c)
    PROVE  stack' \in Seq(Object) /\ rootPointers' \in [1 .. RootsLength -> Pointers]
  <1>1. Handle(c) \in Object
    BY HandleType
  <1>2. CASE /\ stack' = Append(stack, Handle(c))
             /\ UNCHANGED rootPointers
    BY <1>1, <1>2 DEF TypeOK
  <1>3. CASE /\ \E i \in DOMAIN stack : stack' = [stack EXCEPT ![i] = Handle(c)]
             /\ UNCHANGED rootPointers
    <2>1. PICK i \in 1 .. Len(stack) : stack' = [stack EXCEPT ![i] = Handle(c)]
      BY <1>3, LenProperties DEF TypeOK
    <2> QED
      BY <2>1, <1>1, <1>3, ExceptSeq DEF TypeOK
  <1>4. CASE /\ \E i \in DOMAIN rootPointers :
                   rootPointers' = [rootPointers EXCEPT ![i] = c]
             /\ UNCHANGED stack
    BY <1>4 DEF TypeOK, Pointers
  <1> QED
    BY <1>2, <1>3, <1>4 DEF Link

LEMMA RequestType ==
    ASSUME TypeOK, NEW object \in Requests
    PROVE  object \in Object
  <1>1. CASE \E i \in DOMAIN stack : object = stack[i]
    BY <1>1, ElementOfSeq, LenProperties DEF TypeOK
  <1>2. CASE \E shape \in Shapes, d \in Live \cup {Null} :
                 object = [type |-> shape.type,
                           refs |-> [k \in 1 .. shape.length |-> d],
                           buffer |-> IF \/ shape.type = "bytes"
                                         \/ shape.type = "array" /\ shape.initialized
                                      THEN CallerBlock ELSE Null,
                           initialized |-> shape.initialized]
    <2>1. PICK shape \in Shapes, d \in Live \cup {Null} :
                 object = [type |-> shape.type,
                           refs |-> [k \in 1 .. shape.length |-> d],
                           buffer |-> IF \/ shape.type = "bytes"
                                         \/ shape.type = "array" /\ shape.initialized
                                      THEN CallerBlock ELSE Null,
                           initialized |-> shape.initialized]
      BY <1>2
    <2>2. /\ shape.type \in Types /\ shape.length \in Nat
          /\ shape.initialized \in BOOLEAN
      BY MarkSweepAssumption
    <2>3. d \in Pointers
      BY LiveIsCells DEF Pointers
    <2>4. [k \in 1 .. shape.length |-> d] \in Seq(Pointers)
      BY <2>2, <2>3, ConstantSeq
    <2> QED
      BY <2>1, <2>2, <2>4, MarkSweepAssumption DEF Object
  <1> QED
    BY <1>1, <1>2 DEF Requests

LEMMA TakeCellType ==
    ASSUME TypeOK, NEW object \in Object, freeObjects # <<>>, TakeCell(object)
    PROVE  /\ heap' \in [Cells -> Object]
           /\ freeObjects' \in Seq(Cells)
           /\ stack' \in Seq(Object)
           /\ rootPointers' \in [1 .. RootsLength -> Pointers]
           /\ allocated' \subseteq Blocks
           /\ result' \in Results
  <1> DEFINE c == freeObjects[Len(freeObjects)]
  <1>1. /\ c \in Cells
        /\ freeObjects' \in Seq(Cells)
    BY PopProperties DEF TypeOK, TakeCell
  <1>2. \A b \in Blocks \cup {Null} : [object EXCEPT !.buffer = b] \in Object
    BY DEF Object
  <1>3. object.buffer \in Blocks \cup {Null}
    BY DEF Object
  <1> HIDE DEF c
  <1>4. CASE /\ ~NeedsBuffer(object)
             /\ heap' = [heap EXCEPT ![c] = IF object.type = "array"
                            THEN [object EXCEPT !.buffer = Null] ELSE object]
             /\ Link(c)
             /\ result' = "ok"
             /\ UNCHANGED allocated
    BY <1>1, <1>2, <1>4, LinkType DEF TypeOK, Results
  <1>5. CASE /\ \E b \in Blocks \ allocated :
                   /\ heap' = [heap EXCEPT ![c] = [object EXCEPT !.buffer = b]]
                   /\ allocated' = allocated \cup {b}
             /\ Link(c)
             /\ result' = "ok"
    BY <1>1, <1>2, <1>5, LinkType DEF TypeOK, Results
  <1>6. CASE /\ heap' = [heap EXCEPT ![c] = [object EXCEPT !.buffer =
                             IF DuckLibMalloc THEN @ ELSE Null]]
             /\ result' = "allocationFailed"
             /\ UNCHANGED <<rootVars, allocated>>
    <2>1. heap' \in [Cells -> Object]
      <3> DEFINE b == IF DuckLibMalloc THEN object.buffer ELSE Null
      <3>1. b \in Blocks \cup {Null}
        BY <1>3
      <3>2. heap' = [heap EXCEPT ![c] = [object EXCEPT !.buffer = b]]
        BY <1>6
      <3> HIDE DEF b
      <3> QED
        BY <3>1, <3>2, <1>1, <1>2 DEF TypeOK
    <2> QED
      BY <1>1, <2>1, <1>6 DEF TypeOK, Results, rootVars
  <1> QED
    BY <1>4, <1>5, <1>6 DEF TakeCell, c

LEMMA TypeInit == Init => TypeOK
  <1> SUFFICES ASSUME Init PROVE TypeOK
    OBVIOUS
  <1>1. EmptyObject \in Object
    BY DEF EmptyObject, Object, Types
  <1>2. freeObjects \in Seq(Cells)
    BY SeqDef, ObjectsLengthAssumption DEF Init, Cells
  <1>3. rootPointers \in [1 .. RootsLength -> Pointers]
    BY DEF Init, Pointers
  <1>4. heap \in [Cells -> Object] /\ inUse \in [Cells -> BOOLEAN]
    BY <1>1 DEF Init
  <1>5. stack \in Seq(Object) /\ dispatchStack \in Seq(Pointers)
    BY DEF Init
  <1>6. allocated \subseteq Blocks
    BY MarkSweepAssumption DEF Init
  <1>7. /\ phase \in Phases /\ next \in Nat \ {0} /\ result \in Results
        /\ pending \in Object \cup {Null}
    BY DEF Init, Phases, Results
  <1> QED
    BY <1>2, <1>3, <1>4, <1>5, <1>6, <1>7 DEF TypeOK

\* A pointer of a cell is overwritten.
LEMMA StoreType ==
    ASSUME TypeOK, Store
    PROVE  heap' \in [Cells -> Object]
  <1>0. PICK c \in Live :
            \E k \in DOMAIN heap[c].refs, d \in Live \cup {Null} :
                heap' = [heap EXCEPT ![c].refs[k] = d]
    BY DEF Store
  <1>1. PICK k \in DOMAIN heap[c].refs, d \in Live \cup {Null} :
            heap' = [heap EXCEPT ![c].refs[k] = d]
    BY <1>0
  <1>2. c \in Cells /\ heap[c] \in Object
    BY LiveIsCells DEF TypeOK
  <1> DEFINE refs == [heap[c].refs EXCEPT ![k] = d]
  <1>3. heap[c].refs \in Seq(Pointers) /\ d \in Pointers
    BY <1>2, LiveIsCells DEF Object, Pointers
  <1>4. refs \in Seq(Pointers)
    BY <1>3, ExceptSeq, LenProperties
  <1>5. heap' = [heap EXCEPT ![c] = [heap[c] EXCEPT !.refs = refs]]
    BY <1>1
  <1> HIDE DEF refs
  <1>6. [heap[c] EXCEPT !.refs = refs] \in Object
    BY <1>2, <1>4 DEF Object
  <1> QED
    BY <1>2, <1>5, <1>6 DEF TypeOK

LEMMA InitializeVectorType ==
    ASSUME TypeOK, InitializeVector
    PROVE  heap' \in [Cells -> Object]
  <1>1. PICK c \in Live, d \in Live \cup {Null} :
            heap' = [heap EXCEPT ![c].refs = [k \in DOMAIN @ |-> d],
                                 ![c].initialized = TRUE]
    BY DEF InitializeVector
  <1>2. c \in Cells /\ heap[c] \in Object
    BY LiveIsCells DEF TypeOK
  <1> DEFINE refs == [k \in DOMAIN heap[c].refs |-> d]
  <1>3. heap[c].refs \in Seq(Pointers) /\ d \in Pointers
    BY <1>2, LiveIsCells DEF Object, Pointers
  <1>4. refs \in Seq(Pointers)
    BY <1>3, ConstantSeq, LenProperties
  <1>5. heap' = [heap EXCEPT ![c] = [heap[c] EXCEPT !.refs = refs,
                                                    !.initialized = TRUE]]
    BY <1>1, <1>2 DEF TypeOK
  <1> HIDE DEF refs
  <1>6. [heap[c] EXCEPT !.refs = refs, !.initialized = TRUE] \in Object
    BY <1>2, <1>4 DEF Object
  <1> QED
    BY <1>2, <1>5, <1>6 DEF TypeOK

LEMMA PushUserType ==
    ASSUME TypeOK, PushUser
    PROVE  stack' \in Seq(Object) /\ allocated' \subseteq Blocks
  <1>1. PICK b \in Blocks \ allocated :
            /\ stack' = Append(stack, [type |-> "user", refs |-> <<>>, buffer |-> b,
                                       initialized |-> TRUE])
            /\ allocated' = allocated \cup {b}
    BY DEF PushUser
  <1>2. [type |-> "user", refs |-> <<>>, buffer |-> b, initialized |-> TRUE] \in Object
    BY DEF Object, Types
  <1> QED
    BY <1>1, <1>2 DEF TypeOK

LEMMA ScanType ==
    ASSUME TypeOK
    PROVE  /\ \A object \in Object : Traced(object) \in Seq(Pointers)
           /\ ScanStack => dispatchStack' \in Seq(Pointers)
           /\ ScanPointer => dispatchStack' \in Seq(Pointers)
  <1>1. \A object \in Object : Traced(object) \in Seq(Pointers)
    BY DEF Traced, Object
  <1>2. ASSUME ScanStack PROVE dispatchStack' \in Seq(Pointers)
    <2>1. stack[next] \in Object
      BY <1>2, ElementOfSeq, LenProperties DEF TypeOK, ScanStack
    <2> QED
      BY <1>1, <1>2, <2>1 DEF ScanStack
  <1>3. ASSUME ScanPointer PROVE dispatchStack' \in Seq(Pointers)
    <2>1. next - Len(stack) \in 1 .. RootsLength
      BY <1>3, LenProperties, MarkSweepAssumption DEF TypeOK, ScanPointer
    <2>2. rootPointers[next - Len(stack)] \in Pointers
      BY <2>1 DEF TypeOK
    <2> QED
      BY <1>3, <2>2 DEF ScanPointer
  <1> QED
    BY <1>1, <1>2, <1>3

LEMMA MarkObjectType ==
    ASSUME TypeOK, MarkObject
    PROVE  inUse' \in [Cells -> BOOLEAN] /\ dispatchStack' \in Seq(Pointers)
  <1> DEFINE object == dispatchStack[Len(dispatchStack)]
             rest == SubSeq(dispatchStack, 1, Len(dispatchStack) - 1)
  <1>1. object \in Pointers /\ rest \in Seq(Pointers)
    BY PopProperties DEF TypeOK, MarkObject
  <1>2. CASE object # Null /\ ~inUse[object]
    <2>1. object \in Cells /\ heap[object] \in Object
      BY <1>1, <1>2 DEF Pointers, TypeOK
    <2>2. Traced(heap[object]) \in Seq(Pointers)
      BY <2>1, ScanType
    <2>3. /\ inUse' = [inUse EXCEPT ![object] = TRUE]
          /\ dispatchStack' = rest \o Traced(heap[object])
      BY <1>2 DEF MarkObject
    <2> HIDE DEF object, rest
    <2> QED
      BY <1>1, <2>1, <2>2, <2>3, ConcatProperties DEF TypeOK
  <1>3. CASE ~(object # Null /\ ~inUse[object])
    BY <1>1, <1>3 DEF MarkObject, TypeOK
  <1> QED
    BY <1>2, <1>3

LEMMA CellTraceFailsType ==
    ASSUME TypeOK, CellTraceFails
    PROVE  inUse' \in [Cells -> BOOLEAN] /\ dispatchStack' \in Seq(Pointers)
  <1> DEFINE object == dispatchStack[Len(dispatchStack)]
  <1>1. object \in Pointers
    BY PopProperties DEF TypeOK, CellTraceFails
  <1>2. /\ object # Null
        /\ inUse' = [inUse EXCEPT ![object] = TRUE]
        /\ dispatchStack' = <<>>
    BY DEF CellTraceFails
  <1> HIDE DEF object
  <1> QED
    BY <1>1, <1>2 DEF TypeOK, Pointers

LEMMA FreeCellType ==
    ASSUME TypeOK, FreeCell
    PROVE  TypeOK'
  <1>1. next \in Cells /\ heap[next] \in Object
    BY ObjectsLengthAssumption DEF TypeOK, FreeCell, Cells
  <1>2. freeObjects' \in Seq(Cells)
    BY <1>1 DEF TypeOK, FreeCell
  <1>3. [heap[next] EXCEPT !.buffer = Null] \in Object
    BY <1>1 DEF Object
  <1>4. heap' \in [Cells -> Object] /\ allocated' \subseteq Blocks
    BY <1>1, <1>3 DEF TypeOK, FreeCell
  <1>5. /\ phase' \in Phases /\ next' \in Nat \ {0}
        /\ pending' \in Object \cup {Null} /\ result' \in Results
    BY DEF TypeOK, FreeCell, Phases, Results
  <1> QED
    BY <1>2, <1>4, <1>5 DEF TypeOK, FreeCell, rootVars

LEMMA FinishSweepType ==
    ASSUME TypeOK, FinishSweep
    PROVE  TypeOK'
  <1>1. CASE /\ pending # Null
             /\ freeObjects # <<>>
             /\ TakeCell(pending)
    <2>1. pending \in Object
      BY <1>1 DEF TypeOK
    <2> QED
      BY <1>1, <2>1, TakeCellType DEF TypeOK, FinishSweep, Phases
  <1>2. CASE /\ result' = IF pending = Null THEN "ok" ELSE "outOfMemory"
             /\ UNCHANGED <<heap, freeObjects, rootVars, allocated>>
    BY <1>2 DEF TypeOK, FinishSweep, Phases, Results, rootVars
  <1> QED
    BY <1>1, <1>2 DEF FinishSweep

LEMMA TypeStep == TypeOK /\ [Next]_vars => TypeOK'
  <1> SUFFICES ASSUME TypeOK, [Next]_vars PROVE TypeOK'
    OBVIOUS
  <1>1. CASE Load
    <2>1. PICK c \in Cells : Link(c)
      BY <1>1, LiveIsCells DEF Load
    <2> QED
      BY <1>1, <2>1, LinkType DEF Load, ClientStep, gcVars, TypeOK, Results
  <1>2. CASE Pop
    <2>1. stack' \in Seq(Object)
      BY <1>2, PopProperties DEF Pop, TypeOK
    <2> QED
      BY <1>2, <2>1 DEF Pop, ClientStep, gcVars, TypeOK, Results
  <1>3. CASE ClearPointer
    <2>1. rootPointers' \in [1 .. RootsLength -> Pointers]
      BY <1>3 DEF ClearPointer, TypeOK, Pointers
    <2> QED
      BY <1>3, <2>1 DEF ClearPointer, ClientStep, gcVars, TypeOK, Results
  <1>4. CASE Store
    BY <1>4, StoreType DEF Store, ClientStep, gcVars, rootVars, TypeOK, Results
  <1>5. CASE InitializeVector
    BY <1>5, InitializeVectorType
       DEF InitializeVector, ClientStep, gcVars, rootVars, TypeOK, Results
  <1>6. CASE PushUser
    BY <1>6, PushUserType DEF PushUser, ClientStep, gcVars, TypeOK, Results
  <1>7. CASE PushObject
    <2>1. PICK object \in Requests : TakeCell(object)
      BY <1>7 DEF PushObject
    <2>2. object \in Object
      BY RequestType
    <2> QED
      BY <1>7, <2>1, <2>2, TakeCellType DEF PushObject, gcVars, TypeOK
  <1>8. ASSUME NEW object \in Object \cup {Null}, StartCollection(object)
        PROVE  TypeOK'
    BY <1>8 DEF StartCollection, rootVars, TypeOK, Phases, Results
  <1>9. CASE PushObjectCollects
    <2>1. PICK object \in Requests : StartCollection(object)
      BY <1>9 DEF PushObjectCollects
    <2> QED
      BY <1>8, <2>1, RequestType
  <1>10. CASE GarbageCollect
    BY <1>8, <1>10 DEF GarbageCollect
  <1>11. CASE ScanStack
    BY <1>11, ScanType DEF ScanStack, rootVars, TypeOK, Phases
  <1>12. CASE ScanPointer
    BY <1>12, ScanType DEF ScanPointer, rootVars, TypeOK, Phases
  <1>13. CASE MarkObject
    BY <1>13, MarkObjectType DEF MarkObject, rootVars, TypeOK
  <1>14. CASE MarkDone
    BY <1>14 DEF MarkDone, rootVars, TypeOK, Phases
  <1>15. CASE StackTraceFails
    BY <1>15 DEF StackTraceFails, rootVars, TypeOK
  <1>16. CASE CellTraceFails
    BY <1>16, CellTraceFailsType
       DEF CellTraceFails, rootVars, TypeOK, Phases
  <1>17. CASE StartSweep
    BY <1>17 DEF StartSweep, rootVars, TypeOK, Phases
  <1>18. CASE KeepCell
    BY <1>18 DEF KeepCell, rootVars, TypeOK
  <1>19. CASE FreeCell
    BY <1>19, FreeCellType
  <1>20. CASE FinishSweep
    BY <1>20, FinishSweepType
  <1>21. CASE UNCHANGED vars
    BY <1>21 DEF vars, TypeOK
  <1> QED
    BY <1>1, <1>2, <1>3, <1>4, <1>5, <1>6, <1>7, <1>9, <1>10, <1>11, <1>12, <1>13,
       <1>14, <1>15, <1>16, <1>17, <1>18, <1>19, <1>20, <1>21
       DEF Next, Client, Collector

\* Every variable keeps its type: the free list holds cells only, the dispatch
\* stack pointers only, and what is stored in a cell is an object.
THEOREM TypeCorrect == Spec => []TypeOK
  BY TypeInit, TypeStep, PTL DEF Spec

-----------------------------------------------------------------------------
(* The pointer graph of a well-typed heap. *)

LEMMA ChildrenType == \A object \in Object : Children(object) \subseteq Cells
  <1> SUFFICES ASSUME NEW object \in Object PROVE Children(object) \subseteq Cells
    OBVIOUS
  <1>1. Traced(object) \in Seq(Pointers)
    BY DEF Object, Traced
  <1> QED
    BY <1>1, SeqRange DEF Children, Pointers

LEMMA GraphType ==
    ASSUME TypeOK
    PROVE  /\ Graph(heap) \in Graphs
           /\ StackCells \subseteq Cells
           /\ RootCells \subseteq Cells
  <1>1. Graph(heap) \in Graphs
    BY ChildrenType DEF TypeOK, Graph, Graphs
  <1>2. \A i \in DOMAIN stack : stack[i] \in Object
    BY ElementOfSeq, LenProperties DEF TypeOK
  <1>3. StackCells \subseteq Cells
    BY <1>2, ChildrenType DEF StackCells
  <1>4. Range(rootPointers) \ {Null} \subseteq Cells
    BY DEF TypeOK, Range, Pointers
  <1> QED
    BY <1>1, <1>3, <1>4 DEF RootCells

\* What the program reaches is closed, and holds its roots.
LEMMA LiveClosed ==
    ASSUME TypeOK
    PROVE  /\ RootCells \subseteq Live
           /\ Live \subseteq Cells
           /\ \A c \in Live : Children(heap[c]) \subseteq Live
  BY GraphType, ReachableClosed DEF Live, ClosedOver, Graph, Graphs

\* An object that replaces another in a cell changes the graph at that cell.
LEMMA GraphUpdate ==
    ASSUME TypeOK, NEW c \in Cells, NEW object \in Object
    PROVE  Graph([heap EXCEPT ![c] = object]) = [Graph(heap) EXCEPT ![c] = Children(object)]
  BY DEF Graph, TypeOK

-----------------------------------------------------------------------------
(* What each step does to the cells the program can reach. *)

\* The buffer of an object is no pointer.
LEMMA ChildrenOfBuffered ==
    ASSUME NEW object \in Object, NEW b
    PROVE  Children([object EXCEPT !.buffer = b]) = Children(object)
  BY DEF Object, Children, Traced

LEMMA ChildrenOfHandle == \A c \in Cells : Children(Handle(c)) = {c}
  <1> SUFFICES ASSUME NEW c \in Cells PROVE Children(Handle(c)) = {c}
    OBVIOUS
  <1>1. Traced(Handle(c)) = <<c>>
    BY DEF Traced, Handle
  <1>2. Range(<<c>>) = {c}
    BY DEF Range
  <1> QED
    BY <1>1, <1>2, NullAssumption DEF Children

\* Linking a cell adds at most that cell to the roots.
LEMMA LinkRoots ==
    ASSUME TypeOK, NEW c \in Cells, Link(c)
    PROVE  RootCells' \subseteq RootCells \cup {c}
  <1>1. Children(Handle(c)) = {c}
    BY ChildrenOfHandle
  <1>2. CASE /\ stack' = Append(stack, Handle(c))
             /\ UNCHANGED rootPointers
    <2>1. \A i \in DOMAIN stack' :
              (i \in DOMAIN stack /\ stack'[i] = stack[i]) \/ stack'[i] = Handle(c)
      BY <1>2, HandleType DEF TypeOK
    <2>2. StackCells' \subseteq StackCells \cup {c}
      BY <1>1, <2>1 DEF StackCells
    <2> QED
      BY <1>2, <2>2 DEF RootCells
  <1>3. CASE /\ \E i \in DOMAIN stack : stack' = [stack EXCEPT ![i] = Handle(c)]
             /\ UNCHANGED rootPointers
    <2>1. \A i \in DOMAIN stack' :
              (i \in DOMAIN stack /\ stack'[i] = stack[i]) \/ stack'[i] = Handle(c)
      BY <1>3
    <2>2. StackCells' \subseteq StackCells \cup {c}
      BY <1>1, <2>1 DEF StackCells
    <2> QED
      BY <1>3, <2>2 DEF RootCells
  <1>4. CASE /\ \E i \in DOMAIN rootPointers :
                   rootPointers' = [rootPointers EXCEPT ![i] = c]
             /\ UNCHANGED stack
    <2>1. Range(rootPointers') \subseteq Range(rootPointers) \cup {c}
      BY <1>4 DEF Range
    <2> QED
      BY <1>4, <2>1 DEF RootCells, StackCells
  <1> QED
    BY <1>2, <1>3, <1>4 DEF Link

\* A client step loses live cells or keeps them: it gains none.
LEMMA ClientRoots ==
    ASSUME TypeOK, Pop \/ ClearPointer \/ PushUser
    PROVE  RootCells' \subseteq RootCells
  <1>1. CASE Pop
    <2>1. \A i \in DOMAIN stack' : i \in DOMAIN stack /\ stack'[i] = stack[i]
      BY <1>1, PopProperties, LenProperties DEF Pop, TypeOK
    <2>2. StackCells' \subseteq StackCells
      BY <2>1 DEF StackCells
    <2> QED
      BY <1>1, <2>2 DEF Pop, RootCells
  <1>2. CASE ClearPointer
    <2>1. Range(rootPointers') \subseteq Range(rootPointers) \cup {Null}
      BY <1>2 DEF ClearPointer, Range
    <2> QED
      BY <1>2, <2>1 DEF ClearPointer, RootCells, StackCells
  <1>3. CASE PushUser
    <2>1. PICK b \in Blocks :
              stack' = Append(stack, [type |-> "user", refs |-> <<>>, buffer |-> b,
                                      initialized |-> TRUE])
      BY <1>3 DEF PushUser
    <2> DEFINE user == [type |-> "user", refs |-> <<>>, buffer |-> b,
                        initialized |-> TRUE]
    <2>2. user \in Object
      BY DEF Object, Types
    <2>3. Children(user) = {}
      BY DEF Children, Traced, Range
    <2> HIDE DEF user
    <2>4. \A i \in DOMAIN stack' :
              (i \in DOMAIN stack /\ stack'[i] = stack[i]) \/ stack'[i] = user
      BY <2>1, <2>2 DEF TypeOK, user
    <2>5. StackCells' \subseteq StackCells
      BY <2>3, <2>4 DEF StackCells
    <2> QED
      BY <1>3, <2>5 DEF PushUser, RootCells
  <1> QED
    BY <1>1, <1>2, <1>3

\* The client overwrites a live cell with pointers to live cells.
LEMMA ClientOverwrites ==
    ASSUME TypeOK, Store \/ InitializeVector
    PROVE  /\ \E c \in Live, children \in SUBSET Live :
                  Graph(heap)' = [Graph(heap) EXCEPT ![c] = children]
           /\ UNCHANGED <<stack, rootPointers>>
  <1>1. CASE Store
    <2>1. PICK c \in Live :
              /\ heap[c].initialized
              /\ \E k \in DOMAIN heap[c].refs, d \in Live \cup {Null} :
                     heap' = [heap EXCEPT ![c].refs[k] = d]
      BY <1>1 DEF Store
    <2>2. PICK k \in DOMAIN heap[c].refs, d \in Live \cup {Null} :
              heap' = [heap EXCEPT ![c].refs[k] = d]
      BY <2>1
    <2> DEFINE refs == [heap[c].refs EXCEPT ![k] = d]
               object == [heap[c] EXCEPT !.refs = refs]
    <2>3. heap' = [heap EXCEPT ![c] = object]
      BY <2>2
    <2>4. c \in Cells /\ heap[c] \in Object
      BY LiveClosed DEF TypeOK
    <2>5. Children(heap[c]) = Range(heap[c].refs) \ {Null}
      BY <2>1 DEF Children, Traced
    <2>6. Range(refs) \subseteq Range(heap[c].refs) \cup {d}
      BY DEF Range
    <2> HIDE DEF refs
    <2>7. Children(object) = Range(refs) \ {Null}
      BY <2>1, <2>4 DEF Children, Traced, Object
    <2>8. Children(object) \subseteq Live
      BY <2>5, <2>6, <2>7, LiveClosed
    <2> HIDE DEF object
    <2>9. Graph(heap)' = [Graph(heap) EXCEPT ![c] = Children(object)]
      BY <2>3, <2>4 DEF Graph, TypeOK
    <2> QED
      BY <1>1, <2>8, <2>9 DEF Store, rootVars
  <1>2. CASE InitializeVector
    <2>1. PICK c \in Live, d \in Live \cup {Null} :
              heap' = [heap EXCEPT ![c].refs = [k \in DOMAIN @ |-> d],
                                   ![c].initialized = TRUE]
      BY <1>2 DEF InitializeVector
    <2> DEFINE refs == [k \in DOMAIN heap[c].refs |-> d]
               object == [heap[c] EXCEPT !.refs = refs, !.initialized = TRUE]
    <2>2. c \in Cells /\ heap[c] \in Object
      BY LiveClosed DEF TypeOK
    <2>3. heap' = [heap EXCEPT ![c] = object]
      BY <2>1, <2>2 DEF TypeOK
    <2>4. Range(refs) \subseteq {d}
      BY DEF Range
    <2> HIDE DEF refs
    <2>5. Children(object) = Range(refs) \ {Null}
      BY <2>2 DEF Children, Traced, Object
    <2> HIDE DEF object
    <2>6. Graph(heap)' = [Graph(heap) EXCEPT ![c] = Children(object)]
      BY <2>2, <2>3 DEF Graph, TypeOK
    <2> QED
      BY <1>2, <2>4, <2>5, <2>6 DEF InitializeVector, rootVars
  <1> QED
    BY <1>1, <1>2

LEMMA ClientLive ==
    ASSUME TypeOK, Client
    PROVE  Live' \subseteq Live
  <1>1. CASE Load
    <2>1. PICK c \in Live : Link(c)
      BY <1>1 DEF Load
    <2>2. RootCells' \subseteq Live
      BY <2>1, LinkRoots, LiveClosed
    <2>3. Graph(heap)' = Graph(heap)
      BY <1>1 DEF Load, Graph
    <2> QED
      BY <2>2, <2>3, GraphType, ReachableShrinks2, LiveClosed DEF Live
  <1>2. CASE Pop \/ ClearPointer \/ PushUser
    <2>1. RootCells' \subseteq Live
      BY <1>2, ClientRoots, LiveClosed
    <2>2. Graph(heap)' = Graph(heap)
      BY <1>2 DEF Pop, ClearPointer, PushUser, Graph
    <2> QED
      BY <2>1, <2>2, GraphType, ReachableShrinks2, LiveClosed DEF Live
  <1>3. CASE Store \/ InitializeVector
    <2>1. RootCells' = RootCells
      BY <1>3, ClientOverwrites DEF RootCells, StackCells
    <2>2. PICK c \in Live, children \in SUBSET Live :
              Graph(heap)' = [Graph(heap) EXCEPT ![c] = children]
      BY <1>3, ClientOverwrites
    <2>3. Reachable([Graph(heap) EXCEPT ![c] = children], RootCells) \subseteq Live \cup {c}
      BY GraphType, LiveClosed, ReachableShrinks DEF Live
    <2> QED
      BY <2>1, <2>2, <2>3 DEF Live
  <1> QED
    BY <1>1, <1>2, <1>3 DEF Client

LEMMA RequestChildren ==
    ASSUME TypeOK, NEW object \in Requests
    PROVE  Children(object) \subseteq Live
  <1>1. CASE \E i \in DOMAIN stack : object = stack[i]
    BY <1>1, LiveClosed DEF RootCells, StackCells
  <1>2. CASE \E shape \in Shapes, d \in Live \cup {Null} :
                 object.refs = [k \in 1 .. shape.length |-> d]
    <2>1. PICK shape \in Shapes, d \in Live \cup {Null} :
                 object.refs = [k \in 1 .. shape.length |-> d]
      BY <1>2
    <2>2. Range(object.refs) \subseteq {d} /\ Range(<<>>) = {}
      BY <2>1 DEF Range
    <2> QED
      BY <2>2 DEF Children, Traced
  <1>3. CASE \E shape \in Shapes, d \in Live \cup {Null} :
                 object = [type |-> shape.type,
                           refs |-> [k \in 1 .. shape.length |-> d],
                           buffer |-> IF \/ shape.type = "bytes"
                                         \/ shape.type = "array" /\ shape.initialized
                                      THEN CallerBlock ELSE Null,
                           initialized |-> shape.initialized]
    <2>1. PICK shape \in Shapes, d \in Live \cup {Null} :
                 object = [type |-> shape.type,
                           refs |-> [k \in 1 .. shape.length |-> d],
                           buffer |-> IF \/ shape.type = "bytes"
                                         \/ shape.type = "array" /\ shape.initialized
                                      THEN CallerBlock ELSE Null,
                           initialized |-> shape.initialized]
      BY <1>3
    <2>2. object.refs = [k \in 1 .. shape.length |-> d]
      BY <2>1
    <2> QED
      BY <1>2, <2>2
  <1> QED
    BY <1>1, <1>3 DEF Requests

\* A pushObject writes one free cell, which is then on the free list no more.
LEMMA TakeCellEffect ==
    ASSUME TypeOK, NEW object \in Object, Children(object) \subseteq Live,
           freeObjects # <<>>, IsInjective(freeObjects), TakeCell(object)
    PROVE  LET c == freeObjects[Len(freeObjects)]
           IN  /\ c \in Range(freeObjects)
               /\ Range(freeObjects') = Range(freeObjects) \ {c}
               /\ IsInjective(freeObjects')
               /\ Graph(heap)' = [Graph(heap) EXCEPT ![c] = Children(object)]
               /\ RootCells' \subseteq RootCells \cup {c}
  <1> DEFINE c == freeObjects[Len(freeObjects)]
  <1>1. /\ c \in Cells
        /\ Len(freeObjects) \in Nat \ {0}
        /\ freeObjects' \in Seq(Cells)
        /\ DOMAIN freeObjects' = 1 .. Len(freeObjects) - 1
        /\ DOMAIN freeObjects = 1 .. Len(freeObjects)
        /\ \A i \in DOMAIN freeObjects' : freeObjects'[i] = freeObjects[i]
    BY PopProperties, LenProperties DEF TypeOK, TakeCell
  <1>2. Range(freeObjects) = Range(freeObjects') \cup {c}
    BY PopRange DEF TypeOK, TakeCell
  <1>3. c \notin Range(freeObjects')
    BY <1>1 DEF IsInjective, Range
  <1>4. IsInjective(freeObjects')
    BY <1>1 DEF IsInjective
  <1>5. \E stored \in Object :
            /\ heap' = [heap EXCEPT ![c] = stored]
            /\ Children(stored) = Children(object)
    <2>1. CASE heap' = [heap EXCEPT ![c] = IF object.type = "array"
                           THEN [object EXCEPT !.buffer = Null] ELSE object]
      <3>1. [object EXCEPT !.buffer = Null] \in Object
        BY DEF Object
      <3> QED
        BY <2>1, <3>1, ChildrenOfBuffered
    <2>2. CASE \E b \in Blocks \cup {Null} :
                   heap' = [heap EXCEPT ![c] = [object EXCEPT !.buffer = b]]
      <3>1. PICK b \in Blocks \cup {Null} :
                heap' = [heap EXCEPT ![c] = [object EXCEPT !.buffer = b]]
        BY <2>2
      <3>2. [object EXCEPT !.buffer = b] \in Object
        BY DEF Object
      <3> QED
        BY <3>1, <3>2, ChildrenOfBuffered
    <2>3. CASE heap' = [heap EXCEPT ![c] = [object EXCEPT !.buffer =
                            IF DuckLibMalloc THEN @ ELSE Null]]
      <3> DEFINE b == IF DuckLibMalloc THEN object.buffer ELSE Null
      <3>1. b \in Blocks \cup {Null}
        BY DEF Object
      <3>2. heap' = [heap EXCEPT ![c] = [object EXCEPT !.buffer = b]]
        BY <2>3
      <3> QED
        BY <2>2, <3>1, <3>2
    <2> HIDE DEF c
    <2> QED
      BY <2>1, <2>2, <2>3 DEF TakeCell, c
  <1>6. RootCells' \subseteq RootCells \cup {c}
    <2>1. Link(c) \/ UNCHANGED rootVars
      BY DEF TakeCell
    <2> HIDE DEF c
    <2> QED
      BY <2>1, <1>1, LinkRoots DEF rootVars, RootCells, StackCells
  <1> HIDE DEF c
  <1>7. Graph(heap)' = [Graph(heap) EXCEPT ![c] = Children(object)]
    <2>1. PICK stored \in Object :
              /\ heap' = [heap EXCEPT ![c] = stored]
              /\ Children(stored) = Children(object)
      BY <1>5
    <2>2. Graph([heap EXCEPT ![c] = stored]) = [Graph(heap) EXCEPT ![c] = Children(stored)]
      BY <1>1, GraphUpdate
    <2>3. Graph(heap)' = Graph([heap EXCEPT ![c] = stored])
      BY <2>1 DEF Graph
    <2> QED
      BY <2>1, <2>2, <2>3
  <1> QED
    BY <1>1, <1>2, <1>3, <1>4, <1>6, <1>7 DEF c

LEMMA TakeCellSafe ==
    ASSUME TypeOK, NEW object \in Object, Children(object) \subseteq Live,
           freeObjects # <<>>, IsInjective(freeObjects), FreeIsDead, TakeCell(object)
    PROVE  FreeIsDead' /\ IsInjective(freeObjects')
  <1> DEFINE c == freeObjects[Len(freeObjects)]
  <1>1. /\ c \in Range(freeObjects)
        /\ Range(freeObjects') = Range(freeObjects) \ {c}
        /\ IsInjective(freeObjects')
        /\ Graph(heap)' = [Graph(heap) EXCEPT ![c] = Children(object)]
        /\ RootCells' \subseteq RootCells \cup {c}
    BY TakeCellEffect
  <1>2. c \in Cells
    BY PopProperties DEF TypeOK
  <1> HIDE DEF c
  <1>3. RootCells' \subseteq Live \cup {c} /\ RootCells' \subseteq Cells
    BY <1>1, <1>2, LiveClosed, GraphType
  <1>4. Reachable([Graph(heap) EXCEPT ![c] = Children(object)], RootCells')
            \subseteq Live \cup {c}
    BY <1>2, <1>3, GraphType, ChildrenType, ReachableShrinks DEF Live
  <1>5. Live' \subseteq Live \cup {c}
    BY <1>1, <1>4 DEF Live
  <1> QED
    BY <1>1, <1>5 DEF FreeIsDead

-----------------------------------------------------------------------------
(* The invariant of the collection's phases. *)

LEMMA LiveUnchanged ==
    UNCHANGED <<heap, stack, rootPointers>> => Live' = Live
  BY DEF Live, Graph, RootCells, StackCells

LEMMA InvInit == Init => CollectorInv
  <1> SUFFICES ASSUME Init PROVE CollectorInv
    OBVIOUS
  <1>1. RootCells = {}
    BY DEF Init, RootCells, StackCells, Range
  <1>2. ClosedOver(Graph(heap), RootCells, {})
    BY <1>1 DEF ClosedOver
  <1>3. Live = {}
    BY <1>2, ReachableLeast DEF Live
  <1>4. FreeIsDead /\ IsInjective(freeObjects)
    BY <1>3 DEF Init, FreeIsDead, IsInjective
  <1> QED
    BY <1>4 DEF Init, CollectorInv, MarkInv, SweepInv, PendingInv, PhaseInv,
                OutOfMemoryMeansFull

LEMMA ClientInv ==
    ASSUME TypeOK, CollectorInv, Client
    PROVE  CollectorInv'
  <1>1. ClientStep /\ UNCHANGED freeObjects
    BY DEF Client, Load, Pop, ClearPointer, Store, InitializeVector, PushUser
  <1>2. FreeIsDead'
    BY <1>1, ClientLive DEF CollectorInv, FreeIsDead
  <1>3. IsInjective(freeObjects)'
    BY <1>1 DEF CollectorInv, IsInjective
  <1> QED
    BY <1>1, <1>2, <1>3
       DEF CollectorInv, ClientStep, gcVars, MarkInv, SweepInv, PendingInv, PhaseInv,
           OutOfMemoryMeansFull

LEMMA PushObjectInv ==
    ASSUME TypeOK, CollectorInv, PushObject
    PROVE  CollectorInv'
  <1>1. PICK object \in Requests : TakeCell(object)
    BY DEF PushObject
  <1>2. FreeIsDead' /\ IsInjective(freeObjects')
    BY <1>1, RequestType, RequestChildren, TakeCellSafe DEF CollectorInv, PushObject
  <1>3. phase' = "run" /\ pending' = Null /\ dispatchStack' = <<>>
    BY DEF PushObject, gcVars, CollectorInv, PendingInv, PhaseInv
  <1>4. result' \in {"ok", "allocationFailed"}
    BY <1>1 DEF TakeCell
  <1> QED
    BY <1>2, <1>3, <1>4
       DEF CollectorInv, IsInjective, MarkInv, SweepInv, PendingInv, PhaseInv,
           OutOfMemoryMeansFull

LEMMA StartCollectionInv ==
    ASSUME TypeOK, CollectorInv,
           NEW object, object = Null \/ Children(object) \subseteq Live,
           StartCollection(object)
    PROVE  CollectorInv'
  <1>1. Live' = Live
    BY LiveUnchanged DEF StartCollection, rootVars
  <1>2. FreeIsDead' /\ IsInjective(freeObjects)'
    BY <1>1 DEF StartCollection, CollectorInv, FreeIsDead, IsInjective
  <1>3. PendingInv' /\ PhaseInv' /\ OutOfMemoryMeansFull' /\ SweepInv'
    BY <1>1 DEF StartCollection, CollectorInv, PendingInv, PhaseInv,
                OutOfMemoryMeansFull, SweepInv
  <1>4. Marked' = {} /\ Gray' = {}
    BY DEF Marked, Gray, Range, StartCollection, CollectorInv, PhaseInv
  <1>5. MarkInv'
    BY <1>4 DEF MarkInv, StartCollection
  <1> QED
    BY <1>2, <1>3, <1>5 DEF CollectorInv

\* A new root to mark from: its pointers are live and wait on the stack.
LEMMA ScanInv ==
    ASSUME TypeOK, CollectorInv, ScanStack \/ ScanPointer
    PROVE  CollectorInv'
  <1>1. Live' = Live
    BY LiveUnchanged DEF ScanStack, ScanPointer, rootVars
  <1>2. /\ next \in 1 .. Len(stack) + RootsLength
        /\ Gray' = RootAt(next)
        /\ RootAt(next) \subseteq RootCells
    <2>1. CASE ScanStack
      <3>1. next \in DOMAIN stack
        BY <2>1, LenProperties DEF TypeOK, ScanStack
      <3> QED
        BY <2>1, <3>1, LenProperties, MarkSweepAssumption
           DEF TypeOK, ScanStack, Gray, Children, RootAt, RootCells, StackCells
    <2>2. CASE ScanPointer
      <3>1. /\ next - Len(stack) \in 1 .. RootsLength
            /\ next \in 1 .. Len(stack) + RootsLength
            /\ ~(next <= Len(stack))
        BY <2>2, LenProperties, MarkSweepAssumption DEF TypeOK, ScanPointer
      <3>2. rootPointers[next - Len(stack)] \in Range(rootPointers)
        BY <3>1 DEF TypeOK, Range
      <3>3. Range(<<rootPointers[next - Len(stack)]>>) = {rootPointers[next - Len(stack)]}
        BY DEF Range
      <3> QED
        BY <2>2, <3>1, <3>2, <3>3 DEF ScanPointer, Gray, RootAt, RootCells
    <2> QED
      BY <2>1, <2>2
  <1>3. /\ Marked' = Marked /\ next' = next + 1 /\ phase = "scan" /\ phase' = "mark"
        /\ UNCHANGED <<heap, stack, rootPointers, freeObjects, pending, result>>
    BY DEF ScanStack, ScanPointer, Marked, rootVars
  <1>4. Gray = {}
    BY <1>3 DEF Gray, Range, CollectorInv, PhaseInv
  <1>5. MarkInv'
    <2>1. Marked' \cup Gray' \subseteq Live'
      BY <1>1, <1>2, <1>3, LiveClosed DEF CollectorInv, MarkInv
    <2>2. \A c \in Marked' : Children(heap'[c]) \subseteq Marked' \cup Gray'
      BY <1>3, <1>4 DEF CollectorInv, MarkInv
    <2>3. \A i \in 1 .. Len(stack') + RootsLength :
              i < next' => RootAt(i)' \subseteq Marked' \cup Gray'
      BY <1>2, <1>3, <1>4, LenProperties, MarkSweepAssumption
         DEF CollectorInv, MarkInv, RootAt, TypeOK
    <2> QED
      BY <2>1, <2>2, <2>3 DEF MarkInv
  <1>6. FreeIsDead' /\ IsInjective(freeObjects)'
    BY <1>1, <1>3 DEF CollectorInv, FreeIsDead, IsInjective
  <1>7. PendingInv' /\ PhaseInv' /\ OutOfMemoryMeansFull' /\ SweepInv'
    BY <1>1, <1>3 DEF CollectorInv, PendingInv, PhaseInv, OutOfMemoryMeansFull, SweepInv
  <1> QED
    BY <1>5, <1>6, <1>7 DEF CollectorInv

\* A cell that was waiting is marked, and its pointers wait in its place.
LEMMA MarkObjectInv ==
    ASSUME TypeOK, CollectorInv, MarkObject
    PROVE  CollectorInv'
  <1> DEFINE object == dispatchStack[Len(dispatchStack)]
             rest == SubSeq(dispatchStack, 1, Len(dispatchStack) - 1)
             Rest == Range(rest) \ {Null}
  <1>1. /\ object \in Pointers /\ rest \in Seq(Pointers)
        /\ Gray = Rest \cup ({object} \ {Null})
    BY PopProperties, PopRange DEF TypeOK, MarkObject, Gray
  <1>2. Live' = Live
    BY LiveUnchanged DEF MarkObject, rootVars
  <1>3. /\ phase = "mark" /\ phase' = "mark"
        /\ UNCHANGED <<heap, stack, rootPointers, freeObjects, next, pending, result>>
    BY DEF MarkObject, rootVars
  <1>4. \A i : RootAt(i)' = RootAt(i)
    BY <1>3 DEF RootAt
  <1>5. /\ Marked' \cup Gray' \subseteq Live
        /\ Marked \cup Gray \subseteq Marked' \cup Gray'
        /\ \A c \in Marked' \ Marked : Children(heap[c]) \subseteq Gray'
    <2>1. CASE object # Null /\ ~inUse[object]
      <3>1. /\ inUse' = [inUse EXCEPT ![object] = TRUE]
            /\ dispatchStack' = rest \o Traced(heap[object])
        BY <2>1 DEF MarkObject
      <3>2. object \in Cells /\ object \in Live /\ heap[object] \in Object
        BY <1>1, <1>3, <2>1 DEF Pointers, CollectorInv, MarkInv, TypeOK
      <3> HIDE DEF object, rest
      <3>3. Gray' = Rest \cup Children(heap[object])
        BY <1>1, <3>1, <3>2, ScanType, ConcatRange DEF Gray, Children
      <3>4. Marked' = Marked \cup {object}
        BY <3>1, <3>2 DEF Marked, TypeOK
      <3>5. Children(heap[object]) \subseteq Live
        BY <3>2, LiveClosed
      <3> HIDE DEF Rest
      <3> QED
        BY <1>1, <1>3, <3>2, <3>3, <3>4, <3>5 DEF CollectorInv, MarkInv
    <2>2. CASE ~(object # Null /\ ~inUse[object])
      <3>1. inUse' = inUse /\ dispatchStack' = rest
        BY <2>2 DEF MarkObject
      <3>2. {object} \ {Null} \subseteq Marked
        BY <1>1, <2>2 DEF Marked, Pointers
      <3>3. Marked' = Marked /\ Gray' = Rest
        BY <3>1 DEF Marked, Gray
      <3> HIDE DEF object, rest, Rest
      <3> QED
        BY <1>1, <1>3, <3>2, <3>3 DEF CollectorInv, MarkInv
    <2> QED
      BY <2>1, <2>2
  <1> HIDE DEF object, rest, Rest
  <1>6. \A c \in Marked' : Children(heap'[c]) \subseteq Marked' \cup Gray'
    BY <1>3, <1>5 DEF CollectorInv, MarkInv
  <1>7. \A i \in 1 .. Len(stack') + RootsLength :
            i < next' => RootAt(i)' \subseteq Marked' \cup Gray'
    BY <1>3, <1>4, <1>5 DEF CollectorInv, MarkInv
  <1>8. MarkInv'
    BY <1>2, <1>5, <1>6, <1>7 DEF MarkInv
  <1>9. FreeIsDead' /\ IsInjective(freeObjects)'
    BY <1>2, <1>3 DEF CollectorInv, FreeIsDead, IsInjective
  <1>10. PendingInv' /\ PhaseInv' /\ OutOfMemoryMeansFull' /\ SweepInv'
    BY <1>2, <1>3 DEF CollectorInv, PendingInv, PhaseInv, OutOfMemoryMeansFull, SweepInv
  <1> QED
    BY <1>8, <1>9, <1>10 DEF CollectorInv

LEMMA MarkDoneInv ==
    ASSUME TypeOK, CollectorInv, MarkDone
    PROVE  CollectorInv'
  <1>1. Live' = Live
    BY LiveUnchanged DEF MarkDone, rootVars
  <1>2. /\ phase = "mark" /\ phase' = "scan" /\ dispatchStack' = <<>>
        /\ UNCHANGED <<heap, inUse, stack, rootPointers, freeObjects, next,
                       dispatchStack, pending, result>>
    BY DEF MarkDone, rootVars
  <1>3. Marked' = Marked /\ Gray' = Gray /\ \A i : RootAt(i)' = RootAt(i)
    BY <1>2 DEF Marked, Gray, RootAt
  <1>4. MarkInv'
    BY <1>1, <1>2, <1>3 DEF CollectorInv, MarkInv
  <1> QED
    BY <1>1, <1>2, <1>4
       DEF CollectorInv, FreeIsDead, IsInjective, PendingInv, PhaseInv,
           OutOfMemoryMeansFull, SweepInv

\* When no root is left and nothing waits, the marked cells are the live cells.
LEMMA MarkingIsExact ==
    ASSUME TypeOK, CollectorInv, phase = "scan", next > Len(stack) + RootsLength
    PROVE  Marked = Live
  <1>1. Gray = {}
    BY DEF Gray, Range, CollectorInv, PhaseInv
  <1>2. Len(stack) \in Nat /\ next \in Nat /\ RootsLength \in Nat
    BY MarkSweepAssumption, LenProperties DEF TypeOK
  <1>3. \A i \in 1 .. Len(stack) + RootsLength : RootAt(i) \subseteq Marked
    BY <1>1, <1>2 DEF CollectorInv, MarkInv
  <1>4. StackCells \subseteq Marked
    <2> SUFFICES ASSUME NEW i \in DOMAIN stack
                 PROVE  Children(stack[i]) \subseteq Marked
      BY DEF StackCells
    <2>1. i \in 1 .. Len(stack) + RootsLength /\ i <= Len(stack)
      BY <1>2, LenProperties DEF TypeOK
    <2> QED
      BY <1>3, <2>1 DEF RootAt
  <1>5. Range(rootPointers) \ {Null} \subseteq Marked
    <2> SUFFICES ASSUME NEW j \in 1 .. RootsLength
                 PROVE  {rootPointers[j]} \ {Null} \subseteq Marked
      BY DEF TypeOK, Range
    <2> DEFINE i == j + Len(stack)
    <2>1. /\ i \in 1 .. Len(stack) + RootsLength
          /\ ~(i <= Len(stack)) /\ i - Len(stack) = j
      BY <1>2
    <2> HIDE DEF i
    <2> QED
      BY <1>3, <2>1 DEF RootAt
  <1>6. ClosedOver(Graph(heap), RootCells, Marked)
    BY <1>1, <1>4, <1>5
       DEF ClosedOver, RootCells, Graph, CollectorInv, MarkInv, Marked
  <1>7. Live \subseteq Marked
    BY <1>6, ReachableLeast DEF Live, Marked
  <1> QED
    BY <1>7 DEF CollectorInv, MarkInv

LEMMA StartSweepInv ==
    ASSUME TypeOK, CollectorInv, StartSweep
    PROVE  CollectorInv'
  <1>1. Live' = Live
    BY LiveUnchanged DEF StartSweep, rootVars
  <1>2. Marked = Live
    BY MarkingIsExact DEF StartSweep
  <1>3. /\ freeObjects' = <<>> /\ phase' = "sweep" /\ next' = 1 /\ phase = "scan"
        /\ UNCHANGED <<inUse, dispatchStack, pending, result>>
    BY DEF StartSweep
  <1>4. Range(freeObjects') = {}
    BY <1>3 DEF Range
  <1>5. SweepInv'
    BY <1>1, <1>2, <1>3, <1>4 DEF SweepInv, Marked, Cells
  <1>6. FreeIsDead' /\ IsInjective(freeObjects)'
    BY <1>3, <1>4 DEF FreeIsDead, IsInjective
  <1> QED
    BY <1>1, <1>3, <1>5, <1>6
       DEF CollectorInv, MarkInv, PendingInv, PhaseInv, OutOfMemoryMeansFull

LEMMA KeepCellInv ==
    ASSUME TypeOK, CollectorInv, KeepCell
    PROVE  CollectorInv'
  <1>1. Live' = Live
    BY LiveUnchanged DEF KeepCell, rootVars
  <1>2. /\ phase = "sweep" /\ phase' = "sweep" /\ inUse[next] /\ next' = next + 1
        /\ UNCHANGED <<inUse, freeObjects, dispatchStack, pending, result>>
    BY DEF KeepCell
  <1>3. \A c \in Cells : c < next + 1 <=> c < next \/ c = next
    BY DEF Cells, TypeOK
  <1>4. SweepInv'
    BY <1>1, <1>2, <1>3 DEF CollectorInv, SweepInv, Marked
  <1> QED
    BY <1>1, <1>2, <1>4
       DEF CollectorInv, FreeIsDead, IsInjective, MarkInv, PendingInv, PhaseInv,
           OutOfMemoryMeansFull

\* A cell goes to the free list: it is unmarked, hence dead, and not on it yet.
LEMMA FreeCellInv ==
    ASSUME TypeOK, CollectorInv, FreeCell
    PROVE  CollectorInv'
  <1>1. next \in Cells /\ heap[next] \in Object
    BY ObjectsLengthAssumption DEF TypeOK, FreeCell, Cells
  <1>2. Graph(heap)' = Graph(heap)
    <2>1. CASE heap' = heap
      BY <2>1 DEF Graph
    <2>2. CASE heap' = [heap EXCEPT ![next].buffer = Null]
      <3> DEFINE object == [heap[next] EXCEPT !.buffer = Null]
      <3>1. object \in Object /\ Children(object) = Children(heap[next])
        BY <1>1, ChildrenOfBuffered DEF Object
      <3>2. heap' = [heap EXCEPT ![next] = object]
        BY <2>2
      <3> HIDE DEF object
      <3> QED
        BY <1>1, <3>1, <3>2 DEF Graph, TypeOK
    <2> QED
      BY <2>1, <2>2 DEF FreeCell
  <1>3. Live' = Live
    BY <1>2 DEF FreeCell, rootVars, Live, RootCells, StackCells
  <1>4. /\ phase = "sweep" /\ ~inUse[next]
        /\ freeObjects' = Append(freeObjects, next)
        /\ dispatchStack' = <<>> /\ inUse' = inUse
    BY DEF FreeCell, CollectorInv, PhaseInv
  <1>5. /\ Marked = Live
        /\ Range(freeObjects) = {c \in Cells : c < next /\ ~inUse[c]}
    BY <1>4 DEF CollectorInv, SweepInv
  <1>6. Range(freeObjects') = Range(freeObjects) \cup {next}
    <2>1. freeObjects' = freeObjects \o <<next>> /\ <<next>> \in Seq(Cells)
      BY <1>1, <1>4 DEF TypeOK
    <2>2. Range(<<next>>) = {next}
      BY DEF Range
    <2>3. freeObjects \in Seq(Cells)
      BY DEF TypeOK
    <2>4. Range(freeObjects \o <<next>>) = Range(freeObjects) \cup Range(<<next>>)
      BY <2>1, <2>3, ConcatRange, ZenonT(20)
    <2> QED
      BY <2>1, <2>2, <2>4
  <1>7. Range(freeObjects') = {c \in Cells : c < next + 1 /\ ~inUse[c]}
    <2>1. \A c \in Cells : c < next + 1 <=> c < next \/ c = next
      BY <1>1 DEF Cells
    <2> QED
      BY <1>1, <1>4, <1>5, <1>6, <2>1
  <1>8. FreeIsDead'
    BY <1>3, <1>5, <1>7 DEF FreeIsDead, Marked
  <1>9. IsInjective(freeObjects)'
    <2>1. next \notin Range(freeObjects)
      BY <1>1, <1>5 DEF Cells
    <2>2. /\ DOMAIN freeObjects' = 1 .. Len(freeObjects) + 1
          /\ DOMAIN freeObjects = 1 .. Len(freeObjects)
          /\ Len(freeObjects) \in Nat
          /\ \A i \in 1 .. Len(freeObjects) : freeObjects'[i] = freeObjects[i]
          /\ freeObjects'[Len(freeObjects) + 1] = next
      BY <1>1, <1>4, LenProperties DEF TypeOK
    <2>3. \A i \in 1 .. Len(freeObjects) : freeObjects[i] # next
      BY <2>1, <2>2 DEF Range
    <2> QED
      BY <2>2, <2>3 DEF CollectorInv, IsInjective
  <1>10. CASE FreeFails(heap[next])
    <2>1. phase' = "run" /\ pending' = Null /\ result' = "collectionFailed"
      BY <1>10 DEF FreeCell
    <2> QED
      BY <1>4, <1>8, <1>9, <2>1
         DEF CollectorInv, MarkInv, SweepInv, PendingInv, PhaseInv, OutOfMemoryMeansFull
  <1>11. CASE ~FreeFails(heap[next])
    <2>1. next' = next + 1 /\ UNCHANGED <<phase, pending, result>>
      BY <1>11 DEF FreeCell
    <2>2. SweepInv'
      BY <1>3, <1>4, <1>5, <1>7, <2>1 DEF SweepInv, Marked
    <2> QED
      BY <1>3, <1>4, <1>8, <1>9, <2>1, <2>2
         DEF CollectorInv, MarkInv, PendingInv, PhaseInv, OutOfMemoryMeansFull
  <1> QED
    BY <1>10, <1>11

\* When every cell has been swept the free list holds all the dead cells: if it
\* is empty, everything is live.
LEMMA FinishSweepInv ==
    ASSUME TypeOK, CollectorInv, FinishSweep
    PROVE  CollectorInv'
  <1>1. phase' = "run" /\ pending' = Null /\ dispatchStack' = <<>>
    BY DEF FinishSweep, CollectorInv, PhaseInv
  <1>2. CASE /\ pending # Null
             /\ freeObjects # <<>>
             /\ TakeCell(pending)
    <2>1. pending \in Object /\ Children(pending) \subseteq Live
      BY <1>2 DEF TypeOK, CollectorInv, PendingInv
    <2>2. FreeIsDead' /\ IsInjective(freeObjects')
      BY <1>2, <2>1, TakeCellSafe DEF CollectorInv
    <2>3. result' \in {"ok", "allocationFailed"}
      BY <1>2 DEF TakeCell
    <2> QED
      BY <1>1, <2>2, <2>3
         DEF CollectorInv, IsInjective, MarkInv, SweepInv, PendingInv, PhaseInv,
             OutOfMemoryMeansFull
  <1>3. CASE /\ pending = Null \/ freeObjects = <<>>
             /\ result' = IF pending = Null THEN "ok" ELSE "outOfMemory"
             /\ UNCHANGED <<heap, freeObjects, rootVars, allocated>>
    <2>1. Live' = Live
      BY <1>3, LiveUnchanged DEF rootVars
    <2>2. \A c \in Cells : c < next
      BY ObjectsLengthAssumption DEF FinishSweep, TypeOK, Cells
    <2>3. Cells \ Live = Range(freeObjects)
      BY <2>2 DEF FinishSweep, CollectorInv, SweepInv, Marked
    <2>4. result' = "outOfMemory" => Live = Cells
      <3>1. freeObjects = <<>> => Range(freeObjects) = {}
        BY DEF Range
      <3> QED
        BY <1>3, <2>3, <3>1, LiveClosed
    <2> QED
      BY <1>1, <1>3, <2>1, <2>4
         DEF CollectorInv, FreeIsDead, IsInjective, MarkInv, SweepInv, PendingInv,
             PhaseInv, OutOfMemoryMeansFull
  <1> QED
    BY <1>2, <1>3 DEF FinishSweep

LEMMA InvStep ==
    ASSUME ~DispatchCanFail
    PROVE  TypeOK /\ CollectorInv /\ [Next]_vars => CollectorInv'
  <1> SUFFICES ASSUME TypeOK, CollectorInv, [Next]_vars PROVE CollectorInv'
    OBVIOUS
  <1>1. CASE Client
    BY <1>1, ClientInv
  <1>2. CASE PushObject
    BY <1>2, PushObjectInv
  <1>3. CASE PushObjectCollects
    <2>1. PICK object \in Requests : StartCollection(object)
      BY <1>3 DEF PushObjectCollects
    <2> QED
      BY <2>1, RequestChildren, StartCollectionInv
  <1>4. CASE GarbageCollect
    BY <1>4, StartCollectionInv DEF GarbageCollect
  <1>5. CASE ScanStack \/ ScanPointer
    BY <1>5, ScanInv
  <1>6. CASE MarkObject
    BY <1>6, MarkObjectInv
  <1>7. CASE MarkDone
    BY <1>7, MarkDoneInv
  <1>8. CASE StackTraceFails \/ CellTraceFails
    BY <1>8 DEF StackTraceFails, CellTraceFails
  <1>9. CASE StartSweep
    BY <1>9, StartSweepInv
  <1>10. CASE KeepCell
    BY <1>10, KeepCellInv
  <1>11. CASE FreeCell
    BY <1>11, FreeCellInv
  <1>12. CASE FinishSweep
    BY <1>12, FinishSweepInv
  <1>13. CASE UNCHANGED vars
    <2>1. Live' = Live
      BY <1>13, LiveUnchanged DEF vars
    <2>2. /\ UNCHANGED <<heap, inUse, freeObjects, stack, rootPointers, phase, next,
                         dispatchStack, pending, result>>
          /\ Marked' = Marked /\ Gray' = Gray /\ \A i : RootAt(i)' = RootAt(i)
      BY <1>13 DEF vars, Marked, Gray, RootAt
    <2> QED
      BY <2>1, <2>2
         DEF CollectorInv, FreeIsDead, IsInjective, MarkInv, SweepInv, PendingInv,
             PhaseInv, OutOfMemoryMeansFull
  <1> QED
    BY <1>1, <1>2, <1>3, <1>4, <1>5, <1>6, <1>7, <1>8, <1>9, <1>10, <1>11, <1>12,
       <1>13 DEF Next, Collector

-----------------------------------------------------------------------------
(* The collector is safe and precise, if the dispatch stack can always grow. *)

\* A cell on the free list is never one that the program can reach.
THEOREM FreeIsAlwaysDead ==
    ASSUME ~DispatchCanFail
    PROVE  Spec => []FreeIsDead
  <1>1. CollectorInv => FreeIsDead
    BY DEF CollectorInv
  <1> QED
    BY TypeInit, TypeStep, InvInit, InvStep, <1>1, PTL DEF Spec

\* When pushObject reports outOfMemory, every cell is reachable.
THEOREM OutOfMemoryIsReal ==
    ASSUME ~DispatchCanFail
    PROVE  Spec => []OutOfMemoryMeansFull
  <1>1. CollectorInv => OutOfMemoryMeansFull
    BY DEF CollectorInv
  <1> QED
    BY TypeInit, TypeStep, InvInit, InvStep, <1>1, PTL DEF Spec

-----------------------------------------------------------------------------
(* The collector implements GcHeap, step by step. *)

\* GcHeap's view of the collector's state is the collector's own.
LEMMA SameHeap ==
    /\ Abstract!Cells = Cells
    /\ Abstract!Live = Live
  BY DEF Abstract!Live, Abstract!Reachable, Abstract!ClosedOver, Abstract!Cells,
         Live, Reachable, ClosedOver, Cells

\* The collector starts with GcHeap's empty heap, all of its cells free.
LEMMA RefinementInit == Init => Abstract!HeapInit
  <1> SUFFICES ASSUME Init PROVE Abstract!HeapInit
    OBVIOUS
  <1>1. RootCells = {}
    BY DEF Init, RootCells, StackCells, Range
  <1>2. Children(EmptyObject) = {}
    BY DEF Children, Traced, EmptyObject, Range
  <1>3. Graph(heap) = [c \in Cells |-> {}]
    BY <1>2 DEF Init, Graph
  <1>4. FreeCells = Cells
    BY DEF Init, FreeCells, Range, Cells
  <1> QED
    BY <1>1, <1>3, <1>4, SameHeap DEF Abstract!HeapInit

\* A step that leaves the graph, the roots and the free cells alone is a stutter.
LEMMA Stutters ==
    ASSUME UNCHANGED <<heap, stack, rootPointers>>, FreeCells' = FreeCells
    PROVE  UNCHANGED Abstract!heapVars
  BY DEF Abstract!heapVars, Graph, RootCells, StackCells

\* A client's step overwrites one live object or the roots, with live pointers.
LEMMA ClientMutates ==
    ASSUME TypeOK, Client
    PROVE  Abstract!Mutate
  <1>1. FreeCells' = FreeCells
    BY DEF Client, Load, Pop, ClearPointer, Store, InitializeVector, PushUser,
           ClientStep, gcVars, FreeCells
  <1>2. Graph(heap) \in Graphs /\ Live \subseteq Cells /\ RootCells \subseteq Live
    BY GraphType, LiveClosed
  <1>3. ASSUME NEW c \in Live, NEW children \in SUBSET Live,
               Graph(heap)' = [Graph(heap) EXCEPT ![c] = children],
               RootCells' \subseteq Live
        PROVE  Abstract!Mutate
    BY <1>1, <1>2, <1>3, SameHeap DEF Abstract!Mutate, Graphs
  <1>4. CASE Store \/ InitializeVector
    <2>1. PICK c \in Live, children \in SUBSET Live :
              Graph(heap)' = [Graph(heap) EXCEPT ![c] = children]
      BY <1>4, ClientOverwrites
    <2>2. RootCells' = RootCells
      BY <1>4, ClientOverwrites DEF RootCells, StackCells
    <2> QED
      BY <2>1, <2>2, <1>2, <1>3
  <1>5. CASE Load \/ Pop \/ ClearPointer \/ PushUser
    <2>1. Graph(heap)' = Graph(heap)
      BY <1>5 DEF Load, Pop, ClearPointer, PushUser, Graph
    <2>2. RootCells' \subseteq Live
      <3>1. CASE Load
        BY <3>1, <1>2, LinkRoots DEF Load
      <3>2. CASE Pop \/ ClearPointer \/ PushUser
        BY <3>2, <1>2, ClientRoots
      <3> QED
        BY <3>1, <3>2, <1>5
    <2> QED
      BY <2>1, <2>2, <1>1, <1>2, SameHeap DEF Abstract!Mutate, Graphs
  <1> QED
    BY <1>4, <1>5 DEF Client

\* A pushObject takes one of GcHeap's free cells, when the list holds them all.
LEMMA TakeCellAllocates ==
    ASSUME TypeOK, NEW object \in Object, Children(object) \subseteq Live,
           freeObjects # <<>>, IsInjective(freeObjects), TakeCell(object),
           FreeCells = Range(freeObjects), FreeCells' = Range(freeObjects')
    PROVE  Abstract!Allocate
  <1> DEFINE c == freeObjects[Len(freeObjects)]
  <1>1. /\ c \in Range(freeObjects)
        /\ Range(freeObjects') = Range(freeObjects) \ {c}
        /\ Graph(heap)' = [Graph(heap) EXCEPT ![c] = Children(object)]
        /\ RootCells' \subseteq RootCells \cup {c}
    BY TakeCellEffect
  <1>2. c \in Cells
    BY PopProperties DEF TypeOK
  <1> HIDE DEF c
  <1>3. Graph(heap) \in Graphs /\ Live \subseteq Cells /\ RootCells \subseteq Live
    BY GraphType, LiveClosed
  <1>4. /\ Graph(heap)' \in [Cells -> SUBSET Cells]
        /\ Graph(heap)'[c] = Children(object)
        /\ \A e \in Cells \ {c} : Graph(heap)'[e] = Graph(heap)[e]
    BY <1>1, <1>2, <1>3, ChildrenType DEF Graphs
  <1>5. RootCells' \subseteq Live \cup {c}
    BY <1>1, <1>3
  <1> QED
    BY <1>1, <1>2, <1>4, <1>5, SameHeap DEF Abstract!Allocate

\* A collection takes effect when the flags are complete: the sweep that is left
\* only writes down which cells they have freed.
LEMMA StartSweepCollects ==
    ASSUME TypeOK, CollectorInv, StartSweep
    PROVE  Abstract!Collect
  <1>1. Marked = Live
    BY MarkingIsExact DEF StartSweep
  <1>2. FreeCells' = Cells \ Live
    BY <1>1 DEF StartSweep, FreeCells, Marked
  <1>3. UNCHANGED <<Graph(heap), RootCells>>
    BY DEF StartSweep, rootVars, Graph, RootCells, StackCells
  <1> QED
    BY <1>2, <1>3, SameHeap DEF Abstract!Collect

\* A swept cell is free already, and what it loses is no pointer.
LEMMA FreeCellStutters ==
    ASSUME ~DuckLibMalloc, TypeOK, FreeCell
    PROVE  UNCHANGED Abstract!heapVars
  <1>1. next \in Cells /\ heap[next] \in Object
    BY ObjectsLengthAssumption DEF TypeOK, FreeCell, Cells
  <1>2. Graph(heap)' = Graph(heap)
    <2>1. CASE heap' = heap
      BY <2>1 DEF Graph
    <2>2. CASE heap' = [heap EXCEPT ![next].buffer = Null]
      <3>1. heap' = [heap EXCEPT ![next] = [heap[next] EXCEPT !.buffer = Null]]
        BY <2>2, <1>1 DEF TypeOK
      <3>2. [heap[next] EXCEPT !.buffer = Null] \in Object
        BY <1>1 DEF Object
      <3>3. Graph(heap)' = [Graph(heap) EXCEPT ![next] = Children(heap[next])]
        <4>1. Graph([heap EXCEPT ![next] = [heap[next] EXCEPT !.buffer = Null]])
                = [Graph(heap) EXCEPT ![next] = Children([heap[next] EXCEPT !.buffer = Null])]
          BY <1>1, <3>2, GraphUpdate
        <4>2. Graph(heap)' = Graph([heap EXCEPT ![next] = [heap[next] EXCEPT !.buffer = Null]])
          BY <3>1 DEF Graph
        <4> QED
          BY <4>1, <4>2, <1>1, ChildrenOfBuffered
      <3> QED
        BY <3>3, <1>1 DEF Graph
    <2> QED
      BY <2>1, <2>2 DEF FreeCell
  <1>3. FreeCells' = FreeCells
    BY DEF FreeCell, FreeFails, FreeCells
  <1>4. RootCells' = RootCells
    BY DEF FreeCell, rootVars, RootCells, StackCells
  <1> QED
    BY <1>2, <1>3, <1>4 DEF Abstract!heapVars

\* At the end of the sweep the list holds GcHeap's free cells, and the request
\* that waited takes one of them.
LEMMA FinishSweepRefines ==
    ASSUME TypeOK, CollectorInv, FinishSweep
    PROVE  Abstract!Allocate \/ UNCHANGED Abstract!heapVars
  <1>1. \A c \in Cells : c < next
    BY ObjectsLengthAssumption DEF FinishSweep, TypeOK, Cells
  <1>2. FreeCells = Range(freeObjects)
    BY <1>1 DEF FinishSweep, CollectorInv, SweepInv, FreeCells
  <1>3. FreeCells' = Range(freeObjects')
    BY DEF FinishSweep, FreeCells
  <1>4. CASE /\ pending # Null
             /\ freeObjects # <<>>
             /\ TakeCell(pending)
    <2>1. pending \in Object /\ Children(pending) \subseteq Live
      BY <1>4 DEF TypeOK, CollectorInv, PendingInv
    <2> QED
      BY <1>2, <1>3, <1>4, <2>1, TakeCellAllocates DEF CollectorInv
  <1>5. CASE UNCHANGED <<heap, freeObjects, rootVars, allocated>>
    BY <1>2, <1>3, <1>5, Stutters DEF rootVars
  <1> QED
    BY <1>4, <1>5 DEF FinishSweep

LEMMA RefinementStep ==
    ASSUME ~DispatchCanFail, ~DuckLibMalloc
    PROVE  TypeOK /\ CollectorInv /\ [Next]_vars => [Abstract!HeapNext]_(Abstract!heapVars)
  <1> SUFFICES ASSUME TypeOK, CollectorInv, [Next]_vars
               PROVE  Abstract!HeapNext \/ UNCHANGED Abstract!heapVars
    OBVIOUS
  <1>1. CASE Client
    BY <1>1, ClientMutates DEF Abstract!HeapNext
  <1>2. CASE PushObject
    <2>1. PICK object \in Requests : TakeCell(object)
      BY <1>2 DEF PushObject
    <2>2. object \in Object /\ Children(object) \subseteq Live
      BY RequestType, RequestChildren
    <2>3. FreeCells = Range(freeObjects) /\ FreeCells' = Range(freeObjects')
      BY <1>2 DEF PushObject, gcVars, FreeCells
    <2> QED
      BY <1>2, <2>1, <2>2, <2>3, TakeCellAllocates
         DEF PushObject, CollectorInv, Abstract!HeapNext
  <1>3. CASE PushObjectCollects \/ GarbageCollect
    <2>1. FreeCells' = FreeCells /\ UNCHANGED <<heap, stack, rootPointers>>
      BY <1>3 DEF PushObjectCollects, GarbageCollect, StartCollection, FreeCells, rootVars
    <2> QED
      BY <2>1, Stutters
  <1>4. CASE ScanStack \/ ScanPointer \/ MarkObject \/ MarkDone
    <2>1. FreeCells' = FreeCells /\ UNCHANGED <<heap, stack, rootPointers>>
      BY <1>4 DEF ScanStack, ScanPointer, MarkObject, MarkDone, FreeCells, rootVars
    <2> QED
      BY <2>1, Stutters
  <1>5. CASE StackTraceFails \/ CellTraceFails
    BY <1>5 DEF StackTraceFails, CellTraceFails
  <1>6. CASE StartSweep
    BY <1>6, StartSweepCollects DEF Abstract!HeapNext
  <1>7. CASE KeepCell
    <2>1. FreeCells' = FreeCells /\ UNCHANGED <<heap, stack, rootPointers>>
      BY <1>7 DEF KeepCell, FreeCells, rootVars
    <2> QED
      BY <2>1, Stutters
  <1>8. CASE FreeCell
    BY <1>8, FreeCellStutters
  <1>9. CASE FinishSweep
    BY <1>9, FinishSweepRefines DEF Abstract!HeapNext
  <1>10. CASE UNCHANGED vars
    <2>1. FreeCells' = FreeCells /\ UNCHANGED <<heap, stack, rootPointers>>
      BY <1>10 DEF vars, FreeCells
    <2> QED
      BY <2>1, Stutters
  <1> QED
    BY <1>1, <1>2, <1>3, <1>4, <1>5, <1>6, <1>7, <1>8, <1>9, <1>10 DEF Next, Collector

\* The incremental collector of duckVM_gclist_garbageCollect, with the program
\* and pushObject between its collections, behaves like GcHeap, which collects
\* in one step and hands out only cells that nothing reaches: for every number
\* of cells and roots and every set of shapes, when the dispatch stack can always
\* grow and dl_free never refuses a block.
THEOREM CollectorImplementsHeap ==
    ASSUME ~DispatchCanFail, ~DuckLibMalloc
    PROVE  Spec => ImplementsGcHeap
  BY TypeInit, TypeStep, InvInit, InvStep, RefinementInit, RefinementStep, PTL
     DEF Spec, ImplementsGcHeap, Abstract!HeapSpec

-----------------------------------------------------------------------------
(* Who owns the buffers. *)

\* Every stack object a client links is the kind that holds no data of its own.
LEMMA LinkKinds ==
    ASSUME TypeOK, BuffersInv, NEW c \in Cells, Link(c)
    PROVE  \A i \in DOMAIN stack' : stack'[i].type # "user"
  <1>1. Handle(c).type # "user"
    BY DEF Handle
  <1>2. \A i \in DOMAIN stack : stack[i].type # "user"
    BY DEF BuffersInv
  <1>3. CASE stack' = Append(stack, Handle(c))
    BY <1>1, <1>2, <1>3, AppendProperties, HandleType DEF TypeOK
  <1>4. CASE \E i \in DOMAIN stack : stack' = [stack EXCEPT ![i] = Handle(c)]
    BY <1>1, <1>2, <1>4
  <1>5. CASE UNCHANGED stack
    BY <1>2, <1>5
  <1> QED
    BY <1>3, <1>4, <1>5 DEF Link

\* A request has no user data, and an object without a buffer brings none.
LEMMA RequestKinds ==
    ASSUME TypeOK, BuffersInv, \A shape \in Shapes : shape.type # "user",
           NEW object \in Requests
    PROVE  /\ object.type # "user"
           /\ object.type = "cell" => object.buffer = Null
  BY DEF Requests, BuffersInv

\* A pushObject gives the cell a fresh buffer or none at all.
LEMMA TakeCellBuffers ==
    ASSUME TypeOK, BuffersInv, ~DuckLibMalloc, freeObjects # <<>>,
           NEW object \in Object, TakeCell(object), object.type # "user",
           object.type = "cell" => object.buffer = Null
    PROVE  /\ CallerBlock \in allocated'
           /\ \A d \in Cells : heap'[d].buffer # Null =>
                  /\ heap'[d].buffer \in allocated' \ {CallerBlock}
                  /\ \A e \in Cells \ {d} : heap'[e].buffer # heap'[d].buffer
           /\ \A i \in DOMAIN stack' : stack'[i].type # "user"
  <1> DEFINE c == freeObjects[Len(freeObjects)]
  <1>1. c \in Cells
    BY PopProperties DEF TypeOK
  <1>2. Link(c) \/ UNCHANGED stack
    BY DEF TakeCell, rootVars
  <1>3. \E b \in (Blocks \ allocated) \cup {Null} :
            /\ heap' = [heap EXCEPT ![c] = [object EXCEPT !.buffer = b]]
            /\ allocated' = IF b = Null THEN allocated ELSE allocated \cup {b}
    <2>1. CASE ~NeedsBuffer(object) /\ UNCHANGED allocated
               /\ heap' = [heap EXCEPT ![c] = IF object.type = "array"
                              THEN [object EXCEPT !.buffer = Null] ELSE object]
      <3>1. object.type \in {"array", "cell"}
        BY <2>1 DEF NeedsBuffer, Object, Types
      <3>2. object.type = "cell" => object = [object EXCEPT !.buffer = Null]
        BY DEF Object
      <3>3. heap' = [heap EXCEPT ![c] = [object EXCEPT !.buffer = Null]]
        BY <2>1, <3>1, <3>2
      <3> QED
        BY <3>3, <2>1
    <2>2. CASE \E b \in Blocks \ allocated :
                   /\ heap' = [heap EXCEPT ![c] = [object EXCEPT !.buffer = b]]
                   /\ allocated' = allocated \cup {b}
      BY <2>2, NullAssumption
    <2>3. CASE UNCHANGED allocated /\ heap' = [heap EXCEPT ![c] = [object EXCEPT !.buffer =
                            IF DuckLibMalloc THEN @ ELSE Null]]
      BY <2>3
    <2> HIDE DEF c
    <2> QED
      BY <2>1, <2>2, <2>3 DEF TakeCell, c
  <1> HIDE DEF c
  <1>4. PICK b \in (Blocks \ allocated) \cup {Null} :
            /\ heap' = [heap EXCEPT ![c] = [object EXCEPT !.buffer = b]]
            /\ allocated' = IF b = Null THEN allocated ELSE allocated \cup {b}
    BY <1>3
  <1>5. /\ heap'[c].buffer = b
        /\ \A d \in Cells \ {c} : heap'[d].buffer = heap[d].buffer
    BY <1>1, <1>4 DEF TypeOK, Object
  <1>6. \A i \in DOMAIN stack' : stack'[i].type # "user"
    BY <1>1, <1>2, LinkKinds DEF BuffersInv
  <1> QED
    BY <1>1, <1>4, <1>5, <1>6 DEF BuffersInv

\* Nothing a client does without a pushObject moves a buffer.
LEMMA ClientBuffers ==
    ASSUME TypeOK, BuffersInv, Client, \A shape \in Shapes : shape.type # "user"
    PROVE  BuffersInv'
  <1>1. UNCHANGED <<allocated, pending>> /\ \A c \in Cells : heap'[c].buffer = heap[c].buffer
    <2>1. CASE Store
      <3>1. PICK c \in Live : \E k \in DOMAIN heap[c].refs, d \in Live \cup {Null} :
                                  heap' = [heap EXCEPT ![c].refs[k] = d]
        BY <2>1 DEF Store
      <3>2. c \in Cells /\ heap[c] \in Object
        BY LiveIsCells DEF TypeOK
      <3>3. \A e \in Cells : heap'[e].buffer = heap[e].buffer
        BY <3>1, <3>2 DEF TypeOK, Object
      <3> QED
        BY <2>1, <3>3 DEF Store, ClientStep, gcVars
    <2>2. CASE InitializeVector
      <3>1. PICK c \in Live, d \in Live \cup {Null} :
                heap' = [heap EXCEPT ![c].refs = [k \in DOMAIN @ |-> d],
                                     ![c].initialized = TRUE]
        BY <2>2 DEF InitializeVector
      <3>2. c \in Cells /\ heap[c] \in Object
        BY LiveIsCells DEF TypeOK
      <3>3. \A e \in Cells : heap'[e].buffer = heap[e].buffer
        BY <3>1, <3>2 DEF TypeOK, Object
      <3> QED
        BY <2>2, <3>3 DEF InitializeVector, ClientStep, gcVars
    <2>3. CASE Load \/ Pop \/ ClearPointer
      BY <2>3 DEF Load, Pop, ClearPointer, ClientStep, gcVars
    <2>4. ~PushUser
      BY DEF PushUser
    <2> QED
      BY <2>1, <2>2, <2>3, <2>4 DEF Client
  <1>2. \A i \in DOMAIN stack' : stack'[i].type # "user"
    <2>1. CASE Load
      <3>1. PICK c \in Cells : Link(c)
        BY <2>1, LiveIsCells DEF Load
      <3> QED
        BY <3>1, LinkKinds
    <2>2. CASE Pop
      <3>1. \A i \in DOMAIN stack' : i \in DOMAIN stack /\ stack'[i] = stack[i]
        BY <2>2, PopProperties, LenProperties DEF Pop, TypeOK
      <3> QED
        BY <3>1 DEF BuffersInv
    <2>3. CASE ClearPointer \/ Store \/ InitializeVector
      BY <2>3 DEF ClearPointer, Store, InitializeVector, rootVars, BuffersInv
    <2>4. ~PushUser
      BY DEF PushUser
    <2> QED
      BY <2>1, <2>2, <2>3, <2>4 DEF Client
  <1> QED
    BY <1>1, <1>2 DEF BuffersInv

\* The sweep gives back the buffer of a cell and clears the pointer to it.
LEMMA FreeCellBuffers ==
    ASSUME TypeOK, BuffersInv, ~DuckLibMalloc, FreeCell
    PROVE  BuffersInv'
  <1>1. next \in Cells /\ heap[next] \in Object
    BY ObjectsLengthAssumption DEF TypeOK, FreeCell, Cells
  <1>2. UNCHANGED <<stack, pending>>
    BY DEF FreeCell, FreeFails, rootVars
  <1>3. CASE FreesBuffer(heap[next])
    <2>1. /\ heap' = [heap EXCEPT ![next].buffer = Null]
          /\ allocated' = allocated \ {heap[next].buffer}
          /\ heap[next].buffer # Null
      BY <1>3 DEF FreeCell, FreesBuffer
    <2>2. /\ heap'[next].buffer = Null
          /\ \A d \in Cells \ {next} : heap'[d].buffer = heap[d].buffer
      BY <1>1, <2>1 DEF TypeOK, Object
    <2> QED
      BY <1>1, <1>2, <2>1, <2>2 DEF BuffersInv
  <1>4. CASE ~FreesBuffer(heap[next])
    BY <1>2, <1>4 DEF FreeCell, BuffersInv
  <1> QED
    BY <1>3, <1>4

LEMMA BuffersInit == Init => BuffersInv
  BY DEF Init, BuffersInv, EmptyObject

LEMMA BuffersStep ==
    ASSUME ~DuckLibMalloc, \A shape \in Shapes : shape.type # "user"
    PROVE  TypeOK /\ BuffersInv /\ [Next]_vars => BuffersInv'
  <1> SUFFICES ASSUME TypeOK, BuffersInv, [Next]_vars PROVE BuffersInv'
    OBVIOUS
  <1>1. CASE Client
    BY <1>1, ClientBuffers
  <1>2. CASE PushObject
    <2>1. PICK object \in Requests : TakeCell(object)
      BY <1>2 DEF PushObject
    <2>2. object \in Object /\ freeObjects # <<>> /\ UNCHANGED pending
      BY <1>2, RequestType DEF PushObject, gcVars
    <2> QED
      BY <2>1, <2>2, RequestKinds, TakeCellBuffers DEF BuffersInv
  <1>3. CASE PushObjectCollects
    <2>1. PICK object \in Requests : StartCollection(object)
      BY <1>3 DEF PushObjectCollects
    <2> QED
      BY <2>1, RequestKinds DEF StartCollection, rootVars, BuffersInv
  <1>4. CASE GarbageCollect
    BY <1>4 DEF GarbageCollect, StartCollection, rootVars, BuffersInv
  <1>5. CASE ScanStack \/ ScanPointer \/ MarkObject \/ MarkDone \/ StackTraceFails
             \/ CellTraceFails \/ StartSweep \/ KeepCell
    <2>1. UNCHANGED <<heap, stack, allocated, pending>>
      BY <1>5 DEF ScanStack, ScanPointer, MarkObject, MarkDone, StackTraceFails,
                  CellTraceFails, StartSweep, KeepCell, rootVars
    <2> QED
      BY <2>1 DEF BuffersInv
  <1>6. CASE FreeCell
    BY <1>6, FreeCellBuffers
  <1>7. CASE FinishSweep
    <2>1. pending' = Null
      BY <1>7 DEF FinishSweep
    <2>2. CASE pending # Null /\ freeObjects # <<>> /\ TakeCell(pending)
      <3>1. /\ pending \in Object
            /\ pending.type # "user"
            /\ pending.type = "cell" => pending.buffer = Null
        BY <2>2 DEF TypeOK, BuffersInv
      <3> QED
        BY <2>1, <2>2, <3>1, TakeCellBuffers DEF BuffersInv
    <2>3. CASE UNCHANGED <<heap, freeObjects, rootVars, allocated>>
      BY <2>1, <2>3 DEF BuffersInv, rootVars
    <2> QED
      BY <1>7, <2>2, <2>3 DEF FinishSweep
  <1>8. CASE UNCHANGED vars
    BY <1>8 DEF vars, BuffersInv
  <1> QED
    BY <1>1, <1>2, <1>3, <1>4, <1>5, <1>6, <1>7, <1>8 DEF Next, Collector

\* The sweep frees only what is allocated, not the caller's, and held by one cell
\* alone, whatever stale objects lie in free cells and however often marking ran
\* out of memory: with the system's malloc, and without user objects, whose data
\* the copies of one object share.
THEOREM BuffersAreOwned ==
    ASSUME ~DuckLibMalloc, \A shape \in Shapes : shape.type # "user"
    PROVE  Spec => []BuffersOwnedOnce
  <1>1. BuffersInv => BuffersOwnedOnce
    BY DEF BuffersInv, BuffersOwnedOnce, FreesBuffer
  <1> QED
    BY TypeInit, TypeStep, BuffersInit, BuffersStep, <1>1, PTL DEF Spec
=============================================================================
