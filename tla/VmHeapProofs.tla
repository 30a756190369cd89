---------------------------- MODULE VmHeapProofs ----------------------------
(***************************************************************************)
(* Proofs about VmHeap, for any number of cells, any atoms, any bounds and *)
(* any instructions but those that Sound leaves out.                       *)
(***************************************************************************)
EXTENDS VmHeap, HeapGraphLemmas, SequenceLemmas

-----------------------------------------------------------------------------
(* The heap and the stack. *)

StackValue == {v \in Values : v.type \in Stackable}

\* The cells an object points to are cells.
LEMMA ChildrenAreCells == \A v \in Values : Children(v) \subseteq Cells
  <1> SUFFICES ASSUME NEW v \in Values PROVE Children(v) \subseteq Cells
    OBVIOUS
  <1>1. Traced(v) \in Seq(Pointers)
    BY DEF Values, Traced
  <1> QED
    BY <1>1, RangeFacts DEF Children, Pointers

\* Only the table of an array that is not initialized is hidden from the collector.
LEMMA ChildrenAreRefs ==
    \A v : v.type # "array" \/ v.initialized => Children(v) = Range(v.refs) \ {Null}
  BY DEF Children, Traced

LEMMA HeapFacts ==
    ASSUME TypeOK
    PROVE  /\ \A c \in Cells : heap[c] \in Values
           /\ \A v \in StackValues : v \in Values /\ v.type \in Stackable
           /\ stack \in Seq(StackValue)
           /\ Len(stack) \in Nat
           /\ \A i \in 1 .. Len(stack) : stack[i] \in StackValue /\ stack[i] \in StackValues
           /\ Graph(heap) \in Graphs
           /\ StackCells \subseteq Cells
           /\ \A v \in StackValues : Children(v) \subseteq StackCells
  <1>1. stack \in Seq(StackValue)
    BY DEF TypeOK, StackValue
  <1>2. /\ \A v \in StackValues : v \in StackValue
        /\ Len(stack) \in Nat /\ DOMAIN stack = 1 .. Len(stack)
        /\ \A i \in 1 .. Len(stack) : stack[i] \in StackValue /\ stack[i] \in StackValues
        /\ \A v \in StackValues : \E i \in 1 .. Len(stack) : stack[i] = v
    BY <1>1, RangeFacts, SeqFacts DEF StackValues
  <1>3. \A c \in Cells : heap[c] \in Values
    BY DEF TypeOK
  <1>4. Graph(heap) \in Graphs
    BY <1>3, ChildrenAreCells DEF Graph, Graphs
  <1>5. \A v \in StackValue : v \in Values /\ v.type \in Stackable
    BY DEF StackValue
  <1>6. StackCells \subseteq Cells
    BY <1>2, <1>5, ChildrenAreCells DEF StackCells
  <1>7. \A v \in StackValues : Children(v) \subseteq StackCells
    BY <1>2 DEF StackCells
  <1> QED
    BY <1>1, <1>2, <1>3, <1>4, <1>5, <1>6, <1>7

\* What the stack holds is reachable, and so is what that points to.
LEMMA LiveFacts ==
    ASSUME TypeOK
    PROVE  /\ StackCells \subseteq Live
           /\ Live \subseteq Cells
           /\ \A c \in Live : Children(heap[c]) \subseteq Live
           /\ \A v \in StackValues : Children(v) \subseteq Live
  BY HeapFacts, ReachableClosed DEF Live, ClosedOver, Graph, Graphs

\* An object stays well-formed as long as the objects it points to keep their types.
LEMMA WellFormedKept ==
    ASSUME NEW v, NEW f, NEW g, NEW S, Children(v) \subseteq S,
           \A p \in S : g[p].type = f[p].type,
           WellFormed(f, v)
    PROVE  WellFormed(g, v)
  <1>1. ASSUME v.type # "array" \/ v.initialized, NEW types, Lead(f, v.refs, types)
        PROVE  Lead(g, v.refs, types)
    BY <1>1, ChildrenAreRefs DEF Lead
  <1> QED
    BY <1>1 DEF WellFormed

-----------------------------------------------------------------------------
(* What a step does to the heap: the cells of N, which were dead, hold new     *)
(* objects, and the live cells of T are overwritten.                           *)

Changes(N, T) ==
    /\ N \subseteq Cells /\ N \cap Live = {} /\ T \subseteq Live
    /\ heap' \in [Cells -> Values]
    /\ \A d \in Cells \ (N \cup T) : heap'[d] = heap[d]
    /\ \A d \in T : heap'[d].type = heap[d].type
    /\ \A d \in N \cup T : Children(heap'[d]) \subseteq Live \cup N
    /\ \A d \in N \cup T : WellFormed(heap', heap'[d])

\* What it pushes are objects that point to the new cells and the live ones.
Pushes(N) ==
    /\ stack' \in Seq(StackValue)
    /\ \A v \in Range(stack') \ StackValues :
           Children(v) \subseteq Live \cup N /\ WellFormed(heap', v)

LEMMA TypesKept ==
    ASSUME TypeOK, NEW N, NEW T, Changes(N, T)
    PROVE  \A p \in Live : heap'[p].type = heap[p].type
  BY LiveFacts DEF Changes

\* Nothing but new cells becomes reachable.
LEMMA WritesBound ==
    ASSUME TypeOK, NEW N, NEW T, Changes(N, T), Pushes(N)
    PROVE  /\ Graph(heap)' \in Graphs
           /\ StackCells' \subseteq Live \cup N
           /\ Live' \subseteq Live \cup N
  <1>1. Graph(heap)' \in Graphs
    BY ChildrenAreCells DEF Changes, Graph, Graphs
  <1>2. StackCells' \subseteq Live \cup N
    <2>1. \A i \in DOMAIN stack' : stack'[i] \in Range(stack')
      BY RangeFacts, SeqFacts DEF Pushes
    <2>2. \A v \in Range(stack') : Children(v) \subseteq Live \cup N
      BY LiveFacts DEF Pushes
    <2> QED
      BY <2>1, <2>2 DEF StackCells
  <1>3. \A c \in Cells : Graph(heap)[c] = Children(heap[c]) /\ Graph(heap)'[c] = Children(heap'[c])
    BY DEF Graph
  <1>4. \A c \in Live \cup N :
            Graph(heap)'[c] = Graph(heap)[c] \/ Graph(heap)'[c] \subseteq Live \cup N
    BY <1>3, LiveFacts DEF Changes
  <1>5. \A c \in N \ Live : Graph(heap)'[c] \subseteq Live \cup N
    BY <1>3 DEF Changes
  <1>6. Live \cup N \subseteq Cells /\ N \in SUBSET Cells
    BY LiveFacts DEF Changes
  <1> DEFINE G == Graph(heap)
             G2 == Graph(heap)'
             R == StackCells
             R2 == StackCells'
  <1>7. /\ G \in Graphs /\ R \in SUBSET Cells
        /\ G2 \in Graphs /\ R2 \in SUBSET Cells
        /\ Live = Reachable(G, R) /\ Live' = Reachable(G2, R2)
    BY <1>1, <1>2, <1>6, HeapFacts DEF Live
  <1> HIDE DEF G, G2, R, R2
  <1>8. /\ R2 \subseteq Reachable(G, R) \cup N
        /\ \A c \in Reachable(G, R) \cup N :
               G2[c] = G[c] \/ G2[c] \subseteq Reachable(G, R) \cup N
        /\ \A c \in N \ Reachable(G, R) : G2[c] \subseteq Reachable(G, R) \cup N
    BY <1>2, <1>4, <1>5, <1>7 DEF G, G2, R, R2
  <1>9. Reachable(G2, R2) \subseteq Reachable(G, R) \cup N
    BY <1>6, <1>7, <1>8, ReachableBounded
  <1> QED
    BY <1>1, <1>2, <1>7, <1>9

LEMMA WritesKeep ==
    ASSUME TypeOK, HeapInv, NEW N, NEW T, Changes(N, T), Pushes(N),
           free' \cap (Live \cup N) = {}
    PROVE  HeapInv'
  <1>1. Live' \subseteq Live \cup N
    BY WritesBound
  <1>2. FreeIsDead'
    BY <1>1 DEF FreeIsDead
  <1>3. \A c \in Live \cup N : WellFormed(heap', heap'[c])
    <2> SUFFICES ASSUME NEW c \in Live \cup N, c \notin N \cup T
                 PROVE  WellFormed(heap', heap'[c])
      BY DEF Changes
    <2>1. heap'[c] = heap[c] /\ WellFormed(heap, heap[c]) /\ Children(heap[c]) \subseteq Live
      BY LiveFacts DEF Changes, HeapInv
    <2>2. WellFormed(heap', heap[c])
      BY <2>1, TypesKept, WellFormedKept
    <2> QED
      BY <2>1, <2>2
  <1>4. \A v \in StackValues : WellFormed(heap', v)
    BY LiveFacts, TypesKept, WellFormedKept DEF HeapInv
  <1>5. \A v \in StackValues' : WellFormed(heap', v)
    BY <1>4 DEF Pushes, StackValues
  <1> QED
    BY <1>1, <1>2, <1>3, <1>5 DEF HeapInv

-----------------------------------------------------------------------------
(* What GcHeap says of such a step. *)

\* GcHeap's view of the heap is the instructions' own.
LEMMA SameHeap == Abstract!Cells = Cells /\ Abstract!Live = Live
  BY DEF Abstract!Live, Abstract!Reachable, Abstract!ClosedOver, Abstract!Cells,
         Live, Reachable, ClosedOver, Cells

LEMMA NewCellFacts ==
    ASSUME TypeOK, HeapInv, NEW c \in NewCell
    PROVE  c \in Available /\ c \in Cells /\ c \notin Live
  BY DEF NewCell, Available, TypeOK, HeapInv, FreeIsDead

\* An allocation is one of GcHeap's.
LEMMA Allocates ==
    ASSUME TypeOK, HeapInv, NEW c \in NewCell, NEW T, Changes({c}, T), Pushes({c}),
           \E t \in Live \cup {c} : T \subseteq {t},
           free' = Available \ {c}
    PROVE  HeapInv' /\ Abstract!Allocate
  <1>1. c \in Available /\ c \in Cells /\ c \notin Live
    BY NewCellFacts
  <1>2. HeapInv'
    <2>1. Available \cap Live = {}
      BY DEF Available, HeapInv, FreeIsDead
    <2> QED
      BY <2>1, WritesKeep
  <1>3. /\ Graph(heap)' \in Graphs
        /\ StackCells' \subseteq Live \cup {c}
    BY WritesBound
  <1>4. PICK t \in Live \cup {c} : T \subseteq {t}
    OBVIOUS
  <1>5. \A e \in Cells \ {c, t} : Graph(heap)'[e] = Graph(heap)[e]
    BY <1>4 DEF Graph, Changes
  <1>6. \A e \in {c, t} : Graph(heap)'[e] \subseteq Live \cup {c}
    <2> SUFFICES ASSUME NEW e \in {c, t}
                 PROVE  Graph(heap)'[e] \subseteq Live \cup {c}
      OBVIOUS
    <2>1. e \in Cells /\ Graph(heap)'[e] = Children(heap'[e])
      BY <1>1, LiveFacts DEF Graph
    <2>2. CASE e \in {c} \cup T
      BY <2>1, <2>2 DEF Changes
    <2>3. CASE e \notin {c} \cup T
      BY <2>1, <2>3, <1>1, LiveFacts DEF Changes
    <2> QED
      BY <2>2, <2>3
  <1>7. Available \in {free, Cells \ Live}
    BY DEF Available
  <1>8. Abstract!Allocate
    BY <1>1, <1>3, <1>4, <1>5, <1>6, <1>7, SameHeap DEF Abstract!Allocate, Graphs
  <1> QED
    BY <1>2, <1>8

\* A step that allocates nothing changes one live object or the stack.
LEMMA Mutates ==
    ASSUME TypeOK, HeapInv, NEW T, Changes({}, T), Pushes({}),
           T = {} \/ \E t \in Live : T = {t},
           free' = free
    PROVE  HeapInv' /\ Abstract!Mutate
  <1>1. HeapInv'
    BY WritesKeep DEF HeapInv, FreeIsDead
  <1>2. Graph(heap)' \in Graphs /\ StackCells' \subseteq Live
    BY WritesBound
  <1>3. \A e \in Cells \ T : Graph(heap)'[e] = Graph(heap)[e]
    BY DEF Graph, Changes
  <1>4. \A e \in T : Graph(heap)'[e] \subseteq Live
    BY LiveFacts DEF Graph, Changes
  <1>5. Abstract!Mutate
    BY <1>2, <1>3, <1>4, LiveFacts, SameHeap DEF Abstract!Mutate, Graphs
  <1> QED
    BY <1>1, <1>5

\* The heap stays as it is.
LEMMA WritesNothing ==
    ASSUME TypeOK, heap' = heap
    PROVE  Changes({}, {})
  BY DEF Changes, TypeOK

\* The stack stays as it is, or loses objects at its top.
LEMMA PushesNothing ==
    ASSUME TypeOK, NEW N,
           \/ stack' = stack
           \/ \E n \in 0 .. Len(stack) : stack' = SubSeq(stack, 1, n)
    PROVE  Pushes(N)
  <1>1. stack \in Seq(StackValue) /\ Len(stack) \in Nat
    BY HeapFacts
  <1>2. CASE stack' = stack
    BY <1>1, <1>2 DEF Pushes, StackValues
  <1>3. CASE \E n \in 0 .. Len(stack) : stack' = SubSeq(stack, 1, n)
    <2>1. PICK n \in 0 .. Len(stack) : stack' = SubSeq(stack, 1, n)
      BY <1>3
    <2>2. stack' \in Seq(StackValue) /\ Range(stack') \subseteq Range(stack)
      BY <1>1, <2>1, PrefixFacts
    <2> QED
      BY <2>2 DEF Pushes, StackValues
  <1> QED
    BY <1>2, <1>3

\* One more object is pushed, or the top one overwritten.
LEMMA PushesOne ==
    ASSUME TypeOK, NEW N, NEW v \in StackValue, Children(v) \subseteq Live \cup N,
           WellFormed(heap', v),
           \/ stack' = Append(stack, v)
           \/ \E i \in 1 .. Len(stack) : stack' = [stack EXCEPT ![i] = v]
    PROVE  Pushes(N)
  <1>1. stack \in Seq(StackValue) /\ Len(stack) \in Nat
    BY HeapFacts
  <1>2. stack' \in Seq(StackValue) /\ Range(stack') \subseteq Range(stack) \cup {v}
    <2>1. CASE stack' = Append(stack, v)
      BY <1>1, <2>1, AppendFacts
    <2>2. CASE \E i \in 1 .. Len(stack) : stack' = [stack EXCEPT ![i] = v]
      <3>1. PICK i \in 1 .. Len(stack) : stack' = [stack EXCEPT ![i] = v]
        BY <2>2
      <3> QED
        BY <1>1, <3>1, ExceptFacts
    <2> QED
      BY <2>1, <2>2
  <1> QED
    BY <1>2 DEF Pushes, StackValues

-----------------------------------------------------------------------------
(* The operands. *)

\* What is copied to the heap or the stack.
IsSound(v) ==
    /\ v \in StackValue
    /\ Children(v) \subseteq Live
    /\ WellFormed(heap, v)

\* A list's pointer leads to a pair.
IsOperand(v) == IsSound(v) /\ (IsList(v) => Lead(heap, v.refs, {"cons"}))

LEMMA StackIsSound ==
    ASSUME TypeOK, HeapInv, NEW v \in StackValues
    PROVE  IsSound(v)
  BY HeapFacts, LiveFacts DEF IsSound, HeapInv, StackValue

LEMMA UsableFacts ==
    ASSUME TypeOK, HeapInv, NEW v \in Usable
    PROVE  v \in StackValues /\ IsOperand(v)
  <1>1. v \in StackValues /\ IsSound(v)
    BY StackIsSound DEF Usable, StackValues
  <1>2. ASSUME IsList(v) PROVE Lead(heap, v.refs, {"cons"})
    <2>1. v = List(v.refs[1]) /\ v.type = "list" /\ v.refs \in Seq(Pointers) /\ Len(v.refs) = 1
      BY <1>1, <1>2 DEF IsList, IsSound, WellFormed, StackValue, Values
    <2>2. \A p \in Range(v.refs) : p = v.refs[1]
      BY <2>1, RangeFacts
    <2>3. v.type \notin Atoms
      BY <2>1, VmHeapAssumption
    <2> QED
      BY <2>1, <2>2, <2>3 DEF Usable, Lead
  <1> QED
    BY <1>1, <1>2 DEF IsOperand

LEMMA OperandFacts ==
    ASSUME TypeOK, HeapInv, OperandsInv, op.name # "idle", NEW k \in DOMAIN op.args
    PROVE  IsOperand(op.args[k])
  <1>1. PICK i \in 1 .. Len(stack) - Pushed : stack[i] = op.args[k]
    BY DEF OperandsInv
  <1>2. i \in 1 .. Len(stack)
    BY <1>1, HeapFacts DEF Pushed
  <1> QED
    BY <1>1, <1>2, HeapFacts, StackIsSound DEF OperandsInv, IsOperand

\* The operands stay on the stack and stay what they are while the instruction
\* writes above them.
LEMMA OperandsKept ==
    ASSUME TypeOK, HeapInv, OperandsInv, op.name # "idle",
           NEW N, NEW T, Changes(N, T),
           op'.name = op.name, op'.args = op.args,
           Pushed' <= Len(stack'), Len(stack') \in Nat,
           Len(stack) - Pushed <= Len(stack') - Pushed',
           op.name = "rest" => Len(stack) <= Len(stack'),
           \A i \in 1 .. Len(stack) - Pushed : stack'[i] = stack[i]
    PROVE  OperandsInv'
  <1>1. Len(stack) \in Nat /\ Pushed \in 0 .. 2 /\ Pushed' \in 0 .. 2
    BY HeapFacts DEF Pushed
  <1>2. \A k \in DOMAIN op.args :
            \E i \in 1 .. Len(stack') - Pushed' : stack'[i] = op.args[k]
    BY <1>1 DEF OperandsInv
  <1>3. ASSUME NEW k \in DOMAIN op.args, IsList(op.args[k])
        PROVE  Lead(heap', op.args[k].refs, {"cons"})
    <2>1. IsOperand(op.args[k]) /\ Lead(heap, op.args[k].refs, {"cons"})
      BY <1>3, OperandFacts DEF IsOperand
    <2>2. Range(op.args[k].refs) \ {Null} \subseteq Live
      BY <1>3, <2>1, ChildrenAreRefs DEF IsOperand, IsSound, IsList
    <2> QED
      BY <2>1, <2>2, TypesKept DEF Lead
  <1>4. op.name = "rest" => Len(op.args) <= Len(stack') - 2
    <2>1. TypeOK => Len(op.args) \in Nat
      BY SeqFacts DEF TypeOK
    <2> QED
      BY <1>1, <2>1 DEF OperandsInv
  <1> QED
    BY <1>2, <1>3, <1>4 DEF OperandsInv

\* Between two instructions there are no operands and nothing is half built.
LEMMA IdleKeeps ==
    ASSUME op' = Idle
    PROVE  OperandsInv' /\ ConsInv' /\ VectorInv' /\ InstanceInv' /\ RestInv'
  BY DEF Idle, OperandsInv, ConsInv, VectorInv, InstanceInv, RestInv

\* A step that completes nothing promises nothing.
LEMMA NoEventBuilds ==
    ASSUME event'.name \in {"none", "softReset"}
    PROVE  InstructionBuilds'
  BY DEF InstructionBuilds

LEMMA NoArgs == <<>> \in Seq(Values)
  BY EmptySeq

-----------------------------------------------------------------------------
(* What the readers find. *)

LEMMA PointerFacts ==
    ASSUME NEW p \in Pointers
    PROVE  /\ <<p>> \in Seq(Pointers) /\ Len(<<p>>) = 1 /\ <<p>>[1] = p
           /\ Range(<<p>>) = {p}
           /\ <<>> \in Seq(Pointers)
  BY DEF Range

\* A list made of a pointer.
LEMMA ListIsSound ==
    ASSUME TypeOK, NEW p \in Pointers,
           p # Null => p \in Live /\ heap[p].type \in Stackable \cup {"cons"}
    PROVE  IsSound(List(p)) /\ (p # Null => p \in Live)
  <1>1. /\ List(p).type = "list" /\ List(p).refs = <<p>> /\ List(p).hidden = <<>>
        /\ List(p).offset = 0 /\ List(p).initialized = TRUE
    BY DEF List, Value
  <1>2. List(p) \in StackValue
    BY <1>1, PointerFacts DEF StackValue, Values, List, Value, Stackable
  <1>3. Children(List(p)) = {p} \ {Null}
    <2>1. List(p).type # "array" /\ Range(List(p).refs) = {p}
      BY <1>1, PointerFacts
    <2> QED
      BY <2>1, ChildrenAreRefs
  <1>4. WellFormed(heap, List(p))
    BY <1>1, PointerFacts, VmHeapAssumption DEF WellFormed, Lead, Stackable, HeapTypes
  <1> QED
    BY <1>2, <1>3, <1>4 DEF IsSound

\* An object of the heap that may lie on the stack.
LEMMA CellIsSound ==
    ASSUME TypeOK, HeapInv, NEW c \in Live, heap[c].type \in Stackable
    PROVE  IsSound(heap[c])
  BY LiveFacts, HeapFacts DEF IsSound, StackValue, HeapInv

LEMMA TargetIsSound ==
    ASSUME TypeOK, HeapInv, NEW p \in Pointers,
           p # Null => p \in Live /\ heap[p].type \in Stackable \cup {"cons"}
    PROVE  IsSound(Target(p))
  <1>1. CASE p = Null \/ heap[p].type = "cons"
    BY <1>1, ListIsSound DEF Target
  <1>2. CASE p # Null /\ heap[p].type # "cons"
    BY <1>2, CellIsSound DEF Target
  <1> QED
    BY <1>1, <1>2

\* A pointer that is not null, of an object of type list, vector or composite.
LEMMA PointsInto ==
    ASSUME TypeOK, HeapInv, NEW v, IsSound(v), v.type \in {"list", "vector", "composite"},
           v.refs # <<Null>>, NEW types, Lead(heap, v.refs, types)
    PROVE  /\ v.refs \in Seq(Pointers) /\ v.refs = <<v.refs[1]>>
           /\ v.refs[1] \in Live
           /\ heap[v.refs[1]].type \in types
           /\ WellFormed(heap, heap[v.refs[1]])
           /\ heap[v.refs[1]] \in Values
  <1>1. v.refs \in Seq(Pointers) /\ Len(v.refs) = 1
    BY DEF IsSound, WellFormed, StackValue, Values
  <1>2. v.refs = <<v.refs[1]>> /\ v.refs[1] \in Pointers
    BY <1>1, SeqFacts
  <1>3. v.refs[1] # Null
    BY <1>2
  <1>4. v.refs[1] \in Range(v.refs)
    BY <1>1, RangeFacts
  <1>5. v.refs[1] \in Live
    BY <1>3, <1>4, ChildrenAreRefs DEF IsSound
  <1> QED
    BY <1>1, <1>2, <1>3, <1>4, <1>5, LiveFacts, HeapFacts DEF Lead, HeapInv

\* The pointers of a live object that is not a table under construction.
LEMMA PartsFacts ==
    ASSUME TypeOK, NEW c \in Live, heap[c].type # "array" \/ heap[c].initialized,
           NEW types, Lead(heap, heap[c].refs, types)
    PROVE  /\ heap[c].refs \in Seq(Pointers)
           /\ \A p \in Range(heap[c].refs) :
                  p \in Pointers /\ (p # Null => p \in Live /\ heap[p].type \in types)
  <1>1. heap[c].refs \in Seq(Pointers)
    BY LiveFacts, HeapFacts DEF Values
  <1>2. Range(heap[c].refs) \ {Null} \subseteq Live
    BY LiveFacts, ChildrenAreRefs
  <1> QED
    BY <1>1, <1>2, RangeFacts DEF Lead

LEMMA ListFacts ==
    ASSUME TypeOK, HeapInv, NEW v \in Lists
    PROVE  /\ v \in StackValues /\ IsSound(v)
           /\ v.refs[1] \in Live /\ v.refs = <<v.refs[1]>>
           /\ Pointed(v).type = "cons"
           /\ Pointed(v).refs \in Seq(Pointers) /\ Len(Pointed(v).refs) = 2
           /\ \A p \in Range(Pointed(v).refs) :
                  p \in Pointers /\ (p # Null => p \in Live /\ heap[p].type \in Stackable \cup {"cons"})
  <1>1. v \in Usable /\ v.type = "list" /\ v.refs # <<Null>>
    BY DEF Lists, Nils, IsList
  <1>2. v \in StackValues /\ IsSound(v) /\ Lead(heap, v.refs, {"cons"})
    BY <1>1, UsableFacts DEF IsOperand, IsList
  <1>3. /\ v.refs[1] \in Live /\ v.refs = <<v.refs[1]>>
        /\ Pointed(v).type = "cons"
        /\ WellFormed(heap, Pointed(v))
    <2>1. v.type \in {"list", "vector", "composite"} /\ v.refs # <<Null>>
      BY <1>1, <1>2
    <2>2. /\ v.refs[1] \in Live /\ v.refs = <<v.refs[1]>>
          /\ heap[v.refs[1]].type \in {"cons"}
          /\ WellFormed(heap, heap[v.refs[1]])
      BY <1>2, <2>1, PointsInto
    <2> QED
      BY <2>2 DEF Pointed
  <1>4. Len(Pointed(v).refs) = 2 /\ Lead(heap, Pointed(v).refs, Stackable \cup {"cons"})
    BY <1>3 DEF WellFormed
  <1> QED
    BY <1>2, <1>3, <1>4, PartsFacts DEF Pointed

LEMMA CompositeFacts ==
    ASSUME TypeOK, HeapInv, NEW v \in Composites
    PROVE  /\ v \in StackValues /\ IsSound(v)
           /\ v.refs[1] \in Live /\ v.refs = <<v.refs[1]>>
           /\ Pointed(v).type = "instance"
           /\ Pointed(v).refs \in Seq(Pointers) /\ Len(Pointed(v).refs) = 2
           /\ \A p \in Range(Pointed(v).refs) : p \in Live /\ heap[p].type \in Stackable
  <1>1. v \in Usable /\ v.type = "composite"
    BY DEF Composites
  <1>2. v \in StackValues /\ IsSound(v) /\ v.refs[1] # Null /\ Lead(heap, v.refs, {"instance"})
    BY <1>1, UsableFacts DEF IsOperand, IsSound, WellFormed
  <1>3. /\ v.refs[1] \in Live /\ v.refs = <<v.refs[1]>>
        /\ Pointed(v).type = "instance"
        /\ WellFormed(heap, Pointed(v))
    <2>1. v.type \in {"list", "vector", "composite"} /\ v.refs # <<Null>>
      BY <1>1, <1>2
    <2>2. /\ v.refs[1] \in Live /\ v.refs = <<v.refs[1]>>
          /\ heap[v.refs[1]].type \in {"instance"}
          /\ WellFormed(heap, heap[v.refs[1]])
      BY <1>2, <2>1, PointsInto
    <2> QED
      BY <2>2 DEF Pointed
  <1>4. Len(Pointed(v).refs) = 2 /\ Lead(heap, Pointed(v).refs, Stackable)
    BY <1>3 DEF WellFormed
  <1>5. Null \notin Range(Pointed(v).refs)
    BY <1>1, <1>2, VmHeapAssumption DEF Usable, Pointed
  <1> QED
    BY <1>2, <1>3, <1>4, <1>5, PartsFacts DEF Pointed

LEMMA VectorFacts ==
    ASSUME TypeOK, HeapInv, NEW v \in Vectors
    PROVE  /\ v \in StackValues /\ IsSound(v)
           /\ v.refs[1] \in Live /\ v.refs = <<v.refs[1]>> /\ v.offset \in Nat
           /\ Pointed(v).type = "array" /\ Pointed(v).initialized
           /\ Pointed(v).refs \in Seq(Pointers) /\ Len(Pointed(v).refs) \in 0 .. VectorBound
           /\ \A p \in Range(Pointed(v).refs) : p \in Live /\ heap[p].type \in Stackable
           /\ Elements(v) \in Seq(Pointers)
           /\ Range(Elements(v)) \subseteq Range(Pointed(v).refs)
           /\ Len(Elements(v)) <= Len(Pointed(v).refs)
           /\ Elements(v) # <<>> => Elements(v)[1] \in Range(Elements(v))
  <1>1. v \in Usable /\ v.type = "vector" /\ v.refs # <<Null>>
    BY DEF Vectors, Nils
  <1>2. v \in StackValues /\ IsSound(v) /\ Lead(heap, v.refs, {"array"}) /\ v.offset \in Nat
    BY <1>1, UsableFacts DEF IsOperand, IsSound, WellFormed, StackValue, Values
  <1>3. /\ v.refs[1] \in Live /\ v.refs = <<v.refs[1]>>
        /\ Pointed(v).type = "array"
        /\ WellFormed(heap, Pointed(v))
    <2>1. v.type \in {"list", "vector", "composite"} /\ v.refs # <<Null>>
      BY <1>1, <1>2
    <2>2. /\ v.refs[1] \in Live /\ v.refs = <<v.refs[1]>>
          /\ heap[v.refs[1]].type \in {"array"}
          /\ WellFormed(heap, heap[v.refs[1]])
      BY <1>2, <2>1, PointsInto
    <2> QED
      BY <2>2 DEF Pointed
  <1>4. Pointed(v).initialized
    <2>1. v.refs[1] # Null
      BY <1>1, <1>3
    <2> QED
      BY <1>1, <2>1, VmHeapAssumption DEF Usable, Pointed
  <1>5. /\ Len(Pointed(v).refs) <= VectorBound
        /\ Lead(heap, Pointed(v).refs, Stackable) /\ Null \notin Range(Pointed(v).refs)
    BY <1>3, <1>4 DEF WellFormed
  <1>6. /\ Pointed(v).refs \in Seq(Pointers)
        /\ \A p \in Range(Pointed(v).refs) : p \in Live /\ heap[p].type \in Stackable
    BY <1>3, <1>4, <1>5, PartsFacts DEF Pointed
  <1> DEFINE refs == Pointed(v).refs
             elements == Elements(v)
  <1>7. Len(refs) \in Nat
    BY <1>6, SeqFacts
  <1> HIDE DEF refs
  <1>8. /\ elements \in Seq(Pointers)
        /\ Len(elements) <= Len(refs)
        /\ Range(elements) \subseteq Range(refs)
    <2>1. refs \in Seq(Pointers) /\ elements = SubSeq(refs, v.offset + 1, Len(refs))
      BY <1>6 DEF refs, Elements
    <2>2. Len(elements) = IF v.offset < Len(refs) THEN Len(refs) - v.offset ELSE 0
      BY <1>2, <2>1, SuffixFacts
    <2>3. Len(elements) <= Len(refs)
      BY <1>2, <1>7, <2>2
    <2> QED
      BY <1>2, <2>1, <2>3, SuffixFacts
  <1> HIDE DEF elements
  <1>9. elements # <<>> => elements[1] \in Range(elements)
    <2>1. elements # <<>> => 1 \in 1 .. Len(elements)
      BY <1>8, SeqFacts
    <2> QED
      BY <1>8, <2>1, RangeFacts
  <1> QED
    BY <1>2, <1>3, <1>4, <1>5, <1>6, <1>7, <1>8, <1>9, VmHeapAssumption DEF refs, elements

\* A vector made of a pointer.
LEMMA VectorIsSound ==
    ASSUME TypeOK, NEW p \in Pointers, NEW offset \in Nat,
           p # Null => p \in Live /\ heap[p].type = "array",
           offset = 0 \/ "setCdrOfVector" \notin Instructions
    PROVE  IsSound(Vector(p, offset))
  <1> DEFINE w == Vector(p, offset)
  <1>1. /\ w.type = "vector" /\ w.refs = <<p>> /\ w.offset = offset /\ w.initialized
        /\ w \in Values
    BY PointerFacts DEF Vector, Value, Values, Stackable
  <1> HIDE DEF w
  <1>2. /\ w.type \in Stackable
        /\ w.type \notin Atoms \cup {"list", "cons", "composite", "instance", "array"}
    BY <1>1, VmHeapAssumption DEF Stackable
  <1>3. Range(w.refs) = {p} /\ Len(w.refs) = 1
    BY <1>1, PointerFacts
  <1>4. Children(w) \subseteq Live
    BY <1>2, <1>3, ChildrenAreRefs
  <1>5. Lead(heap, w.refs, {"array"})
    BY <1>3 DEF Lead
  <1>6. WellFormed(heap, w)
    BY <1>1, <1>2, <1>3, <1>5 DEF WellFormed
  <1> QED
    BY <1>1, <1>2, <1>4, <1>6 DEF IsSound, StackValue, w

\* A vector that starts further on in the same table.
LEMMA RestOfVector ==
    ASSUME TypeOK, HeapInv, Sound, NEW v \in Vectors, Len(Elements(v)) >= 2
    PROVE  IsSound(Vector(v.refs[1], v.offset + 1))
  <1>1. /\ v.refs[1] \in Live /\ heap[v.refs[1]].type = "array" /\ v.offset \in Nat
        /\ Len(Elements(v)) <= Len(Pointed(v).refs) /\ Len(Pointed(v).refs) \in 0 .. VectorBound
    BY VectorFacts DEF Pointed
  <1>2. Len(Elements(v)) \in Nat
    BY VectorFacts, SeqFacts
  <1>3. "setCdrOfVector" \notin Instructions
    BY <1>1, <1>2, VmHeapAssumption DEF Sound
  <1>4. v.refs[1] \in Pointers
    BY <1>1, LiveFacts DEF Pointers
  <1> QED
    BY <1>1, <1>3, <1>4, VectorIsSound

LEMMA NoVector ==
    ASSUME TypeOK
    PROVE  IsSound(Vector(Null, 0))
  BY VectorIsSound DEF Pointers

-----------------------------------------------------------------------------
(* What the writers do. *)

\* An object of the heap of that type may hold the pointer.
MayHold(objects, type, p) ==
    IF p = Null THEN type = "cons"
    ELSE objects[p].type \in Stackable \/ (type = "cons" /\ objects[p].type = "cons")

\* A live object of the heap that is not a table under construction.
Writable(t) ==
    /\ t \in Live
    /\ heap[t].type \in HeapTypes
    /\ heap[t].type = "array" => heap[t].initialized

SameTypes(objects) == \A d \in Live : objects[d].type = heap[d].type

\* One of its pointers is overwritten with one that may be there.
LEMMA Overwritten ==
    ASSUME TypeOK, HeapInv, NEW t, Writable(t), NEW p \in Pointers, SameTypes(heap'),
           MayHold(heap', heap[t].type, p),
           heap'[t] \in Values, heap'[t].type = heap[t].type,
           heap'[t].initialized = heap[t].initialized,
           Len(heap'[t].refs) = Len(heap[t].refs),
           Range(heap'[t].refs) \subseteq Range(heap[t].refs) \cup {p}
    PROVE  /\ heap'[t].initialized
           /\ Children(heap'[t]) \subseteq Live \cup {p}
           /\ WellFormed(heap', heap'[t])
  <1> DEFINE old == heap[t].refs
             w == heap'[t]
             refs == w.refs
  <1>1. /\ heap[t] \in Values /\ WellFormed(heap, heap[t]) /\ Children(heap[t]) \subseteq Live
        /\ heap[t].type \in HeapTypes
    BY LiveFacts, HeapFacts DEF HeapInv, Writable
  <1>2. heap[t].initialized
    BY <1>1 DEF WellFormed, Writable
  <1>3. Range(old) \ {Null} \subseteq Live
    BY <1>1, <1>2, ChildrenAreRefs
  <1>4. Children(w) \subseteq Live \cup {p}
    BY <1>2, <1>3, ChildrenAreRefs
  <1>5. \A d \in Live : heap'[d].type = heap[d].type
    BY DEF SameTypes
  <1>6. WellFormed(heap', w)
    <2>1. w.type \notin Atoms \cup {"list", "vector", "composite"}
      BY <1>1, VmHeapAssumption DEF HeapTypes
    <2>2. CASE heap[t].type = "cons"
      <3>1. Len(old) = 2 /\ Lead(heap, old, Stackable \cup {"cons"})
        BY <1>1, <2>2 DEF WellFormed
      <3>2. Lead(heap', refs, Stackable \cup {"cons"})
        BY <1>3, <1>5, <2>2, <3>1 DEF Lead, MayHold
      <3> QED
        BY <1>1, <1>2, <2>1, <2>2, <3>1, <3>2 DEF WellFormed
    <2>3. CASE heap[t].type = "instance"
      <3>1. Len(old) = 2 /\ Lead(heap, old, Stackable)
        BY <1>1, <2>3 DEF WellFormed
      <3>2. Lead(heap', refs, Stackable)
        BY <1>3, <1>5, <2>3, <3>1 DEF Lead, MayHold
      <3> QED
        BY <1>1, <1>2, <2>1, <2>3, <3>1, <3>2 DEF WellFormed
    <2>4. CASE heap[t].type = "array"
      <3>1. Len(old) <= VectorBound /\ Lead(heap, old, Stackable) /\ Null \notin Range(old)
        BY <1>1, <1>2, <2>4 DEF WellFormed
      <3>2. Lead(heap', refs, Stackable) /\ Null \notin Range(refs)
        BY <1>3, <1>5, <2>4, <3>1 DEF Lead, MayHold
      <3> QED
        BY <1>1, <1>2, <2>1, <2>4, <3>1, <3>2 DEF WellFormed
    <2> QED
      BY <1>1, <2>2, <2>3, <2>4 DEF HeapTypes
  <1> QED
    BY <1>2, <1>4, <1>6

\* The k-th pointer of t is overwritten, and the result of that.
Stores(t, k, p) == heap' = [heap EXCEPT ![t].refs[k] = p]

RefSet(t, k, p) ==
    /\ heap'[t].initialized
    /\ heap'[t].refs \in Seq(Pointers) /\ Len(heap'[t].refs) = Len(heap[t].refs)
    /\ heap'[t].refs[k] = p
    /\ \A j \in DOMAIN heap[t].refs : j # k => heap'[t].refs[j] = heap[t].refs[j]

\* An object with another pointer in its place.
LEMMA RefsReplaced ==
    ASSUME NEW o \in Values, NEW k \in DOMAIN o.refs, NEW p \in Pointers
    PROVE  LET w == [o EXCEPT !.refs[k] = p]
           IN  /\ w \in Values /\ w.type = o.type /\ w.initialized = o.initialized
               /\ w.refs[k] = p /\ \A j \in DOMAIN o.refs : j # k => w.refs[j] = o.refs[j]
               /\ Len(w.refs) = Len(o.refs)
               /\ Range(w.refs) \subseteq Range(o.refs) \cup {p}
  <1> DEFINE old == o.refs
             refs == [old EXCEPT ![k] = p]
             w == [o EXCEPT !.refs[k] = p]
  <1>1. old \in Seq(Pointers)
    BY DEF Values
  <1>2. k \in 1 .. Len(old)
    BY <1>1, SeqFacts
  <1>3. /\ refs \in Seq(Pointers) /\ Len(refs) = Len(old)
        /\ Range(refs) \subseteq Range(old) \cup {p}
        /\ refs[k] = p /\ \A j \in DOMAIN old : j # k => refs[j] = old[j]
    <2> HIDE DEF old
    <2> QED
      BY <1>1, <1>2, ExceptFacts, SeqFacts
  <1>4. w = [o EXCEPT !.refs = refs]
    BY DEF Values
  <1>5. w \in Values /\ w.type = o.type /\ w.refs = refs /\ w.initialized = o.initialized
    <2> HIDE DEF refs
    <2> QED
      BY <1>3, <1>4 DEF Values
  <1> HIDE DEF w
  <1> QED
    BY <1>3, <1>5 DEF w

\* A new cell holds an object that points to live cells.
LEMMA AllocEffect ==
    ASSUME TypeOK, HeapInv, NEW c \in NewCell, NEW v \in Values, Alloc(c, v),
           Children(v) \subseteq Live,
           \A g : (\A d \in Live : g[d].type = heap[d].type) => WellFormed(g, v)
    PROVE  Changes({c}, {}) /\ heap'[c] = v /\ free' = Available \ {c}
  <1>1. c \in Cells /\ c \notin Live
    BY NewCellFacts
  <1>2. heap \in [Cells -> Values]
    BY DEF TypeOK
  <1>3. heap' = [heap EXCEPT ![c] = v] /\ free' = Available \ {c}
    BY DEF Alloc
  <1>4. /\ heap' \in [Cells -> Values] /\ heap'[c] = v
        /\ \A d \in Cells \ {c} : heap'[d] = heap[d]
    BY <1>1, <1>2, <1>3
  <1>5. WellFormed(heap', v)
    BY <1>1, <1>4, LiveFacts
  <1> QED
    BY <1>1, <1>3, <1>4, <1>5 DEF Changes

\* A copy of v, that is linked to live object t.
LEMMA AllocIntoEffect ==
    ASSUME TypeOK, HeapInv, NEW c \in NewCell, NEW v, IsSound(v),
           NEW t, Writable(t),
           NEW k \in DOMAIN heap[t].refs,
           AllocInto(c, v, t, k)
    PROVE  /\ Changes({c}, {t})
           /\ heap'[c] = v /\ free' = Available \ {c}
           /\ RefSet(t, k, c)
  <1> DEFINE w == [heap[t] EXCEPT !.refs[k] = c]
  <1>1. c \in Cells /\ c \notin Live /\ t \in Cells /\ t # c
    BY NewCellFacts, LiveFacts DEF Writable
  <1>2. heap \in [Cells -> Values] /\ v \in Values /\ v.type \in Stackable
    BY DEF TypeOK, IsSound, StackValue
  <1>3. /\ heap' = [heap EXCEPT ![c] = v, ![t].refs[k] = c] /\ free' = Available \ {c}
    BY DEF AllocInto
  <1>4. /\ heap'[c] = v /\ heap'[t] = w
        /\ DOMAIN heap' = Cells
        /\ \A d \in Cells \ {c, t} : heap'[d] = heap[d]
    BY <1>1, <1>2, <1>3
  <1>5. c \in Pointers /\ c # Null
    BY <1>1, NullAssumption DEF Pointers
  <1>6. \A d \in Live \ {t} : heap'[d] = heap[d]
    BY <1>1, <1>4, LiveFacts
  <1>7. /\ w \in Values /\ w.type = heap[t].type /\ w.initialized = heap[t].initialized
        /\ w.refs[k] = c /\ \A j \in DOMAIN heap[t].refs : j # k => w.refs[j] = heap[t].refs[j]
        /\ Len(w.refs) = Len(heap[t].refs) /\ Range(w.refs) \subseteq Range(heap[t].refs) \cup {c}
    BY <1>1, <1>2, <1>5, RefsReplaced
  <1> HIDE DEF w
  <1>8. \A d \in Live : heap'[d].type = heap[d].type
    BY <1>4, <1>6, <1>7
  <1>9. /\ w.initialized
        /\ Children(w) \subseteq Live \cup {c} /\ WellFormed(heap', w)
    <2>1. MayHold(heap', heap[t].type, c)
      BY <1>2, <1>4, <1>5 DEF MayHold
    <2>2. SameTypes(heap')
      BY <1>8 DEF SameTypes
    <2> QED
      BY <1>4, <1>5, <1>7, <2>1, <2>2, Overwritten
  <1>10. heap' \in [Cells -> Values]
    <2>1. \A d \in Cells : heap'[d] \in Values
      BY <1>2, <1>4, <1>7
    <2> QED
      BY <1>2, <1>3, <1>4, <2>1
  <1>11. Children(v) \subseteq Live /\ WellFormed(heap', v)
    BY <1>8, WellFormedKept DEF IsSound
  <1>12. \A d \in {c} \cup {t} :
            Children(heap'[d]) \subseteq Live \cup {c} /\ WellFormed(heap', heap'[d])
    BY <1>4, <1>9, <1>11
  <1>13. Changes({c}, {t})
    BY <1>1, <1>4, <1>7, <1>10, <1>12 DEF Changes, Writable
  <1> QED
    BY <1>3, <1>4, <1>7, <1>9, <1>13 DEF RefSet, Values

\* A pointer of live object t is overwritten, and nothing is allocated.
LEMMA StoreEffect ==
    ASSUME TypeOK, HeapInv,
           NEW t, Writable(t),
           NEW k \in DOMAIN heap[t].refs, NEW p \in Pointers,
           Stores(t, k, p),
           p # Null => p \in Live, MayHold(heap, heap[t].type, p)
    PROVE  Changes({}, {t}) /\ RefSet(t, k, p)
  <1> DEFINE w == [heap[t] EXCEPT !.refs[k] = p]
  <1>1. t \in Cells /\ heap \in [Cells -> Values] /\ heap[t] \in Values
    BY LiveFacts DEF TypeOK, Writable
  <1>2. /\ heap'[t] = w /\ DOMAIN heap' = Cells
        /\ \A d \in Cells \ {t} : heap'[d] = heap[d]
    BY <1>1 DEF Stores
  <1>3. /\ w \in Values /\ w.type = heap[t].type /\ w.initialized = heap[t].initialized
        /\ w.refs[k] = p /\ \A j \in DOMAIN heap[t].refs : j # k => w.refs[j] = heap[t].refs[j]
        /\ Len(w.refs) = Len(heap[t].refs) /\ Range(w.refs) \subseteq Range(heap[t].refs) \cup {p}
    BY <1>1, RefsReplaced
  <1> HIDE DEF w
  <1>4. \A d \in Live : heap'[d].type = heap[d].type
    BY <1>2, <1>3, LiveFacts
  <1>5. /\ w.initialized
        /\ Children(w) \subseteq Live \cup {p} /\ WellFormed(heap', w)
    <2>1. MayHold(heap', heap[t].type, p)
      BY <1>4 DEF MayHold
    <2>2. SameTypes(heap')
      BY <1>4 DEF SameTypes
    <2> QED
      BY <1>2, <1>3, <2>1, <2>2, Overwritten
  <1>6. Null \notin Children(w)
    BY DEF Children
  <1>7. heap' \in [Cells -> Values]
    <2>1. \A d \in Cells : heap'[d] \in Values
      BY <1>1, <1>2, <1>3
    <2> QED
      BY <1>1, <1>2, <2>1 DEF Stores
  <1>8. \A d \in {} \cup {t} :
            Children(heap'[d]) \subseteq Live \cup {} /\ WellFormed(heap', heap'[d])
    BY <1>2, <1>5, <1>6
  <1>9. Changes({}, {t})
    BY <1>1, <1>2, <1>3, <1>7, <1>8 DEF Changes, Writable
  <1> QED
    BY <1>2, <1>3, <1>5, <1>9 DEF RefSet, Values

\* What a pointer leads to, and that it stays the object it was.
TargetIn(objects, p) ==
    IF p = Null \/ objects[p].type = "cons" THEN List(p) ELSE objects[p]

LEMMA TargetKept ==
    ASSUME TypeOK, HeapInv, NEW N, NEW T, Changes(N, T), NEW p,
           p # Null => p \in Live,
           p \in T => heap[p].type = "cons"
    PROVE  TargetIn(heap', p) = Target(p)
  <1>1. CASE p = Null
    BY <1>1 DEF Target, TargetIn
  <1>2. CASE p # Null /\ heap[p].type = "cons"
    BY <1>2, TypesKept DEF Target, TargetIn
  <1>3. CASE p # Null /\ heap[p].type # "cons"
    <2>1. p \in Cells \ (N \cup T)
      BY <1>3, LiveFacts DEF Changes
    <2> QED
      BY <1>3, <2>1 DEF Changes, Target, TargetIn
  <1> QED
    BY <1>1, <1>2, <1>3

\* An object is built when its pointers lead to the operands.
LEMMA BuiltWhen ==
    ASSUME event'.name \in {"cons", "makeInstance", "vector"},
           NEW t, event'.cell = t, heap'[t].initialized, Top'.refs = <<t>>,
           DOMAIN heap'[t].refs = DOMAIN event'.args,
           \A k \in DOMAIN event'.args : TargetIn(heap', heap'[t].refs[k]) = event'.args[k]
    PROVE  InstructionBuilds'
  <1>1. Holds(heap[event.cell].refs, event.args)'
    BY DEF Holds, Target, TargetIn
  <1> QED
    BY <1>1 DEF InstructionBuilds, Top

-----------------------------------------------------------------------------
(* The types after a step. *)

Operations ==
    [name : Names, args : Seq(Values), next : Nat \ {0}, length : Nat,
     target : Pointers, last : Pointers]

Events == [name : Names \cup {"none", "softReset"}, args : Seq(Values), cell : Pointers]

LEMMA TypeKept ==
    ASSUME TypeOK, NEW N, NEW T, Changes(N, T), Pushes(N),
           free' \subseteq Cells, upvalues' \in 0 .. Len(stack'),
           op' \in Operations, event' \in Events
    PROVE  TypeOK'
  BY DEF TypeOK, Changes, Pushes, StackValue, Operations, Events

LEMMA IdleFacts ==
    /\ Idle \in Operations /\ Idle.next = 1
    /\ NoEvent \in Events /\ NoEvent.name = "none"
  BY NoArgs DEF Idle, NoEvent, Operations, Events, Names, Pointers

\* Both stacks grow by one object.
LEMMA PushFacts ==
    ASSUME TypeOK, NEW N, NEW v \in StackValue, PushBoth(v),
           Children(v) \subseteq Live \cup N, WellFormed(heap', v)
    PROVE  /\ Pushes(N) /\ upvalues' \in 0 .. Len(stack')
           /\ Len(stack') = Len(stack) + 1 /\ Top' = v
           /\ \A i \in 1 .. Len(stack) : stack'[i] = stack[i]
  <1>1. stack \in Seq(StackValue) /\ Len(stack) \in Nat /\ upvalues \in 0 .. Len(stack)
    BY HeapFacts DEF TypeOK
  <1>2. Pushes(N)
    BY PushesOne DEF PushBoth
  <1>3. /\ Len(stack') = Len(stack) + 1 /\ stack'[Len(stack) + 1] = v
        /\ \A i \in 1 .. Len(stack) : stack'[i] = stack[i]
    BY <1>1, AppendFacts DEF PushBoth
  <1> QED
    BY <1>1, <1>2, <1>3 DEF PushBoth, Top

\* The top object is overwritten.
LEMMA SetTopFacts ==
    ASSUME TypeOK, NEW N, NEW v \in StackValue, SetTop(v), Len(stack) > 0,
           Children(v) \subseteq Live \cup N, WellFormed(heap', v)
    PROVE  /\ Pushes(N)
           /\ Len(stack') = Len(stack) /\ Top' = v
           /\ \A i \in 1 .. Len(stack) - 1 : stack'[i] = stack[i]
  <1>1. stack \in Seq(StackValue) /\ Len(stack) \in 1 .. Len(stack) /\ Len(stack) \in Nat
    BY HeapFacts
  <1>2. stack' = [stack EXCEPT ![Len(stack)] = v]
    BY DEF SetTop
  <1>3. Pushes(N)
    BY <1>1, <1>2, PushesOne
  <1>4. /\ Len(stack') = Len(stack) /\ stack'[Len(stack)] = v
        /\ \A i \in 1 .. Len(stack) : i # Len(stack) => stack'[i] = stack[i]
    BY <1>1, <1>2, ExceptFacts
  <1> QED
    BY <1>1, <1>3, <1>4 DEF Top

-----------------------------------------------------------------------------
(* What every action keeps, and what it is for GcHeap. *)

Keeps == InstructionInv' /\ [Abstract!HeapNext]_(Abstract!heapVars)

\* An action that ends its instruction, and completes nothing.
LEMMA EndKeeps ==
    ASSUME TypeOK, NEW N, NEW T, Changes(N, T), Pushes(N),
           free' \subseteq Cells, upvalues' \in 0 .. Len(stack'),
           op' = Idle, event' \in Events, event'.name \in {"none", "softReset"},
           HeapInv', Abstract!Allocate \/ Abstract!Mutate
    PROVE  Keeps
  <1>1. TypeOK'
    BY IdleFacts, TypeKept
  <1> QED
    BY <1>1, IdleKeeps, NoEventBuilds DEF Keeps, InstructionInv, Abstract!HeapNext

\* An object that was found is pushed.
LEMMA ReadKeeps ==
    ASSUME TypeOK, HeapInv, NEW v, IsSound(v), ReadPart(v), op' = Idle, event' = NoEvent
    PROVE  Keeps
  <1>1. heap' = heap /\ free' = free /\ PushBoth(v)
    BY DEF ReadPart
  <1>2. Changes({}, {})
    BY <1>1, WritesNothing
  <1>3. v \in StackValue /\ Children(v) \subseteq Live \cup {} /\ WellFormed(heap', v)
    BY <1>1 DEF IsSound
  <1>4. Pushes({}) /\ upvalues' \in 0 .. Len(stack')
    BY <1>1, <1>3, PushFacts
  <1>5. HeapInv' /\ Abstract!Mutate
    BY <1>1, <1>2, <1>4, Mutates
  <1>6. free' \subseteq Cells
    BY <1>1 DEF TypeOK
  <1> QED
    BY <1>2, <1>4, <1>5, <1>6, EndKeeps, IdleFacts

LEMMA OutOfMemoryKeeps ==
    ASSUME TypeOK, HeapInv, OutOfMemory
    PROVE  Keeps
  <1>1. UNCHANGED <<heap, free, stack, upvalues>> /\ op' = Idle /\ event' = NoEvent
    BY DEF OutOfMemory
  <1>2. Changes({}, {}) /\ Pushes({})
    BY <1>1, WritesNothing, PushesNothing
  <1>3. HeapInv' /\ Abstract!Mutate
    BY <1>1, <1>2, Mutates
  <1>4. free' \subseteq Cells /\ upvalues' \in 0 .. Len(stack')
    BY <1>1 DEF TypeOK
  <1> QED
    BY <1>1, <1>2, <1>3, <1>4, EndKeeps, IdleFacts

-----------------------------------------------------------------------------
(* Instructions that only move objects on the stack, and those that read.     *)

LEMMA PushKeeps ==
    ASSUME InstructionInv, Push
    PROVE  Keeps
  <1>1. PICK v \in {Value(a, <<>>) : a \in Atoms} \cup {List(Null)} : ReadPart(v)
    BY DEF Push, ReadPart
  <1>2. IsSound(v)
    <2>1. CASE v = List(Null)
      <3>1. Null \in Pointers
        BY DEF Pointers
      <3> QED
        BY <2>1, <3>1, ListIsSound DEF InstructionInv
    <2>2. CASE v \in {Value(a, <<>>) : a \in Atoms}
      <3>1. PICK a \in Atoms : v = Value(a, <<>>)
        BY <2>2
      <3>2. v.type = a /\ v.refs = <<>> /\ v.initialized /\ v \in Values
        BY <3>1, NullAssumption DEF Value, Values, Stackable
      <3>3. a \in Stackable /\ a \notin {"none", "list", "vector", "composite"} \cup HeapTypes
        BY VmHeapAssumption DEF Stackable
      <3>4. v.refs \in Seq(Pointers) /\ Range(v.refs) = {}
        BY <3>2, RangeFacts, SeqFacts DEF Values
      <3>5. Children(v) = {}
        BY <3>2, <3>4, ChildrenAreRefs
      <3>6. WellFormed(heap, v)
        BY <3>2, <3>3 DEF WellFormed, HeapTypes
      <3> QED
        BY <3>2, <3>3, <3>5, <3>6 DEF IsSound, StackValue
    <2> QED
      BY <1>1, <2>1, <2>2
  <1> QED
    BY <1>1, <1>2, ReadKeeps DEF InstructionInv, Push, OneStep

LEMMA PushIndexKeeps ==
    ASSUME InstructionInv, PushIndex
    PROVE  Keeps
  <1>1. PICK v \in Usable : ReadPart(v)
    BY DEF PushIndex, ReadPart
  <1>2. IsSound(v)
    BY UsableFacts DEF InstructionInv, IsOperand
  <1> QED
    BY <1>1, <1>2, ReadKeeps DEF InstructionInv, PushIndex, OneStep

\* Objects are popped.
LEMMA PopsKeep ==
    ASSUME InstructionInv, op' = Idle, event' \in Events, event'.name \in {"none", "softReset"},
           UNCHANGED <<heap, free>>, upvalues' \in 0 .. Len(stack'),
           stack' = stack \/ \E n \in 0 .. Len(stack) : stack' = SubSeq(stack, 1, n)
    PROVE  Keeps
  <1>1. TypeOK /\ HeapInv /\ free' \subseteq Cells
    BY DEF InstructionInv, TypeOK
  <1>2. Changes({}, {}) /\ Pushes({})
    BY <1>1, WritesNothing, PushesNothing
  <1>3. HeapInv' /\ Abstract!Mutate
    BY <1>1, <1>2, Mutates
  <1> QED
    BY <1>1, <1>2, <1>3, EndKeeps

LEMMA PopKeeps ==
    ASSUME InstructionInv, Pop
    PROVE  Keeps
  <1>1. upvalues \in 0 .. Len(stack) /\ upvalues > 0 /\ Len(stack) \in Nat
    BY HeapFacts DEF InstructionInv, TypeOK, Pop
  <1> DEFINE n == Len(stack) - 1
  <1>2. n \in 0 .. Len(stack) /\ stack' = SubSeq(stack, 1, n)
    BY <1>1 DEF Pop
  <1>3. Len(stack') = n
    <2>1. stack \in Seq(StackValue) /\ n \in Int /\ n <= Len(stack)
      BY <1>1, HeapFacts DEF InstructionInv
    <2>2. Len(SubSeq(stack, 1, n)) = IF 1 <= n THEN n ELSE 0
      <3> HIDE DEF n
      <3> QED
        BY <2>1, PrefixFacts
    <2>3. n \in Nat
      BY <1>1
    <2> HIDE DEF n
    <2> QED
      BY <1>2, <2>2, <2>3
  <1>4. upvalues' \in 0 .. Len(stack')
    BY <1>1, <1>3 DEF Pop
  <1> QED
    BY <1>2, <1>4, PopsKeep, IdleFacts DEF Pop

LEMMA SoftResetKeeps ==
    ASSUME InstructionInv, SoftReset
    PROVE  Keeps
  <1>1. upvalues \in 0 .. Len(stack) /\ Len(stack) \in Nat /\ stack \in Seq(StackValue)
    BY HeapFacts DEF InstructionInv, TypeOK
  <1>2. event' \in Events /\ event'.name = "softReset"
    BY NoArgs DEF SoftReset, NoEvent, Events, Pointers
  <1>3. CASE upvalues >= Len(stack)
    <2>1. stack' = <<>> /\ upvalues' = upvalues - Len(stack)
      BY <1>3 DEF SoftReset
    <2>2. 0 \in 0 .. Len(stack) /\ stack' = SubSeq(stack, 1, 0)
      <3>1. SubSeq(stack, 1, 0) = <<>>
        BY SubSeqEmpty
      <3> QED
        BY <1>1, <2>1, <3>1
    <2>3. upvalues' \in 0 .. Len(stack')
      BY <1>1, <1>3, <2>1
    <2> QED
      BY <1>2, <2>2, <2>3, PopsKeep DEF SoftReset
  <1>4. CASE ~(upvalues >= Len(stack))
    <2>1. stack' = stack /\ upvalues' = upvalues
      BY <1>4 DEF SoftReset, StacksStay
    <2> QED
      BY <1>1, <1>2, <2>1, PopsKeep DEF SoftReset
  <1> QED
    BY <1>3, <1>4

LEMMA CarKeeps ==
    ASSUME InstructionInv, Car
    PROVE  Keeps
  <1>1. TypeOK /\ HeapInv /\ op' = Idle /\ event' = NoEvent
    BY DEF InstructionInv, Car, OneStep
  <1>2. CASE \E v \in Nils : ReadPart(v)
    BY <1>1, <1>2, UsableFacts, ReadKeeps DEF Nils, IsOperand
  <1>3. CASE \E v \in Lists : ReadPart(Target(Pointed(v).refs[1]))
    <2>1. PICK v \in Lists : ReadPart(Target(Pointed(v).refs[1]))
      BY <1>3
    <2>2. Pointed(v).refs[1] \in Range(Pointed(v).refs)
      BY <1>1, ListFacts, RangeFacts
    <2>3. IsSound(Target(Pointed(v).refs[1]))
      BY <1>1, <2>2, ListFacts, TargetIsSound
    <2> QED
      BY <1>1, <2>1, <2>3, ReadKeeps
  <1>4. CASE \E v \in Vectors :
                 ReadPart(IF Elements(v) = <<>> THEN Vector(Null, 0)
                          ELSE heap[Elements(v)[1]])
    <2>1. PICK v \in Vectors :
              ReadPart(IF Elements(v) = <<>> THEN Vector(Null, 0)
                       ELSE heap[Elements(v)[1]])
      BY <1>4
    <2>2. Elements(v) # <<>> => IsSound(heap[Elements(v)[1]])
      <3>1. Elements(v) # <<>> => Elements(v)[1] \in Live /\ heap[Elements(v)[1]].type \in Stackable
        BY <1>1, VectorFacts
      <3> QED
        BY <1>1, <3>1, CellIsSound
    <2> QED
      BY <1>1, <2>1, <2>2, NoVector, ReadKeeps
  <1> QED
    BY <1>2, <1>3, <1>4 DEF Car

LEMMA CdrKeeps ==
    ASSUME InstructionInv, Sound, Cdr
    PROVE  Keeps
  <1>1. TypeOK /\ HeapInv /\ op' = Idle /\ event' = NoEvent
    BY DEF InstructionInv, Cdr, OneStep
  <1>2. CASE \E v \in Nils : ReadPart(v)
    BY <1>1, <1>2, UsableFacts, ReadKeeps DEF Nils, IsOperand
  <1>3. CASE \E v \in Lists : ReadPart(Target(Pointed(v).refs[2]))
    <2>1. PICK v \in Lists : ReadPart(Target(Pointed(v).refs[2]))
      BY <1>3
    <2>2. Pointed(v).refs[2] \in Range(Pointed(v).refs)
      BY <1>1, ListFacts, RangeFacts
    <2>3. IsSound(Target(Pointed(v).refs[2]))
      BY <1>1, <2>2, ListFacts, TargetIsSound
    <2> QED
      BY <1>1, <2>1, <2>3, ReadKeeps
  <1>4. CASE \E v \in Vectors :
                 ReadPart(IF Len(Elements(v)) < 2 THEN Vector(Null, 0)
                          ELSE Vector(v.refs[1], v.offset + 1))
    <2>1. PICK v \in Vectors :
              ReadPart(IF Len(Elements(v)) < 2 THEN Vector(Null, 0)
                       ELSE Vector(v.refs[1], v.offset + 1))
      BY <1>4
    <2>2. Len(Elements(v)) \in Nat
      BY <1>1, VectorFacts, SeqFacts
    <2>3. ~(Len(Elements(v)) < 2) => IsSound(Vector(v.refs[1], v.offset + 1))
      BY <1>1, <2>2, RestOfVector
    <2> QED
      BY <1>1, <2>1, <2>3, NoVector, ReadKeeps
  <1> QED
    BY <1>2, <1>3, <1>4 DEF Cdr

LEMMA GetVecEltKeeps ==
    ASSUME InstructionInv, GetVecElt
    PROVE  Keeps
  <1>1. TypeOK /\ HeapInv /\ op' = Idle /\ event' = NoEvent
    BY DEF InstructionInv, GetVecElt, OneStep
  <1>2. PICK v \in Vectors : \E p \in Range(Elements(v)) : ReadPart(heap[p])
    BY DEF GetVecElt
  <1>3. PICK p \in Range(Elements(v)) : ReadPart(heap[p])
    BY <1>2
  <1>4. p \in Live /\ heap[p].type \in Stackable
    BY <1>1, VectorFacts
  <1> QED
    BY <1>1, <1>3, <1>4, CellIsSound, ReadKeeps

\* The parts of a composite object.
LEMMA CompositePart ==
    ASSUME TypeOK, HeapInv, NEW v \in Composites, NEW k \in 1 .. 2
    PROVE  IsSound(heap[Pointed(v).refs[k]])
  <1>1. Pointed(v).refs[k] \in Range(Pointed(v).refs)
    BY CompositeFacts, RangeFacts
  <1> QED
    BY <1>1, CompositeFacts, CellIsSound

LEMMA CompositeReadsKeep ==
    ASSUME InstructionInv, CompositeValue \/ CompositeFunction
    PROVE  Keeps
  <1>1. TypeOK /\ HeapInv /\ op' = Idle /\ event' = NoEvent
    BY DEF InstructionInv, CompositeValue, CompositeFunction, OneStep
  <1>2. PICK v \in Composites, k \in 1 .. 2 : ReadPart(heap[Pointed(v).refs[k]])
    BY DEF CompositeValue, CompositeFunction
  <1> QED
    BY <1>1, <1>2, CompositePart, ReadKeeps

-----------------------------------------------------------------------------
(* Instructions that overwrite a pointer. *)

\* What is sound may be pushed after the heap has been written to.
LEMMA SoundKept ==
    ASSUME TypeOK, NEW N, NEW T, Changes(N, T), NEW v, IsSound(v)
    PROVE  v \in StackValue /\ Children(v) \subseteq Live \cup N /\ WellFormed(heap', v)
  BY TypesKept, WellFormedKept DEF IsSound

LEMMA SoundStays ==
    ASSUME NEW v, IsSound(v), SameTypes(heap')
    PROVE  Children(v) \subseteq Live /\ WellFormed(heap', v)
  BY WellFormedKept DEF IsSound, SameTypes

\* A step that writes to cell t, allocates cell c and pushes an object.
LEMMA WriteKeeps ==
    ASSUME TypeOK, HeapInv, NEW c \in NewCell, NEW t \in Live, Changes({c}, {t}),
           free' = Available \ {c}, NEW pushed, IsSound(pushed), PushBoth(pushed),
           op' = Idle, event' = NoEvent
    PROVE  Keeps
  <1>1. Pushes({c}) /\ upvalues' \in 0 .. Len(stack')
    BY SoundKept, PushFacts
  <1>2. HeapInv' /\ Abstract!Allocate
    BY <1>1, Allocates
  <1>3. free' \subseteq Cells
    BY DEF Available, TypeOK
  <1> QED
    BY <1>1, <1>2, <1>3, EndKeeps, IdleFacts

LEMMA StoreCopyKeeps ==
    ASSUME TypeOK, HeapInv, NEW v, IsSound(v), NEW t, Writable(t.refs[1]),
           NEW k \in DOMAIN heap[t.refs[1]].refs, NEW pushed, IsSound(pushed),
           StoreCopy(v, k, t, pushed), op' = Idle, event' = NoEvent
    PROVE  Keeps
  <1>1. PICK c \in NewCell : AllocInto(c, v, t.refs[1], k)
    BY DEF StoreCopy
  <1>2. PushBoth(pushed)
    BY DEF StoreCopy
  <1>3. Changes({c}, {t.refs[1]}) /\ free' = Available \ {c}
    BY <1>1, AllocIntoEffect
  <1> QED
    BY <1>2, <1>3, WriteKeeps DEF Writable

\* A step that writes to cell t, allocates nothing and pushes an object.
LEMMA MutateKeeps ==
    ASSUME TypeOK, HeapInv, NEW t \in Live, Changes({}, {t}), free' = free,
           NEW pushed, IsSound(pushed), PushBoth(pushed),
           op' = Idle, event' = NoEvent
    PROVE  Keeps
  <1>1. Pushes({}) /\ upvalues' \in 0 .. Len(stack')
    BY SoundKept, PushFacts
  <1>2. HeapInv' /\ Abstract!Mutate
    BY <1>1, Mutates
  <1>3. free' \subseteq Cells
    BY DEF TypeOK
  <1> QED
    BY <1>1, <1>2, <1>3, EndKeeps, IdleFacts

\* A list's own pointer is null or leads to a pair.
LEMMA ListPointer ==
    ASSUME TypeOK, HeapInv, NEW v, IsOperand(v), IsList(v)
    PROVE  /\ v = List(v.refs[1]) /\ v.refs[1] \in Pointers
           /\ v.refs[1] # Null => v.refs[1] \in Live /\ heap[v.refs[1]].type = "cons"
  <1>1. v = List(v.refs[1]) /\ v.refs \in Seq(Pointers) /\ Len(v.refs) = 1
    BY DEF IsOperand, IsSound, IsList, WellFormed, StackValue, Values
  <1>2. v.refs[1] \in Pointers /\ v.refs[1] \in Range(v.refs)
    BY <1>1, SeqFacts, RangeFacts
  <1>3. v.refs[1] # Null => heap[v.refs[1]].type = "cons"
    BY <1>2 DEF IsOperand, Lead
  <1>4. v.refs[1] # Null => v.refs[1] \in Children(v)
    BY <1>2, ChildrenAreRefs DEF IsList
  <1> QED
    BY <1>1, <1>2, <1>3, <1>4 DEF IsOperand, IsSound

LEMMA SetPairKeeps ==
    ASSUME TypeOK, HeapInv, NEW k \in 1 .. 2, SetPair(k), op' = Idle, event' = NoEvent
    PROVE  Keeps
  <1>1. PICK v \in Usable, t \in Lists :
            StorePointer(v, k, t) \/ (~IsList(v) /\ StoreCopy(v, k, t, t))
    BY DEF SetPair
  <1>2. IsOperand(v) /\ IsSound(v)
    BY UsableFacts DEF IsOperand
  <1>3. /\ IsSound(t) /\ t.refs[1] \in Live /\ heap[t.refs[1]].type = "cons"
        /\ heap[t.refs[1]].refs \in Seq(Pointers) /\ Len(heap[t.refs[1]].refs) = 2
    BY ListFacts DEF Pointed
  <1>4. Writable(t.refs[1]) /\ k \in DOMAIN heap[t.refs[1]].refs
    BY <1>3, SeqFacts DEF Writable, HeapTypes
  <1>5. CASE StorePointer(v, k, t)
    <2>1. /\ IsList(v) /\ PushBoth(t) /\ free' = free
          /\ Stores(t.refs[1], k, v.refs[1])
      BY <1>5 DEF StorePointer, Stores
    <2>2. v.refs[1] \in Pointers /\ (v.refs[1] # Null => v.refs[1] \in Live)
      BY <1>2, <2>1, ListPointer
    <2>3. MayHold(heap, heap[t.refs[1]].type, v.refs[1])
      BY <1>2, <1>3, <2>1, ListPointer DEF MayHold
    <2>4. Changes({}, {t.refs[1]})
      BY <1>4, <2>1, <2>2, <2>3, StoreEffect
    <2> QED
      BY <1>3, <2>1, <2>4, MutateKeeps
  <1>6. CASE ~IsList(v) /\ StoreCopy(v, k, t, t)
    BY <1>2, <1>3, <1>4, <1>6, StoreCopyKeeps
  <1> QED
    BY <1>1, <1>5, <1>6

LEMMA SetCdrKeeps ==
    ASSUME InstructionInv, SetCdr
    PROVE  Keeps
  BY SetPairKeeps DEF InstructionInv, SetCdr, OneStep

\* The table of a vector may be written to.
LEMMA TableFacts ==
    ASSUME TypeOK, HeapInv, NEW t \in Vectors
    PROVE  /\ IsSound(t) /\ t.refs[1] \in Live /\ Writable(t.refs[1]) /\ t.offset \in Nat
           /\ heap[t.refs[1]] \in Values /\ Pointed(t) = heap[t.refs[1]]
           /\ heap[t.refs[1]].type = "array" /\ heap[t.refs[1]].initialized
           /\ heap[t.refs[1]].refs \in Seq(Pointers)
  BY VectorFacts, LiveFacts, HeapFacts DEF Pointed, Writable, HeapTypes

\* An element that a set-cdr has hidden is overwritten.
LEMMA SetHiddenKeeps ==
    ASSUME TypeOK, HeapInv, NEW v, IsSound(v), NEW t \in Vectors,
           NEW h \in DOMAIN Pointed(t).hidden, NEW c \in NewCell,
           free' = Available \ {c},
           heap' = [heap EXCEPT ![c] = v, ![t.refs[1]].hidden[h] = c],
           PushBoth(t), op' = Idle, event' = NoEvent
    PROVE  Keeps
  <1> DEFINE a == t.refs[1]
             hidden == [heap[a].hidden EXCEPT ![h] = c]
             w == [heap[a] EXCEPT !.hidden[h] = c]
  <1>1. /\ IsSound(t) /\ a \in Live /\ Writable(a) /\ heap[a] \in Values
        /\ Pointed(t) = heap[a] /\ heap[a].type = "array" /\ heap[a].initialized
        /\ heap[a].refs \in Seq(Pointers)
    BY TableFacts
  <1>2. c \in Cells /\ c \notin Live /\ a \in Cells /\ c # a /\ c \in Pointers
    BY <1>1, NewCellFacts, LiveFacts DEF Pointers
  <1>3. heap \in [Cells -> Values] /\ v \in Values /\ v.type \in Stackable
    BY DEF TypeOK, IsSound, StackValue
  <1>4. hidden \in Seq(Pointers)
    <2>1. heap[a].hidden \in Seq(Pointers)
      BY <1>1 DEF Values
    <2>2. h \in 1 .. Len(heap[a].hidden)
      BY <1>1, <2>1, SeqFacts
    <2> QED
      BY <1>2, <2>1, <2>2, ExceptFacts
  <1>5. w = [heap[a] EXCEPT !.hidden = hidden]
    BY <1>1 DEF Values
  <1>6. /\ w \in Values /\ w.type = heap[a].type /\ w.initialized = heap[a].initialized
        /\ w.refs = heap[a].refs
    <2> HIDE DEF hidden
    <2> QED
      BY <1>1, <1>4, <1>5 DEF Values
  <1>7. /\ heap'[c] = v /\ heap'[a] = w /\ DOMAIN heap' = Cells
        /\ \A d \in Cells \ {c, a} : heap'[d] = heap[d]
    BY <1>2, <1>3
  <1> HIDE DEF w, a
  <1>8. \A d \in Live : heap'[d].type = heap[d].type
    <2>1. \A d \in Live \ {a} : heap'[d] = heap[d]
      BY <1>2, <1>7, LiveFacts
    <2> QED
      BY <1>6, <1>7, <2>1
  <1>9. Children(w) \subseteq Live \cup {c} /\ WellFormed(heap', w)
    <2>1. SameTypes(heap') /\ MayHold(heap', heap[a].type, c)
      BY <1>2, <1>3, <1>7, <1>8, NullAssumption DEF SameTypes, MayHold
    <2> QED
      BY <1>1, <1>2, <1>6, <1>7, <2>1, Overwritten
  <1>10. heap' \in [Cells -> Values]
    <2>1. \A d \in Cells : heap'[d] \in Values
      BY <1>3, <1>6, <1>7
    <2> QED
      BY <1>3, <1>7, <2>1
  <1>11. Children(v) \subseteq Live /\ WellFormed(heap', v)
    <2>1. SameTypes(heap')
      BY <1>8 DEF SameTypes
    <2> QED
      BY <2>1, SoundStays
  <1>12. \A d \in {c} \cup {a} :
            Children(heap'[d]) \subseteq Live \cup {c} /\ WellFormed(heap', heap'[d])
    BY <1>7, <1>9, <1>11
  <1>13. Changes({c}, {a})
    <2>1. \A d \in {a} : heap'[d].type = heap[d].type
      BY <1>6, <1>7
    <2>2. {c} \subseteq Cells /\ {c} \cap Live = {} /\ {a} \subseteq Live
      BY <1>1, <1>2
    <2>3. \A d \in Cells \ ({c} \cup {a}) : heap'[d] = heap[d]
      BY <1>7
    <2> QED
      BY <1>10, <1>12, <2>1, <2>2, <2>3 DEF Changes
  <1> QED
    BY <1>1, <1>13, WriteKeeps

LEMMA SetCarKeeps ==
    ASSUME InstructionInv, SetCar
    PROVE  Keeps
  <1>1. TypeOK /\ HeapInv /\ op' = Idle /\ event' = NoEvent
    BY DEF InstructionInv, SetCar, OneStep
  <1>2. CASE SetPair(1)
    BY <1>1, <1>2, SetPairKeeps
  <1>3. ASSUME NEW v \in Usable, NEW t \in Vectors,
               t.offset + 1 - Len(Pointed(t).refs) <= 0, StoreCopy(v, t.offset + 1, t, t)
        PROVE  Keeps
    <2>1. IsSound(v) /\ IsSound(t)
      BY <1>1, UsableFacts, TableFacts DEF IsOperand
    <2>2. Writable(t.refs[1]) /\ t.offset + 1 \in DOMAIN heap[t.refs[1]].refs
      <3>1. DOMAIN heap[t.refs[1]].refs = 1 .. Len(heap[t.refs[1]].refs) /\ Len(heap[t.refs[1]].refs) \in Nat
        BY <1>1, TableFacts, SeqFacts
      <3> QED
        BY <1>1, <1>3, <3>1, TableFacts
    <2> QED
      BY <1>1, <1>3, <2>1, <2>2, StoreCopyKeeps
  <1>4. ASSUME NEW v \in Usable, NEW t \in Vectors, NEW h \in DOMAIN Pointed(t).hidden,
               NEW c \in NewCell, free' = Available \ {c},
               heap' = [heap EXCEPT ![c] = v, ![t.refs[1]].hidden[h] = c], PushBoth(t)
        PROVE  Keeps
    BY <1>1, <1>4, UsableFacts, SetHiddenKeeps DEF IsOperand
  <1> QED
    BY <1>2, <1>3, <1>4 DEF SetCar

\* A set-cdr empties the vector, as far as Sound admits it.
LEMMA SetCdrOfVectorKeeps ==
    ASSUME InstructionInv, Sound, SetCdrOfVector
    PROVE  Keeps
  <1>1. /\ TypeOK /\ HeapInv /\ op' = Idle /\ event' = NoEvent
        /\ "setCdrOfVector" \in Instructions
    BY DEF InstructionInv, SetCdrOfVector, OneStep
  <1>2. PICK t \in Vectors :
          /\ LET table == Pointed(t).refs \o Pointed(t).hidden
             IN  heap' = [heap EXCEPT
                     ![t.refs[1]].refs = SubSeq(table, 1, t.offset),
                     ![t.refs[1]].hidden = SubSeq(table, t.offset + 1, Len(table))]
          /\ PushBoth(t)
          /\ UNCHANGED free
    BY DEF SetCdrOfVector
  <1> DEFINE a == t.refs[1]
             table == heap[a].refs \o heap[a].hidden
             hidden == SubSeq(table, 1, Len(table))
             w == [heap[a] EXCEPT !.refs = <<>>, !.hidden = hidden]
  <1>3. /\ IsSound(t) /\ a \in Live /\ Writable(a) /\ heap[a] \in Values
        /\ Pointed(t) = heap[a] /\ heap[a].type = "array" /\ heap[a].initialized
    BY <1>1, TableFacts
  <1>4. t.offset = 0
    <2>1. t.type = "vector"
      BY DEF Vectors
    <2> QED
      BY <1>1, <1>3, <2>1 DEF IsSound, WellFormed
  <1>5. hidden \in Seq(Pointers)
    <2>1. table \in Seq(Pointers)
      BY <1>3, ConcatProperties DEF Values
    <2>2. Len(table) \in Int
      BY <2>1, SeqFacts
    <2> HIDE DEF table
    <2> QED
      BY <2>1, <2>2, PrefixFacts
  <1>6. SubSeq(table, 1, t.offset) = <<>> /\ SubSeq(table, t.offset + 1, Len(table)) = hidden
    <2>1. SubSeq(table, 1, 0) = <<>>
      BY SubSeqEmpty
    <2> QED
      BY <1>4, <2>1
  <1> HIDE DEF hidden
  <1>7. heap' = [heap EXCEPT ![a].refs = <<>>, ![a].hidden = hidden]
    BY <1>2, <1>3, <1>6
  <1>8. a \in Cells /\ heap \in [Cells -> Values]
    BY <1>1, <1>3, LiveFacts DEF TypeOK
  <1>9. /\ heap'[a] = w /\ DOMAIN heap' = Cells
        /\ \A d \in Cells \ {a} : heap'[d] = heap[d]
    BY <1>7, <1>8
  <1>10. /\ w \in Values /\ w.type = "array" /\ w.initialized /\ w.refs = <<>>
    BY <1>3, <1>5, PointerFacts DEF Values, Pointers
  <1> HIDE DEF w, a
  <1>11. Len(w.refs) = 0 /\ Range(w.refs) = {}
    BY <1>10 DEF Range
  <1>12. Children(w) = {}
    BY <1>10, <1>11, ChildrenAreRefs
  <1>13. WellFormed(heap', w)
    <2>1. w.type \notin Atoms
      BY <1>10, VmHeapAssumption DEF HeapTypes
    <2> QED
      BY <1>10, <1>11, <2>1, VmHeapAssumption DEF WellFormed, Lead, HeapTypes
  <1>14. heap' \in [Cells -> Values]
    <2>1. \A d \in Cells : heap'[d] \in Values
      BY <1>8, <1>9, <1>10
    <2> QED
      BY <1>7, <1>8, <1>9, <2>1
  <1>15. Changes({}, {a})
    BY <1>3, <1>9, <1>10, <1>12, <1>13, <1>14 DEF Changes
  <1> QED
    BY <1>1, <1>2, <1>3, <1>15, MutateKeeps

LEMMA SetVecEltKeeps ==
    ASSUME InstructionInv, SetVecElt
    PROVE  Keeps
  <1>1. TypeOK /\ HeapInv /\ op' = Idle /\ event' = NoEvent
    BY DEF InstructionInv, SetVecElt, OneStep
  <1>2. PICK v \in Usable, t \in Vectors : \E k \in DOMAIN Pointed(t).refs : StoreCopy(v, k, t, v)
    BY DEF SetVecElt
  <1>3. PICK k \in DOMAIN Pointed(t).refs : StoreCopy(v, k, t, v)
    BY <1>2
  <1>4. IsSound(v) /\ Writable(t.refs[1]) /\ k \in DOMAIN heap[t.refs[1]].refs
    BY <1>1, UsableFacts, TableFacts DEF IsOperand
  <1> QED
    BY <1>1, <1>3, <1>4, StoreCopyKeeps

LEMMA SetCompositeKeeps ==
    ASSUME InstructionInv, SetCompositeValue \/ SetCompositeFunction
    PROVE  Keeps
  <1>1. TypeOK /\ HeapInv /\ op' = Idle /\ event' = NoEvent
    BY DEF InstructionInv, SetCompositeValue, SetCompositeFunction, OneStep
  <1>2. PICK v \in Usable, t \in Composites, k \in 1 .. 2 : StoreCopy(v, k, t, t)
    BY DEF SetCompositeValue, SetCompositeFunction
  <1>3. IsSound(v) /\ IsSound(t)
    BY <1>1, UsableFacts, CompositeFacts DEF IsOperand
  <1>4. Writable(t.refs[1]) /\ k \in DOMAIN heap[t.refs[1]].refs
    BY <1>1, CompositeFacts, SeqFacts DEF Pointed, Writable, HeapTypes
  <1> QED
    BY <1>1, <1>2, <1>3, <1>4, StoreCopyKeeps

-----------------------------------------------------------------------------
(* Instructions that build an object step by step. *)

OpFacts == op \in Operations /\ op.args \in Seq(Values) /\ Len(op.args) \in Nat
           /\ DOMAIN op.args = 1 .. Len(op.args) /\ op.name \in Names

LEMMA OperationFacts ==
    ASSUME TypeOK
    PROVE  OpFacts
  <1>1. op \in Operations
    BY DEF TypeOK, Operations
  <1>2. op.args \in Seq(Values)
    BY <1>1 DEF Operations
  <1>3. op.name \in Names
    BY <1>1 DEF Operations
  <1> QED
    BY <1>1, <1>2, <1>3, SeqFacts DEF OpFacts

\* The operands are chosen, and nothing else happens.
LEMMA BeginKeeps ==
    ASSUME InstructionInv,
           op' \in Operations, op'.next = 1,
           \A k \in DOMAIN op'.args : op'.args[k] \in Usable,
           \/ op'.name \in {"cons", "makeInstance"} /\ Len(op'.args) = 2
           \/ op'.name = "vector" /\ Len(op'.args) <= 1 /\ Len(op'.args) <= VectorBound
           \/ op'.name = "makeVector" /\ Len(op'.args) = 1 /\ op'.length <= VectorBound,
           event' = NoEvent,
           UNCHANGED <<heap, free, stack, upvalues>>
    PROVE  Keeps
  <1>1. TypeOK /\ HeapInv /\ free' \subseteq Cells /\ upvalues' \in 0 .. Len(stack')
    BY DEF InstructionInv, TypeOK
  <1>2. Changes({}, {}) /\ Pushes({})
    BY <1>1, WritesNothing, PushesNothing
  <1>3. HeapInv' /\ Abstract!Mutate
    BY <1>1, <1>2, Mutates
  <1>4. TypeOK'
    BY <1>1, <1>2, IdleFacts, TypeKept
  <1>5. OperandsInv'
    <2>1. op'.name # "rest" /\ Pushed' = 0 /\ Len(stack) \in Nat
      BY <1>1, HeapFacts DEF Pushed
    <2>2. \A k \in DOMAIN op'.args :
              /\ \E i \in 1 .. Len(stack) : stack[i] = op'.args[k]
              /\ IsList(op'.args[k]) => Lead(heap, op'.args[k].refs, {"cons"})
      BY <1>1, UsableFacts, HeapFacts, RangeFacts DEF IsOperand, StackValues
    <2> QED
      BY <2>1, <2>2 DEF OperandsInv
  <1>6. InstructionBuilds'
    BY IdleFacts, NoEventBuilds
  <1>7. ConsInv' /\ VectorInv' /\ InstanceInv' /\ RestInv'
    BY DEF ConsInv, VectorInv, InstanceInv, RestInv
  <1> QED
    BY <1>3, <1>4, <1>5, <1>6, <1>7 DEF Keeps, InstructionInv, Abstract!HeapNext

\* Operands that are chosen from the stack have their types.
LEMMA OperandTypes ==
    ASSUME TypeOK, NEW n \in Nat, NEW args \in Operands(n)
    PROVE  /\ args \in Seq(Values) /\ Len(args) = n
           /\ \A k \in DOMAIN args : args[k] \in Usable
  <1>1. Usable \subseteq Values
    BY HeapFacts DEF Usable, StackValues
  <1>2. args \in [1 .. n -> Values]
    BY <1>1 DEF Operands
  <1>3. args \in Seq(Values) /\ Len(args) = n
    BY <1>2, LenProperties, SeqDef
  <1> QED
    BY <1>3 DEF Operands

LEMMA BeginWithKeeps ==
    ASSUME InstructionInv, BeginCons \/ BeginMakeInstance
    PROVE  Keeps
  <1>1. PICK name \in {"cons", "makeInstance"} : BeginWith(name, 2)
    BY DEF BeginCons, BeginMakeInstance
  <1>2. PICK args \in Operands(2) : Begin(name, args)
    BY <1>1 DEF BeginWith
  <1>3. /\ op' = [Idle EXCEPT !.name = name, !.args = args] /\ event' = NoEvent
        /\ UNCHANGED <<heap, free, stack, upvalues>>
    BY <1>1, <1>2 DEF Begin, BeginWith, StacksStay
  <1>4. args \in Seq(Values) /\ Len(args) = 2 /\ \A k \in DOMAIN args : args[k] \in Usable
    BY OperandTypes DEF InstructionInv
  <1>5. op' \in Operations /\ op'.next = 1 /\ op'.name = name /\ op'.args = args
    <2>1. name \in Names
      BY DEF Names
    <2> QED
      BY <1>3, <1>4, <2>1, IdleFacts DEF Operations
  <1> QED
    BY <1>3, <1>4, <1>5, BeginKeeps

LEMMA BeginVectorKeeps ==
    ASSUME InstructionInv, Sound, BeginVector
    PROVE  Keeps
  <1>1. PICK n \in 0 .. VectorBound : \E args \in Operands(n) : Begin("vector", args)
    BY DEF BeginVector
  <1>2. PICK args \in Operands(n) : Begin("vector", args)
    BY <1>1
  <1>3. /\ op' = [Idle EXCEPT !.name = "vector", !.args = args] /\ event' = NoEvent
        /\ UNCHANGED <<heap, free, stack, upvalues>> /\ "vector" \in Instructions
    BY <1>2 DEF Begin, BeginVector, StacksStay
  <1>4. n \in Nat /\ n <= VectorBound /\ n <= 1
    BY <1>3, VmHeapAssumption DEF Sound
  <1>5. args \in Seq(Values) /\ Len(args) = n /\ \A k \in DOMAIN args : args[k] \in Usable
    BY <1>4, OperandTypes DEF InstructionInv
  <1>6. op' \in Operations /\ op'.next = 1 /\ op'.name = "vector" /\ op'.args = args
    <2>1. "vector" \in Names
      BY DEF Names
    <2> QED
      BY <1>3, <1>5, <2>1, IdleFacts DEF Operations
  <1> QED
    BY <1>3, <1>4, <1>5, <1>6, BeginKeeps

LEMMA BeginMakeVectorKeeps ==
    ASSUME InstructionInv, BeginMakeVector
    PROVE  Keeps
  <1>1. PICK v \in Usable, n \in 0 .. VectorBound :
            op' = [Idle EXCEPT !.name = "makeVector", !.args = <<v>>, !.length = n]
    BY DEF BeginMakeVector
  <1>2. n \in Nat /\ n <= VectorBound
    BY VmHeapAssumption
  <1>3. v \in Values
    BY HeapFacts DEF InstructionInv, Usable, StackValues
  <1>4. <<v>> \in Seq(Values) /\ Len(<<v>>) = 1 /\ \A k \in DOMAIN <<v>> : <<v>>[k] \in Usable
    BY <1>3
  <1>5. /\ op' \in Operations /\ op'.next = 1 /\ op'.name = "makeVector" /\ op'.args = <<v>>
        /\ op'.length = n
    <2>1. "makeVector" \in Names
      BY DEF Names
    <2> QED
      BY <1>1, <1>2, <1>4, <2>1, IdleFacts DEF Operations
  <1> QED
    BY <1>2, <1>4, <1>5, BeginKeeps DEF BeginMakeVector

-----------------------------------------------------------------------------
(* The objects that instructions make. *)

LEMMA ListAfter ==
    ASSUME NEW p \in Pointers, p # Null => heap'[p].type \in Stackable \cup {"cons"}
    PROVE  /\ List(p) \in StackValue /\ Children(List(p)) = {p} \ {Null}
           /\ WellFormed(heap', List(p))
  <1>1. /\ List(p).type = "list" /\ List(p).refs = <<p>> /\ List(p).hidden = <<>>
        /\ List(p).offset = 0 /\ List(p).initialized = TRUE
    BY DEF List, Value
  <1>2. List(p) \in StackValue
    BY <1>1, PointerFacts DEF StackValue, Values, List, Value, Stackable
  <1>3. List(p).type # "array" /\ Range(List(p).refs) = {p}
    BY <1>1, PointerFacts
  <1>4. Children(List(p)) = {p} \ {Null}
    BY <1>3, ChildrenAreRefs
  <1>5. WellFormed(heap', List(p))
    BY <1>1, PointerFacts, VmHeapAssumption DEF WellFormed, Lead, Stackable, HeapTypes
  <1> QED
    BY <1>2, <1>4, <1>5

LEMMA VectorAfter ==
    ASSUME NEW p \in Cells, heap'[p].type = "array"
    PROVE  /\ Vector(p, 0) \in StackValue /\ Children(Vector(p, 0)) = {p}
           /\ WellFormed(heap', Vector(p, 0)) /\ Vector(p, 0).refs = <<p>>
  <1> DEFINE w == Vector(p, 0)
  <1>1. p \in Pointers /\ p # Null
    BY NullAssumption DEF Pointers
  <1>2. /\ w.type = "vector" /\ w.refs = <<p>> /\ w.offset = 0 /\ w.initialized
        /\ w \in Values
    BY <1>1, PointerFacts DEF Vector, Value, Values, Stackable
  <1> HIDE DEF w
  <1>3. /\ w.type \in Stackable
        /\ w.type \notin Atoms \cup {"list", "cons", "composite", "instance", "array"}
    BY <1>2, VmHeapAssumption DEF Stackable
  <1>4. Range(w.refs) = {p} /\ Len(w.refs) = 1
    BY <1>1, <1>2, PointerFacts
  <1>5. Children(w) = {p}
    BY <1>1, <1>3, <1>4, ChildrenAreRefs
  <1>6. WellFormed(heap', w)
    BY <1>2, <1>3, <1>4 DEF WellFormed, Lead
  <1> QED
    BY <1>2, <1>3, <1>5, <1>6 DEF StackValue, w

LEMMA CompositeAfter ==
    ASSUME NEW p \in Cells, heap'[p].type = "instance"
    PROVE  LET w == Value("composite", <<p>>)
           IN  /\ w \in StackValue /\ Children(w) = {p}
               /\ WellFormed(heap', w) /\ w.refs = <<p>>
  <1> DEFINE w == Value("composite", <<p>>)
  <1>1. p \in Pointers /\ p # Null
    BY NullAssumption DEF Pointers
  <1>2. w.type = "composite" /\ w.refs = <<p>> /\ w.initialized /\ w \in Values
    BY <1>1, PointerFacts DEF Value, Values, Stackable
  <1> HIDE DEF w
  <1>3. /\ w.type \in Stackable
        /\ w.type \notin Atoms \cup {"list", "cons", "vector", "instance", "array"}
    BY <1>2, VmHeapAssumption DEF Stackable
  <1>4. Range(w.refs) = {p} /\ Len(w.refs) = 1 /\ w.refs[1] = p
    BY <1>1, <1>2, PointerFacts
  <1>5. Children(w) = {p}
    BY <1>1, <1>3, <1>4, ChildrenAreRefs
  <1>6. WellFormed(heap', w)
    BY <1>1, <1>2, <1>3, <1>4 DEF WellFormed, Lead
  <1> QED
    BY <1>2, <1>3, <1>5, <1>6 DEF StackValue, w

\* The dummy pair and the empty instance.
LEMMA PairIsFresh ==
    ASSUME NEW type \in {"cons", "instance"}
    PROVE  LET w == Value(type, <<Null, Null>>)
           IN  /\ w \in Values /\ w.type = type /\ Children(w) = {}
               /\ \A g : WellFormed(g, w)
  <1> DEFINE w == Value(type, <<Null, Null>>)
  <1>1. <<Null, Null>> \in Seq(Pointers) /\ Len(<<Null, Null>>) = 2 /\ Range(<<Null, Null>>) = {Null}
    BY DEF Pointers, Range
  <1>2. w.type = type /\ w.refs = <<Null, Null>> /\ w.initialized /\ w \in Values
    BY <1>1, NoArgs, PointerFacts DEF Value, Values, HeapTypes, Pointers
  <1> HIDE DEF w
  <1>3. w.type \in HeapTypes /\ w.type \notin Atoms \cup {"list", "vector", "composite", "array"}
    BY <1>2, VmHeapAssumption DEF HeapTypes
  <1>4. Range(w.refs) = {Null} /\ Len(w.refs) = 2
    BY <1>1, <1>2
  <1>5. Children(w) = {}
    BY <1>3, <1>4, ChildrenAreRefs
  <1>6. \A g : WellFormed(g, w)
    BY <1>2, <1>3, <1>4 DEF WellFormed, Lead
  <1> QED
    BY <1>2, <1>5, <1>6 DEF w

\* The table of a vector under construction.
LEMMA TableIsFresh ==
    ASSUME NEW n \in Nat, n <= VectorBound
    PROVE  LET w == Array(Nulls(n), FALSE)
           IN  /\ w \in Values /\ w.type = "array" /\ w.initialized = FALSE
               /\ w.refs = Nulls(n) /\ Children(w) = {}
               /\ \A g : WellFormed(g, w)
  <1> DEFINE w == Array(Nulls(n), FALSE)
  <1>1. Nulls(n) \in Seq(Pointers) /\ Len(Nulls(n)) = n
    <2>1. Nulls(n) \in [1 .. n -> Pointers]
      BY DEF Nulls, Pointers
    <2> QED
      BY <2>1, LenProperties, SeqDef
  <1>2. /\ w.type = "array" /\ w.refs = Nulls(n) /\ w.initialized = FALSE /\ w \in Values
    <2> HIDE DEF Nulls
    <2> QED
      BY <1>1, NoArgs, PointerFacts DEF Array, Value, Values, HeapTypes, Pointers
  <1> HIDE DEF w
  <1>3. Traced(w) = <<>>
    BY <1>2 DEF Traced
  <1>4. Children(w) = {}
    BY <1>3 DEF Children, Range
  <1>5. \A g : WellFormed(g, w)
    BY <1>1, <1>2, VmHeapAssumption DEF WellFormed, HeapTypes
  <1> QED
    BY <1>2, <1>4, <1>5 DEF w

-----------------------------------------------------------------------------
(* Steps in the middle and at the end of such an instruction. *)

\* The cells a step may write to: those of one allocation, or none, and one that was
\* there before.
Grants(N, T) ==
    \/ N = {} /\ free' = free /\ (T = {} \/ \E t \in Live : T = {t})
    \/ \E c \in NewCell :
           N = {c} /\ free' = Available \ {c} /\ \E t \in Live \cup {c} : T \subseteq {t}

LEMMA GrantKeeps ==
    ASSUME TypeOK, HeapInv, NEW N, NEW T, Changes(N, T), Pushes(N), Grants(N, T)
    PROVE  HeapInv' /\ (Abstract!Allocate \/ Abstract!Mutate) /\ free' \subseteq Cells
  <1>1. CASE N = {} /\ free' = free /\ (T = {} \/ \E t \in Live : T = {t})
    BY <1>1, Mutates DEF TypeOK
  <1>2. CASE \E c \in NewCell :
                 N = {c} /\ free' = Available \ {c} /\ \E t \in Live \cup {c} : T \subseteq {t}
    <2>1. PICK c \in NewCell :
              N = {c} /\ free' = Available \ {c} /\ \E t \in Live \cup {c} : T \subseteq {t}
      BY <1>2
    <2>2. HeapInv' /\ Abstract!Allocate
      BY <2>1, Allocates
    <2> QED
      BY <2>1, <2>2 DEF Available, TypeOK
  <1> QED
    BY <1>1, <1>2 DEF Grants

LEMMA ContinueKeeps ==
    ASSUME InstructionInv, op.name # "idle",
           NEW N, NEW T, Changes(N, T), Pushes(N), Grants(N, T),
           op' \in Operations, op'.name = op.name, op'.args = op.args, event' = NoEvent,
           upvalues' \in 0 .. Len(stack'),
           Pushed' <= Len(stack'), Len(stack') \in Nat,
           Len(stack) - Pushed <= Len(stack') - Pushed',
           op.name = "rest" => Len(stack) <= Len(stack'),
           \A i \in 1 .. Len(stack) - Pushed : stack'[i] = stack[i],
           ConsInv', VectorInv', InstanceInv', RestInv'
    PROVE  Keeps
  <1>1. TypeOK /\ HeapInv /\ OperandsInv
    BY DEF InstructionInv
  <1>2. HeapInv' /\ (Abstract!Allocate \/ Abstract!Mutate) /\ free' \subseteq Cells
    BY <1>1, GrantKeeps
  <1>3. TypeOK'
    BY <1>1, <1>2, IdleFacts, TypeKept
  <1>4. OperandsInv'
    BY <1>1, OperandsKept
  <1>5. InstructionBuilds'
    BY IdleFacts, NoEventBuilds
  <1> QED
    BY <1>2, <1>3, <1>4, <1>5 DEF Keeps, InstructionInv, Abstract!HeapNext

LEMMA FinishKeeps ==
    ASSUME InstructionInv,
           NEW N, NEW T, Changes(N, T), Pushes(N), Grants(N, T),
           op' = Idle, event' \in Events, upvalues' \in 0 .. Len(stack'),
           InstructionBuilds'
    PROVE  Keeps
  <1>1. TypeOK /\ HeapInv
    BY DEF InstructionInv
  <1>2. HeapInv' /\ (Abstract!Allocate \/ Abstract!Mutate) /\ free' \subseteq Cells
    BY <1>1, GrantKeeps
  <1>3. TypeOK'
    BY <1>1, <1>2, IdleFacts, TypeKept
  <1> QED
    BY <1>2, <1>3, IdleKeeps DEF Keeps, InstructionInv, Abstract!HeapNext

\* What an instruction has pushed is on top of the stack.
LEMMA TopFacts ==
    ASSUME TypeOK, HeapInv, Len(stack) > 0
    PROVE  /\ Top \in StackValues /\ IsSound(Top)
           /\ Children(Top) \subseteq Live
  <1>1. Len(stack) \in 1 .. Len(stack)
    BY HeapFacts
  <1>2. Top \in StackValues
    BY <1>1, HeapFacts DEF Top
  <1> QED
    BY <1>2, StackIsSound DEF IsSound

-----------------------------------------------------------------------------
(* cons. *)

\* What the other pointers of a pair or instance find stays.
OthersStay(t, k) ==
    \A j \in 1 .. 2 : j # k => TargetIn(heap', heap'[t].refs[j]) = Target(heap[t].refs[j])

\* The instruction goes on, with the cell it has made.
Moved(o, next, target) == [o EXCEPT !.next = next, !.target = target]

LEMMA MovedFacts ==
    ASSUME NEW o \in Operations, NEW n \in Nat \ {0}, NEW c \in Pointers
    PROVE  /\ Moved(o, n, c) \in Operations
           /\ Moved(o, n, c).name = o.name /\ Moved(o, n, c).args = o.args
           /\ Moved(o, n, c).length = o.length /\ Moved(o, n, c).last = o.last
           /\ Moved(o, n, c).next = n /\ Moved(o, n, c).target = c
  <1> DEFINE m == [o EXCEPT !.next = n]
  <1>1. /\ m \in Operations /\ m.name = o.name /\ m.args = o.args
        /\ m.length = o.length /\ m.last = o.last /\ m.next = n
    BY DEF Operations
  <1>2. Moved(o, n, c) = [m EXCEPT !.target = c]
    BY DEF Moved
  <1> HIDE DEF m
  <1> QED
    BY <1>1, <1>2 DEF Operations

LEMMA ConsCellKeeps ==
    ASSUME InstructionInv, ConsCell
    PROVE  Keeps
  <1>1. /\ TypeOK /\ HeapInv /\ op.name = "cons" /\ op.next = 1
    BY DEF InstructionInv, ConsCell, Running
  <1>2. CASE OutOfMemory
    BY <1>1, <1>2, OutOfMemoryKeeps
  <1>3. ASSUME NEW c \in NewCell, Alloc(c, Value("cons", <<Null, Null>>)), PushBoth(List(c)),
               op' = [op EXCEPT !.next = 2, !.target = c], event' = NoEvent
        PROVE  Keeps
    <2> DEFINE w == Value("cons", <<Null, Null>>)
    <2>1. w \in Values /\ w.type = "cons" /\ Children(w) = {} /\ \A g : WellFormed(g, w)
      BY PairIsFresh
    <2> HIDE DEF w
    <2>2. Changes({c}, {}) /\ heap'[c] = w /\ free' = Available \ {c}
      <3>1. Alloc(c, w)
        BY <1>3 DEF w
      <3> QED
        BY <1>1, <2>1, <3>1, AllocEffect
    <2>3. c \in Cells /\ c \in Pointers /\ c # Null
      BY <1>1, NewCellFacts, NullAssumption DEF Pointers
    <2>4. /\ List(c) \in StackValue /\ Children(List(c)) \subseteq Live \cup {c}
          /\ WellFormed(heap', List(c))
      BY <2>1, <2>2, <2>3, ListAfter
    <2>5. /\ Pushes({c}) /\ upvalues' \in 0 .. Len(stack')
          /\ Len(stack') = Len(stack) + 1 /\ Top' = List(c)
          /\ \A i \in 1 .. Len(stack) : stack'[i] = stack[i]
      BY <1>1, <1>3, <2>4, PushFacts
    <2>6. OpFacts
      BY <1>1, OperationFacts
    <2>7. /\ op' \in Operations /\ op'.name = "cons" /\ op'.args = op.args
          /\ op'.next = 2 /\ op'.target = c
      <3>1. op \in Operations /\ op.name = "cons" /\ c \in Pointers
        BY <1>1, <2>3, <2>6 DEF OpFacts
      <3>2. op' = [op EXCEPT !.next = 2, !.target = c]
        BY <1>3
      <3>3. op' = Moved(op, 2, c)
        BY <3>2 DEF Moved
      <3> QED
        BY <3>1, <3>3, MovedFacts
    <2>8. Pushed = 0 /\ Pushed' = 1 /\ Len(stack) \in Nat
      BY <1>1, <2>7, HeapFacts DEF Pushed
    <2>9. Grants({c}, {})
      BY <2>2 DEF Grants
    <2>10. ConsInv'
      BY <1>1, <2>1, <2>2, <2>3, <2>5, <2>7 DEF ConsInv, InstructionInv
    <2>11. VectorInv' /\ InstanceInv' /\ RestInv'
      BY <2>7 DEF VectorInv, InstanceInv, RestInv
    <2> QED
      BY <1>1, <1>3, <2>2, <2>5, <2>7, <2>8, <2>9, <2>10, <2>11, ContinueKeeps
  <1> QED
    BY <1>2, <1>3 DEF ConsCell

\* The pair under construction.
LEMMA PairFacts ==
    ASSUME InstructionInv, op.name = "cons", op.next > 1
    PROVE  /\ TypeOK /\ HeapInv /\ OpFacts
           /\ op.next \in 2 .. 3 /\ Pushed = 1 /\ Len(stack) \in Nat \ {0}
           /\ op.target \in Live /\ Writable(op.target) /\ heap[op.target].type = "cons"
           /\ op.target \in Pointers /\ op.target # Null
           /\ heap[op.target].refs \in Seq(Pointers) /\ Len(heap[op.target].refs) = 2
           /\ DOMAIN heap[op.target].refs = 1 .. 2
           /\ \A p \in Range(heap[op.target].refs) : p # Null => p \in Live
           /\ Top = List(op.target)
           /\ Len(op.args) = 2 /\ \A k \in 1 .. 2 : IsOperand(op.args[k])
  <1>1. /\ TypeOK /\ HeapInv /\ OperandsInv /\ OpFacts
        /\ Len(op.args) = 2 /\ op.next \in 1 .. 3
        /\ op.target \in Cells /\ heap[op.target].type = "cons" /\ Top = List(op.target)
    BY OperationFacts DEF InstructionInv, ConsInv
  <1>2. op.next \in 2 .. 3 /\ Pushed = 1 /\ Len(stack) \in Nat /\ Len(stack) > 0
    BY <1>1, HeapFacts DEF Pushed, OperandsInv
  <1>3. op.target \in Pointers /\ op.target # Null
    BY <1>1, NullAssumption DEF Pointers
  <1>4. op.target \in Live
    <2>1. Children(List(op.target)) \subseteq Live
      BY <1>1, <1>2, TopFacts
    <2>2. List(op.target).type # "array" /\ List(op.target).refs = <<op.target>>
      BY DEF List, Value
    <2>3. op.target \in Children(List(op.target))
      BY <1>3, <2>2, PointerFacts, ChildrenAreRefs
    <2> QED
      BY <2>1, <2>3
  <1>5. Writable(op.target)
    BY <1>1, <1>4 DEF Writable, HeapTypes
  <1>6. /\ heap[op.target].refs \in Seq(Pointers) /\ Len(heap[op.target].refs) = 2
    BY <1>1, <1>4, HeapFacts DEF HeapInv, WellFormed, Values
  <1>7. \A p \in Range(heap[op.target].refs) : p # Null => p \in Live
    BY <1>1, <1>4, ChildrenAreRefs, LiveFacts
  <1>8. \A k \in 1 .. 2 : IsOperand(op.args[k])
    BY <1>1, OperandFacts DEF OpFacts
  <1> QED
    BY <1>1, <1>2, <1>3, <1>4, <1>5, <1>6, <1>7, <1>8, SeqFacts

\* Either pointer of the pair is filled in, and the other one stays.
LEMMA ConsPartKeeps ==
    ASSUME InstructionInv, op.name = "cons", op.next > 1, NEW k \in 1 .. 2, ConsPart(k),
           NEW t, t = op.target
    PROVE  /\ \E N : Changes(N, {t}) /\ Grants(N, {t})
           /\ heap'[t].type = "cons" /\ heap'[t].initialized
           /\ heap'[t].refs \in Seq(Pointers) /\ Len(heap'[t].refs) = 2
           /\ TargetIn(heap', heap'[t].refs[k]) = op.args[k]
           /\ OthersStay(t, k)
  <1> DEFINE v == op.args[k]
             refs == heap[t].refs
  <1>1. /\ TypeOK /\ HeapInv /\ t \in Live /\ Writable(t) /\ heap[t].type = "cons"
        /\ refs \in Seq(Pointers) /\ Len(refs) = 2 /\ DOMAIN refs = 1 .. 2
        /\ \A p \in Range(refs) : p # Null => p \in Live
        /\ IsOperand(v)
    BY PairFacts
  <1>2. \A j \in 1 .. 2 : refs[j] # Null => refs[j] \in Live
    BY <1>1, RangeFacts
  <1>3. ASSUME NEW N, Changes(N, {t}), NEW p \in Pointers, RefSet(t, k, p)
        PROVE  /\ heap'[t].type = "cons"
               /\ heap'[t].refs \in Seq(Pointers) /\ Len(heap'[t].refs) = 2
               /\ heap'[t].refs[k] = p /\ heap'[t].initialized
               /\ OthersStay(t, k)
    <2>1. /\ heap'[t].refs \in Seq(Pointers) /\ Len(heap'[t].refs) = 2
          /\ heap'[t].refs[k] = p /\ heap'[t].initialized
          /\ \A j \in 1 .. 2 : j # k => heap'[t].refs[j] = refs[j]
      BY <1>1, <1>3 DEF RefSet
    <2>2. \A j \in 1 .. 2 : TargetIn(heap', refs[j]) = Target(refs[j])
      <3> SUFFICES ASSUME NEW j \in 1 .. 2 PROVE TargetIn(heap', refs[j]) = Target(refs[j])
        OBVIOUS
      <3>1. refs[j] # Null => refs[j] \in Live
        BY <1>2
      <3>2. refs[j] \in {t} => heap[refs[j]].type = "cons"
        BY <1>1
      <3> QED
        BY <1>1, <1>3, <3>1, <3>2, TargetKept
    <2>3. heap'[t].type = "cons"
      BY <1>1, <1>3, TypesKept
    <2> QED
      BY <2>1, <2>2, <2>3 DEF OthersStay
  <1>4. CASE IsList(v)
    <2>1. Stores(t, k, v.refs[1]) /\ free' = free
      BY <1>4 DEF ConsPart, Stores
    <2>2. /\ v = List(v.refs[1]) /\ v.refs[1] \in Pointers
          /\ v.refs[1] # Null => v.refs[1] \in Live /\ heap[v.refs[1]].type = "cons"
      BY <1>1, <1>4, ListPointer
    <2> HIDE DEF v
    <2>3. MayHold(heap, heap[t].type, v.refs[1])
      BY <1>1, <2>2 DEF MayHold
    <2>4. Changes({}, {t}) /\ RefSet(t, k, v.refs[1])
      BY <1>1, <2>1, <2>2, <2>3, StoreEffect
    <2>5. Grants({}, {t})
      BY <1>1, <2>1 DEF Grants
    <2>6. /\ heap'[t].type = "cons" /\ heap'[t].initialized
          /\ heap'[t].refs \in Seq(Pointers) /\ Len(heap'[t].refs) = 2
          /\ heap'[t].refs[k] = v.refs[1]
          /\ OthersStay(t, k)
      BY <1>3, <2>2, <2>4
    <2>7. TargetIn(heap', heap'[t].refs[k]) = v
      <3>1. v.refs[1] # Null => heap'[v.refs[1]].type = "cons"
        BY <1>1, <2>2, <2>4, TypesKept
      <3> QED
        BY <2>2, <2>6, <3>1 DEF TargetIn
    <2> QED
      BY <2>4, <2>5, <2>6, <2>7 DEF v
  <1>5. CASE ~IsList(v)
    <2>1. PICK c \in NewCell : AllocInto(c, v, t, k)
      BY <1>5 DEF ConsPart
    <2>2. c \in Pointers /\ c # Null
      BY <1>1, NewCellFacts, NullAssumption DEF Pointers
    <2>3. IsSound(v) /\ k \in DOMAIN heap[t].refs
      BY <1>1 DEF IsOperand
    <2> HIDE DEF v
    <2>4. Changes({c}, {t}) /\ RefSet(t, k, c) /\ heap'[c] = v /\ free' = Available \ {c}
      BY <1>1, <2>1, <2>3, AllocIntoEffect
    <2>5. Grants({c}, {t})
      BY <1>1, <2>4 DEF Grants
    <2>6. /\ heap'[t].type = "cons" /\ heap'[t].initialized
          /\ heap'[t].refs \in Seq(Pointers) /\ Len(heap'[t].refs) = 2
          /\ heap'[t].refs[k] = c
          /\ OthersStay(t, k)
      BY <1>3, <2>2, <2>4
    <2>7. v.type # "cons"
      BY <2>3, VmHeapAssumption DEF IsSound, StackValue, Stackable, HeapTypes
    <2>8. TargetIn(heap', heap'[t].refs[k]) = v
      BY <2>2, <2>4, <2>6, <2>7 DEF TargetIn
    <2> QED
      BY <2>4, <2>5, <2>6, <2>8 DEF v
  <1> QED
    BY <1>4, <1>5

LEMMA ConsCarKeeps ==
    ASSUME InstructionInv, ConsCar
    PROVE  Keeps
  <1>1. op.name = "cons" /\ op.next = 2
    BY DEF ConsCar, Running
  <1> DEFINE t == op.target
  <1>2. /\ TypeOK /\ HeapInv /\ OpFacts
        /\ Pushed = 1 /\ Len(stack) \in Nat \ {0}
        /\ t \in Cells /\ Len(op.args) = 2 /\ Top = List(t)
    BY <1>1, PairFacts, LiveFacts
  <1>3. CASE ~IsList(op.args[1]) /\ OutOfMemory
    BY <1>2, <1>3, OutOfMemoryKeeps
  <1>4. CASE ConsPart(1) /\ Step(3) /\ StacksStay
    <2>1. /\ op' = [op EXCEPT !.next = 3] /\ event' = NoEvent
          /\ stack' = stack /\ upvalues' = upvalues
      BY <1>4 DEF Step, StacksStay
    <2>2. /\ op' \in Operations /\ op'.name = "cons" /\ op'.args = op.args
          /\ op'.next = 3 /\ op'.target = t
      BY <1>1, <1>2, <2>1 DEF OpFacts, Operations
    <2> HIDE DEF t
    <2>3. /\ \E N : Changes(N, {t}) /\ Grants(N, {t})
          /\ heap'[t].type = "cons"
          /\ TargetIn(heap', heap'[t].refs[1]) = op.args[1]
      <3> DEFINE k == 1
      <3>1. k = 1 /\ k \in 1 .. 2 /\ t = op.target /\ op.next > 1 /\ ConsPart(k)
        BY <1>1, <1>4 DEF t
      <3> HIDE DEF k
      <3>2. /\ \E N : Changes(N, {t}) /\ Grants(N, {t})
            /\ heap'[t].type = "cons"
            /\ TargetIn(heap', heap'[t].refs[k]) = op.args[k]
        BY <1>1, <3>1, ConsPartKeeps
      <3> QED
        BY <3>1, <3>2
    <2>4. PICK N : Changes(N, {t}) /\ Grants(N, {t})
      BY <2>3
    <2>5. Pushes(N)
      BY <1>2, <2>1, PushesNothing
    <2>6. Pushed' = 1
      BY <2>2 DEF Pushed
    <2>7. Top' = List(t)
      BY <1>2, <2>1 DEF Top
    <2>8. Target(heap[op.target].refs[1])' = op'.args[1]
      BY <2>2, <2>3 DEF Target, TargetIn
    <2>9. ConsInv'
      BY <1>2, <2>2, <2>3, <2>7, <2>8 DEF ConsInv
    <2>10. VectorInv' /\ InstanceInv' /\ RestInv'
      BY <2>2 DEF VectorInv, InstanceInv, RestInv
    <2>11. upvalues' \in 0 .. Len(stack')
      BY <1>2, <2>1 DEF TypeOK
    <2> QED
      BY <1>1, <1>2, <2>1, <2>2, <2>4, <2>5, <2>6, <2>9, <2>10, <2>11, ContinueKeeps
  <1> QED
    BY <1>3, <1>4 DEF ConsCar

LEMMA ConsCdrKeeps ==
    ASSUME InstructionInv, ConsCdr
    PROVE  Keeps
  <1>1. op.name = "cons" /\ op.next = 3
    BY DEF ConsCdr, Running
  <1> DEFINE t == op.target
             args == op.args
  <1>2. /\ TypeOK /\ HeapInv /\ OpFacts /\ Len(stack) \in Nat \ {0}
        /\ t \in Live /\ t \in Pointers /\ t # Null /\ Len(args) = 2
        /\ Target(heap[t].refs[1]) = args[1]
    BY <1>1, PairFacts DEF InstructionInv, ConsInv
  <1>3. CASE ~IsList(args[2]) /\ OutOfMemory
    BY <1>2, <1>3, OutOfMemoryKeeps
  <1>4. CASE ConsPart(2) /\ SetTop(List(t)) /\ Done(args, t) /\ UNCHANGED upvalues
    <2>1. op' = Idle /\ event' = [name |-> "cons", args |-> args, cell |-> t]
      BY <1>1, <1>4 DEF Done
    <2>2. args \in Seq(Values) /\ DOMAIN args = 1 .. 2
      BY <1>2 DEF OpFacts
    <2> HIDE DEF t, args
    <2>3. /\ \E N : Changes(N, {t}) /\ Grants(N, {t})
          /\ heap'[t].type = "cons" /\ heap'[t].initialized
          /\ heap'[t].refs \in Seq(Pointers) /\ Len(heap'[t].refs) = 2
          /\ TargetIn(heap', heap'[t].refs[2]) = args[2]
          /\ TargetIn(heap', heap'[t].refs[1]) = Target(heap[t].refs[1])
      <3> DEFINE k == 2
      <3>1. /\ op.name = "cons" /\ op.next > 1 /\ ConsPart(k) /\ t = op.target
            /\ k \in 1 .. 2 /\ k = 2
        BY <1>1, <1>4 DEF t
      <3> HIDE DEF k
      <3>2. /\ \E N : Changes(N, {t}) /\ Grants(N, {t})
            /\ heap'[t].type = "cons" /\ heap'[t].initialized
            /\ heap'[t].refs \in Seq(Pointers) /\ Len(heap'[t].refs) = 2
            /\ TargetIn(heap', heap'[t].refs[k]) = op.args[k]
            /\ OthersStay(t, k)
        BY <3>1, ConsPartKeeps
      <3> QED
        BY <3>1, <3>2 DEF args, k, OthersStay
    <2>4. PICK N : Changes(N, {t}) /\ Grants(N, {t})
      BY <2>3
    <2>5. /\ List(t) \in StackValue /\ Children(List(t)) \subseteq Live
          /\ WellFormed(heap', List(t))
      BY <1>2, <2>3, ListAfter
    <2>6. Pushes(N) /\ Len(stack') = Len(stack) /\ Top' = List(t)
      BY <1>2, <1>4, <2>5, SetTopFacts
    <2>7. upvalues' \in 0 .. Len(stack')
      BY <1>2, <1>4, <2>6 DEF TypeOK
    <2>8. /\ event' \in Events /\ event'.name = "cons" /\ event'.args = args /\ event'.cell = t
      BY <1>2, <2>1, <2>2 DEF Events, Names
    <2>9. DOMAIN heap'[t].refs = 1 .. 2
      BY <2>3, SeqFacts
    <2>10. InstructionBuilds'
      <3>1. List(t).refs = <<t>>
        BY DEF List, Value
      <3>2. \A k \in 1 .. 2 : TargetIn(heap', heap'[t].refs[k]) = args[k]
        BY <1>2, <2>3
      <3> QED
        BY <2>2, <2>3, <2>6, <2>8, <2>9, <3>1, <3>2, BuiltWhen
    <2> QED
      BY <2>1, <2>4, <2>6, <2>7, <2>8, <2>10, FinishKeeps
  <1> QED
    BY <1>3, <1>4 DEF ConsCdr

-----------------------------------------------------------------------------
(* make-instance. *)

LEMMA InstanceCellKeeps ==
    ASSUME InstructionInv, InstanceCell
    PROVE  Keeps
  <1>1. /\ TypeOK /\ HeapInv /\ op.name = "makeInstance" /\ op.next = 1
    BY DEF InstructionInv, InstanceCell, Running
  <1>2. CASE OutOfMemory
    BY <1>1, <1>2, OutOfMemoryKeeps
  <1>3. ASSUME NEW c \in NewCell, Alloc(c, Value("instance", <<Null, Null>>)),
               PushBoth(Value("composite", <<c>>)),
               op' = [op EXCEPT !.next = 2, !.target = c], event' = NoEvent
        PROVE  Keeps
    <2> DEFINE w == Value("instance", <<Null, Null>>)
               v == Value("composite", <<c>>)
    <2>1. w \in Values /\ w.type = "instance" /\ Children(w) = {} /\ \A g : WellFormed(g, w)
      BY PairIsFresh
    <2> HIDE DEF w
    <2>2. Changes({c}, {}) /\ heap'[c] = w /\ free' = Available \ {c}
      <3>1. Alloc(c, w)
        BY <1>3 DEF w
      <3> QED
        BY <1>1, <2>1, <3>1, AllocEffect
    <2>3. c \in Cells /\ c \in Pointers /\ c # Null
      BY <1>1, NewCellFacts, NullAssumption DEF Pointers
    <2>4. v \in StackValue /\ Children(v) \subseteq Live \cup {c} /\ WellFormed(heap', v)
      BY <2>1, <2>2, <2>3, CompositeAfter
    <2> HIDE DEF v
    <2>5. /\ Pushes({c}) /\ upvalues' \in 0 .. Len(stack')
          /\ Len(stack') = Len(stack) + 1 /\ Top' = v
          /\ \A i \in 1 .. Len(stack) : stack'[i] = stack[i]
      <3>1. PushBoth(v)
        BY <1>3 DEF v
      <3> QED
        BY <1>1, <2>4, <3>1, PushFacts
    <2>6. OpFacts
      BY <1>1, OperationFacts
    <2>7. /\ op' \in Operations /\ op'.name = "makeInstance" /\ op'.args = op.args
          /\ op'.next = 2 /\ op'.target = c
      <3>1. op \in Operations /\ op.name = "makeInstance" /\ c \in Pointers
        BY <1>1, <2>3, <2>6 DEF OpFacts
      <3>2. op' = [op EXCEPT !.next = 2, !.target = c]
        BY <1>3
      <3>3. op' = Moved(op, 2, c)
        BY <3>2 DEF Moved
      <3> QED
        BY <3>1, <3>3, MovedFacts
    <2>8. Pushed = 0 /\ Pushed' = 1 /\ Len(stack) \in Nat
      BY <1>1, <2>7, HeapFacts DEF Pushed
    <2>9. Grants({c}, {})
      BY <2>2 DEF Grants
    <2>10. InstanceInv'
      BY <1>1, <2>1, <2>2, <2>3, <2>5, <2>7 DEF InstanceInv, InstructionInv, v
    <2>11. VectorInv' /\ ConsInv' /\ RestInv'
      BY <2>7 DEF VectorInv, ConsInv, RestInv
    <2> QED
      BY <1>1, <1>3, <2>2, <2>5, <2>7, <2>8, <2>9, <2>10, <2>11, ContinueKeeps
  <1> QED
    BY <1>2, <1>3 DEF InstanceCell

\* The instance under construction.
LEMMA InstanceFacts ==
    ASSUME InstructionInv, op.name = "makeInstance", op.next > 1
    PROVE  /\ TypeOK /\ HeapInv /\ OpFacts
           /\ op.next \in 2 .. 3 /\ Pushed = 1 /\ Len(stack) \in Nat \ {0}
           /\ op.target \in Live /\ Writable(op.target) /\ heap[op.target].type = "instance"
           /\ op.target \in Pointers /\ op.target # Null
           /\ heap[op.target].refs \in Seq(Pointers) /\ Len(heap[op.target].refs) = 2
           /\ DOMAIN heap[op.target].refs = 1 .. 2
           /\ \A p \in Range(heap[op.target].refs) :
                  p # Null => p \in Live /\ heap[p].type \in Stackable
           /\ Top = Value("composite", <<op.target>>)
           /\ Len(op.args) = 2 /\ \A k \in 1 .. 2 : IsSound(op.args[k])
  <1>1. /\ TypeOK /\ HeapInv /\ OperandsInv /\ OpFacts
        /\ Len(op.args) = 2 /\ op.next \in 1 .. 3
        /\ op.target \in Cells /\ heap[op.target].type = "instance"
        /\ Top = Value("composite", <<op.target>>)
    BY OperationFacts DEF InstructionInv, InstanceInv
  <1>2. op.next \in 2 .. 3 /\ Pushed = 1 /\ Len(stack) \in Nat /\ Len(stack) > 0
    BY <1>1, HeapFacts DEF Pushed, OperandsInv
  <1>3. op.target \in Pointers /\ op.target # Null
    BY <1>1, NullAssumption DEF Pointers
  <1>4. op.target \in Live
    <2> DEFINE v == Value("composite", <<op.target>>)
    <2>1. Children(v) \subseteq Live
      BY <1>1, <1>2, TopFacts
    <2>2. v.type # "array" /\ v.refs = <<op.target>>
      BY DEF Value
    <2>3. op.target \in Children(v)
      BY <1>3, <2>2, PointerFacts, ChildrenAreRefs
    <2> QED
      BY <2>1, <2>3
  <1>5. Writable(op.target)
    BY <1>1, <1>4 DEF Writable, HeapTypes
  <1>6. /\ heap[op.target].refs \in Seq(Pointers) /\ Len(heap[op.target].refs) = 2
        /\ Lead(heap, heap[op.target].refs, Stackable)
    BY <1>1, <1>4, HeapFacts DEF HeapInv, WellFormed, Values
  <1>7. \A p \in Range(heap[op.target].refs) : p # Null => p \in Live /\ heap[p].type \in Stackable
    BY <1>1, <1>4, <1>6, PartsFacts
  <1>8. \A k \in 1 .. 2 : IsSound(op.args[k])
    BY <1>1, OperandFacts DEF OpFacts, IsOperand
  <1> QED
    BY <1>1, <1>2, <1>3, <1>4, <1>5, <1>6, <1>7, <1>8, SeqFacts

\* A copy of an operand is stored in the instance, and the other pointer stays.
LEMMA InstancePartKeeps ==
    ASSUME InstructionInv, op.name = "makeInstance", op.next > 1, NEW k \in 1 .. 2,
           NEW t, t = op.target, NEW c \in NewCell, AllocInto(c, op.args[k], t, k)
    PROVE  /\ Changes({c}, {t}) /\ Grants({c}, {t})
           /\ heap'[t].type = "instance" /\ heap'[t].initialized
           /\ heap'[t].refs \in Seq(Pointers) /\ Len(heap'[t].refs) = 2
           /\ TargetIn(heap', heap'[t].refs[k]) = op.args[k]
           /\ OthersStay(t, k)
  <1> DEFINE v == op.args[k]
             refs == heap[t].refs
  <1>1. /\ TypeOK /\ HeapInv /\ t \in Live /\ Writable(t) /\ heap[t].type = "instance"
        /\ refs \in Seq(Pointers) /\ Len(refs) = 2 /\ DOMAIN refs = 1 .. 2
        /\ \A p \in Range(refs) : p # Null => p \in Live /\ heap[p].type \in Stackable
        /\ IsSound(v)
    BY InstanceFacts
  <1>2. \A j \in 1 .. 2 : refs[j] # Null => refs[j] \in Live /\ heap[refs[j]].type \in Stackable
    BY <1>1, RangeFacts
  <1>3. c \in Pointers /\ c # Null
    BY <1>1, NewCellFacts, NullAssumption DEF Pointers
  <1> HIDE DEF v
  <1>4. Changes({c}, {t}) /\ RefSet(t, k, c) /\ heap'[c] = v /\ free' = Available \ {c}
    <2>1. AllocInto(c, v, t, k) /\ k \in DOMAIN heap[t].refs
      BY <1>1 DEF v
    <2> QED
      BY <1>1, <2>1, AllocIntoEffect
  <1>5. Grants({c}, {t})
    BY <1>1, <1>4 DEF Grants
  <1>6. /\ heap'[t].refs \in Seq(Pointers) /\ Len(heap'[t].refs) = 2
        /\ heap'[t].refs[k] = c /\ heap'[t].initialized
        /\ \A j \in 1 .. 2 : j # k => heap'[t].refs[j] = refs[j]
    BY <1>1, <1>4 DEF RefSet
  <1>7. \A j \in 1 .. 2 : TargetIn(heap', refs[j]) = Target(refs[j])
    <2> SUFFICES ASSUME NEW j \in 1 .. 2 PROVE TargetIn(heap', refs[j]) = Target(refs[j])
      OBVIOUS
    <2>1. refs[j] # Null => refs[j] \in Live
      BY <1>2
    <2>2. refs[j] \notin {t}
      <3>1. t # Null /\ "instance" \notin Stackable
        BY VmHeapAssumption, InstanceFacts DEF Stackable, HeapTypes
      <3> QED
        BY <1>1, <1>2, <3>1
    <2> QED
      BY <1>1, <1>4, <2>1, <2>2, TargetKept
  <1>8. heap'[t].type = "instance"
    BY <1>1, <1>4, TypesKept
  <1>9. v.type # "cons"
    BY <1>1, VmHeapAssumption DEF IsSound, StackValue, Stackable, HeapTypes
  <1>10. TargetIn(heap', heap'[t].refs[k]) = v
    BY <1>3, <1>4, <1>6, <1>9 DEF TargetIn
  <1> QED
    BY <1>4, <1>5, <1>6, <1>7, <1>8, <1>10 DEF v, OthersStay

LEMMA InstanceValueKeeps ==
    ASSUME InstructionInv, InstanceValue
    PROVE  Keeps
  <1>1. op.name = "makeInstance" /\ op.next = 2
    BY DEF InstanceValue, Running
  <1> DEFINE t == op.target
  <1>2. /\ TypeOK /\ HeapInv /\ OpFacts
        /\ Pushed = 1 /\ Len(stack) \in Nat \ {0}
        /\ t \in Cells /\ Len(op.args) = 2 /\ Top = Value("composite", <<t>>)
    BY <1>1, InstanceFacts, LiveFacts
  <1>3. CASE OutOfMemory
    BY <1>2, <1>3, OutOfMemoryKeeps
  <1>4. ASSUME NEW c \in NewCell, AllocInto(c, op.args[1], t, 1), Step(3), StacksStay
        PROVE  Keeps
    <2>1. /\ op' = [op EXCEPT !.next = 3] /\ event' = NoEvent
          /\ stack' = stack /\ upvalues' = upvalues
      BY <1>4 DEF Step, StacksStay
    <2>2. /\ op' \in Operations /\ op'.name = "makeInstance" /\ op'.args = op.args
          /\ op'.next = 3 /\ op'.target = t
      BY <1>1, <1>2, <2>1 DEF OpFacts, Operations
    <2> HIDE DEF t
    <2>3. /\ Changes({c}, {t}) /\ Grants({c}, {t})
          /\ heap'[t].type = "instance"
          /\ TargetIn(heap', heap'[t].refs[1]) = op.args[1]
      <3>1. 1 \in 1 .. 2 /\ t = op.target /\ op.next > 1
        BY <1>1 DEF t
      <3> QED
        BY <1>1, <1>4, <3>1, InstancePartKeeps
    <2>4. Pushes({c})
      BY <1>2, <2>1, PushesNothing
    <2>5. Pushed' = 1
      BY <2>2 DEF Pushed
    <2>6. Top' = Top
      BY <2>1 DEF Top
    <2>7. Target(heap[op.target].refs[1])' = op'.args[1]
      BY <2>2, <2>3 DEF Target, TargetIn
    <2>8. InstanceInv'
      BY <1>2, <2>2, <2>3, <2>6, <2>7 DEF InstanceInv
    <2>9. VectorInv' /\ ConsInv' /\ RestInv'
      BY <2>2 DEF VectorInv, ConsInv, RestInv
    <2>10. upvalues' \in 0 .. Len(stack')
      BY <1>2, <2>1 DEF TypeOK
    <2> QED
      BY <1>1, <1>2, <2>1, <2>2, <2>3, <2>4, <2>5, <2>8, <2>9, <2>10, ContinueKeeps
  <1> QED
    BY <1>3, <1>4 DEF InstanceValue

LEMMA InstanceFunctionKeeps ==
    ASSUME InstructionInv, InstanceFunction
    PROVE  Keeps
  <1>1. op.name = "makeInstance" /\ op.next = 3
    BY DEF InstanceFunction, Running
  <1> DEFINE t == op.target
             args == op.args
  <1>2. /\ TypeOK /\ HeapInv /\ OpFacts /\ Len(stack) \in Nat \ {0}
        /\ t \in Pointers /\ Len(args) = 2
        /\ Target(heap[t].refs[1]) = args[1] /\ Top = Value("composite", <<t>>)
    BY <1>1, InstanceFacts DEF InstructionInv, InstanceInv
  <1>3. CASE OutOfMemory
    BY <1>2, <1>3, OutOfMemoryKeeps
  <1>4. ASSUME NEW c \in NewCell, AllocInto(c, args[2], t, 2), Done(args, t), StacksStay
        PROVE  Keeps
    <2>1. /\ op' = Idle /\ event' = [name |-> "makeInstance", args |-> args, cell |-> t]
          /\ stack' = stack /\ upvalues' = upvalues
      BY <1>1, <1>4 DEF Done, StacksStay
    <2>2. args \in Seq(Values) /\ DOMAIN args = 1 .. 2
      BY <1>2 DEF OpFacts
    <2>3. op.next > 1 /\ 2 \in 1 .. 2 /\ 1 \in 1 .. 2
      BY <1>1
    <2> HIDE DEF t
    <2>4. /\ Changes({c}, {t}) /\ Grants({c}, {t})
          /\ heap'[t].initialized
          /\ heap'[t].refs \in Seq(Pointers) /\ Len(heap'[t].refs) = 2
          /\ TargetIn(heap', heap'[t].refs[2]) = args[2]
          /\ TargetIn(heap', heap'[t].refs[1]) = Target(heap[t].refs[1])
      <3> DEFINE k == 2
      <3>1. t = op.target /\ k = 2 /\ k \in 1 .. 2 /\ op.next > 1
        BY <2>3 DEF t
      <3>2. PICK c0 \in NewCell : AllocInto(c0, op.args[k], t, k) /\ c0 = c
        BY <1>4, <3>1
      <3> HIDE DEF k
      <3>3. /\ Changes({c}, {t}) /\ Grants({c}, {t})
            /\ heap'[t].initialized
            /\ heap'[t].refs \in Seq(Pointers) /\ Len(heap'[t].refs) = 2
            /\ TargetIn(heap', heap'[t].refs[k]) = op.args[k]
            /\ OthersStay(t, k)
        BY <1>1, <3>1, <3>2, InstancePartKeeps
      <3> QED
        BY <3>1, <3>3 DEF args, k, OthersStay
    <2> HIDE DEF args
    <2>5. Pushes({c})
      BY <1>2, <2>1, PushesNothing
    <2>6. Top' = Top /\ upvalues' \in 0 .. Len(stack')
      BY <1>2, <2>1 DEF Top, TypeOK
    <2>7. /\ event' \in Events /\ event'.name = "makeInstance" /\ event'.args = args
          /\ event'.cell = t
      BY <1>2, <2>1, <2>2 DEF Events, Names
    <2>8. InstructionBuilds'
      <3>1. Top'.refs = <<t>>
        BY <1>2, <2>6 DEF Value
      <3>2. \A k \in 1 .. 2 : TargetIn(heap', heap'[t].refs[k]) = args[k]
        BY <1>2, <2>3, <2>4
      <3>3. DOMAIN heap'[t].refs = 1 .. 2
        BY <2>4, SeqFacts
      <3> QED
        BY <2>2, <2>4, <2>7, <3>1, <3>2, <3>3, BuiltWhen
    <2> QED
      BY <2>1, <2>4, <2>5, <2>6, <2>7, <2>8, FinishKeeps
  <1> QED
    BY <1>3, <1>4 DEF InstanceFunction

-----------------------------------------------------------------------------
(* vector and make-vector. *)

LEMMA InternalVectorKeeps ==
    ASSUME InstructionInv, op.name \in {"vector", "makeVector"}, op.next = 1,
           NEW n \in Nat, n <= VectorBound, op.name = "vector" => n = Len(op.args),
           InternalVector(n)
    PROVE  Keeps
  <1>1. TypeOK /\ HeapInv
    BY DEF InstructionInv
  <1>2. CASE OutOfMemory
    BY <1>1, <1>2, OutOfMemoryKeeps
  <1>3. ASSUME NEW c \in NewCell, Alloc(c, Array(Nulls(n), FALSE)),
               stack' = Append(stack, Vector(c, 0)),
               op' = [op EXCEPT !.next = 2, !.target = c], event' = NoEvent,
               upvalues' = upvalues
        PROVE  Keeps
    <2> DEFINE w == Array(Nulls(n), FALSE)
               v == Vector(c, 0)
    <2>1. /\ w \in Values /\ w.type = "array" /\ w.initialized = FALSE
          /\ w.refs = Nulls(n) /\ Children(w) = {} /\ \A g : WellFormed(g, w)
      BY TableIsFresh
    <2> HIDE DEF w
    <2>2. Changes({c}, {}) /\ heap'[c] = w /\ free' = Available \ {c}
      <3>1. Alloc(c, w)
        BY <1>3 DEF w
      <3> QED
        BY <1>1, <2>1, <3>1, AllocEffect
    <2>3. c \in Cells /\ c \in Pointers
      BY <1>1, NewCellFacts DEF Pointers
    <2>4. v \in StackValue /\ Children(v) \subseteq Live \cup {c} /\ WellFormed(heap', v)
      BY <2>1, <2>2, <2>3, VectorAfter
    <2>5. stack' = Append(stack, v)
      BY <1>3
    <2> HIDE DEF v
    <2>6. Pushes({c})
      BY <1>1, <2>4, <2>5, PushesOne
    <2>7. /\ Len(stack) \in Nat /\ Len(stack') = Len(stack) + 1 /\ Top' = v
          /\ \A i \in 1 .. Len(stack) : stack'[i] = stack[i]
      BY <1>1, <2>4, <2>5, HeapFacts, AppendFacts DEF Top
    <2>8. upvalues' \in 0 .. Len(stack')
      BY <1>1, <1>3, <2>7 DEF TypeOK
    <2>9. OpFacts
      BY <1>1, OperationFacts
    <2>10. /\ op' \in Operations /\ op'.name = op.name /\ op'.args = op.args
           /\ op'.next = 2 /\ op'.target = c /\ op'.length = op.length
      <3>1. op \in Operations /\ c \in Pointers
        BY <1>1, <2>3, <2>9 DEF OpFacts
      <3>2. op' = Moved(op, 2, c)
        BY <1>3 DEF Moved
      <3> QED
        BY <3>1, <3>2, MovedFacts
    <2>11. Pushed = 0 /\ Pushed' = 1
      BY <2>10 DEF Pushed
    <2>12. Grants({c}, {})
      BY <2>2 DEF Grants
    <2>13. VectorInv'
      <3>1. VectorInv
        BY DEF InstructionInv
      <3>2. upvalues' < Len(stack')
        BY <1>1, <1>3, <2>7 DEF TypeOK
      <3> QED
        BY <2>1, <2>2, <2>3, <2>7, <2>10, <3>1, <3>2 DEF VectorInv, v
    <2>14. ConsInv' /\ InstanceInv' /\ RestInv'
      BY <2>10 DEF ConsInv, InstanceInv, RestInv
    <2> QED
      BY <1>3, <2>2, <2>6, <2>7, <2>8, <2>10, <2>11, <2>12, <2>13, <2>14, ContinueKeeps
  <1> QED
    BY <1>2, <1>3 DEF InternalVector

LEMMA VectorCellKeeps ==
    ASSUME InstructionInv, VectorCell \/ MakeVectorCell
    PROVE  Keeps
  <1>1. OpFacts /\ VectorInv
    BY OperationFacts DEF InstructionInv
  <1>2. CASE VectorCell
    <2>1. /\ op.name = "vector" /\ op.next = 1 /\ InternalVector(Len(op.args))
          /\ Len(op.args) \in Nat /\ Len(op.args) <= VectorBound
      BY <1>1, <1>2 DEF VectorCell, Running, VectorInv, OpFacts
    <2> QED
      BY <2>1, InternalVectorKeeps
  <1>3. CASE MakeVectorCell
    <2>1. /\ op.name = "makeVector" /\ op.next = 1 /\ InternalVector(op.length)
          /\ op.length \in Nat /\ op.length <= VectorBound
      BY <1>1, <1>3 DEF MakeVectorCell, Running, VectorInv, OpFacts, Operations
    <2> QED
      BY <2>1, InternalVectorKeeps
  <1> QED
    BY <1>2, <1>3

\* The internal vector under construction: the collector does not look into it.
LEMMA TableInHand ==
    ASSUME InstructionInv, op.name \in {"vector", "makeVector"}, op.next > 1
    PROVE  /\ TypeOK /\ HeapInv /\ OpFacts /\ op.next = 2
           /\ op.target \in Live /\ op.target \in Cells /\ heap[op.target].type = "array"
           /\ Len(stack) \in Nat \ {0} /\ Top = Vector(op.target, 0)
           /\ upvalues + 1 \in 0 .. Len(stack)
           /\ \A k \in DOMAIN op.args : IsSound(op.args[k])
           /\ op.name = "vector" => /\ Len(op.args) \in 0 .. 1 /\ Len(op.args) <= VectorBound
                                    /\ heap[op.target].refs = Nulls(Len(op.args))
           /\ op.name = "makeVector" => Len(op.args) = 1 /\ op.length \in 0 .. VectorBound
  <1>1. /\ TypeOK /\ HeapInv /\ OperandsInv /\ OpFacts /\ VectorInv
    BY OperationFacts DEF InstructionInv
  <1>2. /\ op.next = 2 /\ op.target \in Cells /\ heap[op.target].type = "array"
        /\ Top = Vector(op.target, 0) /\ Len(op.args) \in Nat /\ op.length \in Nat
        /\ op.name = "vector" => /\ Len(op.args) <= 1 /\ Len(op.args) <= VectorBound
                                 /\ heap[op.target].refs = Nulls(Len(op.args))
        /\ op.name = "makeVector" => Len(op.args) = 1 /\ op.length <= VectorBound
        /\ upvalues < Len(stack)
    BY <1>1 DEF VectorInv, OpFacts, Operations
  <1>3. Len(stack) \in Nat /\ Len(stack) > 0
    BY <1>1, <1>2, HeapFacts DEF Pushed, OperandsInv
  <1>4. op.target \in Pointers /\ op.target # Null
    BY <1>2, NullAssumption DEF Pointers
  <1>5. op.target \in Live
    <2> DEFINE v == Vector(op.target, 0)
    <2>1. Children(v) \subseteq Live
      BY <1>1, <1>2, <1>3, TopFacts
    <2>2. v.type # "array" /\ v.refs = <<op.target>>
      BY DEF Vector, Value
    <2>3. op.target \in Children(v)
      BY <1>4, <2>2, PointerFacts, ChildrenAreRefs
    <2> QED
      BY <2>1, <2>3
  <1>6. \A k \in DOMAIN op.args : IsSound(op.args[k])
    BY <1>1, OperandFacts DEF IsOperand
  <1>7. Len(op.args) <= 1 => Len(op.args) \in 0 .. 1
    <2> DEFINE n == Len(op.args)
    <2>1. n \in Nat
      BY <1>2
    <2> HIDE DEF n
    <2>2. n <= 1 => n \in 0 .. 1
      BY <2>1
    <2> QED
      BY <2>2 DEF n
  <1>8. op.length <= VectorBound => op.length \in 0 .. VectorBound
    BY <1>2, VmHeapAssumption
  <1>9. upvalues + 1 \in 0 .. Len(stack)
    BY <1>1, <1>2, <1>3 DEF TypeOK
  <1> QED
    BY <1>1, <1>2, <1>3, <1>5, <1>6, <1>7, <1>8, <1>9

\* A vector is filled when its pointers lead to the operand.
LEMMA FilledWhen ==
    ASSUME event'.name = "makeVector",
           NEW t, event'.cell = t, heap'[t].initialized, Top'.refs = <<t>>,
           DOMAIN event'.args = 1 .. 1,
           \A p \in Range(heap'[t].refs) : TargetIn(heap', p) = event'.args[1]
    PROVE  InstructionBuilds'
  <1>1. ASSUME NEW p \in Range(heap'[t].refs) PROVE Holds(<<p>>, event.args)'
    <2>1. DOMAIN <<p>> = 1 .. 1 /\ <<p>>[1] = p
      OBVIOUS
    <2>2. Target(p)' = event'.args[1]
      BY <1>1 DEF Target, TargetIn
    <2> QED
      BY <2>1, <2>2 DEF Holds
  <1> QED
    BY <1>1 DEF InstructionBuilds, Top

\* The internal vector is initialized: its elements are the cells of N.
LEMMA InitializeKeeps ==
    ASSUME InstructionInv, op.name \in {"vector", "makeVector"}, op.next > 1,
           NEW N, N \subseteq Cells, N \cap Live = {}, Grants(N, {op.target}),
           NEW elements \in Seq(Pointers), Range(elements) \subseteq N,
           Len(elements) <= VectorBound,
           NEW copies, \A d \in Cells \ N : copies[d] = heap[d],
           \A d \in N : IsSound(copies[d]),
           Initialize(elements, copies),
           op.name = "vector" => /\ DOMAIN elements = DOMAIN op.args
                                 /\ \A k \in DOMAIN op.args : copies[elements[k]] = op.args[k],
           op.name = "makeVector" => \A p \in Range(elements) : copies[p] = op.args[1]
    PROVE  Keeps
  <1> DEFINE t == op.target
             args == op.args
             w == Array(elements, TRUE)
             v == Vector(t, 0)
  <1>1. /\ TypeOK /\ HeapInv /\ OpFacts
        /\ t \in Live /\ t \in Cells /\ heap[t].type = "array"
        /\ Len(stack) \in Nat /\ Len(stack) > 0
        /\ upvalues + 1 \in 0 .. Len(stack)
        /\ op.name = "makeVector" => Len(args) = 1
    BY TableInHand
  <1>2. /\ w \in Values /\ w.type = "array" /\ w.initialized /\ w.refs = elements
    <2>1. <<>> \in Seq(Pointers)
      BY PointerFacts DEF Pointers
    <2> QED
      BY <2>1 DEF Array, Value, Values, HeapTypes
  <1>3. /\ heap' = [c \in Cells |-> IF c = t THEN w ELSE copies[c]]
        /\ upvalues' = upvalues + 1 /\ SetTop(v)
        /\ op' = Idle /\ event' = [name |-> op.name, args |-> args, cell |-> t]
    BY DEF Initialize, Done
  <1>4. /\ args \in Seq(Values) /\ op.name \in Names /\ t \in Pointers /\ DOMAIN args = 1 .. Len(args)
    BY <1>1 DEF OpFacts, Pointers
  <1> HIDE DEF w, t, args
  <1>5. /\ heap'[t] = w /\ \A d \in Cells \ {t} : heap'[d] = copies[d]
    BY <1>1, <1>3
  <1>6. t \notin N /\ Null \notin N
    BY <1>1, NullAssumption
  <1>7. \A d \in N : heap'[d] = copies[d] /\ IsSound(heap'[d])
    BY <1>5, <1>6
  <1>8. \A d \in Cells \ (N \cup {t}) : heap'[d] = heap[d]
    BY <1>5
  <1>9. heap' \in [Cells -> Values]
    <2>1. \A d \in Cells : heap[d] \in Values
      BY <1>1, HeapFacts
    <2>2. \A d \in Cells : heap'[d] \in Values
      BY <1>2, <1>5, <1>7, <1>8, <2>1 DEF IsSound, StackValue
    <2> QED
      BY <1>3, <2>2
  <1>10. SameTypes(heap')
    <2>1. \A d \in Live : d = t \/ d \in Cells \ (N \cup {t})
      BY <1>1, LiveFacts
    <2> QED
      BY <1>1, <1>2, <1>5, <1>8, <2>1 DEF SameTypes
  <1>11. \A d \in N : Children(heap'[d]) \subseteq Live /\ WellFormed(heap', heap'[d])
    BY <1>7, <1>10, SoundStays
  <1>12. \A p \in Range(elements) : p # Null /\ heap'[p].type \in Stackable
    BY <1>6, <1>7 DEF IsSound, StackValue
  <1>13. Children(w) \subseteq N /\ WellFormed(heap', w)
    <2>1. Children(w) = Range(elements) \ {Null}
      BY <1>2, ChildrenAreRefs
    <2>2. Lead(heap', w.refs, Stackable) /\ Null \notin Range(w.refs)
      BY <1>2, <1>12 DEF Lead
    <2>3. w.type \notin Atoms /\ w.type \in HeapTypes
      BY <1>2, VmHeapAssumption DEF HeapTypes
    <2> QED
      BY <1>2, <2>1, <2>2, <2>3 DEF WellFormed
  <1>14. Changes(N, {t})
    BY <1>1, <1>2, <1>5, <1>8, <1>9, <1>11, <1>13 DEF Changes
  <1>15. /\ v \in StackValue /\ Children(v) \subseteq Live \cup N
         /\ WellFormed(heap', v) /\ v.refs = <<t>>
    BY <1>1, <1>2, <1>5, VectorAfter
  <1> HIDE DEF v
  <1>16. Pushes(N) /\ Len(stack') = Len(stack) /\ Top' = v
    BY <1>1, <1>3, <1>15, SetTopFacts
  <1>17. upvalues' \in 0 .. Len(stack')
    BY <1>1, <1>3, <1>16
  <1>18. /\ event' \in Events /\ event'.name = op.name /\ event'.args = args /\ event'.cell = t
    BY <1>3, <1>4 DEF Events
  <1>19. \A p \in Range(elements) : TargetIn(heap', p) = copies[p]
    <2>1. "cons" \notin Stackable
      BY VmHeapAssumption DEF Stackable, HeapTypes
    <2> QED
      BY <1>7, <1>12, <2>1 DEF TargetIn
  <1>20. InstructionBuilds'
    <2>1. heap'[t].initialized /\ Top'.refs = <<t>> /\ heap'[t].refs = elements
      BY <1>2, <1>5, <1>15, <1>16
    <2>2. CASE op.name = "vector"
      <3>1. \A k \in DOMAIN args : elements[k] \in Range(elements)
        BY <2>2 DEF Range, args
      <3>2. \A k \in DOMAIN args : TargetIn(heap', heap'[t].refs[k]) = args[k]
        BY <1>19, <2>1, <2>2, <3>1 DEF args
      <3>3. DOMAIN heap'[t].refs = DOMAIN args
        BY <2>1, <2>2 DEF args
      <3> QED
        BY <1>18, <2>1, <2>2, <3>2, <3>3, BuiltWhen
    <2>3. CASE op.name = "makeVector"
      <3>1. DOMAIN event'.args = 1 .. 1
        BY <1>1, <1>4, <1>18, <2>3
      <3>2. \A p \in Range(heap'[t].refs) : TargetIn(heap', p) = event'.args[1]
        BY <1>18, <1>19, <2>1, <2>3 DEF args
      <3> QED
        BY <1>18, <2>1, <2>3, <3>1, <3>2, FilledWhen
    <2> QED
      BY <2>2, <2>3
  <1>21. Grants(N, {t}) /\ op' = Idle
    BY <1>3 DEF t
  <1> QED
    BY <1>14, <1>16, <1>17, <1>18, <1>20, <1>21, FinishKeeps

LEMMA VectorElementKeeps ==
    ASSUME InstructionInv, VectorElement
    PROVE  Keeps
  <1> DEFINE k == op.next - 1
             t == op.target
  <1>1. /\ op.name = "vector" /\ k \in DOMAIN op.args /\ OpFacts
    BY OperationFacts DEF VectorElement, InstructionInv
  <1>2. op.next \in Nat /\ k \in 1 .. Len(op.args)
    BY <1>1 DEF OpFacts, Operations
  <1>3. op.next > 1
    <2> DEFINE n == Len(op.args)
    <2>1. n \in Nat /\ k \in 1 .. n
      BY <1>1, <1>2 DEF OpFacts
    <2> HIDE DEF n
    <2> QED
      BY <1>2, <2>1
  <1>4. /\ TypeOK /\ HeapInv /\ op.next = 2 /\ t \in Live
        /\ \A j \in DOMAIN op.args : IsSound(op.args[j])
        /\ Len(op.args) \in 0 .. 1 /\ Len(op.args) <= VectorBound
        /\ heap[t].refs = Nulls(Len(op.args))
    BY <1>1, <1>3, TableInHand
  <1>5. k = 1 /\ Len(op.args) = 1 /\ DOMAIN op.args = 1 .. 1
    <2> DEFINE n == Len(op.args)
    <2>1. n \in 0 .. 1 /\ k \in 1 .. n /\ k = 1
      BY <1>2, <1>4
    <2> HIDE DEF n, k
    <2>2. n = 1
      BY <2>1
    <2> QED
      BY <1>1, <2>1, <2>2 DEF n, OpFacts
  <1>6. CASE OutOfMemory
    BY <1>4, <1>6, OutOfMemoryKeeps
  <1>7. ASSUME NEW c \in NewCell, free' = Available \ {c},
               Initialize([heap[t].refs EXCEPT ![k] = c], [heap EXCEPT ![c] = op.args[k]])
        PROVE  Keeps
    <2> DEFINE elements == [heap[t].refs EXCEPT ![k] = c]
               copies == [heap EXCEPT ![c] = op.args[k]]
    <2>1. c \in Cells /\ c \notin Live /\ c \in Pointers
      BY <1>4, NewCellFacts DEF Pointers
    <2>2. /\ elements \in Seq(Pointers) /\ Len(elements) = 1 /\ Range(elements) = {c}
          /\ DOMAIN elements = 1 .. 1 /\ elements[1] = c
      <3>1. elements = <<c>>
        BY <1>4, <1>5 DEF Nulls
      <3>2. DOMAIN <<c>> = 1 .. 1
        OBVIOUS
      <3> HIDE DEF elements
      <3> QED
        BY <2>1, <3>1, <3>2, PointerFacts
    <2>3. copies[c] = op.args[1] /\ \A d \in Cells \ {c} : copies[d] = heap[d]
      BY <1>4, <1>5, <2>1 DEF TypeOK
    <2>4. Initialize(elements, copies)
      BY <1>7
    <2>5. Grants({c}, {op.target})
      BY <1>4, <1>7 DEF Grants
    <2> HIDE DEF elements, copies
    <2>6. DOMAIN elements = DOMAIN op.args /\ \A j \in DOMAIN op.args : copies[elements[j]] = op.args[j]
      BY <1>5, <2>2, <2>3
    <2>7. \A d \in {c} : IsSound(copies[d])
      BY <1>4, <1>5, <2>3
    <2>8. {c} \subseteq Cells /\ {c} \cap Live = {} /\ Len(elements) <= VectorBound
          /\ Range(elements) \subseteq {c}
      BY <1>4, <1>5, <2>1, <2>2
    <2> QED
      BY <1>1, <1>3, <2>2, <2>3, <2>4, <2>5, <2>6, <2>7, <2>8, InitializeKeeps
  <1>8. ~(k < Len(op.args))
    BY <1>5
  <1> QED
    BY <1>5, <1>6, <1>7, <1>8 DEF VectorElement

LEMMA VectorEmptyKeeps ==
    ASSUME InstructionInv, VectorEmpty
    PROVE  Keeps
  <1>1. /\ op.name = "vector" /\ op.next > 1 /\ op.args = <<>> /\ free' = free
        /\ Initialize(<<>>, heap)
    BY DEF VectorEmpty, Running
  <1>2. op.target \in Live /\ Len(op.args) <= VectorBound
    BY <1>1, TableInHand
  <1>3. <<>> \in Seq(Pointers) /\ Range(<<>>) = {} /\ Len(<<>>) <= VectorBound
    BY <1>1, <1>2, PointerFacts DEF Range, Pointers
  <1>4. Grants({}, {op.target})
    BY <1>1, <1>2 DEF Grants
  <1> DEFINE e == <<>>
             N == {}
  <1>5. /\ e \in Seq(Pointers) /\ Range(e) \subseteq N /\ Len(e) <= VectorBound
        /\ DOMAIN e = DOMAIN op.args /\ DOMAIN op.args = {}
        /\ Initialize(e, heap) /\ N \subseteq Cells /\ N \cap Live = {}
        /\ Grants(N, {op.target}) /\ \A d \in N : IsSound(heap[d])
    BY <1>1, <1>3, <1>4
  <1> HIDE DEF e, N
  <1> QED
    BY <1>1, <1>5, InitializeKeeps

LEMMA MakeVectorFillKeeps ==
    ASSUME InstructionInv, MakeVectorFill
    PROVE  Keeps
  <1>1. op.name = "makeVector" /\ op.next > 1
    BY DEF MakeVectorFill, Running
  <1>2. /\ TypeOK /\ HeapInv /\ op.target \in Live /\ OpFacts
        /\ Len(op.args) = 1 /\ op.length \in 0 .. VectorBound
        /\ \A j \in DOMAIN op.args : IsSound(op.args[j])
    BY <1>1, TableInHand
  <1>3. CASE OutOfMemory
    BY <1>2, <1>3, OutOfMemoryKeeps
  <1>4. ASSUME NEW c \in NewCell, free' = Available \ {c},
               Initialize([j \in 1 .. op.length |-> c], [heap EXCEPT ![c] = op.args[1]])
        PROVE  Keeps
    <2> DEFINE elements == [j \in 1 .. op.length |-> c]
               copies == [heap EXCEPT ![c] = op.args[1]]
    <2>1. c \in Cells /\ c \notin Live /\ c \in Pointers
      BY <1>2, NewCellFacts DEF Pointers
    <2>2. op.length \in Nat /\ op.length <= VectorBound
      BY <1>2, VmHeapAssumption
    <2>3. /\ elements \in Seq(Pointers) /\ Len(elements) = op.length
          /\ Range(elements) \subseteq {c}
      <3>1. elements \in [1 .. op.length -> Pointers]
        BY <2>1
      <3> HIDE DEF elements
      <3>2. elements \in Seq(Pointers) /\ Len(elements) = op.length
        BY <2>2, <3>1, LenProperties, SeqDef
      <3> QED
        BY <3>2 DEF elements, Range
    <2>4. copies[c] = op.args[1] /\ \A d \in Cells \ {c} : copies[d] = heap[d]
      BY <1>2, <2>1 DEF TypeOK
    <2>5. Initialize(elements, copies)
      BY <1>4
    <2>6. Grants({c}, {op.target})
      BY <1>2, <1>4 DEF Grants
    <2> HIDE DEF elements, copies
    <2>7. \A p \in Range(elements) : copies[p] = op.args[1]
      BY <2>3, <2>4
    <2>8. \A d \in {c} : IsSound(copies[d])
      <3>1. 1 \in DOMAIN op.args
        BY <1>2 DEF OpFacts
      <3> QED
        BY <1>2, <2>4, <3>1
    <2>9. {c} \subseteq Cells /\ {c} \cap Live = {} /\ Len(elements) <= VectorBound
      BY <2>1, <2>2, <2>3
    <2> QED
      BY <1>1, <2>3, <2>4, <2>5, <2>6, <2>7, <2>8, <2>9, InitializeKeeps
  <1> QED
    BY <1>3, <1>4 DEF MakeVectorFill

-----------------------------------------------------------------------------
(* The rest list. *)

\* What the list so far, and the pairs it is made of, can reach.
Linked(objects, last) == Reachable(Graph(objects), {last} \ {Null})

\* The list of n pairs at last holds the last n objects of args, and ends there.
HoldsLast(objects, last, args, n) ==
    \E spine \in [0 .. n -> Linked(objects, last) \cup {Null}] :
        /\ spine[0] = last
        /\ spine[n] = Null
        /\ \A k \in 1 .. n :
               /\ spine[k - 1] # Null
               /\ objects[spine[k - 1]].type = "cons"
               /\ TargetIn(objects, objects[spine[k - 1]].refs[1]) = args[Len(args) - n + k]
               /\ spine[k] = objects[spine[k - 1]].refs[2]

\* RestInv of any state, when n arguments are in the list.
RestIs(objects, onStack, pops, o, n) ==
    /\ pops >= 2
    /\ Len(o.args) - n >= 0
    /\ o.next % 2 = 0 => Len(o.args) - n > 0
    /\ onStack[Len(onStack) - 1] = List(o.last)
    /\ IsList(onStack[Len(onStack)])
    /\ o.next % 2 = 0 => /\ o.target \in Cells
                         /\ onStack[Len(onStack)] = List(o.target)
                         /\ objects[o.target] = o.args[Len(o.args) - n]
    /\ HoldsLast(objects, o.last, o.args, n)

\* How many arguments are in the list.
Consed(o) == (o.next - 1) \div 2

LEMMA RestIsInv ==
    /\ RestInv <=> (op.name = "rest" => RestIs(heap, stack, upvalues, op, Consed(op)))
    /\ RestInv' <=> (op'.name = "rest" => RestIs(heap', stack', upvalues', op', Consed(op')))
  BY DEF RestInv, RestIs, HoldsLast, Linked, Consed, Target, TargetIn, Top

LEMMA Halves ==
    ASSUME NEW n \in Nat \ {0}
    PROVE  /\ (n - 1) \div 2 \in Nat
           /\ n % 2 \in {0, 1}
           /\ n % 2 = 1 => (n + 1 - 1) \div 2 = (n - 1) \div 2 /\ (n + 1) % 2 = 0
           /\ n % 2 = 0 => (n + 1 - 1) \div 2 = (n - 1) \div 2 + 1 /\ (n + 1) % 2 = 1
  OBVIOUS

\* The steps of a rest list copy and cons in turn.
LEMMA RestTurns ==
    ASSUME NEW o, NEW q, o.next \in Nat \ {0}, q.next = o.next + 1
    PROVE  /\ o.next % 2 = 1 => Consed(q) = Consed(o) /\ q.next % 2 = 0
           /\ o.next % 2 = 0 => Consed(q) = Consed(o) + 1 /\ q.next % 2 = 1
  <1> DEFINE n == o.next
  <1>1. n \in Nat \ {0} /\ q.next = n + 1
    OBVIOUS
  <1> HIDE DEF n
  <1>2. /\ n % 2 = 1 => (q.next - 1) \div 2 = (n - 1) \div 2 /\ q.next % 2 = 0
        /\ n % 2 = 0 => (q.next - 1) \div 2 = (n - 1) \div 2 + 1 /\ q.next % 2 = 1
    BY <1>1, Halves
  <1> QED
    BY <1>2 DEF n, Consed

\* The list under construction.
LEMMA RestFacts ==
    ASSUME InstructionInv, op.name = "rest"
    PROVE  /\ TypeOK /\ HeapInv /\ OpFacts /\ op.next \in Nat \ {0}
           /\ Consed(op) \in Nat /\ Consed(op) <= Len(op.args)
           /\ RestLeft = Len(op.args) - Consed(op)
           /\ Pushed = 2 /\ Len(stack) \in Nat /\ Len(stack) >= 2 + Len(op.args)
           /\ upvalues \in 2 .. Len(stack)
           /\ stack[Len(stack) - 1] = List(op.last) /\ IsList(Top)
           /\ op.last \in Pointers
           /\ op.last # Null =>
                  op.last \in Live /\ heap[op.last].type \in Stackable \cup {"cons"}
           /\ \A k \in DOMAIN op.args : IsSound(op.args[k])
           /\ RestIs(heap, stack, upvalues, op, Consed(op))
           /\ HoldsLast(heap, op.last, op.args, Consed(op))
  <1>1. /\ TypeOK /\ HeapInv /\ OperandsInv /\ OpFacts
        /\ RestIs(heap, stack, upvalues, op, Consed(op))
    BY OperationFacts, RestIsInv DEF InstructionInv
  <1>2. op.next \in Nat \ {0} /\ op.last \in Pointers
    BY <1>1 DEF OpFacts, Operations
  <1>3. Consed(op) \in Nat
    BY <1>2, Halves DEF Consed
  <1>4. /\ Len(op.args) - Consed(op) >= 0 /\ upvalues >= 2
        /\ stack[Len(stack) - 1] = List(op.last) /\ IsList(Top)
        /\ HoldsLast(heap, op.last, op.args, Consed(op))
    BY <1>1 DEF RestIs, Top
  <1>5. Pushed = 2 /\ Len(stack) \in Nat /\ 2 <= Len(stack) /\ Len(op.args) <= Len(stack) - 2
    BY <1>1, HeapFacts DEF OperandsInv, Pushed
  <1>6. Consed(op) <= Len(op.args) /\ Len(stack) >= 2 + Len(op.args) /\ Len(op.args) \in Nat
    <2> DEFINE n == Len(op.args)
               m == Len(stack)
               k == Consed(op)
    <2>1. n \in Nat /\ m \in Nat /\ k \in Nat /\ n - k >= 0 /\ n <= m - 2
      BY <1>1, <1>3, <1>4, <1>5 DEF OpFacts
    <2> HIDE DEF n, m, k
    <2>2. k <= n /\ m >= 2 + n
      BY <2>1
    <2> QED
      BY <2>1, <2>2 DEF n, m, k
  <1>7. upvalues \in 2 .. Len(stack)
    BY <1>1, <1>4 DEF TypeOK
  <1>8. RestLeft = Len(op.args) - Consed(op)
    BY DEF RestLeft, Consed
  <1>9. op.last # Null => op.last \in Live /\ heap[op.last].type \in Stackable \cup {"cons"}
    <2> SUFFICES ASSUME op.last # Null
                 PROVE  op.last \in Live /\ heap[op.last].type \in Stackable \cup {"cons"}
      OBVIOUS
    <2> DEFINE i == Len(stack) - 1
               v == List(op.last)
    <2>1. i \in 1 .. Len(stack)
      BY <1>5
    <2>2. v \in StackValues
      <3>1. stack[i] = v
        BY <1>4
      <3> HIDE DEF i, v
      <3> QED
        BY <1>1, <2>1, <3>1, HeapFacts
    <2>3. IsSound(v)
      BY <1>1, <2>2, StackIsSound
    <2>4. v.type = "list" /\ v.refs = <<op.last>> /\ v.refs # <<Null>>
      BY DEF List, Value
    <2>5. Lead(heap, v.refs, Stackable \cup {"cons"})
      BY <2>3, <2>4 DEF IsSound, WellFormed
    <2>6. v.refs[1] \in Live /\ heap[v.refs[1]].type \in Stackable \cup {"cons"}
      <3> HIDE DEF v
      <3> QED
        BY <1>1, <2>3, <2>4, <2>5, PointsInto
    <2> QED
      BY <2>4, <2>6
  <1>10. \A k \in DOMAIN op.args : IsSound(op.args[k])
    BY <1>1, OperandFacts DEF IsOperand
  <1> QED
    BY <1>1, <1>2, <1>3, <1>4, <1>5, <1>6, <1>7, <1>8, <1>9, <1>10

\* Allocations do not disturb the list.
LEMMA SpineKept ==
    ASSUME TypeOK, HeapInv, NEW N, Changes(N, {}), NEW last \in Pointers,
           last # Null => last \in Live,
           NEW args, NEW n \in Nat, HoldsLast(heap, last, args, n)
    PROVE  HoldsLast(heap', last, args, n)
  <1> DEFINE R == {last} \ {Null}
             L == Linked(heap, last)
             L2 == Linked(heap', last)
  <1>1. Graph(heap) \in Graphs /\ StackCells \in SUBSET Cells
    BY HeapFacts
  <1>2. /\ heap' \in [Cells -> Values] /\ \A c \in Live : heap'[c] = heap[c]
    BY LiveFacts DEF Changes
  <1>3. Graph(heap') \in Graphs /\ \A c \in Live : Graph(heap')[c] = Graph(heap)[c]
    <2>1. \A c \in Cells : Children(heap'[c]) \subseteq Cells
      BY <1>2, ChildrenAreCells
    <2> QED
      BY <1>2, <2>1, LiveFacts DEF Graph, Graphs
  <1>4. R \subseteq Live /\ R \in SUBSET Cells
    BY LiveFacts
  <1> HIDE DEF R
  <1>5. Reachable(Graph(heap), R) \subseteq Live
    BY <1>1, <1>4, ReachableShrinks2 DEF Live
  <1>6. R \subseteq Reachable(Graph(heap'), R)
    BY <1>3, <1>4, ReachableClosed DEF ClosedOver
  <1>7. Reachable(Graph(heap), R) \subseteq Reachable(Graph(heap'), R)
    BY <1>1, <1>3, <1>4, <1>5, <1>6, ReachableKept
  <1>8. L \subseteq Live /\ L \subseteq L2
    BY <1>5, <1>7 DEF Linked, R
  <1> HIDE DEF L, L2
  <1>9. PICK spine \in [0 .. n -> L \cup {Null}] :
          /\ spine[0] = last
          /\ spine[n] = Null
          /\ \A k \in 1 .. n :
                 /\ spine[k - 1] # Null
                 /\ heap[spine[k - 1]].type = "cons"
                 /\ Target(heap[spine[k - 1]].refs[1]) = args[Len(args) - n + k]
                 /\ spine[k] = heap[spine[k - 1]].refs[2]
    BY DEF HoldsLast, L, Target, TargetIn
  <1>10. ASSUME NEW k \in 1 .. n
         PROVE  /\ spine[k - 1] # Null
                /\ heap'[spine[k - 1]].type = "cons"
                /\ TargetIn(heap', heap'[spine[k - 1]].refs[1]) = args[Len(args) - n + k]
                /\ spine[k] = heap'[spine[k - 1]].refs[2]
    <2> DEFINE s == spine[k - 1]
    <2>1. k - 1 \in 0 .. n
      OBVIOUS
    <2>2. s \in Live /\ s # Null
      BY <1>8, <1>9, <2>1
    <2>3. heap'[s] = heap[s]
      BY <1>2, <2>2
    <2>4. heap[s].type = "cons" /\ Target(heap[s].refs[1]) = args[Len(args) - n + k]
          /\ spine[k] = heap[s].refs[2]
      BY <1>9
    <2> HIDE DEF s
    <2>5. WellFormed(heap, heap[s])
      BY <2>2 DEF HeapInv
    <2>6. /\ heap[s].refs \in Seq(Pointers) /\ Len(heap[s].refs) = 2
          /\ \A p \in Range(heap[s].refs) : p # Null => p \in Live
      <3>1. Lead(heap, heap[s].refs, Stackable \cup {"cons"}) /\ Len(heap[s].refs) = 2
        BY <2>4, <2>5 DEF WellFormed
      <3> QED
        BY <2>2, <2>4, <3>1, PartsFacts
    <2>7. heap[s].refs[1] # Null => heap[s].refs[1] \in Live
      BY <2>6, RangeFacts
    <2>8. TargetIn(heap', heap[s].refs[1]) = Target(heap[s].refs[1])
      BY <2>7, TargetKept
    <2> QED
      BY <2>2, <2>3, <2>4, <2>8 DEF s
  <1>11. spine \in [0 .. n -> L2 \cup {Null}]
    BY <1>8
  <1> QED
    BY <1>9, <1>10, <1>11 DEF HoldsLast, L2

\* The list with one more pair in front.
LEMMA SpineGrows ==
    ASSUME NEW f \in [Cells -> Values], NEW c \in Cells, NEW p, NEW last \in Pointers,
           f[c] = Value("cons", <<p, last>>), NEW args, Len(args) \in Nat,
           NEW n \in Nat, TargetIn(f, p) = args[Len(args) - n],
           HoldsLast(f, last, args, n)
    PROVE  HoldsLast(f, c, args, n + 1)
  <1> DEFINE R == {last} \ {Null}
             L == Linked(f, last)
             L2 == Linked(f, c)
  <1>1. Graph(f) \in Graphs /\ c # Null /\ {c} \ {Null} = {c}
    BY ChildrenAreCells, NullAssumption DEF Graph, Graphs
  <1>2. /\ f[c].type = "cons" /\ f[c].refs = <<p, last>>
    BY DEF Value
  <1>3. f[c].refs[1] = p /\ f[c].refs[2] = last
    BY <1>2
  <1>4. R \subseteq Children(f[c]) /\ R \subseteq Cells
    <2>1. Children(f[c]) = Range(<<p, last>>) \ {Null}
      BY <1>2, ChildrenAreRefs
    <2>2. last \in Range(<<p, last>>)
      BY DEF Range
    <2> QED
      BY <2>1, <2>2 DEF Pointers
  <1> HIDE DEF R
  <1>5. c \in L2 /\ L2 \subseteq Cells /\ Children(f[c]) \subseteq L2
    <2>1. L2 = Reachable(Graph(f), {c})
      BY <1>1 DEF Linked
    <2>2. Graph(f)[c] = Children(f[c])
      BY DEF Graph
    <2> QED
      BY <1>1, <2>1, <2>2, ReachableClosed DEF ClosedOver
  <1>6. L \subseteq L2
    <2>1. R \subseteq Reachable(Graph(f), {c})
      BY <1>1, <1>4, <1>5 DEF Linked
    <2>2. Reachable(Graph(f), R) \subseteq Reachable(Graph(f), {c})
      BY <1>1, <1>4, <2>1, ReachableShrinks2
    <2> QED
      BY <1>1, <2>2 DEF Linked, R
  <1> HIDE DEF L, L2
  <1>7. PICK spine \in [0 .. n -> L \cup {Null}] :
          /\ spine[0] = last
          /\ spine[n] = Null
          /\ \A k \in 1 .. n :
                 /\ spine[k - 1] # Null
                 /\ f[spine[k - 1]].type = "cons"
                 /\ TargetIn(f, f[spine[k - 1]].refs[1]) = args[Len(args) - n + k]
                 /\ spine[k] = f[spine[k - 1]].refs[2]
    BY DEF HoldsLast, L
  <1> DEFINE longer == [k \in 0 .. n + 1 |-> IF k = 0 THEN c ELSE spine[k - 1]]
  <1>8. longer \in [0 .. n + 1 -> L2 \cup {Null}]
    <2>1. \A k \in 0 .. n + 1 : k # 0 => k - 1 \in 0 .. n
      OBVIOUS
    <2> QED
      BY <1>5, <1>6, <1>7, <2>1
  <1>9. longer[0] = c /\ \A k \in 1 .. n + 1 : longer[k] = spine[k - 1]
    OBVIOUS
  <1> HIDE DEF longer
  <1>10. longer[n + 1] = Null
    <2>1. n + 1 \in 1 .. n + 1 /\ n + 1 - 1 = n
      OBVIOUS
    <2> QED
      BY <1>7, <1>9, <2>1
  <1>11. ASSUME NEW k \in 1 .. n + 1
         PROVE  /\ longer[k - 1] # Null
                /\ f[longer[k - 1]].type = "cons"
                /\ TargetIn(f, f[longer[k - 1]].refs[1]) = args[Len(args) - (n + 1) + k]
                /\ longer[k] = f[longer[k - 1]].refs[2]
    <2>1. CASE k = 1
      <3>1. k - 1 = 0 /\ Len(args) - (n + 1) + k = Len(args) - n
        BY <2>1
      <3> QED
        BY <1>1, <1>2, <1>3, <1>7, <1>9, <2>1, <3>1
    <2>2. CASE k # 1
      <3> DEFINE j == k - 1
      <3>1. j \in 1 .. n /\ j \in 1 .. n + 1 /\ Len(args) - (n + 1) + k = Len(args) - n + j
        BY <2>2
      <3>2. longer[j] = spine[j - 1] /\ longer[k] = spine[j]
        BY <1>9, <3>1
      <3> HIDE DEF j
      <3>3. /\ spine[j - 1] # Null
            /\ f[spine[j - 1]].type = "cons"
            /\ TargetIn(f, f[spine[j - 1]].refs[1]) = args[Len(args) - n + j]
            /\ spine[j] = f[spine[j - 1]].refs[2]
        BY <1>7, <3>1
      <3> QED
        BY <3>1, <3>2, <3>3 DEF j
    <2> QED
      BY <2>1, <2>2
  <1> QED
    BY <1>8, <1>9, <1>10, <1>11 DEF HoldsLast, L2

LEMMA RestObjectKeeps ==
    ASSUME InstructionInv, RestObject
    PROVE  Keeps
  <1> DEFINE n == Consed(op)
             m == Len(stack)
             left == Len(op.args) - n
  <1>1. op.name = "rest" /\ RestLeft > 0 /\ op.next % 2 = 1
    BY DEF RestObject, RestCopies
  <1>2. /\ TypeOK /\ HeapInv /\ OpFacts /\ op.next \in Nat \ {0}
        /\ n \in Nat /\ n <= Len(op.args) /\ RestLeft = left
        /\ Pushed = 2 /\ m \in Nat /\ m >= 2 + Len(op.args)
        /\ upvalues \in 2 .. m
        /\ stack[m - 1] = List(op.last)
        /\ op.last \in Pointers /\ (op.last # Null => op.last \in Live)
        /\ \A k \in DOMAIN op.args : IsSound(op.args[k])
        /\ HoldsLast(heap, op.last, op.args, n)
    BY <1>1, RestFacts
  <1>3. Len(op.args) \in Nat /\ DOMAIN op.args = 1 .. Len(op.args)
    BY <1>2 DEF OpFacts
  <1>4. left > 0 /\ left \in DOMAIN op.args /\ m > 0 /\ m >= 2
    <2> DEFINE l == Len(op.args)
    <2>1. l \in Nat /\ l - n > 0 /\ n \in Nat /\ m \in Nat /\ m >= 2 + l
      BY <1>1, <1>2, <1>3
    <2> HIDE DEF l, n, m
    <2>2. l - n \in 1 .. l /\ m > 0 /\ m >= 2
      BY <2>1
    <2> QED
      BY <1>3, <2>1, <2>2 DEF l
  <1> HIDE DEF left
  <1>5. CASE OutOfMemory
    BY <1>2, <1>5, OutOfMemoryKeeps
  <1>6. ASSUME NEW c \in NewCell, Alloc(c, op.args[left]), SetTop(List(c)),
               op' = [op EXCEPT !.next = @ + 1, !.target = c], event' = NoEvent,
               upvalues' = upvalues
        PROVE  Keeps
    <2> DEFINE v == op.args[left]
    <2>1. IsSound(v)
      BY <1>2, <1>4
    <2>2. c \in Cells /\ c \in Pointers
      BY <1>2, NewCellFacts DEF Pointers
    <2> HIDE DEF v
    <2>3. Changes({c}, {}) /\ heap'[c] = v /\ free' = Available \ {c}
      <3>1. Alloc(c, v) /\ v \in Values /\ Children(v) \subseteq Live
        BY <1>6, <2>1 DEF v, IsSound, StackValue
      <3>2. ASSUME NEW g, \A d \in Live : g[d].type = heap[d].type
            PROVE  WellFormed(g, v)
        BY <2>1, <3>2, WellFormedKept DEF IsSound
      <3> QED
        BY <1>2, <3>1, <3>2, AllocEffect
    <2>4. List(c) \in StackValue /\ Children(List(c)) \subseteq Live \cup {c} /\ WellFormed(heap', List(c))
      <3>1. heap'[c].type \in Stackable
        BY <2>1, <2>3 DEF IsSound, StackValue
      <3> QED
        BY <2>2, <3>1, ListAfter
    <2>5. /\ Pushes({c}) /\ Len(stack') = m /\ Top' = List(c)
          /\ \A i \in 1 .. m - 1 : stack'[i] = stack[i]
      BY <1>2, <1>4, <1>6, <2>4, SetTopFacts
    <2>6. /\ op' \in Operations /\ op'.name = op.name /\ op'.args = op.args
          /\ op'.next = op.next + 1 /\ op'.target = c /\ op'.last = op.last
      <3>1. op \in Operations /\ op.next + 1 \in Nat \ {0}
        BY <1>2 DEF OpFacts
      <3>2. op' = Moved(op, op.next + 1, c)
        BY <1>6 DEF Moved
      <3> QED
        BY <2>2, <3>1, <3>2, MovedFacts
    <2>7. Consed(op') = n /\ op'.next % 2 = 0
      BY <1>1, <1>2, <2>6, RestTurns
    <2> HIDE DEF n
    <2>8. HoldsLast(heap', op'.last, op'.args, n)
      BY <1>2, <2>3, <2>6, SpineKept
    <2>9. stack'[Len(stack') - 1] = List(op'.last)
      <3>1. m - 1 \in 1 .. m - 1
        BY <1>2, <1>4
      <3> QED
        BY <1>2, <2>5, <2>6, <3>1
    <2>10. IsList(List(c))
      BY DEF IsList, List, Value
    <2>11. RestIs(heap', stack', upvalues', op', n)
      <3>1. Len(op'.args) - n = left
        BY <2>6 DEF left
      <3>2. stack'[Len(stack')] = List(c)
        BY <2>5 DEF Top
      <3>3. upvalues' >= 2 /\ left >= 0
        BY <1>2, <1>3, <1>4, <1>6
      <3> QED
        BY <1>4, <2>2, <2>3, <2>6, <2>8, <2>9, <2>10, <3>1, <3>2, <3>3 DEF RestIs, v
    <2>12. RestInv'
      BY <2>7, <2>11, RestIsInv
    <2>13. ConsInv' /\ VectorInv' /\ InstanceInv'
      BY <1>1, <2>6 DEF ConsInv, VectorInv, InstanceInv
    <2>14. Pushed' = 2
      BY <1>1, <2>6 DEF Pushed
    <2>15. Grants({c}, {})
      BY <2>3 DEF Grants
    <2>16. /\ upvalues' \in 0 .. Len(stack') /\ Len(stack') \in Nat
           /\ Pushed' <= Len(stack') /\ Len(stack) - Pushed <= Len(stack') - Pushed'
           /\ Len(stack) <= Len(stack')
           /\ \A i \in 1 .. Len(stack) - Pushed : stack'[i] = stack[i]
      BY <1>2, <1>4, <1>6, <2>5, <2>14
    <2> QED
      BY <1>1, <1>6, <2>3, <2>5, <2>6, <2>12, <2>13, <2>15, <2>16, ContinueKeeps
  <1> QED
    BY <1>2, <1>5, <1>6 DEF RestObject

LEMMA RestConsKeeps ==
    ASSUME InstructionInv, RestCons
    PROVE  Keeps
  <1> DEFINE n == Consed(op)
             m == Len(stack)
             left == Len(op.args) - n
  <1>1. op.name = "rest" /\ RestLeft > 0 /\ op.next % 2 = 0
    BY DEF RestCons, RestConses
  <1>2. /\ TypeOK /\ HeapInv /\ OpFacts /\ op.next \in Nat \ {0}
        /\ n \in Nat /\ n <= Len(op.args) /\ RestLeft = left
        /\ Pushed = 2 /\ m \in Nat /\ m >= 2 + Len(op.args)
        /\ upvalues \in 2 .. m /\ IsList(Top)
        /\ op.last \in Pointers
        /\ op.last # Null => op.last \in Live /\ heap[op.last].type \in Stackable \cup {"cons"}
        /\ \A k \in DOMAIN op.args : IsSound(op.args[k])
        /\ RestIs(heap, stack, upvalues, op, n)
        /\ HoldsLast(heap, op.last, op.args, n)
    BY <1>1, RestFacts
  <1>3. Len(op.args) \in Nat /\ DOMAIN op.args = 1 .. Len(op.args)
    BY <1>2 DEF OpFacts
  <1>4. left > 0 /\ left \in DOMAIN op.args /\ m > 0 /\ m >= 2
    <2> DEFINE l == Len(op.args)
    <2>1. l \in Nat /\ l - n > 0 /\ n \in Nat /\ m \in Nat /\ m >= 2 + l
      BY <1>1, <1>2, <1>3
    <2> HIDE DEF l, n, m
    <2>2. l - n \in 1 .. l /\ m > 0 /\ m >= 2
      BY <2>1
    <2> QED
      BY <1>3, <2>1, <2>2 DEF l
  <1>5. op.target \in Cells /\ Top = List(op.target) /\ heap[op.target] = op.args[left]
    BY <1>1, <1>2 DEF RestIs, Top
  <1> HIDE DEF left
  <1>6. IsSound(op.args[left])
    BY <1>2, <1>4
  <1>7. op.target \in Pointers /\ op.target # Null
    BY <1>5, NullAssumption DEF Pointers
  <1>8. op.target \in Live /\ heap[op.target].type \in Stackable
    <2>1. Children(List(op.target)) \subseteq Live
      BY <1>2, <1>4, <1>5, TopFacts
    <2>2. List(op.target).type # "array" /\ List(op.target).refs = <<op.target>>
      BY DEF List, Value
    <2>3. op.target \in Children(List(op.target))
      BY <1>7, <2>2, PointerFacts, ChildrenAreRefs
    <2> QED
      BY <1>5, <1>6, <2>1, <2>3 DEF IsSound, StackValue
  <1>9. CASE OutOfMemory
    BY <1>2, <1>9, OutOfMemoryKeeps
  <1>10. ASSUME NEW c \in NewCell, Alloc(c, Value("cons", <<op.target, op.last>>)),
                stack' = [stack EXCEPT ![Len(stack) - 1] = List(c)],
                op' = [op EXCEPT !.next = @ + 1, !.last = c], event' = NoEvent,
                upvalues' = upvalues
         PROVE  Keeps
    <2> DEFINE w == Value("cons", <<op.target, op.last>>)
    <2>1. c \in Cells /\ c \in Pointers
      BY <1>2, NewCellFacts DEF Pointers
    <2>2. /\ w \in Values /\ w.type = "cons" /\ w.initialized
          /\ w.refs = <<op.target, op.last>> /\ Len(w.refs) = 2
          /\ Range(w.refs) = {op.target, op.last}
      <3>1. <<>> \in Seq(Pointers)
        BY <2>1, PointerFacts
      <3>2. <<op.target, op.last>> \in Seq(Pointers)
        BY <1>2, <1>7
      <3>3. w \in Values /\ w.type = "cons" /\ w.initialized /\ w.refs = <<op.target, op.last>>
        BY <3>1, <3>2 DEF Value, Values, HeapTypes
      <3> QED
        BY <3>3 DEF Range
    <2> HIDE DEF w
    <2>3. Children(w) \subseteq Live
      BY <1>2, <1>8, <2>2, ChildrenAreRefs
    <2>4. ASSUME NEW g, \A d \in Live : g[d].type = heap[d].type
          PROVE  WellFormed(g, w)
      <3>1. Lead(g, w.refs, Stackable \cup {"cons"})
        BY <1>2, <1>8, <2>2, <2>4 DEF Lead
      <3> QED
        BY <2>2, <3>1, VmHeapAssumption DEF WellFormed, HeapTypes
    <2>5. Changes({c}, {}) /\ heap'[c] = w /\ free' = Available \ {c}
      <3>1. Alloc(c, w)
        BY <1>10 DEF w
      <3> QED
        BY <1>2, <2>2, <2>3, <2>4, <3>1, AllocEffect
    <2>6. List(c) \in StackValue /\ Children(List(c)) \subseteq Live \cup {c} /\ WellFormed(heap', List(c))
      BY <2>1, <2>2, <2>5, ListAfter
    <2>7. m - 1 \in 1 .. m /\ m \in 1 .. m
      BY <1>2, <1>4
    <2>8. Pushes({c})
      BY <1>2, <1>10, <2>6, <2>7, PushesOne
    <2>9. /\ Len(stack') = m /\ stack'[m - 1] = List(c) /\ stack'[m] = stack[m]
          /\ \A i \in 1 .. m - 2 : stack'[i] = stack[i]
      <3> DEFINE j == m - 1
      <3>1. stack \in Seq(StackValue) /\ DOMAIN stack = 1 .. m
        BY <1>2, HeapFacts, SeqFacts
      <3>2. j \in 1 .. m /\ j # m /\ \A i \in 1 .. m - 2 : i \in 1 .. m /\ i # j
        BY <1>2, <1>4
      <3>3. stack' = [stack EXCEPT ![j] = List(c)]
        BY <1>10
      <3> HIDE DEF j, m
      <3>4. Len(stack') = m
        <4> DEFINE v == List(c)
        <4>1. v \in StackValue /\ stack' = [stack EXCEPT ![j] = v] /\ j \in 1 .. Len(stack)
          BY <2>6, <3>2, <3>3 DEF m
        <4> HIDE DEF v
        <4>2. Len([stack EXCEPT ![j] = v]) = Len(stack)
          BY <3>1, <4>1, ExceptFacts
        <4> QED
          BY <4>1, <4>2 DEF m
      <3>5. stack'[j] = List(c) /\ \A i \in 1 .. m : i # j => stack'[i] = stack[i]
        BY <3>1, <3>2, <3>3
      <3> QED
        BY <2>7, <3>2, <3>4, <3>5 DEF j
    <2>10. /\ op' \in Operations /\ op'.name = op.name /\ op'.args = op.args
           /\ op'.next = op.next + 1 /\ op'.target = op.target /\ op'.last = c
      <3> DEFINE o == [op EXCEPT !.next = op.next + 1]
      <3>1. op \in Operations /\ op.next + 1 \in Nat \ {0}
        BY <1>2 DEF OpFacts
      <3>2. /\ o \in Operations /\ o.name = op.name /\ o.args = op.args
            /\ o.next = op.next + 1 /\ o.target = op.target
        BY <3>1 DEF Operations
      <3>3. op' = [o EXCEPT !.last = c]
        BY <1>10
      <3> HIDE DEF o
      <3> QED
        BY <2>1, <3>2, <3>3 DEF Operations
    <2>11. Consed(op') = n + 1 /\ op'.next % 2 = 1
      BY <1>1, <1>2, <2>10, RestTurns
    <2> HIDE DEF n
    <2>12. HoldsLast(heap', op.last, op.args, n)
      BY <1>2, <2>5, SpineKept
    <2>13. TargetIn(heap', op.target) = op.args[Len(op.args) - n]
      <3>1. "cons" \notin Stackable
        BY VmHeapAssumption DEF Stackable, HeapTypes
      <3>2. TargetIn(heap', op.target) = Target(op.target)
        BY <1>2, <1>8, <2>5, TargetKept
      <3> QED
        BY <1>5, <1>7, <1>8, <3>1, <3>2 DEF Target, left
    <2>14. HoldsLast(heap', c, op.args, n + 1)
      <3>1. heap' \in [Cells -> Values]
        BY <2>5 DEF Changes
      <3>2. heap'[c] = Value("cons", <<op.target, op.last>>)
        BY <2>5 DEF w
      <3> QED
        BY <1>2, <1>3, <2>1, <2>12, <2>13, <3>1, <3>2, SpineGrows
    <2>15. RestIs(heap', stack', upvalues', op', n + 1)
      <3>1. Len(op'.args) - (n + 1) >= 0
        BY <1>2, <1>3, <1>4, <2>10 DEF left
      <3>2. upvalues' >= 2
        BY <1>2, <1>10
      <3>3. IsList(stack'[Len(stack')]) /\ stack'[Len(stack') - 1] = List(op'.last)
        BY <1>2, <2>9, <2>10 DEF Top
      <3> QED
        BY <2>10, <2>11, <2>14, <3>1, <3>2, <3>3 DEF RestIs
    <2>16. RestInv'
      BY <2>11, <2>15, RestIsInv
    <2>17. ConsInv' /\ VectorInv' /\ InstanceInv'
      BY <1>1, <2>10 DEF ConsInv, VectorInv, InstanceInv
    <2>18. Pushed' = 2
      BY <1>1, <2>10 DEF Pushed
    <2>19. Grants({c}, {})
      BY <2>5 DEF Grants
    <2>20. /\ upvalues' \in 0 .. Len(stack') /\ Len(stack') \in Nat
           /\ Pushed' <= Len(stack') /\ Len(stack) - Pushed <= Len(stack') - Pushed'
           /\ Len(stack) <= Len(stack')
           /\ \A i \in 1 .. Len(stack) - Pushed : stack'[i] = stack[i]
      <3>1. upvalues' = upvalues /\ upvalues \in 2 .. m /\ m \in Nat /\ m >= 2 /\ Len(stack') = m
        BY <1>2, <1>4, <1>10, <2>9
      <3>2. upvalues' \in 0 .. Len(stack') /\ Len(stack') \in Nat /\ 2 <= Len(stack')
        <4> HIDE DEF m
        <4> QED
          BY <3>1
      <3> QED
        BY <1>2, <2>9, <2>18, <3>1, <3>2
    <2> QED
      BY <1>1, <1>10, <2>5, <2>8, <2>10, <2>16, <2>17, <2>19, <2>20, ContinueKeeps
  <1> QED
    BY <1>2, <1>9, <1>10 DEF RestCons

LEMMA RestReplaceKeeps ==
    ASSUME InstructionInv, RestReplace
    PROVE  Keeps
  <1> DEFINE args == op.args
             l == Len(args)
             m == Len(stack)
             last == op.last
             v == List(last)
             below == m - 2 - l
             left == upvalues - 1 - l
  <1>1. op.name = "rest" /\ RestLeft = 0 /\ UNCHANGED <<heap, free>>
    BY DEF RestReplace
  <1>2. /\ TypeOK /\ HeapInv /\ OpFacts
        /\ Consed(op) \in Nat /\ RestLeft = l - Consed(op)
        /\ m \in Nat /\ m >= 2 + l /\ upvalues \in 2 .. m
        /\ stack[m - 1] = v /\ last \in Pointers
        /\ HoldsLast(heap, last, args, Consed(op))
    BY <1>1, RestFacts
  <1>3. l \in Nat /\ args \in Seq(Values) /\ DOMAIN args = 1 .. l
    BY <1>2 DEF OpFacts
  <1>4. below \in Nat /\ below + 1 \in 1 .. m - 1 /\ m - 1 \in 1 .. m
    <2> HIDE DEF l, m
    <2> QED
      BY <1>2, <1>3
  <1>5. v \in StackValues /\ IsSound(v)
    <2> HIDE DEF v
    <2>1. v \in StackValues
      BY <1>2, <1>4, HeapFacts
    <2> QED
      BY <1>2, <2>1, StackIsSound
  <1>6. HoldsLast(heap, last, args, l)
    <2> DEFINE k == Consed(op)
    <2>1. k \in Nat /\ l - k = 0
      BY <1>1, <1>2
    <2> HIDE DEF k, l
    <2>2. k = l
      BY <1>3, <2>1
    <2> QED
      BY <1>2, <2>2 DEF k
  <1>7. Changes({}, {}) /\ Grants({}, {})
    BY <1>1, <1>2, WritesNothing DEF Grants
  <1>8. stack \in Seq(StackValue) /\ v \in StackValue
    BY <1>2, <1>5, HeapFacts DEF IsSound
  <1> HIDE DEF v
  <1>9. CASE /\ left >= 0
             /\ stack' = Append(SubSeq(stack, 1, below), v) /\ upvalues' = left
             /\ Done(args, last)
    <2> DEFINE kept == SubSeq(stack, 1, below)
    <2>1. kept \in Seq(StackValue) /\ Len(kept) = below /\ Range(kept) \subseteq StackValues
      <3> HIDE DEF l, m
      <3>1. below \in Int /\ below <= m /\ (1 <= below \/ below = 0)
        BY <1>2, <1>3, <1>4
      <3> HIDE DEF below
      <3> QED
        BY <1>8, <3>1, PrefixFacts DEF m, StackValues
    <2> HIDE DEF kept
    <2>2. stack' = Append(kept, v)
      BY <1>9 DEF kept
    <2>3. /\ stack' \in Seq(StackValue) /\ Len(stack') = below + 1 /\ Top' = v
          /\ Range(stack') \subseteq StackValues
      <3>1. kept \in Seq(StackValue) /\ v \in StackValue
        BY <1>8, <2>1
      <3>2. /\ Append(kept, v) \in Seq(StackValue) /\ Len(Append(kept, v)) = Len(kept) + 1
            /\ Append(kept, v)[Len(kept) + 1] = v
            /\ Range(Append(kept, v)) = Range(kept) \cup {v}
        BY <3>1, AppendFacts
      <3> QED
        BY <1>5, <2>1, <2>2, <3>2 DEF Top
    <2>4. Pushes({})
      BY <2>3 DEF Pushes
    <2>5. upvalues' \in 0 .. Len(stack')
      <3>1. upvalues' = upvalues - 1 - l /\ upvalues' >= 0 /\ Len(stack') = m - 2 - l + 1
        BY <1>9, <2>3
      <3> HIDE DEF l, m
      <3> QED
        BY <1>2, <1>3, <3>1
    <2>6. op' = Idle /\ event' = [name |-> "rest", args |-> args, cell |-> last]
      BY <1>1, <1>9 DEF Done
    <2> HIDE DEF args, last, l
    <2>7. event' \in Events /\ event'.name = "rest" /\ event'.args = args /\ event'.cell = last
      BY <1>2, <1>3, <2>6 DEF Events, Names
    <2>8. InstructionBuilds'
      <3>1. ListHolds(event.cell, event.args)'
        <4>1. PICK spine \in [0 .. l -> Linked(heap, last) \cup {Null}] :
                /\ spine[0] = last
                /\ spine[l] = Null
                /\ \A k \in 1 .. l :
                       /\ spine[k - 1] # Null
                       /\ TargetIn(heap, heap[spine[k - 1]].refs[1]) = args[l - l + k]
                       /\ spine[k] = heap[spine[k - 1]].refs[2]
          BY <1>6 DEF HoldsLast, l
        <4>2. spine \in [0 .. Len(args) -> Pointers]
          <5>1. Linked(heap, last) \subseteq Cells
            BY DEF Linked, Reachable
          <5> QED
            BY <5>1 DEF Pointers, l
        <4>3. \A k \in DOMAIN args :
                  /\ spine[k - 1] # Null
                  /\ Target(heap[spine[k - 1]].refs[1])' = args[k]
                  /\ spine[k] = heap'[spine[k - 1]].refs[2]
          <5> SUFFICES ASSUME NEW k \in 1 .. l
                       PROVE  /\ spine[k - 1] # Null
                              /\ Target(heap[spine[k - 1]].refs[1])' = args[k]
                              /\ spine[k] = heap'[spine[k - 1]].refs[2]
            BY <1>3 DEF l
          <5>1. l - l + k = k
            BY <1>3
          <5> QED
            BY <1>1, <4>1, <5>1 DEF Target, TargetIn
        <4> QED
          BY <2>7, <4>1, <4>2, <4>3, SMTT(20) DEF ListHolds, l
      <3>2. Top' = List(event'.cell)
        BY <2>3, <2>7 DEF v, last
      <3> QED
        BY <2>7, <3>1, <3>2 DEF InstructionBuilds, Top
    <2> QED
      BY <1>7, <2>4, <2>5, <2>6, <2>7, <2>8, FinishKeeps
  <1>10. CASE /\ stack' = [SubSeq(stack, 1, m - 1) EXCEPT ![below + 1] = v]
              /\ upvalues' = upvalues - 1 /\ op' = Idle /\ event' = NoEvent
    <2> DEFINE kept == SubSeq(stack, 1, m - 1)
               i == below + 1
    <2>1. i \in 1 .. m - 1 /\ m - 1 \in Int /\ m - 1 <= m /\ 1 <= m - 1
      <3> HIDE DEF m, l
      <3> QED
        BY <1>2, <1>3, <1>4
    <2>2. kept \in Seq(StackValue) /\ Len(kept) = m - 1 /\ Range(kept) \subseteq StackValues
      <3> DEFINE k == m - 1
      <3>1. k \in Int /\ k <= Len(stack) /\ 1 <= k
        BY <2>1
      <3> HIDE DEF k
      <3> QED
        BY <1>8, <3>1, PrefixFacts DEF k, StackValues
    <2> HIDE DEF kept, i
    <2>3. stack' = [kept EXCEPT ![i] = v] /\ i \in 1 .. Len(kept)
      BY <1>10, <2>1, <2>2 DEF kept, i
    <2>4. /\ stack' \in Seq(StackValue) /\ Len(stack') = m - 1
          /\ Range(stack') \subseteq StackValues
      <3>1. kept \in Seq(StackValue) /\ v \in StackValue /\ i \in 1 .. Len(kept)
        BY <1>8, <2>2, <2>3
      <3>2. /\ [kept EXCEPT ![i] = v] \in Seq(StackValue)
            /\ Len([kept EXCEPT ![i] = v]) = Len(kept)
            /\ Range([kept EXCEPT ![i] = v]) \subseteq Range(kept) \cup {v}
        BY <3>1, ExceptFacts
      <3> QED
        BY <1>5, <2>2, <2>3, <3>2
    <2>5. Pushes({})
      BY <2>4 DEF Pushes
    <2>6. upvalues' \in 0 .. Len(stack')
      <3>1. upvalues' = upvalues - 1 /\ Len(stack') = m - 1
        BY <1>10, <2>4
      <3> HIDE DEF m
      <3> QED
        BY <1>2, <3>1
    <2>7. event' \in Events /\ InstructionBuilds'
      BY <1>10, IdleFacts, NoEventBuilds
    <2> QED
      BY <1>7, <1>10, <2>5, <2>6, <2>7, FinishKeeps
  <1> QED
    <2>1. \/ /\ left >= 0
             /\ stack' = Append(SubSeq(stack, 1, below), v) /\ upvalues' = left
             /\ Done(args, last)
          \/ /\ stack' = [SubSeq(stack, 1, m - 1) EXCEPT ![below + 1] = v]
             /\ upvalues' = upvalues - 1 /\ op' = Idle /\ event' = NoEvent
      BY DEF RestReplace, v
    <2> QED
      BY <1>9, <1>10, <2>1

\* A sequence with two elements more.
LEMMA TwoMore ==
    ASSUME NEW S, NEW s \in Seq(S), NEW e \in S
    PROVE  /\ s \o <<e, e>> \in Seq(S) /\ Len(s \o <<e, e>>) = Len(s) + 2
           /\ \A i \in 1 .. Len(s) : (s \o <<e, e>>)[i] = s[i]
           /\ (s \o <<e, e>>)[Len(s) + 1] = e /\ (s \o <<e, e>>)[Len(s) + 2] = e
           /\ Range(s \o <<e, e>>) \subseteq Range(s) \cup {e}
  <1> DEFINE n == Len(s)
             t == s \o <<e, e>>
  <1>1. n \in Nat /\ <<e, e>> \in Seq(S) /\ Len(<<e, e>>) = 2
        /\ <<e, e>>[1] = e /\ <<e, e>>[2] = e
    BY SeqFacts
  <1>2. /\ t \in Seq(S) /\ Len(t) = n + 2
        /\ \A i \in 1 .. n + 2 : t[i] = IF i <= n THEN s[i] ELSE <<e, e>>[i - n]
    BY <1>1, ConcatProperties
  <1> HIDE DEF t
  <1>3. \A i \in 1 .. n : t[i] = s[i]
    <2> HIDE DEF n
    <2> QED
      BY <1>1, <1>2
  <1>4. t[n + 1] = e /\ t[n + 2] = e
    <2> HIDE DEF n
    <2>1. n + 1 \in 1 .. n + 2 /\ n + 2 \in 1 .. n + 2 /\ ~(n + 1 <= n) /\ ~(n + 2 <= n)
          /\ n + 1 - n = 1 /\ n + 2 - n = 2
      BY <1>1
    <2> QED
      BY <1>1, <1>2, <2>1
  <1>5. Range(t) \subseteq Range(s) \cup {e}
    <2> SUFFICES ASSUME NEW i \in 1 .. n + 2 PROVE t[i] \in Range(s) \cup {e}
      BY <1>2, RangeFacts
    <2>1. CASE i <= n
      <3>1. i \in 1 .. n
        <4> HIDE DEF n
        <4> QED
          BY <1>1, <2>1
      <3> QED
        BY <1>3, <3>1, RangeFacts
    <2>2. CASE ~(i <= n)
      <3>1. i = n + 1 \/ i = n + 2
        <4> HIDE DEF n
        <4> QED
          BY <1>1, <2>2
      <3> QED
        BY <1>4, <3>1
    <2> QED
      BY <2>1, <2>2
  <1> QED
    BY <1>2, <1>3, <1>4, <1>5 DEF t

LEMMA BeginRestKeeps ==
    ASSUME InstructionInv, BeginRest
    PROVE  Keeps
  <1> DEFINE m == Len(stack)
             v == List(Null)
  <1>1. PICK n \in 0 .. RestBound :
          /\ n <= m
          /\ \A i \in m - n + 1 .. m : stack[i] \in Usable
          /\ Begin("rest", SubSeq(stack, m - n + 1, m))
    BY DEF BeginRest
  <1>2. TypeOK /\ HeapInv /\ m \in Nat /\ n \in Nat
    BY HeapFacts, VmHeapAssumption DEF InstructionInv
  <1> DEFINE first == m - n
             args == SubSeq(stack, first + 1, m)
  <1>3. first \in Nat
    <2> HIDE DEF m
    <2> QED
      BY <1>1, <1>2
  <1>4. v \in StackValue /\ Children(v) = {} /\ \A N : WellFormed(heap, v)
    <2>1. Null \in Pointers
      BY DEF Pointers
    <2>2. IsSound(v)
      BY <1>2, <2>1, ListIsSound
    <2>3. v.type # "array" /\ v.refs = <<Null>>
      BY DEF List, Value
    <2>4. Children(v) = {}
      BY <2>1, <2>3, PointerFacts, ChildrenAreRefs
    <2> QED
      BY <2>2, <2>4 DEF IsSound
  <1>5. /\ op' = [Idle EXCEPT !.name = "rest", !.args = args] /\ event' = NoEvent
        /\ UNCHANGED <<heap, free>>
        /\ stack' = stack \o <<v, v>> /\ upvalues' = upvalues + 2
    BY <1>1 DEF Begin, BeginRest
  <1>6. stack \in Seq(StackValue) /\ StackValue \subseteq Values
    BY <1>2, HeapFacts DEF StackValue
  <1> HIDE DEF v
  <1>7. /\ stack' \in Seq(StackValue) /\ Len(stack') = m + 2
        /\ \A i \in 1 .. m : stack'[i] = stack[i]
        /\ stack'[m + 1] = v /\ stack'[m + 2] = v
        /\ Range(stack') \subseteq StackValues \cup {v}
    BY <1>4, <1>5, <1>6, TwoMore DEF StackValues
  <1>8. /\ args \in Seq(StackValue) /\ Len(args) = n
        /\ \A k \in 1 .. n : args[k] = stack[first + k]
    <2>1. /\ args \in Seq(StackValue) /\ Len(args) = (IF first < m THEN m - first ELSE 0)
          /\ \A k \in 1 .. m - first : args[k] = stack[first + k]
      <3> HIDE DEF first
      <3> QED
        BY <1>3, <1>6, SuffixFacts
    <2>2. m - first = n /\ (first < m => m - first = n) /\ (~(first < m) => n = 0)
      <3> HIDE DEF m
      <3> QED
        BY <1>1, <1>2
    <2> HIDE DEF first, m, args
    <2> QED
      BY <2>1, <2>2
  <1>9. args \in Seq(Values) /\ DOMAIN args = 1 .. n
    <2> HIDE DEF args
    <2>1. DOMAIN args = 1 .. n /\ \A k \in 1 .. n : args[k] \in Values
      BY <1>6, <1>8, SeqFacts
    <2>2. args \in [1 .. n -> Values]
      <3>1. args = [k \in 1 .. n |-> args[k]]
        BY <1>8, <2>1, SeqFacts
      <3> QED
        BY <2>1, <3>1
    <2> QED
      BY <1>2, <2>1, <2>2, SeqDef
  <1>10. \A k \in 1 .. n : first + k \in 1 .. m /\ first + k \in m - n + 1 .. m
    <2> HIDE DEF m
    <2> QED
      BY <1>1, <1>2, <1>3
  <1>11. \A k \in 1 .. n : args[k] \in Usable
    <2> HIDE DEF args
    <2> QED
      BY <1>1, <1>8, <1>10
  <1> HIDE DEF args
  <1>12. /\ op' \in Operations /\ op'.name = "rest" /\ op'.args = args /\ op'.next = 1
         /\ op'.last = Null
    <2> DEFINE q == [Idle EXCEPT !.name = "rest"]
    <2>1. q \in Operations /\ q.name = "rest" /\ q.next = 1 /\ q.last = Null
      BY IdleFacts DEF Operations, Idle, Names
    <2>2. op' = [q EXCEPT !.args = args]
      BY <1>5
    <2> HIDE DEF q
    <2> QED
      BY <1>9, <2>1, <2>2 DEF Operations
  <1>13. Changes({}, {}) /\ Pushes({})
    BY <1>2, <1>4, <1>5, <1>7, WritesNothing DEF Pushes
  <1>14. free' \subseteq Cells /\ upvalues' \in 0 .. Len(stack')
    <2>1. upvalues \in 0 .. m /\ free \subseteq Cells
      BY <1>2 DEF TypeOK
    <2>2. Len(stack') = m + 2
      BY <1>7
    <2> HIDE DEF m
    <2> QED
      BY <1>2, <1>5, <2>1, <2>2
  <1>15. HeapInv' /\ Abstract!Mutate
    BY <1>2, <1>5, <1>13, Mutates
  <1>16. TypeOK'
    BY <1>2, <1>5, <1>12, <1>13, <1>14, IdleFacts, TypeKept
  <1>17. OperandsInv'
    <2>1. Pushed' = 2 /\ Len(stack') = m + 2 /\ Len(op'.args) = n
      BY <1>7, <1>8, <1>12 DEF Pushed
    <2>2. 2 <= m + 2 /\ n <= m + 2 - 2 /\ m + 2 - 2 = m
      BY <1>1, <1>2
    <2>3. \A k \in DOMAIN op'.args :
              /\ \E i \in 1 .. m : stack'[i] = op'.args[k]
              /\ IsList(op'.args[k]) => Lead(heap', op'.args[k].refs, {"cons"})
      <3> SUFFICES ASSUME NEW k \in 1 .. n
                   PROVE  /\ \E i \in 1 .. m : stack'[i] = args[k]
                          /\ IsList(args[k]) => Lead(heap', args[k].refs, {"cons"})
        BY <1>9, <1>12
      <3>1. stack'[first + k] = args[k] /\ first + k \in 1 .. m
        BY <1>7, <1>8, <1>10
      <3>2. IsOperand(args[k])
        BY <1>2, <1>11, UsableFacts
      <3> QED
        BY <1>5, <3>1, <3>2 DEF IsOperand
    <2>4. /\ Pushed' <= Len(stack') /\ Len(op'.args) <= Len(stack') - 2
          /\ Len(stack') - Pushed' = m
      BY <2>1, <2>2
    <2> HIDE DEF m
    <2>5. \A k \in DOMAIN op'.args :
              /\ \E i \in 1 .. Len(stack') - Pushed' : stack'[i] = op'.args[k]
              /\ IsList(op'.args[k]) => Lead(heap', op'.args[k].refs, {"cons"})
      BY <2>3, <2>4
    <2> QED
      BY <2>4, <2>5 DEF OperandsInv
  <1>18. InstructionBuilds'
    BY <1>5, IdleFacts, NoEventBuilds
  <1>19. RestInv'
    <2>1. Consed(op') = 0 /\ op'.next % 2 = 1
      BY <1>12 DEF Consed
    <2>2. HoldsLast(heap', op'.last, op'.args, 0)
      <3> DEFINE spine == [k \in 0 .. 0 |-> Null]
      <3>1. spine \in [0 .. 0 -> Linked(heap', op'.last) \cup {Null}] /\ spine[0] = Null
        OBVIOUS
      <3>2. 1 .. 0 = {}
        OBVIOUS
      <3> HIDE DEF spine
      <3> QED
        BY <1>12, <3>1, <3>2 DEF HoldsLast
    <2>3. /\ stack'[Len(stack') - 1] = v /\ stack'[Len(stack')] = v
          /\ upvalues' >= 2 /\ Len(op'.args) - 0 >= 0
      <3>1. upvalues \in 0 .. m
        BY <1>2 DEF TypeOK
      <3>2. Len(stack') = m + 2 /\ Len(stack') - 1 = m + 1 /\ Len(op'.args) = n
        BY <1>2, <1>7, <1>8, <1>12
      <3>3. upvalues' >= 2
        <4> HIDE DEF m
        <4> QED
          BY <1>2, <1>5, <3>1
      <3> QED
        BY <1>2, <1>7, <3>2, <3>3
    <2>4. v = List(op'.last) /\ IsList(v)
      BY <1>12 DEF v, IsList, List, Value
    <2>5. RestIs(heap', stack', upvalues', op', 0)
      BY <2>1, <2>2, <2>3, <2>4 DEF RestIs
    <2> QED
      BY <2>1, <2>5, RestIsInv
  <1>20. ConsInv' /\ VectorInv' /\ InstanceInv'
    BY <1>12 DEF ConsInv, VectorInv, InstanceInv
  <1> QED
    BY <1>15, <1>16, <1>17, <1>18, <1>19, <1>20 DEF Keeps, InstructionInv, Abstract!HeapNext

-----------------------------------------------------------------------------
(* The theorems. *)

LEMMA InitInstructions ==
    ASSUME Init
    PROVE  InstructionInv /\ Abstract!HeapInit
  <1>1. /\ heap = [c \in Cells |-> Value("none", <<>>)] /\ free = Cells
        /\ stack = <<>> /\ upvalues = 0 /\ op = Idle /\ event = NoEvent
    BY DEF Init
  <1>2. StackCells = {} /\ StackValues = {}
    BY <1>1 DEF StackCells, StackValues, Range
  <1>3. Value("none", <<>>) \in Values
    <2>1. <<>> \in Seq(Pointers)
      BY PointerFacts DEF Pointers
    <2> QED
      BY <2>1 DEF Value, Values
  <1>4. TypeOK
    <2>1. <<>> \in Seq(StackValue) /\ Len(<<>>) = 0
      OBVIOUS
    <2>2. op \in Operations /\ event \in Events
      BY <1>1, IdleFacts
    <2> QED
      BY <1>1, <1>3, <2>1, <2>2 DEF TypeOK, Operations, Events, StackValue
  <1>5. Live = {}
    <2>1. ClosedOver(Graph(heap), {}, {})
      BY DEF ClosedOver
    <2> QED
      BY <1>2, <2>1, ReachableLeast DEF Live
  <1>6. HeapInv
    BY <1>2, <1>5 DEF HeapInv, FreeIsDead
  <1>7. OperandsInv /\ ConsInv /\ VectorInv /\ InstanceInv /\ RestInv
    BY <1>1 DEF Idle, OperandsInv, ConsInv, VectorInv, InstanceInv, RestInv
  <1>8. InstructionBuilds
    BY <1>1 DEF NoEvent, InstructionBuilds
  <1>9. Abstract!HeapInit
    <2>1. Children(Value("none", <<>>)) = {}
      BY <1>3, ChildrenAreRefs DEF Value, Range
    <2>2. \A c \in Cells : heap[c] = Value("none", <<>>)
      BY <1>1
    <2>3. Graph(heap) = [c \in Cells |-> {}]
      BY <2>1, <2>2 DEF Graph
    <2>4. Abstract!Cells = Cells
      BY SameHeap
    <2> QED
      BY <1>1, <1>2, <2>3, <2>4 DEF Abstract!HeapInit
  <1> QED
    BY <1>4, <1>6, <1>7, <1>8, <1>9 DEF InstructionInv

LEMMA NextKeeps ==
    ASSUME InstructionInv, Sound, Next
    PROVE  Keeps
  <1>1. CASE Push
    BY <1>1, PushKeeps
  <1>2. CASE PushIndex
    BY <1>2, PushIndexKeeps
  <1>3. CASE Pop
    BY <1>3, PopKeeps
  <1>4. CASE SoftReset
    BY <1>4, SoftResetKeeps
  <1>5. CASE Cons
    BY <1>5, BeginWithKeeps, ConsCellKeeps, ConsCarKeeps, ConsCdrKeeps DEF Cons
  <1>6. CASE MakesVector
    BY <1>6, BeginVectorKeeps, VectorCellKeeps, VectorElementKeeps, VectorEmptyKeeps,
       BeginMakeVectorKeeps, MakeVectorFillKeeps DEF MakesVector
  <1>7. CASE MakeInstance
    BY <1>7, BeginWithKeeps, InstanceCellKeeps, InstanceValueKeeps, InstanceFunctionKeeps
       DEF MakeInstance
  <1>8. CASE Rest
    BY <1>8, BeginRestKeeps, RestObjectKeeps, RestConsKeeps, RestReplaceKeeps DEF Rest
  <1>9. CASE Reads
    BY <1>9, CarKeeps, CdrKeeps, GetVecEltKeeps, CompositeReadsKeep DEF Reads
  <1>10. CASE Writes
    BY <1>10, SetCarKeeps, SetCdrKeeps, SetCdrOfVectorKeeps, SetVecEltKeeps,
       SetCompositeKeeps DEF Writes
  <1> QED
    BY <1>1, <1>2, <1>3, <1>4, <1>5, <1>6, <1>7, <1>8, <1>9, <1>10 DEF Next

LEMMA StutterKeeps ==
    ASSUME InstructionInv, UNCHANGED vars
    PROVE  Keeps
  <1>1. UNCHANGED <<heap, free, stack, upvalues, op, event>>
    BY DEF vars
  <1>2. Pushed' = Pushed /\ Top' = Top /\ Live' = Live /\ StackValues' = StackValues
        /\ StackCells' = StackCells
    BY <1>1 DEF Pushed, Top, Live, StackValues, StackCells
  <1>3. TypeOK'
    BY <1>1 DEF InstructionInv, TypeOK
  <1>4. HeapInv'
    BY <1>1, <1>2 DEF InstructionInv, HeapInv, FreeIsDead
  <1>5. OperandsInv'
    BY <1>1, <1>2 DEF InstructionInv, OperandsInv
  <1>6. ConsInv'
    BY <1>1, <1>2 DEF InstructionInv, ConsInv, Target
  <1>7. VectorInv'
    BY <1>1, <1>2 DEF InstructionInv, VectorInv
  <1>8. InstanceInv'
    BY <1>1, <1>2 DEF InstructionInv, InstanceInv, Target
  <1>9. RestInv'
    BY <1>1, RestIsInv DEF InstructionInv
  <1>10. InstructionBuilds'
    BY <1>1, SMTT(20) DEF InstructionInv, InstructionBuilds, Holds, ListHolds, Target
  <1>11. UNCHANGED Abstract!heapVars
    BY <1>1, <1>2 DEF Abstract!heapVars
  <1> QED
    BY <1>3, <1>4, <1>5, <1>6, <1>7, <1>8, <1>9, <1>10, <1>11 DEF Keeps, InstructionInv

\* What the instructions rely on, and what each one has built so far, holds in every
\* state of a sound machine: any heap, any bounds, any of the instructions.
THEOREM InstructionsKeepTheirObjects ==
    ASSUME Sound
    PROVE  Spec => []InstructionInv
  <1>1. Init => InstructionInv
    BY InitInstructions
  <1>2. InstructionInv /\ [Next]_vars => InstructionInv'
    BY NextKeeps, StutterKeeps DEF Keeps
  <1> QED
    BY <1>1, <1>2, PTL DEF Spec

\* Every variable has its type: in particular the stack never holds an object of the
\* heap's own types, and the upvalue stack is never longer than the stack.
THEOREM TypeCorrect ==
    ASSUME Sound
    PROVE  Spec => []TypeOK
  <1>1. InstructionInv => TypeOK
    BY DEF InstructionInv
  <1> QED
    BY <1>1, InstructionsKeepTheirObjects, PTL

\* An object that can be reached from the stack is never in the list of free cells.
THEOREM LiveObjectsAreKept ==
    ASSUME Sound
    PROVE  Spec => []FreeIsDead
  <1>1. InstructionInv => FreeIsDead
    BY DEF InstructionInv, HeapInv
  <1> QED
    BY <1>1, InstructionsKeepTheirObjects, PTL

\* cons, vector, make-vector, make-instance and the rest list of a variadic call build
\* the object they were asked for, however often an allocation in between collects.
THEOREM InstructionsBuild ==
    ASSUME Sound
    PROVE  Spec => []InstructionBuilds
  <1>1. InstructionInv => InstructionBuilds
    BY DEF InstructionInv
  <1> QED
    BY <1>1, InstructionsKeepTheirObjects, PTL

\* The instructions are a client of GcHeap: no step stores a pointer that the collector
\* has lost sight of, and no step changes an object that is not live.
THEOREM InstructionsImplementHeap ==
    ASSUME Sound
    PROVE  Spec => ImplementsGcHeap
  <1>1. Init => InstructionInv /\ Abstract!HeapInit
    BY InitInstructions
  <1>2. InstructionInv /\ [Next]_vars => InstructionInv' /\ [Abstract!HeapNext]_(Abstract!heapVars)
    BY NextKeeps, StutterKeeps DEF Keeps
  <1> QED
    BY <1>1, <1>2, PTL DEF Spec, ImplementsGcHeap, Abstract!HeapSpec
=============================================================================
