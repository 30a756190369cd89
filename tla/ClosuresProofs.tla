--------------------------- MODULE ClosuresProofs ---------------------------
(***************************************************************************)
(* Proofs about Closures, for any number of cells and any bounds.  The     *)
(* first half is about the machine: ClosureInv.  The second is about what  *)
(* the machine computes: MeaningInv, which relates it to the history.      *)
(***************************************************************************)
EXTENDS Closures, HeapGraphLemmas, SequenceLemmas, FiniteSetTheorems

-----------------------------------------------------------------------------
(* Chains of upvalues. *)

\* Every inner upvalue, in use or not, names an upvalue.
Chained(objects) ==
    /\ objects \in [Cells -> Objects]
    /\ \A c \in Cells : objects[c].type = "heap_upvalue" =>
                        \E u \in Cells : objects[c] = HeapUpvalue(u)

Inner(objects, c) == objects[c].type = "heap_upvalue"
Outer(objects, c) == objects[c].refs[1]

LEMMA ChainFacts ==
    ASSUME NEW objects, Chained(objects)
    PROVE  /\ ChainGraph(objects) \in Graphs
           /\ \A c \in Cells : IF Inner(objects, c)
                  THEN /\ Outer(objects, c) \in Cells
                       /\ ChainGraph(objects)[c] = {Outer(objects, c)}
                  ELSE ChainGraph(objects)[c] = {}
  <1> SUFFICES ASSUME NEW c \in Cells
               PROVE  IF Inner(objects, c)
                      THEN /\ Outer(objects, c) \in Cells
                           /\ ChainGraph(objects)[c] = {Outer(objects, c)}
                      ELSE ChainGraph(objects)[c] = {}
    BY DEF ChainGraph, Graphs
  <1>1. CASE Inner(objects, c)
    <2>1. PICK u \in Cells : objects[c] = HeapUpvalue(u)
      BY <1>1 DEF Chained, Inner
    <2>2. objects[c].refs = <<u>> /\ objects[c].type = "heap_upvalue"
      BY <2>1 DEF HeapUpvalue, Cell
    <2>3. Children(objects[c]) = {u}
      BY <2>2, NullAssumption DEF Children, Traced, Range
    <2> QED
      BY <1>1, <2>2, <2>3 DEF ChainGraph, Inner, Outer
  <1>2. CASE ~Inner(objects, c)
    BY <1>2 DEF ChainGraph, Inner
  <1> QED
    BY <1>1, <1>2

\* An inner upvalue's chain ends where that of the upvalue it names does, and
\* another object is the end of its own.
LEMMA EndsFacts ==
    ASSUME NEW objects, Chained(objects), NEW c \in Cells
    PROVE  IF Inner(objects, c) THEN Ends(objects, c) = Ends(objects, Outer(objects, c))
                                ELSE Ends(objects, c) = {c}
  <1> DEFINE G == ChainGraph(objects)
             next == Outer(objects, c)
  <1>1. G \in Graphs
    BY ChainFacts
  <1>2. ClosedOver(G, {c}, Reachable(G, {c})) /\ Reachable(G, {c}) \subseteq Cells
    <2> HIDE DEF G
    <2> QED
      BY <1>1, ReachableClosed
  <1>3. CASE Inner(objects, c)
    <2>1. next \in Cells /\ G[c] = {next}
      BY <1>3, ChainFacts
    <2> HIDE DEF G, next
    <2>2. ClosedOver(G, {next}, Reachable(G, {next})) /\ Reachable(G, {next}) \subseteq Cells
      BY <1>1, <2>1, ReachableClosed
    <2>3. Reachable(G, {next}) \subseteq Reachable(G, {c})
      BY <1>2, <2>1, ReachableLeast DEF ClosedOver
    <2> DEFINE S == {c} \cup Reachable(G, {next})
    <2>4. S \in SUBSET Cells /\ ClosedOver(G, {c}, S)
      BY <2>1, <2>2 DEF ClosedOver
    <2>5. Reachable(G, {c}) \subseteq S
      <3> HIDE DEF S
      <3> QED
        BY <2>4, ReachableLeast
    <2> QED
      BY <1>3, <2>3, <2>5 DEF Ends, Inner, G, next
  <1>4. CASE ~Inner(objects, c)
    <2>1. G[c] = {}
      BY <1>4, ChainFacts
    <2> HIDE DEF G
    <2>2. Reachable(G, {c}) \subseteq {c}
      BY <2>1, ReachableLeast DEF ClosedOver
    <2> QED
      BY <1>2, <1>4, <2>2 DEF Ends, Inner, ClosedOver, G
  <1> QED
    BY <1>3, <1>4

\* A function that follows the chains.
Follows(f) ==
    f = [c \in Cells |-> IF heap[c].type = "heap_upvalue" THEN f[heap[c].refs[1]] ELSE c]

LEMMA FollowsReachesEnd ==
    ASSUME Chained(heap), NEW f, Follows(f), NEW u \in Cells, Ends(heap, u) # {}
    PROVE  f[u] \in Ends(heap, u)
  <1> DEFINE G == ChainGraph(heap)
             S == {c \in Cells : f[c] = f[u] /\ Ends(heap, c) = Ends(heap, u)}
  <1>1. \A c \in Cells : f[c] = IF Inner(heap, c) THEN f[Outer(heap, c)] ELSE c
    BY DEF Follows, Inner, Outer
  <1>2. ASSUME NEW c \in S PROVE G[c] \subseteq S
    <2>1. CASE Inner(heap, c)
      BY <2>1, <1>1, ChainFacts, EndsFacts
    <2>2. CASE ~Inner(heap, c)
      BY <2>2, ChainFacts
    <2> QED
      BY <2>1, <2>2
  <1>3. S \in SUBSET Cells /\ ClosedOver(G, {u}, S)
    BY <1>2 DEF ClosedOver
  <1>4. Reachable(G, {u}) \subseteq S
    <2> HIDE DEF S, G
    <2> QED
      BY <1>3, ReachableLeast
  <1>5. PICK e \in Ends(heap, u) : e \in S /\ ~Inner(heap, e)
    BY <1>4 DEF Ends, Inner
  <1> QED
    BY <1>1, <1>5

\* getUpvalue follows the chain to its end.
LEMMA EndOfChainFacts ==
    ASSUME Chained(heap), NEW u \in Cells, Ends(heap, u) # {}
    PROVE  EndOfChain(u) \in Ends(heap, u)
  <1> DEFINE g == [c \in Cells |-> CHOOSE e : e \in Ends(heap, c)]
  <1>1. Follows(g)
    <2>1. ASSUME NEW c \in Cells
          PROVE  g[c] = IF heap[c].type = "heap_upvalue" THEN g[heap[c].refs[1]] ELSE c
      BY EndsFacts, ChainFacts DEF Inner, Outer
    <2> QED
      BY <2>1 DEF Follows
  <1> DEFINE end == CHOOSE f : Follows(f)
  <1>2. Follows(end)
    <2> HIDE DEF g
    <2> QED
      BY <1>1
  <1>3. EndOfChain(u) = end[u]
    BY DEF EndOfChain, Follows
  <1> HIDE DEF end
  <1> QED
    BY <1>2, <1>3, FollowsReachesEnd

-----------------------------------------------------------------------------
(* The heap and the stack. *)

\* A value that can be pushed, assigned or copied.
IsSound(v) ==
    /\ v \in Values
    /\ IsClosure(v) => v.closure \in Live /\ heap[v.closure].type = "array"

LEMMA ChildrenAreCells == \A v \in Objects : Children(v) \subseteq Cells
  <1> SUFFICES ASSUME NEW v \in Objects PROVE Children(v) \subseteq Cells
    OBVIOUS
  <1>1. Traced(v) \in Seq(Pointers)
    BY DEF Objects, Traced
  <1> QED
    BY <1>1, RangeFacts DEF Children, Pointers

LEMMA ValueFacts ==
    \A v \in Values : IsClosure(v) => v \in [closure : Cells, arity : Arities]
  BY DEF Values, IsClosure

LEMMA HeapFacts ==
    ASSUME TypeOK
    PROVE  /\ Graph(heap) \in Graphs
           /\ RootCells \in SUBSET Cells
           /\ Live \subseteq Cells
           /\ RootCells \subseteq Live
           /\ \A c \in Live : Children(heap[c]) \subseteq Live
  <1>1. Graph(heap) \in Graphs
    BY ChildrenAreCells DEF TypeOK, Graph, Graphs
  <1>2. RootCells \in SUBSET Cells
    <2>1. Range(stack) \subseteq Values /\ Range(upvalueStack) \subseteq Pointers
      BY RangeFacts DEF TypeOK
    <2> QED
      BY <2>1, ValueFacts DEF RootCells, StackCells, Pointers
  <1>3. Live \subseteq Cells /\ ClosedOver(Graph(heap), RootCells, Live)
    BY <1>1, <1>2, ReachableClosed DEF Live
  <1> QED
    BY <1>1, <1>2, <1>3 DEF ClosedOver, Graph

LEMMA StackFacts ==
    ASSUME TypeOK, ClosuresInv
    PROVE  /\ Len(stack) \in Nat
           /\ DOMAIN stack = 1 .. Len(stack)
           /\ \A i \in 1 .. Len(stack) : IsSound(stack[i])
           /\ Len(upvalueStack) \in Nat
           /\ DOMAIN upvalueStack = 1 .. Len(upvalueStack)
           /\ \A i \in 1 .. Len(upvalueStack) :
                 upvalueStack[i] = Null \/ upvalueStack[i] \in Live
           /\ op = Idle => Len(upvalueStack) = Len(stack)
           /\ Len(upvalueStack) <= Len(stack) /\ Len(stack) <= Len(upvalueStack) + 1
  <1>1. /\ Len(stack) \in Nat /\ DOMAIN stack = 1 .. Len(stack)
        /\ \A i \in 1 .. Len(stack) : stack[i] \in Values /\ stack[i] \in Range(stack)
        /\ Len(upvalueStack) \in Nat /\ DOMAIN upvalueStack = 1 .. Len(upvalueStack)
        /\ \A i \in 1 .. Len(upvalueStack) :
              upvalueStack[i] \in Pointers /\ upvalueStack[i] \in Range(upvalueStack)
    BY SeqFacts, RangeFacts DEF TypeOK
  <1>2. \A i \in 1 .. Len(stack) : IsSound(stack[i])
    BY <1>1, HeapFacts DEF ClosuresInv, IsSound, RootCells, StackCells
  <1>3. \A i \in 1 .. Len(upvalueStack) : upvalueStack[i] = Null \/ upvalueStack[i] \in Live
    BY <1>1, HeapFacts DEF RootCells
  <1> DEFINE n == Len(stack)
             m == Len(upvalueStack)
  <1>4. n - m \in 0 .. (IF op = Idle THEN 0 ELSE 1) /\ n \in Nat /\ m \in Nat
    BY <1>1 DEF TypeOK
  <1>5. (op = Idle => m = n) /\ m <= n /\ n <= m + 1
    <2> HIDE DEF n, m
    <2> QED
      BY <1>4
  <1> QED
    BY <1>1, <1>2, <1>3, <1>5

LEMMA EndOfChainIsAnEnd ==
    ASSUME TypeOK, HeapInv, NEW u \in Live, Kind(heap[u]) = "upvalue"
    PROVE  EndOfChain(u) \in Ends(heap, u)
  <1>1. Chained(heap)
    BY DEF Chained, TypeOK, HeapInv
  <1>2. u \in Cells /\ Ends(heap, u) # {}
    BY HeapFacts DEF HeapInv
  <1> QED
    BY <1>1, <1>2, EndOfChainFacts

\* What is at the end of an upvalue's chain.
LEMMA EndFacts ==
    ASSUME TypeOK, HeapInv, NEW u \in Live, Kind(heap[u]) = "upvalue",
           NEW e \in Ends(heap, u)
    PROVE  /\ e \in Live /\ e \in Cells
           /\ heap[e].type \in {"stack_index", "heap_object"}
           /\ heap[e].type = "heap_object" =>
                 /\ heap[e].refs[1] \in Live /\ heap[e].refs[1] \in Cells
                 /\ heap[heap[e].refs[1]].type = "object"
  <1> DEFINE end == heap[e]
             G == ChainGraph(heap)
             S == {c \in Live : Kind(heap[c]) = "upvalue"}
  <1>1. Chained(heap)
    BY DEF Chained, TypeOK, HeapInv
  <1>3. \A c \in S : G[c] \subseteq S
    <2> SUFFICES ASSUME NEW c \in S, Inner(heap, c)
                 PROVE  G[c] \subseteq S
      BY <1>1, HeapFacts, ChainFacts
    <2>1. G[c] = Children(heap[c]) /\ c \in Cells /\ Children(heap[c]) \subseteq Live
      BY HeapFacts DEF ChainGraph, Inner
    <2>2. \A p \in Range(heap[c].refs) \ {Null} : Kind(heap[p]) = "upvalue"
      BY DEF HeapInv, WellFormed, Inner, Lead
    <2>3. Children(heap[c]) = Range(heap[c].refs) \ {Null}
      BY DEF Children, Traced, Inner
    <2> QED
      BY <2>1, <2>2, <2>3
  <1>4. Reachable(G, {u}) \subseteq S
    <2>1. S \in SUBSET Cells /\ ClosedOver(G, {u}, S)
      BY <1>3, HeapFacts DEF ClosedOver
    <2> HIDE DEF S, G
    <2> QED
      BY <2>1, ReachableLeast
  <1>5. e \in Live /\ e \in Cells /\ Kind(end) = "upvalue" /\ end.type # "heap_upvalue"
    BY <1>4, HeapFacts DEF Ends
  <1>6. end \in Objects /\ WellFormed(heap, end)
    BY <1>5 DEF TypeOK, HeapInv
  <1>7. end.type \in {"stack_index", "heap_object"}
    BY <1>5, <1>6 DEF Kind, IsUpvalue, Objects, CellTypes
  <1>8. ASSUME end.type = "heap_object"
        PROVE  end.refs[1] \in Live /\ end.refs[1] \in Cells
               /\ heap[end.refs[1]].type = "object"
    <2>1. end.refs[1] \in Range(end.refs) \ {Null}
      <3>1. Len(end.refs) = 1 /\ end.refs[1] # Null /\ end.refs \in Seq(Pointers)
        BY <1>6, <1>8 DEF WellFormed, Objects
      <3> QED
        BY <3>1, RangeFacts
    <2>2. end.refs[1] \in Live
      BY <1>5, <1>6, <1>8, <2>1, HeapFacts DEF Children, Traced, WellFormed
    <2>3. Kind(heap[end.refs[1]]) = "object"
      BY <1>6, <1>8, <2>1 DEF WellFormed, Lead
    <2> QED
      BY <2>2, <2>3, HeapFacts DEF Kind
  <1> QED
    BY <1>5, <1>7, <1>8

\* The variable at the end of an upvalue's chain.
LEMMA DerefFacts ==
    ASSUME TypeOK, HeapInv, ClosuresInv, UpvaluesNameTheirSlots, Ready,
           NEW u \in Live, Kind(heap[u]) = "upvalue",
           NEW end, end = heap[EndOfChain(u)]
    PROVE  /\ end.type \in {"stack_index", "heap_object"}
           /\ end.type = "stack_index" =>
                 end.index \in 1 .. Len(stack) /\ upvalueStack[end.index] # Null
           /\ end.type = "heap_object" =>
                 /\ end.refs[1] \in Live
                 /\ heap[end.refs[1]].type = "object"
           /\ IsSound(Deref(u))
  <1> DEFINE e == EndOfChain(u)
  <1>1. e \in Ends(heap, u)
    BY EndOfChainIsAnEnd
  <1>5. /\ e \in Live /\ e \in Cells
        /\ heap[e].type \in {"stack_index", "heap_object"}
        /\ heap[e].type = "heap_object" =>
              /\ heap[e].refs[1] \in Live /\ heap[e].refs[1] \in Cells
              /\ heap[heap[e].refs[1]].type = "object"
    <2> HIDE DEF e
    <2> QED
      BY <1>1, EndFacts
  <1>6. end = heap[e]
    OBVIOUS
  <1>7. end.type \in {"stack_index", "heap_object"}
    BY <1>5, <1>6
  <1>8. CASE end.type = "stack_index"
    <2>1. end.index \in 1 .. Len(stack) /\ upvalueStack[end.index] # Null
      <3>1. end.index \in DOMAIN upvalueStack /\ upvalueStack[end.index] = e
        BY <1>5, <1>6, <1>8 DEF UpvaluesNameTheirSlots
      <3> QED
        BY <1>5, <3>1, StackFacts, NullAssumption DEF Ready
    <2>2. Deref(u) = stack[end.index]
      BY <1>8 DEF Deref
    <2> QED
      BY <1>8, <2>1, <2>2, StackFacts
  <1>9. CASE end.type = "heap_object"
    <2> DEFINE o == heap[end.refs[1]]
    <2>2. end.refs[1] \in Live /\ end.refs[1] \in Cells
      BY <1>5, <1>6, <1>9
    <2>3. WellFormed(heap, o) /\ o \in Objects
      BY <2>2 DEF HeapInv, TypeOK
    <2>4. o.type = "object"
      BY <1>5, <1>6, <1>9
    <2>5. IsSound(o.value)
      <3> SUFFICES ASSUME IsClosure(o.value)
                   PROVE  o.value.closure \in Live /\ heap[o.value.closure].type = "array"
        BY <2>3 DEF IsSound, Objects
      <3>1. o = Copy(o.value) /\ Lead(heap, o.refs, "array")
        BY <2>3, <2>4 DEF WellFormed
      <3>2. o.refs = <<o.value.closure>> /\ o.value.closure \in Cells
        <4>1. o.value \in Values
          BY <2>3 DEF Objects
        <4>2. Copy(o.value).refs = <<o.value.closure>>
          BY DEF Copy, Cell
        <4> QED
          BY <3>1, <4>1, <4>2, ValueFacts
      <3>3. o.value.closure \in Range(o.refs) \ {Null}
        BY <3>2, NullAssumption, SMTT(20) DEF Range
      <3>4. o.value.closure \in Live
        BY <2>2, <2>4, <3>3, HeapFacts DEF Children, Traced
      <3>5. Kind(heap[o.value.closure]) = "array"
        BY <3>1, <3>3 DEF Lead
      <3> QED
        BY <3>4, <3>5 DEF Kind
    <2>6. Deref(u) = o.value
      BY <1>9 DEF Deref
    <2> QED
      BY <1>9, <2>2, <2>4, <2>5, <2>6
  <1> QED
    BY <1>7, <1>8, <1>9

-----------------------------------------------------------------------------
(* What a step does to the heap: the cells of N, which were dead, hold new     *)
(* objects, and the live cells of T, which are no inner upvalues, are          *)
(* overwritten.                                                                *)

Changes(N, T) ==
    /\ N \subseteq Cells /\ N \cap Live = {} /\ T \subseteq Live
    /\ heap' \in [Cells -> Objects]
    /\ \A d \in Cells \ (N \cup T) : heap'[d] = heap[d]
    /\ \A d \in T : /\ Kind(heap'[d]) = Kind(heap[d])
                    /\ ~Inner(heap, d) /\ ~Inner(heap', d)
    /\ \A d \in N \cup T : Children(heap'[d]) \subseteq Live \cup N
    /\ \A d \in N \cup T : WellFormed(heap', heap'[d])
    /\ \A d \in N : Inner(heap', d) =>
                    Outer(heap', d) \in Live /\ heap'[d] = HeapUpvalue(Outer(heap', d))

\* What the two stacks hold then: what they held, the new cells and live ones.
Roots(N) ==
    /\ stack' \in Seq(Values)
    /\ \A v \in Range(stack') \ Range(stack) : IsClosure(v) =>
           v.closure \in Live \cup N /\ heap'[v.closure].type = "array"
    /\ upvalueStack' \in Seq(Pointers)
    /\ Range(upvalueStack') \subseteq Range(upvalueStack) \cup N \cup {Null}

LEMMA KindsKept ==
    ASSUME TypeOK, NEW N, NEW T, Changes(N, T)
    PROVE  \A p \in Live : Kind(heap'[p]) = Kind(heap[p])
  BY HeapFacts DEF Changes

LEMMA ArraysAreAKind ==
    \A o : (Kind(o) = "array" <=> o.type = "array") /\ (Kind(o) = "object" <=> o.type = "object")
  BY DEF Kind, IsUpvalue

\* Nothing but new cells becomes reachable.
LEMMA WritesBound ==
    ASSUME TypeOK, NEW N, NEW T, Changes(N, T), Roots(N)
    PROVE  Live' \subseteq Live \cup N
  <1>1. Graph(heap)' \in Graphs
    BY ChildrenAreCells DEF Changes, Graph, Graphs
  <1>2. RootCells' \subseteq Live \cup N
    <2>1. StackCells' \subseteq Live \cup N
      BY HeapFacts DEF StackCells, RootCells, Roots
    <2>2. Range(upvalueStack') \ {Null} \subseteq Live \cup N
      BY HeapFacts DEF RootCells, Roots
    <2> QED
      BY <2>1, <2>2 DEF RootCells
  <1>3. \A c \in Cells : Graph(heap)[c] = Children(heap[c]) /\ Graph(heap)'[c] = Children(heap'[c])
    BY DEF Graph
  <1>4. Live \cup N \subseteq Cells /\ N \in SUBSET Cells
    BY HeapFacts DEF Changes
  <1>5. \A c \in Live \cup N :
            Graph(heap)'[c] = Graph(heap)[c] \/ Graph(heap)'[c] \subseteq Live \cup N
    BY <1>3, <1>4 DEF Changes
  <1>6. \A c \in N \ Live : Graph(heap)'[c] \subseteq Live \cup N
    BY <1>3, <1>4 DEF Changes
  <1> DEFINE G == Graph(heap)
             G2 == Graph(heap)'
             R == RootCells
             R2 == RootCells'
  <1>7. /\ G \in Graphs /\ R \in SUBSET Cells
        /\ G2 \in Graphs /\ R2 \in SUBSET Cells
        /\ Live = Reachable(G, R) /\ Live' = Reachable(G2, R2)
    BY <1>1, <1>2, <1>4, HeapFacts DEF Live
  <1> HIDE DEF G, G2, R, R2
  <1>8. /\ R2 \subseteq Reachable(G, R) \cup N
        /\ \A c \in Reachable(G, R) \cup N :
               G2[c] = G[c] \/ G2[c] \subseteq Reachable(G, R) \cup N
        /\ \A c \in N \ Reachable(G, R) : G2[c] \subseteq Reachable(G, R) \cup N
    BY <1>2, <1>5, <1>6, <1>7 DEF G, G2, R, R2
  <1>9. Reachable(G2, R2) \subseteq Reachable(G, R) \cup N
    BY <1>4, <1>7, <1>8, ReachableBounded
  <1> QED
    BY <1>7, <1>9

LEMMA ChainedKept ==
    ASSUME TypeOK, HeapInv, NEW N, NEW T, Changes(N, T)
    PROVE  Chained(heap) /\ Chained(heap')
  <1>1. Chained(heap)
    BY DEF Chained, TypeOK, HeapInv
  <1>2. ASSUME NEW c \in Cells, heap'[c].type = "heap_upvalue"
        PROVE  \E u \in Cells : heap'[c] = HeapUpvalue(u)
    BY <1>1, <1>2, HeapFacts DEF Changes, Chained, Inner
  <1> QED
    BY <1>1, <1>2 DEF Chained, Changes

\* The chain of a live upvalue still ends where it did.
LEMMA EndsKept ==
    ASSUME TypeOK, HeapInv, NEW N, NEW T, Changes(N, T),
           NEW u \in Live, Kind(heap[u]) = "upvalue"
    PROVE  Ends(heap', u) # {} /\ Ends(heap', u) = Ends(heap, u)
  <1> DEFINE G == ChainGraph(heap)
             G2 == ChainGraph(heap')
  <1>1. G \in Graphs /\ G2 \in Graphs /\ u \in Cells /\ Live \subseteq Cells
    BY ChainedKept, ChainFacts, HeapFacts
  <1>2. Reachable(G, {u}) \subseteq Live
    <2>1. \A c \in Live : G[c] \subseteq Live
      BY HeapFacts DEF ChainGraph
    <2> HIDE DEF G
    <2>2. ClosedOver(G, {u}, Live)
      BY <2>1 DEF ClosedOver
    <2> QED
      BY <1>1, <2>2, ReachableLeast
  <1>3. \A c \in Live : G2[c] = G[c] /\ (Inner(heap', c) <=> Inner(heap, c))
    BY HeapFacts DEF ChainGraph, Changes, Inner
  <1>4. Reachable(G, {u}) \subseteq Reachable(G2, {u})
    <2> HIDE DEF G, G2
    <2>1. {u} \in SUBSET Cells /\ {u} \subseteq Reachable(G2, {u})
      BY <1>1, ReachableClosed DEF ClosedOver
    <2>2. \A c \in Reachable(G, {u}) : G2[c] = G[c]
      BY <1>2, <1>3
    <2> DEFINE U == {u}
    <2>3. /\ U \in SUBSET Cells /\ U \subseteq Reachable(G2, U)
          /\ \A c \in Reachable(G, U) : G2[c] = G[c]
      BY <2>1, <2>2
    <2> HIDE DEF U
    <2>4. Reachable(G, U) \subseteq Reachable(G2, U)
      BY <1>1, <2>3, ReachableKept
    <2> QED
      BY <2>4 DEF U
  <1>5. Reachable(G2, {u}) \subseteq Reachable(G, {u})
    <2> HIDE DEF G, G2
    <2>1. ClosedOver(G, {u}, Reachable(G, {u})) /\ Reachable(G, {u}) \in SUBSET Cells
      BY <1>1, ReachableClosed
    <2>2. ClosedOver(G2, {u}, Reachable(G, {u}))
      BY <1>2, <1>3, <2>1 DEF ClosedOver
    <2> QED
      BY <2>1, <2>2, ReachableLeast
  <1>6. Ends(heap', u) = Ends(heap, u)
    BY <1>2, <1>3, <1>4, <1>5 DEF Ends, Inner
  <1> QED
    BY <1>6 DEF HeapInv

LEMMA WellFormedKept ==
    ASSUME NEW v, NEW f, NEW g, NEW S, Children(v) \subseteq S,
           \A p \in S : Kind(g[p]) = Kind(f[p]),
           WellFormed(f, v)
    PROVE  WellFormed(g, v)
  <1>1. v.initialized => Children(v) = Range(v.refs) \ {Null}
    BY DEF Children, Traced
  <1>2. ASSUME v.initialized, NEW kind, Lead(f, v.refs, kind)
        PROVE  Lead(g, v.refs, kind)
    BY <1>1, <1>2 DEF Lead
  <1> QED
    BY <1>2 DEF WellFormed

\* Such a step keeps the heap and the stack as they should be.
LEMMA WritesKeep ==
    ASSUME TypeOK, HeapInv, ClosuresInv, NEW N, NEW T, Changes(N, T), Roots(N)
    PROVE  /\ HeapInv'
           /\ Live' \subseteq Live \cup N
           /\ \A i \in DOMAIN stack' :
                 IsClosure(stack'[i]) => heap'[stack'[i].closure].type = "array"
  <1>1. Live' \subseteq Live \cup N
    BY WritesBound
  <1>2. \A c \in Live \cup N : WellFormed(heap', heap'[c])
    <2> SUFFICES ASSUME NEW c \in Live \cup N, c \notin N \cup T
                 PROVE  WellFormed(heap', heap'[c])
      BY DEF Changes
    <2>1. heap'[c] = heap[c] /\ WellFormed(heap, heap[c]) /\ Children(heap[c]) \subseteq Live
      BY HeapFacts DEF Changes, HeapInv
    <2>2. WellFormed(heap', heap[c])
      BY <2>1, KindsKept, WellFormedKept
    <2> QED
      BY <2>1, <2>2
  <1>3. \A c \in Live \cup N : Kind(heap'[c]) = "upvalue" => Ends(heap', c) # {}
    <2>1. ASSUME NEW c \in Live, Kind(heap'[c]) = "upvalue" PROVE Ends(heap', c) # {}
      BY <2>1, KindsKept, EndsKept
    <2>2. ASSUME NEW c \in N, Kind(heap'[c]) = "upvalue" PROVE Ends(heap', c) # {}
      <3>1. c \in Cells
        BY DEF Changes
      <3>2. CASE ~Inner(heap', c)
        BY <3>1, <3>2, ChainedKept, EndsFacts
      <3>3. CASE Inner(heap', c)
        <4> DEFINE u == Outer(heap', c)
        <4>1. u \in Live /\ heap'[c] = HeapUpvalue(u) /\ WellFormed(heap', heap'[c])
          BY <3>3 DEF Changes
        <4>2. u \in Range(heap'[c].refs) \ {Null}
          <5>1. u \in Cells /\ heap'[c].refs = <<u>>
            BY <4>1, HeapFacts DEF HeapUpvalue, Cell
          <5> QED
            BY <5>1, NullAssumption DEF Range
        <4>3. Kind(heap'[u]) = "upvalue"
          BY <3>3, <4>1, <4>2 DEF WellFormed, Lead, Inner
        <4>4. Ends(heap', u) # {}
          BY <2>1, <4>1, <4>3
        <4>5. Ends(heap', c) = Ends(heap', u)
          BY <3>1, <3>3, ChainedKept, EndsFacts
        <4> QED
          BY <4>4, <4>5
      <3> QED
        BY <3>2, <3>3
    <2> QED
      BY <2>1, <2>2
  <1>4. HeapInv'
    <2>1. \A c \in Cells : heap'[c].type = "heap_upvalue" =>
                           \E u \in Cells : heap'[c] = HeapUpvalue(u)
      BY ChainedKept DEF Chained
    <2> QED
      BY <1>1, <1>2, <1>3, <2>1 DEF HeapInv
  <1>5. \A i \in DOMAIN stack' :
            IsClosure(stack'[i]) => heap'[stack'[i].closure].type = "array"
    <2> SUFFICES ASSUME NEW i \in DOMAIN stack', IsClosure(stack'[i])
                 PROVE  heap'[stack'[i].closure].type = "array"
      OBVIOUS
    <2>1. stack'[i] \in Range(stack')
      BY DEF Range
    <2>2. CASE stack'[i] \notin Range(stack)
      BY <2>1, <2>2 DEF Roots
    <2>3. CASE stack'[i] \in Range(stack)
      <3>1. PICK j \in 1 .. Len(stack) : stack'[i] = stack[j]
        BY <2>3, StackFacts DEF Range
      <3>2. stack[j].closure \in Live /\ heap[stack[j].closure].type = "array"
        BY <3>1, StackFacts DEF IsSound
      <3> QED
        BY <3>1, <3>2, KindsKept, ArraysAreAKind
    <2> QED
      BY <2>2, <2>3
  <1> QED
    BY <1>1, <1>4, <1>5

-----------------------------------------------------------------------------
(* The slots, the running functions and their upvalues. *)

LEMMA CallFacts ==
    ASSUME TypeOK, ClosuresInv, CallsInv
    PROVE  /\ Len(calls) \in Nat /\ DOMAIN calls = 1 .. Len(calls)
           /\ Base \in Nat /\ Base <= Len(upvalueStack)
           /\ \A i \in DOMAIN calls :
                 /\ calls[i].base \in 1 .. Base
                 /\ calls[i].closure \in Live
                 /\ heap[calls[i].closure].type = "array"
           /\ calls # <<>> => /\ Len(calls) \in DOMAIN calls
                              /\ Last(calls) = calls[Len(calls)]
                              /\ Base = calls[Len(calls)].base
  <1>1. /\ Len(calls) \in Nat /\ DOMAIN calls = 1 .. Len(calls)
        /\ calls # <<>> => Len(calls) > 0
        /\ \A i \in DOMAIN calls : calls[i] \in [closure : Cells, base : Nat]
    <2>1. calls \in Seq([closure : Cells, base : Nat])
      BY DEF TypeOK
    <2> QED
      BY <2>1, SeqFacts
  <1>2. calls # <<>> => /\ Len(calls) \in DOMAIN calls
                        /\ Last(calls) = calls[Len(calls)]
                        /\ Base = calls[Len(calls)].base
    BY <1>1 DEF Last, Base
  <1>3. DOMAIN upvalueStack = 1 .. Len(upvalueStack) /\ Len(upvalueStack) \in Nat
        /\ DOMAIN stack = 1 .. Len(stack) /\ Len(upvalueStack) <= Len(stack)
        /\ Len(stack) \in Nat
    BY StackFacts
  <1>4. Base \in Nat /\ Base <= Len(upvalueStack)
    <2>1. CASE calls = <<>>
      BY <2>1, <1>3 DEF Base
    <2>2. CASE calls # <<>>
      BY <2>2, <1>1, <1>2, <1>3 DEF CallsInv
    <2> QED
      BY <2>1, <2>2
  <1>5. ASSUME NEW i \in DOMAIN calls
        PROVE  /\ calls[i].base \in 1 .. Base
               /\ calls[i].closure \in Live
               /\ heap[calls[i].closure].type = "array"
    <2> DEFINE n == Len(calls)
               b == calls[i].base
    <2>1. calls # <<>> /\ n \in Nat /\ n \in DOMAIN calls /\ i \in 1 .. n
          /\ Base = calls[n].base
      BY <1>1, <1>2
    <2>2. i = n \/ i < n
      <3> HIDE DEF n
      <3> QED
        BY <2>1
    <2>3. b \in 1 .. Len(upvalueStack) /\ IsClosure(stack[b]) /\ stack[b].closure = calls[i].closure
      BY <1>3 DEF CallsInv
    <2>4. b <= Base
      BY <2>1, <2>2, <2>3, <1>3, <1>4 DEF CallsInv
    <2>5. b \in 1 .. Len(stack)
      BY <2>3, <1>3
    <2>6. IsSound(stack[b])
      BY <2>5, StackFacts
    <2> QED
      BY <2>3, <2>4, <2>6, <1>3, <1>4 DEF IsSound
  <1> QED
    BY <1>1, <1>2, <1>4, <1>5

\* The upvalues of a closure that can be used.
LEMMA ClosureFacts ==
    ASSUME TypeOK, HeapInv, ClosuresInv, NEW c \in LiveClosures
    PROVE  /\ c \in Live /\ c \in Cells /\ c # op.array /\ heap[c].type = "array"
           /\ heap[c].refs \in Seq(Pointers)
           /\ \A k \in DOMAIN heap[c].refs :
                 heap[c].refs[k] \in Live /\ Kind(heap[heap[c].refs[k]]) = "upvalue"
  <1> DEFINE refs == heap[c].refs
  <1>1. c \in Live /\ c \in Cells /\ c # op.array /\ heap[c].type = "array"
    BY HeapFacts DEF LiveClosures
  <1>2. refs \in Seq(Pointers)
    BY <1>1 DEF TypeOK, Objects
  <1>3. Null \notin Range(refs)
    BY DEF ClosuresInv
  <1>4. WellFormed(heap, heap[c])
    BY <1>1 DEF HeapInv
  <1>5. \A k \in DOMAIN refs : refs[k] \in Range(refs) \ {Null}
    BY <1>3 DEF Range
  <1>6. \A k \in DOMAIN refs : Kind(heap[refs[k]]) = "upvalue"
    BY <1>1, <1>4, <1>5 DEF WellFormed, Lead
  <1>7. Children(heap[c]) = Range(refs) \ {Null} /\ Children(heap[c]) \subseteq Live
    BY <1>1, <1>4, HeapFacts DEF WellFormed, Children, Traced
  <1> QED
    BY <1>1, <1>2, <1>5, <1>6, <1>7

\* The running function can be used: it is not the one that is being pushed.
LEMMA RunningFacts ==
    ASSUME TypeOK, HeapInv, ClosuresInv, CallsInv, PushInv,
           op.name \in {"idle", "pushClosure"}, calls # <<>>
    PROVE  Last(calls).closure \in LiveClosures
  <1> DEFINE c == Last(calls).closure
  <1>1. c \in Live /\ heap[c].type = "array"
    BY CallFacts
  <1>2. c \in Cells
    BY <1>1, HeapFacts
  <1>3. c # op.array
    <2>1. CASE op.name = "idle"
      BY <2>1, <1>2, NullAssumption DEF PushInv, Idle
    <2>2. CASE op.name = "pushClosure"
      BY <2>2 DEF PushInv
    <2> QED
      BY <2>1, <2>2
  <1> QED
    BY <1>1, <1>3 DEF LiveClosures

\* Its upvalues.
LEMMA UpvalueFacts ==
    ASSUME TypeOK, HeapInv, ClosuresInv, CallsInv, PushInv,
           op.name \in {"idle", "pushClosure"}, NEW k \in DOMAIN Upvalues
    PROVE  Upvalues[k] \in Live /\ Kind(heap[Upvalues[k]]) = "upvalue"
  <1> DEFINE c == Last(calls).closure
  <1>1. calls # <<>> /\ Upvalues = heap[c].refs
    BY DEF Upvalues
  <1>2. c \in LiveClosures
    BY <1>1, RunningFacts
  <1> QED
    BY <1>1, <1>2, ClosureFacts

\* The upvalue stack keeps every upvalue that is not overwritten, and an upvalue in it
\* that is new or overwritten names its slot.
SlotsStay(N, T) ==
    /\ \A i \in DOMAIN upvalueStack : upvalueStack[i] \notin T \cup {Null} =>
           i \in DOMAIN upvalueStack' /\ upvalueStack'[i] = upvalueStack[i]
    /\ \A i \in DOMAIN upvalueStack' : upvalueStack'[i] # Null =>
           \/ /\ i \in DOMAIN upvalueStack
              /\ upvalueStack'[i] = upvalueStack[i]
              /\ upvalueStack[i] \notin T
           \/ heap'[upvalueStack'[i]] = StackIndex(i)
    /\ \A c \in N \cup T : heap'[c].type = "stack_index" =>
           /\ heap'[c].index \in DOMAIN upvalueStack'
           /\ upvalueStack'[heap'[c].index] = c

LEMMA SlotsKept ==
    ASSUME ClosureInv, NEW N, NEW T, Changes(N, T), Roots(N), SlotsStay(N, T)
    PROVE  SlotsInv' /\ UpvaluesNameTheirSlots'
  <1>1. Live' \subseteq Live \cup N
    BY WritesKeep DEF ClosureInv
  <1>2. SlotsInv'
    <2> SUFFICES ASSUME NEW i \in DOMAIN upvalueStack', upvalueStack'[i] # Null,
                        i \in DOMAIN upvalueStack, upvalueStack'[i] = upvalueStack[i],
                        upvalueStack[i] \notin T
                 PROVE  heap'[upvalueStack'[i]] = StackIndex(i)
      BY DEF SlotsInv, SlotsStay, StackIndex, Cell
    <2>1. upvalueStack[i] \in Live /\ upvalueStack[i] \in Cells
      BY StackFacts, HeapFacts DEF ClosureInv
    <2>2. heap'[upvalueStack[i]] = heap[upvalueStack[i]]
      BY <2>1 DEF Changes
    <2> QED
      BY <2>2 DEF ClosureInv, SlotsInv
  <1>3. UpvaluesNameTheirSlots'
    <2> SUFFICES ASSUME NEW c \in Live', heap'[c].type = "stack_index", c \notin N \cup T
                 PROVE  /\ heap'[c].index \in DOMAIN upvalueStack'
                        /\ upvalueStack'[heap'[c].index] = c
      BY DEF UpvaluesNameTheirSlots, SlotsStay
    <2>1. c \in Live /\ c \in Cells /\ heap'[c] = heap[c]
      BY <1>1, HeapFacts DEF Changes, ClosureInv
    <2>2. heap[c].index \in DOMAIN upvalueStack /\ upvalueStack[heap[c].index] = c
      BY <2>1 DEF ClosureInv, UpvaluesNameTheirSlots
    <2>3. upvalueStack[heap[c].index] \notin T \cup {Null}
      BY <2>1, <2>2, NullAssumption
    <2> QED
      BY <2>1, <2>2, <2>3 DEF SlotsStay
  <1> QED
    BY <1>2, <1>3

\* The functions under the slots stay where they are.
CallsStay ==
    /\ calls' = calls
    /\ \A b \in 1 .. Base : upvalueStack[b] = Null =>
          /\ b \in DOMAIN upvalueStack'
          /\ upvalueStack'[b] = Null
          /\ stack'[b] = stack[b]

LEMMA CallsKept ==
    ASSUME TypeOK, ClosuresInv, CallsInv, CallsStay
    PROVE  CallsInv'
  <1>1. \A i \in DOMAIN calls : calls[i].base \in 1 .. Base
    BY CallFacts
  <1> QED
    BY <1>1 DEF CallsInv, CallsStay, IsClosure

NoArrays(N, T) ==
    /\ \A c \in N : heap'[c].type # "array"
    /\ \A c \in T : heap[c].type # "array"

\* A step that pushes no closure.
LEMMA ReadyStep ==
    ASSUME ClosureInv, Ready, op' = op, NEW N, NEW T, Changes(N, T), Roots(N),
           SlotsStay(N, T), NoArrays(N, T),
           Len(stack') = Len(upvalueStack'),
           calls' \in Seq([closure : Cells, base : Nat]), CallsInv'
    PROVE  ClosureInv'
  <1>1. /\ HeapInv' /\ Live' \subseteq Live \cup N
        /\ \A i \in DOMAIN stack' :
              IsClosure(stack'[i]) => heap'[stack'[i].closure].type = "array"
    BY WritesKeep DEF ClosureInv
  <1>2. SlotsInv' /\ UpvaluesNameTheirSlots'
    BY SlotsKept
  <1>3. ClosuresInv'
    <2> SUFFICES ASSUME NEW c \in LiveClosures'
                 PROVE  Null \notin Range(heap'[c].refs)
      BY <1>1 DEF ClosuresInv, IsClosure
    <2>1. c \in Live \cup N /\ heap'[c].type = "array"
      BY <1>1 DEF LiveClosures
    <2> USE DEF NoArrays
    <2>2. c \notin T
      <3> SUFFICES ASSUME c \in T PROVE FALSE
        OBVIOUS
      <3>1. Kind(heap'[c]) = Kind(heap[c])
        BY DEF Changes
      <3> QED
        BY <2>1, <3>1, ArraysAreAKind
    <2>3. c \in Live /\ heap'[c] = heap[c]
      BY <2>1, <2>2, HeapFacts DEF Changes, ClosureInv
    <2>4. c \in LiveClosures
      BY <2>1, <2>3 DEF LiveClosures
    <2> QED
      BY <2>3, <2>4 DEF ClosureInv, ClosuresInv
  <1>4. TypeOK'
    <2>1. Len(stack') \in Nat /\ Len(upvalueStack') \in Nat
      BY SeqFacts DEF Roots
    <2>2. Len(stack') - Len(upvalueStack') = 0
      BY <2>1
    <2>3. /\ heap' \in [Cells -> Objects] /\ stack' \in Seq(Values)
          /\ upvalueStack' \in Seq(Pointers)
      BY DEF Changes, Roots
    <2> QED
      BY <2>2, <2>3 DEF TypeOK, ClosureInv
  <1>5. PushInv'
    BY DEF ClosureInv, PushInv, Ready, Idle
  <1> QED
    BY <1>1, <1>2, <1>3, <1>4, <1>5 DEF ClosureInv

-----------------------------------------------------------------------------
(* The steps of a function that is not pushing a closure. *)

\* The heap stays as it is.
LEMMA WritesNothing ==
    ASSUME TypeOK, heap' = heap
    PROVE  Changes({}, {})
  BY DEF Changes, TypeOK

LEMMA NothingIsNoArray == NoArrays({}, {})
  BY DEF NoArrays

LEMMA PushKeeps ==
    ASSUME ClosureInv, Ready, NEW v, IsSound(v), Push(v)
    PROVE  ClosureInv' /\ Changes({}, {}) /\ Roots({})
  <1> DEFINE n == Len(stack)
             m == Len(upvalueStack)
  <1>1. /\ stack \in Seq(Values) /\ upvalueStack \in Seq(Pointers)
        /\ v \in Values /\ Null \in Pointers /\ n \in Nat /\ m \in Nat /\ m = n
        /\ stack' = Append(stack, v) /\ upvalueStack' = Append(upvalueStack, Null)
        /\ DOMAIN upvalueStack = 1 .. m
    BY StackFacts DEF ClosureInv, TypeOK, IsSound, Push, Ready, Pointers
  <1>2. /\ stack' \in Seq(Values) /\ Len(stack') = n + 1
        /\ \A i \in 1 .. n : stack'[i] = stack[i]
        /\ Range(stack') = Range(stack) \cup {v}
    BY <1>1, AppendFacts
  <1>3. /\ upvalueStack' \in Seq(Pointers) /\ Len(upvalueStack') = m + 1
        /\ \A i \in 1 .. m : upvalueStack'[i] = upvalueStack[i]
        /\ upvalueStack'[m + 1] = Null
        /\ Range(upvalueStack') = Range(upvalueStack) \cup {Null}
        /\ DOMAIN upvalueStack' = 1 .. m + 1
    <2>1. /\ upvalueStack' \in Seq(Pointers) /\ Len(upvalueStack') = m + 1
          /\ \A i \in 1 .. m : upvalueStack'[i] = upvalueStack[i]
          /\ upvalueStack'[m + 1] = Null
          /\ Range(upvalueStack') = Range(upvalueStack) \cup {Null}
      BY <1>1, AppendFacts
    <2> QED
      BY <2>1, SeqFacts
  <1>4. heap' = heap /\ calls' = calls /\ op' = op
    BY DEF Push
  <1>5. Changes({}, {})
    BY <1>4, WritesNothing DEF ClosureInv
  <1>6. Roots({})
    BY <1>2, <1>3, <1>4 DEF Roots, IsSound
  <1>7. SlotsStay({}, {})
    <2> HIDE DEF m
    <2>1. \A i \in DOMAIN upvalueStack' : upvalueStack'[i] # Null => i \in 1 .. m
      BY <1>1, <1>3
    <2> QED
      BY <1>1, <1>3, <2>1 DEF SlotsStay
  <1>8. CallsInv'
    <2>1. Base \in Nat /\ Base <= m
      BY CallFacts DEF ClosureInv
    <2> HIDE DEF n, m
    <2>2. CallsStay
      BY <1>1, <1>2, <1>3, <1>4, <2>1 DEF CallsStay
    <2> QED
      BY <2>2, CallsKept DEF ClosureInv
  <1>9. calls' \in Seq([closure : Cells, base : Nat])
    BY <1>4 DEF ClosureInv, TypeOK
  <1>10. Len(stack') = Len(upvalueStack')
    BY <1>1, <1>2, <1>3
  <1> QED
    BY <1>4, <1>5, <1>6, <1>7, <1>8, <1>9, <1>10, NothingIsNoArray, ReadyStep

LEMMA PushAtomKeeps == ASSUME ClosureInv, PushAtom PROVE ClosureInv'
  <1>1. PICK v \in Atoms : Push(v)
    BY DEF PushAtom
  <1>2. IsSound(v)
    BY DEF IsSound, Values, IsClosure
  <1> QED
    BY <1>1, <1>2, PushKeeps DEF PushAtom

LEMMA SlotsFacts ==
    ASSUME ClosureInv, NEW i \in Slots
    PROVE  i \in 1 .. Len(stack) /\ i > Base /\ IsSound(stack[i])
  <1> DEFINE n == Len(stack)
  <1>1. n \in Nat /\ Base \in Nat /\ i \in Base + 1 .. n
    BY StackFacts, CallFacts DEF ClosureInv, Slots
  <1>2. i \in 1 .. n /\ i > Base
    <2> HIDE DEF n
    <2> QED
      BY <1>1
  <1> QED
    BY <1>2, StackFacts DEF ClosureInv

LEMMA PushIndexKeeps == ASSUME ClosureInv, PushIndex PROVE ClosureInv'
  <1>1. PICK i \in Slots : Push(stack[i])
    BY DEF PushIndex
  <1> QED
    BY <1>1, SlotsFacts, PushKeeps DEF PushIndex

LEMMA PushUpvalueKeeps == ASSUME ClosureInv, PushUpvalue PROVE ClosureInv'
  <1>1. PICK k \in DOMAIN Upvalues : Push(Deref(Upvalues[k]))
    BY DEF PushUpvalue
  <1>2. Upvalues[k] \in Live /\ Kind(heap[Upvalues[k]]) = "upvalue"
    BY UpvalueFacts DEF ClosureInv, PushUpvalue, Ready, Idle
  <1>3. IsSound(Deref(Upvalues[k]))
    BY <1>2, DerefFacts DEF ClosureInv, PushUpvalue
  <1> QED
    BY <1>1, <1>3, PushKeeps DEF PushUpvalue

\* t is s with v at i.
Written(S, s, i, v, t) ==
    /\ t \in Seq(S) /\ Len(t) = Len(s)
    /\ t[i] = v
    /\ \A j \in 1 .. Len(s) : j # i => t[j] = s[j]
    /\ Range(t) \subseteq Range(s) \cup {v}

LEMMA WrittenFacts ==
    ASSUME NEW S, NEW s \in Seq(S), NEW i \in 1 .. Len(s), NEW v \in S,
           NEW t, t = [s EXCEPT ![i] = v]
    PROVE  Written(S, s, i, v, t)
  <1>1. t \in Seq(S) /\ Len(t) = Len(s)
    BY ExceptFacts
  <1>2. t[i] = v
    BY ExceptFacts
  <1>3. \A j \in 1 .. Len(s) : j # i => t[j] = s[j]
    BY ExceptFacts
  <1>4. Range(t) \subseteq Range(s) \cup {v}
    BY ExceptFacts
  <1> QED
    BY <1>1, <1>2, <1>3, <1>4 DEF Written

\* A slot is assigned to, one that holds no running function.
LEMMA WriteSlotKeeps ==
    ASSUME ClosureInv, Ready, NEW i \in 1 .. Len(stack),
           i > Base \/ upvalueStack[i] # Null,
           NEW v, IsSound(v), stack' = [stack EXCEPT ![i] = v],
           heap' = heap, upvalueStack' = upvalueStack, calls' = calls, op' = op
    PROVE  ClosureInv' /\ Changes({}, {}) /\ Roots({})
  <1>1. /\ stack \in Seq(Values) /\ upvalueStack \in Seq(Pointers) /\ v \in Values
    BY DEF ClosureInv, TypeOK, IsSound
  <1>2. /\ stack' \in Seq(Values) /\ Len(stack') = Len(stack)
        /\ \A j \in 1 .. Len(stack) : j # i => stack'[j] = stack[j]
        /\ Range(stack') \subseteq Range(stack) \cup {v}
    <2>1. stack \in Seq(Values) /\ v \in Values
      BY <1>1
    <2>2. Written(Values, stack, i, v, stack')
      BY <2>1, WrittenFacts
    <2> QED
      BY <2>2 DEF Written
  <1>3. Changes({}, {})
    BY WritesNothing DEF ClosureInv
  <1>4. Roots({})
    BY <1>1, <1>2 DEF Roots, IsSound
  <1>5. SlotsStay({}, {})
    BY DEF SlotsStay
  <1>6. Len(stack') = Len(upvalueStack') /\ Len(stack) \in Nat
        /\ DOMAIN upvalueStack = 1 .. Len(stack)
    BY <1>2, StackFacts DEF Ready, ClosureInv
  <1>7. CallsInv'
    <2>1. Base \in Nat /\ Base <= Len(stack)
      BY <1>6, CallFacts, StackFacts DEF ClosureInv, Ready
    <2> DEFINE n == Len(stack)
    <2>2. \A b \in 1 .. Base : upvalueStack[b] = Null => b \in 1 .. n /\ b # i
      <3>1. n \in Nat /\ Base <= n
        BY <1>6, <2>1
      <3> HIDE DEF n
      <3> QED
        BY <2>1, <3>1
    <2>3. CallsStay
      BY <1>2, <1>6, <2>2 DEF CallsStay
    <2> QED
      BY <2>3, CallsKept DEF ClosureInv
  <1>8. calls' \in Seq([closure : Cells, base : Nat])
    BY DEF ClosureInv, TypeOK
  <1> QED
    BY <1>3, <1>4, <1>5, <1>6, <1>7, <1>8, NothingIsNoArray, ReadyStep

LEMMA MoveKeeps == ASSUME ClosureInv, Move PROVE ClosureInv'
  <1>1. PICK i, j \in Slots : stack' = [stack EXCEPT ![j] = stack[i]]
    BY DEF Move
  <1>2. /\ heap' = heap /\ upvalueStack' = upvalueStack /\ calls' = calls /\ op' = op /\ Ready
    BY DEF Move
  <1>3. j \in 1 .. Len(stack) /\ j > Base /\ IsSound(stack[i])
    BY SlotsFacts
  <1> DEFINE v == stack[i]
  <1>4. IsSound(v) /\ stack' = [stack EXCEPT ![j] = v]
    BY <1>1, <1>3
  <1> HIDE DEF v
  <1> QED
    BY <1>2, <1>3, <1>4, WriteSlotKeeps

KindsStay(objects) == \A p \in Live : Kind(objects[p]) = Kind(heap[p])

\* The copy of a value in the heap.
LEMMA CopyFacts ==
    ASSUME TypeOK, NEW v, IsSound(v)
    PROVE  /\ Copy(v) \in Objects
           /\ Copy(v).type = "object"
           /\ Children(Copy(v)) \subseteq Live
           /\ \A objects : KindsStay(objects) => WellFormed(objects, Copy(v))
  <1> DEFINE refs == IF IsClosure(v) THEN <<v.closure>> ELSE <<>>
             o == Copy(v)
  <1>1. o = [type |-> "object", refs |-> refs, initialized |-> TRUE, index |-> 0, value |-> v]
    <2>1. o = [Cell("object", refs) EXCEPT !.value = v]
      BY DEF Copy
    <2> HIDE DEF o, refs
    <2> QED
      BY <2>1 DEF Cell
  <1>2. Range(refs) \subseteq Live /\ refs \in Seq(Pointers)
        /\ \A p \in Range(refs) : heap[p].type = "array"
    <2>1. CASE IsClosure(v)
      <3>1. v.closure \in Live /\ v.closure \in Cells /\ heap[v.closure].type = "array"
        BY <2>1, HeapFacts DEF IsSound
      <3>2. refs = <<v.closure>> /\ Range(<<v.closure>>) = {v.closure}
        BY <2>1 DEF Range
      <3> HIDE DEF refs
      <3> QED
        BY <3>1, <3>2 DEF Pointers
    <2>2. CASE ~IsClosure(v)
      <3>1. refs = <<>> /\ Range(<<>>) = {}
        BY <2>2 DEF Range
      <3> HIDE DEF refs
      <3> QED
        BY <3>1
    <2> QED
      BY <2>1, <2>2
  <1> HIDE DEF refs, o
  <1>3. o \in Objects
    BY <1>1, <1>2 DEF Objects, CellTypes, IsSound
  <1>4. Children(o) \subseteq Live
    BY <1>1, <1>2 DEF Children, Traced
  <1>5. ASSUME NEW objects, KindsStay(objects)
        PROVE  WellFormed(objects, o)
    <2> USE DEF KindsStay
    <2>1. Lead(objects, refs, "array")
      BY <1>2, <1>5, ArraysAreAKind DEF Lead
    <2>2. o = Copy(o.value)
      BY <1>1 DEF o
    <2> QED
      BY <1>1, <2>1, <2>2 DEF WellFormed
  <1>6. o.type = "object"
    BY <1>1
  <1>7. \A objects : KindsStay(objects) => WellFormed(objects, o)
    BY <1>5
  <1> QED
    BY <1>3, <1>4, <1>6, <1>7 DEF o

LEMMA BaseFacts ==
    ASSUME ClosureInv
    PROVE  \A b \in 1 .. Base : b \in DOMAIN upvalueStack
  <1> DEFINE m == Len(upvalueStack)
  <1>1. Base \in Nat /\ Base <= m
    BY CallFacts DEF ClosureInv
  <1>2. m \in Nat /\ DOMAIN upvalueStack = 1 .. m
    BY StackFacts DEF ClosureInv
  <1> HIDE DEF m
  <1> QED
    BY <1>1, <1>2

\* The copy of a released variable is replaced.
LEMMA WriteCopyKeeps ==
    ASSUME ClosureInv, Ready, NEW c \in Live, heap[c].type = "object",
           NEW v, IsSound(v), heap' = [heap EXCEPT ![c] = Copy(v)],
           stack' = stack, upvalueStack' = upvalueStack, calls' = calls, op' = op
    PROVE  /\ ClosureInv' /\ Changes({}, {c}) /\ Roots({})
           /\ heap'[c] = Copy(v) /\ \A d \in Cells \ {c} : heap'[d] = heap[d]
  <1>1. /\ Copy(v) \in Objects /\ Copy(v).type = "object" /\ Children(Copy(v)) \subseteq Live
        /\ \A objects : KindsStay(objects) => WellFormed(objects, Copy(v))
    BY CopyFacts DEF ClosureInv
  <1>2. c \in Cells /\ Live \subseteq Cells
    BY HeapFacts DEF ClosureInv
  <1>3. /\ heap' \in [Cells -> Objects] /\ heap'[c] = Copy(v)
        /\ \A d \in Cells \ {c} : heap'[d] = heap[d]
    BY <1>1, <1>2 DEF ClosureInv, TypeOK
  <1>4. WellFormed(heap', heap'[c])
    <2>1. KindsStay(heap')
      BY <1>1, <1>2, <1>3, ArraysAreAKind DEF KindsStay
    <2> QED
      BY <1>1, <1>3, <2>1
  <1>5. Changes({}, {c})
    <2>1. Kind(heap'[c]) = Kind(heap[c])
      BY <1>1, <1>2, <1>3, ArraysAreAKind
    <2> QED
      BY <1>1, <1>2, <1>3, <1>4, <2>1 DEF Changes, Inner
  <1>6. Roots({})
    BY DEF Roots, ClosureInv, TypeOK
  <1>7. SlotsStay({}, {c})
    <2>1. ASSUME NEW j \in DOMAIN upvalueStack, upvalueStack[j] # Null
          PROVE  upvalueStack[j] # c
      BY <2>1, <1>2 DEF ClosureInv, SlotsInv, StackIndex, Cell
    <2> QED
      BY <1>1, <1>3, <2>1 DEF SlotsStay
  <1>8. NoArrays({}, {c})
    BY DEF NoArrays
  <1>9. CallsInv'
    <2>1. CallsStay
      BY BaseFacts DEF CallsStay
    <2> QED
      BY <2>1, CallsKept DEF ClosureInv
  <1>10. Len(stack') = Len(upvalueStack') /\ calls' \in Seq([closure : Cells, base : Nat])
    <2>1. Len(stack) = Len(upvalueStack)
      BY StackFacts DEF ClosureInv, Ready
    <2>2. calls \in Seq([closure : Cells, base : Nat])
      BY DEF ClosureInv, TypeOK
    <2> QED
      BY <2>1, <2>2
  <1>11. ClosureInv'
    BY <1>5, <1>6, <1>7, <1>8, <1>9, <1>10, ReadyStep
  <1> QED
    BY <1>3, <1>5, <1>6, <1>11

LEMMA SetUpvalueKeeps == ASSUME ClosureInv, SetUpvalue PROVE ClosureInv'
  <1>1. PICK k \in DOMAIN Upvalues, i \in Slots : SetThrough(Upvalues[k], stack[i])
    BY DEF SetUpvalue
  <1> DEFINE u == Upvalues[k]
             v == stack[i]
             end == heap[EndOfChain(u)]
             c == end.refs[1]
  <1>2. Ready /\ upvalueStack' = upvalueStack /\ calls' = calls /\ op' = op
    BY DEF SetUpvalue
  <1>3. IsSound(v)
    BY SlotsFacts
  <1>4. u \in Live /\ Kind(heap[u]) = "upvalue"
    BY <1>2, UpvalueFacts DEF ClosureInv, Ready, Idle
  <1>5. /\ end.type = "stack_index" =>
              end.index \in 1 .. Len(stack) /\ upvalueStack[end.index] # Null
        /\ end.type = "heap_object" => c \in Live /\ heap[c].type = "object"
    BY <1>2, <1>4, DerefFacts DEF ClosureInv
  <1>6. \/ end.type = "stack_index" /\ stack' = [stack EXCEPT ![end.index] = v] /\ heap' = heap
        \/ end.type = "heap_object" /\ heap' = [heap EXCEPT ![c] = Copy(v)] /\ stack' = stack
    BY <1>1 DEF SetThrough
  <1> HIDE DEF u, v, end, c
  <1>7. CASE end.type = "stack_index" /\ stack' = [stack EXCEPT ![end.index] = v] /\ heap' = heap
    <2> DEFINE j == end.index
    <2>1. j \in 1 .. Len(stack) /\ (j > Base \/ upvalueStack[j] # Null)
          /\ stack' = [stack EXCEPT ![j] = v]
      BY <1>5, <1>7
    <2> HIDE DEF j
    <2> QED
      BY <1>2, <1>3, <1>7, <2>1, WriteSlotKeeps
  <1>8. CASE end.type = "heap_object" /\ heap' = [heap EXCEPT ![c] = Copy(v)] /\ stack' = stack
    BY <1>2, <1>3, <1>5, <1>8, WriteCopyKeeps
  <1> QED
    BY <1>6, <1>7, <1>8

LEMMA NewCellFacts ==
    ASSUME TypeOK, NEW c \in NewCell
    PROVE  c \in Cells /\ c \notin Live /\ c # Null
  BY NullAssumption DEF NewCell

\* The objects that upvalues are.
LEMMA UpvalueObjects ==
    /\ \A i \in Nat : /\ StackIndex(i) \in Objects
                      /\ StackIndex(i).type = "stack_index"
                      /\ StackIndex(i).index = i
                      /\ Children(StackIndex(i)) = {}
    /\ \A c \in Cells : /\ HeapObject(c) \in Objects
                        /\ HeapObject(c).type = "heap_object"
                        /\ Children(HeapObject(c)) = {c}
    /\ \A c \in Cells : /\ HeapUpvalue(c) \in Objects
                        /\ HeapUpvalue(c).type = "heap_upvalue"
                        /\ Children(HeapUpvalue(c)) = {c}
  <1>1. Nil \in Values /\ Cells \subseteq Pointers
    BY ClosuresAssumption DEF Values, Pointers
  <1>2. ASSUME NEW i \in Nat
        PROVE  /\ StackIndex(i) \in Objects
               /\ StackIndex(i).type = "stack_index"
               /\ StackIndex(i).index = i
               /\ Children(StackIndex(i)) = {}
    <2>1. StackIndex(i) = [type |-> "stack_index", refs |-> <<>>, initialized |-> TRUE,
                           index |-> i, value |-> Nil]
      <3> DEFINE refs == <<>>
      <3>1. StackIndex(i) = [Cell("stack_index", refs) EXCEPT !.index = i]
        BY DEF StackIndex
      <3> HIDE DEF refs
      <3>2. StackIndex(i) = [type |-> "stack_index", refs |-> refs, initialized |-> TRUE,
                             index |-> i, value |-> Nil]
        BY <3>1 DEF Cell
      <3> QED
        BY <3>2 DEF refs
    <2>2. <<>> \in Seq(Pointers) /\ Range(<<>>) = {}
      BY DEF Range
    <2>3. StackIndex(i) \in Objects
      BY <1>1, <2>1, <2>2 DEF Objects, CellTypes
    <2>4. Children(StackIndex(i)) = {}
      BY <2>1, <2>2 DEF Children, Traced
    <2>5. StackIndex(i).type = "stack_index" /\ StackIndex(i).index = i
      BY <2>1
    <2> QED
      BY <2>3, <2>4, <2>5
  <1>3. ASSUME NEW c \in Cells, NEW type \in {"heap_object", "heap_upvalue"}
        PROVE  /\ Cell(type, <<c>>) \in Objects
               /\ Cell(type, <<c>>).type = type
               /\ Children(Cell(type, <<c>>)) = {c}
    <2>1. <<c>> \in Seq(Pointers) /\ Range(<<c>>) = {c}
      BY <1>1 DEF Range
    <2>2. Cell(type, <<c>>) \in Objects
      BY <1>1, <2>1 DEF Cell, Objects, CellTypes
    <2>3. Children(Cell(type, <<c>>)) = {c}
      BY <2>1, NullAssumption DEF Cell, Children, Traced
    <2> QED
      BY <2>2, <2>3 DEF Cell
  <1>4. \A c \in Cells : HeapObject(c) = Cell("heap_object", <<c>>)
                         /\ HeapUpvalue(c) = Cell("heap_upvalue", <<c>>)
    BY DEF HeapObject, HeapUpvalue
  <1> QED
    BY <1>2, <1>3, <1>4

\* What is well-formed about them: what they point to.
LEMMA UpvaluesWellFormed ==
    ASSUME NEW objects
    PROVE  /\ \A i \in Nat : WellFormed(objects, StackIndex(i))
           /\ \A c \in Cells : Kind(objects[c]) = "object" => WellFormed(objects, HeapObject(c))
           /\ \A c \in Cells : Kind(objects[c]) = "upvalue" => WellFormed(objects, HeapUpvalue(c))
  <1>1. ASSUME NEW i \in Nat PROVE WellFormed(objects, StackIndex(i))
    BY DEF WellFormed, StackIndex, Cell
  <1>2. ASSUME NEW c \in Cells, NEW kind, Kind(objects[c]) = kind
        PROVE  Lead(objects, <<c>>, kind) /\ Len(<<c>>) = 1 /\ <<c>>[1] # Null
    BY <1>2, NullAssumption DEF Lead, Range
  <1>3. ASSUME NEW c \in Cells, Kind(objects[c]) = "object"
        PROVE  WellFormed(objects, HeapObject(c))
    BY <1>2, <1>3 DEF WellFormed, HeapObject, Cell
  <1>4. ASSUME NEW c \in Cells, Kind(objects[c]) = "upvalue"
        PROVE  WellFormed(objects, HeapUpvalue(c))
    BY <1>2, <1>4 DEF WellFormed, HeapUpvalue, Cell
  <1> QED
    BY <1>1, <1>3, <1>4

LEMMA OutOfMemoryKeeps ==
    ASSUME ClosureInv, OutOfMemory
    PROVE  ClosureInv'
  <1>1. /\ heap' = heap /\ stack' = stack /\ upvalueStack' = upvalueStack /\ calls' = calls
        /\ op' = [op EXCEPT !.name = "outOfMemory"]
    BY DEF OutOfMemory
  <1>2. op'.name = "outOfMemory" /\ op'.array = op.array
        /\ op' \in [name : {"idle", "pushClosure", "outOfMemory"}, captures : Seq(Int),
                    next : Nat \ {0}, array : Pointers, arity : Arities \cup {0}]
    BY <1>1 DEF ClosureInv, TypeOK
  <1>3. Live' = Live
    BY <1>1 DEF Live, Graph, RootCells, StackCells, IsClosure
  <1>4. TypeOK'
    <2> DEFINE n == Len(stack)
               m == Len(upvalueStack)
    <2>1. n \in Nat /\ m \in Nat /\ n - m \in 0 .. (IF op = Idle THEN 0 ELSE 1)
      BY StackFacts DEF ClosureInv, TypeOK
    <2>2. op' # Idle
      BY <1>2 DEF Idle
    <2> HIDE DEF n, m
    <2>3. n - m \in 0 .. (IF op' = Idle THEN 0 ELSE 1)
      BY <2>1, <2>2
    <2>4. n' = n /\ m' = m
      BY <1>1 DEF n, m
    <2> QED
      BY <1>1, <1>2, <2>3 DEF ClosureInv, TypeOK, n, m
  <1>5. HeapInv'
    BY <1>1, <1>3 DEF ClosureInv, HeapInv
  <1>6. ClosuresInv'
    <2>1. LiveClosures' = LiveClosures
      BY <1>1, <1>2, <1>3 DEF LiveClosures
    <2> QED
      BY <1>1, <2>1 DEF ClosureInv, ClosuresInv, IsClosure
  <1>7. SlotsInv'
    BY <1>1 DEF ClosureInv, SlotsInv
  <1>8. UpvaluesNameTheirSlots'
    BY <1>1, <1>3 DEF ClosureInv, UpvaluesNameTheirSlots
  <1>9. CallsInv'
    BY <1>1 DEF ClosureInv, CallsInv, IsClosure
  <1>10. PushInv'
    BY <1>2 DEF PushInv
  <1> QED
    BY <1>4, <1>5, <1>6, <1>7, <1>8, <1>9, <1>10 DEF ClosureInv

\* The variable of slot i moves to the cell c.
Releases(i, c) ==
    /\ upvalueStack[i] # Null
    /\ heap' = [heap EXCEPT ![c] = Copy(stack[i]), ![upvalueStack[i]] = HeapObject(c)]
    /\ stack' = [stack EXCEPT ![i] = Nil]
    /\ upvalueStack' = [upvalueStack EXCEPT ![i] = Null]
    /\ calls' = calls /\ op' = op

LEMMA ReleaseKeeps ==
    ASSUME ClosureInv, Ready, NEW i \in Slots, NEW c \in NewCell, Releases(i, c)
    PROVE  /\ ClosureInv' /\ Changes({c}, {upvalueStack[i]}) /\ Roots({c})
           /\ heap'[c] = Copy(stack[i]) /\ heap'[upvalueStack[i]] = HeapObject(c)
           /\ \A d \in Cells \ {c, upvalueStack[i]} : heap'[d] = heap[d]
  <1>1. /\ upvalueStack[i] # Null
        /\ heap' = [heap EXCEPT ![c] = Copy(stack[i]), ![upvalueStack[i]] = HeapObject(c)]
        /\ stack' = [stack EXCEPT ![i] = Nil]
        /\ upvalueStack' = [upvalueStack EXCEPT ![i] = Null]
        /\ calls' = calls /\ op' = op
    BY DEF Releases
  <1> DEFINE u == upvalueStack[i]
             v == stack[i]
  <1>2. /\ i \in 1 .. Len(stack) /\ i > Base /\ IsSound(v)
        /\ c \in Cells /\ c \notin Live /\ Ready
    BY SlotsFacts, NewCellFacts DEF ClosureInv
  <1>3. i \in 1 .. Len(upvalueStack) /\ DOMAIN upvalueStack = 1 .. Len(upvalueStack)
        /\ Len(upvalueStack) = Len(stack)
    BY <1>2, StackFacts DEF ClosureInv, Ready
  <1>4. u \in Live /\ u \in Cells /\ u # c /\ heap[u] = StackIndex(i) /\ i \in Nat
        /\ Live \subseteq Cells
    <2>1. u \in Live
      BY <1>1, <1>3, StackFacts DEF ClosureInv
    <2> QED
      BY <1>1, <1>2, <1>3, <2>1, HeapFacts DEF ClosureInv, SlotsInv
  <1>5. /\ Copy(v) \in Objects /\ Copy(v).type = "object" /\ Children(Copy(v)) \subseteq Live
        /\ \A objects : KindsStay(objects) => WellFormed(objects, Copy(v))
    BY <1>2, CopyFacts DEF ClosureInv
  <1>6. /\ HeapObject(c) \in Objects /\ HeapObject(c).type = "heap_object"
        /\ Children(HeapObject(c)) = {c}
        /\ heap[u].type = "stack_index" /\ heap[u].index = i
    BY <1>2, <1>4, UpvalueObjects
  <1>7. Written(Values, stack, i, Nil, stack')
    <2>1. stack \in Seq(Values) /\ Nil \in Values /\ i \in 1 .. Len(stack)
      BY <1>2, ClosuresAssumption DEF ClosureInv, TypeOK, Values
    <2> QED
      BY <1>1, <2>1, WrittenFacts
  <1>8. Written(Pointers, upvalueStack, i, Null, upvalueStack')
    <2>1. upvalueStack \in Seq(Pointers) /\ Null \in Pointers /\ i \in 1 .. Len(upvalueStack)
      BY <1>3 DEF ClosureInv, TypeOK, Pointers
    <2> QED
      BY <1>1, <2>1, WrittenFacts
  <1> HIDE DEF v
  <1>9. /\ heap' \in [Cells -> Objects] /\ heap'[c] = Copy(v) /\ heap'[u] = HeapObject(c)
        /\ \A d \in Cells \ {c, u} : heap'[d] = heap[d]
    <2>1. heap \in [Cells -> Objects]
      BY DEF ClosureInv, TypeOK
    <2>2. heap' = [heap EXCEPT ![c] = Copy(v), ![u] = HeapObject(c)]
      BY <1>1 DEF v
    <2> HIDE DEF u
    <2> QED
      BY <1>2, <1>4, <1>5, <1>6, <2>1, <2>2
  <1> HIDE DEF u
  <1>10. Kind(heap'[u]) = Kind(heap[u])
    BY <1>6, <1>9 DEF Kind, IsUpvalue
  <1>11. WellFormed(heap', heap'[c]) /\ WellFormed(heap', heap'[u])
    <2>1. KindsStay(heap')
      BY <1>2, <1>4, <1>9, <1>10 DEF KindsStay
    <2>2. Kind(heap'[c]) = "object"
      BY <1>5, <1>9, ArraysAreAKind
    <2>3. WellFormed(heap', heap'[c])
      BY <1>5, <1>9, <2>1
    <2> DEFINE objects == heap'
    <2>4. Kind(objects[c]) = "object" /\ c \in Cells
      BY <1>2, <2>2
    <2> HIDE DEF objects
    <2>5. WellFormed(objects, HeapObject(c))
      BY <2>4, UpvaluesWellFormed
    <2>6. WellFormed(heap', heap'[u])
      BY <1>9, <2>5 DEF objects
    <2> QED
      BY <2>3, <2>6
  <1>12. Changes({c}, {u})
    BY <1>2, <1>4, <1>5, <1>6, <1>9, <1>10, <1>11 DEF Changes, Inner
  <1>13. Roots({c})
    <2>1. Range(stack') \subseteq Range(stack) \cup {Nil} /\ ~IsClosure(Nil)
      BY <1>7, ClosuresAssumption DEF Written, IsClosure
    <2>2. stack' \in Seq(Values) /\ upvalueStack' \in Seq(Pointers)
          /\ Range(upvalueStack') \subseteq Range(upvalueStack) \cup {Null}
      BY <1>7, <1>8 DEF Written
    <2> QED
      BY <2>1, <2>2 DEF Roots
  <1>14. DOMAIN upvalueStack' = DOMAIN upvalueStack /\ Len(stack') = Len(upvalueStack')
    <2>1. upvalueStack' \in Seq(Pointers)
      BY <1>8 DEF Written
    <2>2. DOMAIN upvalueStack' = 1 .. Len(upvalueStack')
      BY <2>1, SeqFacts
    <2> QED
      BY <1>3, <1>7, <1>8, <2>2 DEF Written
  <1>15. SlotsStay({c}, {u})
    <2>1. \A j \in DOMAIN upvalueStack : j # i => upvalueStack'[j] = upvalueStack[j]
      BY <1>3, <1>8 DEF Written
    <2>2. upvalueStack'[i] = Null
      BY <1>8 DEF Written
    <2>3. ASSUME NEW j \in DOMAIN upvalueStack, j # i, upvalueStack[j] = u PROVE FALSE
      <3>1. heap[u] = StackIndex(j) /\ j \in Nat
        BY <1>1, <1>3, <2>3 DEF ClosureInv, SlotsInv, u
      <3>2. heap[u].index = j
        BY <3>1, UpvalueObjects
      <3> QED
        BY <1>6, <2>3, <3>2
    <2>4. \A d \in {c, u} : heap'[d].type # "stack_index"
      BY <1>5, <1>6, <1>9
    <2> QED
      BY <1>3, <1>14, <2>1, <2>2, <2>3, <2>4 DEF SlotsStay, u
  <1>16. NoArrays({c}, {u})
    BY <1>5, <1>6, <1>9 DEF NoArrays
  <1>17. CallsInv'
    <2> DEFINE n == Len(stack)
    <2>1. Base \in Nat /\ n \in Nat /\ i \in 1 .. n /\ i > Base /\ DOMAIN upvalueStack = 1 .. n
      BY <1>2, <1>3, CallFacts, StackFacts DEF ClosureInv
    <2>2. \A b \in 1 .. Base : b \in DOMAIN upvalueStack
      BY BaseFacts
    <2>3. \A b \in 1 .. Base : b # i /\ b \in 1 .. n
      <3> HIDE DEF n
      <3> QED
        BY <2>1, <2>2
    <2>4. CallsStay
      BY <1>1, <1>3, <1>7, <1>8, <1>14, <2>2, <2>3 DEF CallsStay, Written
    <2> QED
      BY <2>4, CallsKept DEF ClosureInv
  <1>18. calls' \in Seq([closure : Cells, base : Nat])
    BY <1>1 DEF ClosureInv, TypeOK
  <1>19. ClosureInv'
    BY <1>1, <1>2, <1>12, <1>13, <1>14, <1>15, <1>16, <1>17, <1>18, ReadyStep
  <1> QED
    BY <1>9, <1>12, <1>13, <1>19 DEF u, v

LEMMA ReleaseUpvalueKeeps == ASSUME ClosureInv, ReleaseUpvalue PROVE ClosureInv'
  <1>1. Ready
    BY DEF ReleaseUpvalue
  <1>2. OutOfMemory \/ \E i \in Slots, c \in NewCell : Releases(i, c)
    BY DEF ReleaseUpvalue, Releases
  <1> QED
    BY <1>1, <1>2, OutOfMemoryKeeps, ReleaseKeeps

\* The slots above n go, which hold no captured variable; the value of the last may
\* come instead.
Truncates(n) ==
    /\ n \in Nat /\ n + 1 <= Len(stack) /\ Released(n + 1)
    /\ calls' \in Seq([closure : Cells, base : Nat])
    /\ \A i \in DOMAIN calls' : calls'[i] = calls[i] /\ i \in DOMAIN calls
                                /\ calls[i].base <= n
    /\ heap' = heap /\ op' = op
    /\ \/ /\ stack' = SubSeq(stack, 1, n)
          /\ upvalueStack' = SubSeq(upvalueStack, 1, n)
       \/ /\ stack' = Append(SubSeq(stack, 1, n), stack[Len(stack)])
          /\ upvalueStack' = Append(SubSeq(upvalueStack, 1, n), Null)

LEMMA TruncateKeeps ==
    ASSUME ClosureInv, Ready, NEW n, Truncates(n)
    PROVE  /\ ClosureInv' /\ Changes({}, {}) /\ Roots({})
           /\ \A i \in DOMAIN upvalueStack' : upvalueStack'[i] # Null => i \in 1 .. n
  <1> DEFINE front == SubSeq(stack, 1, n)
             cells == SubSeq(upvalueStack, 1, n)
             len == Len(stack)
  <1>1. /\ n \in Nat /\ n <= len /\ len \in 1 .. len
        /\ heap' = heap /\ op' = op /\ calls' \in Seq([closure : Cells, base : Nat])
        /\ \A i \in DOMAIN calls' : calls'[i] = calls[i] /\ i \in DOMAIN calls
                                    /\ calls[i].base <= n
    <2>1. n \in Nat /\ n + 1 <= len /\ len \in Nat
      BY StackFacts DEF Truncates, ClosureInv
    <2>2. n <= len /\ len \in 1 .. len
      <3> HIDE DEF len
      <3> QED
        BY <2>1
    <2> QED
      BY <2>1, <2>2 DEF Truncates
  <1>2. /\ stack \in Seq(Values) /\ upvalueStack \in Seq(Pointers)
        /\ Len(upvalueStack) = len /\ len \in Nat
        /\ DOMAIN upvalueStack = 1 .. len
        /\ \A i \in 1 .. len : IsSound(stack[i])
        /\ Null \in Pointers
    BY StackFacts DEF ClosureInv, TypeOK, Ready, Pointers
  <1>3. /\ front \in Seq(Values) /\ Len(front) = n
        /\ \A i \in 1 .. n : front[i] = stack[i]
        /\ Range(front) \subseteq Range(stack)
    BY <1>1, <1>2, PrefixFacts
  <1>4. /\ cells \in Seq(Pointers) /\ Len(cells) = n
        /\ \A i \in 1 .. n : cells[i] = upvalueStack[i]
        /\ Range(cells) \subseteq Range(upvalueStack)
    BY <1>1, <1>2, PrefixFacts
  <1> HIDE DEF front, cells, len
  <1>5. /\ stack' \in Seq(Values) /\ Len(stack') \in {n, n + 1}
        /\ \A i \in 1 .. n : stack'[i] = stack[i]
        /\ Range(stack') \subseteq Range(stack)
        /\ upvalueStack' \in Seq(Pointers) /\ Len(upvalueStack') = Len(stack')
        /\ \A i \in 1 .. n : upvalueStack'[i] = upvalueStack[i]
        /\ Len(stack') = n + 1 => upvalueStack'[n + 1] = Null
        /\ Range(upvalueStack') \subseteq Range(upvalueStack) \cup {Null}
    <2>1. CASE stack' = front /\ upvalueStack' = cells
      BY <2>1, <1>3, <1>4
    <2>2. CASE stack' = Append(front, stack[len]) /\ upvalueStack' = Append(cells, Null)
      <3> DEFINE v == stack[len]
      <3>2. v \in Values /\ stack' = Append(front, v)
        BY <1>1, <1>2, <2>2 DEF IsSound
      <3>3. v \in Range(stack)
        BY <1>1, <1>2, RangeFacts DEF len
      <3> HIDE DEF v
      <3>4. /\ stack' \in Seq(Values) /\ Len(stack') = n + 1
            /\ \A j \in 1 .. n : stack'[j] = front[j]
            /\ Range(stack') = Range(front) \cup {v}
        BY <1>3, <3>2, AppendFacts
      <3>5. /\ upvalueStack' \in Seq(Pointers) /\ Len(upvalueStack') = n + 1
            /\ \A j \in 1 .. n : upvalueStack'[j] = cells[j]
            /\ upvalueStack'[n + 1] = Null
            /\ Range(upvalueStack') = Range(cells) \cup {Null}
        BY <1>2, <1>4, <2>2, AppendFacts
      <3> QED
        BY <1>3, <1>4, <3>3, <3>4, <3>5
    <2> QED
      BY <1>1, <2>1, <2>2 DEF Truncates, front, cells, len
  <1>6. DOMAIN upvalueStack' = 1 .. Len(stack')
    <2>1. upvalueStack' \in Seq(Pointers) /\ Len(upvalueStack') = Len(stack')
      BY <1>5
    <2> QED
      BY <2>1, SeqFacts
  <1>7. \A j \in 1 .. len : upvalueStack[j] # Null => j \in 1 .. n
    BY <1>1, <1>2 DEF Truncates, Released, len
  <1>8. Changes({}, {})
    BY <1>1, WritesNothing DEF ClosureInv
  <1>9. Roots({})
    BY <1>1, <1>5 DEF Roots
  <1>10. ASSUME NEW j \in DOMAIN upvalueStack', upvalueStack'[j] # Null PROVE j \in 1 .. n
    <2> DEFINE k == Len(stack')
    <2>1. j \in 1 .. k /\ k \in {n, n + 1}
      BY <1>5, <1>6
    <2>2. ~(k = n + 1 /\ j = n + 1)
      BY <1>5, <1>10
    <2> HIDE DEF k
    <2> QED
      BY <1>1, <2>1, <2>2
  <1>11. SlotsStay({}, {})
    <2>1. \A j \in 1 .. n : j \in 1 .. len /\ j \in DOMAIN upvalueStack'
      <3>1. Len(stack') \in {n, n + 1}
        BY <1>5
      <3> QED
        BY <1>1, <1>2, <1>6, <3>1
    <2> QED
      BY <1>2, <1>5, <1>7, <1>10, <2>1 DEF SlotsStay
  <1>12. CallsInv'
    <2>1. ASSUME NEW i \in DOMAIN calls'
          PROVE  /\ calls'[i].base \in DOMAIN upvalueStack'
                 /\ upvalueStack'[calls'[i].base] = Null
                 /\ IsClosure(stack'[calls'[i].base])
                 /\ stack'[calls'[i].base].closure = calls'[i].closure
      <3> DEFINE b == calls[i].base
      <3>1. /\ calls'[i] = calls[i] /\ b <= n /\ b \in 1 .. len
            /\ upvalueStack[b] = Null /\ IsClosure(stack[b])
            /\ stack[b].closure = calls[i].closure
        BY <1>1, <1>2 DEF ClosureInv, CallsInv
      <3>2. b \in 1 .. n /\ b \in DOMAIN upvalueStack'
        <4> HIDE DEF b
        <4>1. Len(stack') \in {n, n + 1}
          BY <1>5
        <4> QED
          BY <1>1, <1>2, <1>6, <3>1, <4>1
      <3> QED
        BY <1>5, <3>1, <3>2
    <2>2. \A i, j \in DOMAIN calls' : i < j => calls'[i].base < calls'[j].base
      BY <1>1 DEF ClosureInv, CallsInv
    <2> QED
      BY <2>1, <2>2 DEF CallsInv, IsClosure
  <1>13. Len(stack') = Len(upvalueStack')
    BY <1>5
  <1>14. ClosureInv'
    BY <1>1, <1>8, <1>9, <1>11, <1>12, <1>13, NothingIsNoArray, ReadyStep
  <1> QED
    BY <1>8, <1>9, <1>10, <1>14

LEMMA PopTruncates == ASSUME ClosureInv, Pop PROVE Truncates(Len(stack) - 1)
  <1> DEFINE len == Len(stack)
             n == len - 1
  <1>1. /\ Ready /\ heap' = heap /\ calls' = calls /\ op' = op
        /\ stack' = SubSeq(stack, 1, n) /\ upvalueStack' = SubSeq(upvalueStack, 1, n)
        /\ Released(len)
    <2>1. Len(upvalueStack) = len
      BY StackFacts DEF Pop, Ready, ClosureInv
    <2> QED
      BY <2>1 DEF Pop, Front
  <1>2. Base \in Nat /\ len \in Nat /\ Base + 1 <= len
    <2>1. Base \in Nat /\ len \in Nat /\ Base + 1 .. len # {}
      BY StackFacts, CallFacts DEF ClosureInv, Pop, Slots
    <2> HIDE DEF len
    <2> QED
      BY <2>1
  <1>3. n \in Nat /\ n + 1 <= len /\ n + 1 = len /\ Base <= n
    <2> HIDE DEF len
    <2> QED
      BY <1>2
  <1>4. \A i \in DOMAIN calls : calls[i].base <= n
    <2>1. \A i \in DOMAIN calls : calls[i].base \in 1 .. Base
      BY CallFacts DEF ClosureInv
    <2> HIDE DEF n
    <2> QED
      BY <1>2, <1>3, <2>1
  <1>5. \A i \in DOMAIN calls' : calls'[i] = calls[i] /\ i \in DOMAIN calls
                                 /\ calls[i].base <= n
    BY <1>1, <1>4
  <1>6. Released(n + 1) /\ n + 1 <= Len(stack)
    BY <1>1, <1>3
  <1>7. calls' \in Seq([closure : Cells, base : Nat])
    BY <1>1 DEF ClosureInv, TypeOK
  <1>8. Truncates(n)
    <2> HIDE DEF n
    <2> QED
      BY <1>1, <1>3, <1>5, <1>6, <1>7 DEF Truncates
  <1> QED
    BY <1>8

LEMMA PopKeeps == ASSUME ClosureInv, Pop PROVE ClosureInv'
  <1> DEFINE n == Len(stack) - 1
  <1>1. Ready /\ Truncates(n)
    BY PopTruncates DEF Pop
  <1> HIDE DEF n
  <1> QED
    BY <1>1, TruncateKeeps

LEMMA ReturnTruncates == ASSUME ClosureInv, Return PROVE Truncates(Base)
  <1> DEFINE len == Len(stack)
             n == Base
             depth == Len(calls)
  <1>1. /\ Ready /\ heap' = heap /\ op' = op /\ calls # <<>>
        /\ calls' = SubSeq(calls, 1, depth - 1)
        /\ stack' = Append(SubSeq(stack, 1, n), stack[len])
        /\ upvalueStack' = Append(SubSeq(upvalueStack, 1, n), Null)
        /\ Released(n + 1)
    BY DEF Return, Front, Last
  <1>2. /\ n \in Nat /\ len \in Nat /\ n + 1 <= len /\ depth \in Nat /\ DOMAIN calls = 1 .. depth
        /\ calls # <<>> => depth \in DOMAIN calls /\ n = calls[depth].base
    <2>1. /\ n \in Nat /\ len \in Nat /\ n + 1 .. len # {}
          /\ depth \in Nat /\ DOMAIN calls = 1 .. depth
          /\ calls # <<>> => depth \in DOMAIN calls /\ n = calls[depth].base
      BY StackFacts, CallFacts DEF ClosureInv, Return, Slots
    <2> HIDE DEF len, n, depth
    <2> QED
      BY <2>1
  <1>3. n <= len /\ len \in 1 .. len
    <2> HIDE DEF len, n
    <2> QED
      BY <1>2
  <1>4. calls \in Seq([closure : Cells, base : Nat])
    BY DEF ClosureInv, TypeOK
  <1>5. /\ calls' \in Seq([closure : Cells, base : Nat])
        /\ DOMAIN calls' = 1 .. depth - 1
        /\ \A i \in 1 .. depth - 1 : calls'[i] = calls[i]
    <2> DEFINE k == depth - 1
    <2>1. k \in Int /\ k <= Len(calls) /\ calls' = SubSeq(calls, 1, k) /\ depth >= 1
      BY <1>1, <1>2
    <2> HIDE DEF k
    <2>2. /\ calls' \in Seq([closure : Cells, base : Nat])
          /\ Len(calls') = IF 1 <= k THEN k ELSE 0
          /\ \A i \in 1 .. k : calls'[i] = calls[i]
      <3> DEFINE t == SubSeq(calls, 1, k)
                 C == [closure : Cells, base : Nat]
      <3>1. /\ t \in Seq(C)
            /\ Len(t) = IF 1 <= k THEN k ELSE 0
            /\ \A i \in 1 .. k : t[i] = calls[i]
        <4>1. k \in Int /\ k <= Len(calls) /\ calls \in Seq(C)
          BY <1>4, <2>1
        <4> HIDE DEF C
        <4> QED
          BY <4>1, PrefixFacts
      <3>2. calls' = t
        BY <2>1
      <3> HIDE DEF t
      <3> QED
        BY <3>1, <3>2
    <2>3. DOMAIN calls' = 1 .. Len(calls')
      BY <2>2, SeqFacts
    <2>4. 1 .. Len(calls') = 1 .. k
      BY <2>1, <2>2
    <2> QED
      BY <2>2, <2>3, <2>4 DEF k
  <1>6. \A i \in DOMAIN calls' : calls'[i] = calls[i] /\ i \in DOMAIN calls
                                 /\ calls[i].base <= n
    <2> SUFFICES ASSUME NEW i \in DOMAIN calls'
                 PROVE  calls'[i] = calls[i] /\ i \in DOMAIN calls /\ calls[i].base <= n
      OBVIOUS
    <2>1. calls'[i] = calls[i] /\ i \in 1 .. depth /\ i < depth
      <3> HIDE DEF depth
      <3> QED
        BY <1>2, <1>5
    <2>2. calls[i].base \in 1 .. Base
      BY <1>2, <2>1, CallFacts DEF ClosureInv
    <2> QED
      BY <1>2, <2>1, <2>2
  <1>7. n + 1 <= Len(stack)
    BY <1>2
  <1>8. Truncates(n)
    <2> HIDE DEF n
    <2> QED
      BY <1>1, <1>2, <1>5, <1>6, <1>7 DEF Truncates
  <1> QED
    BY <1>8

LEMMA ReturnKeeps == ASSUME ClosureInv, Return PROVE ClosureInv'
  <1> DEFINE n == Base
  <1>1. Ready /\ Truncates(n)
    BY ReturnTruncates DEF Return
  <1> HIDE DEF n
  <1> QED
    BY <1>1, TruncateKeeps

LEMMA FuncallKeeps == ASSUME CalleeIsTemporary, ClosureInv, Funcall PROVE ClosureInv'
  <1> DEFINE len == Len(stack)
  <1>1. PICK i \in Slots :
            /\ IsClosure(stack[i])
            /\ LET base == len - stack[i].arity
               IN  /\ i <= base
                   /\ Base < base
                   /\ Released(base)
                   /\ i < base => stack[i].arity > 0 /\ ~CalleeIsTemporary
                   /\ calls' = Append(calls, [closure |-> stack[i].closure, base |-> base])
    BY DEF Funcall
  <1> DEFINE v == stack[i]
             base == len - v.arity
             call == [closure |-> v.closure, base |-> base]
             depth == Len(calls)
  <1>2. /\ heap' = heap /\ stack' = stack /\ upvalueStack' = upvalueStack /\ op' = op
        /\ Ready
    BY DEF Funcall
  <1>3. /\ i \in 1 .. len /\ i > Base /\ Base \in Nat
        /\ v.closure \in Cells /\ v.arity \in Nat
        /\ len \in Nat /\ len = Len(upvalueStack) /\ DOMAIN upvalueStack = 1 .. len
    <2>1. v \in Values /\ IsClosure(v)
      BY <1>1, SlotsFacts DEF IsSound
    <2>2. v \in [closure : Cells, arity : Arities]
      BY <2>1, ValueFacts
    <2>3. v.closure \in Cells /\ v.arity \in Nat
      BY <2>2, ClosuresAssumption
    <2> QED
      BY <1>2, <2>3, SlotsFacts, CallFacts, StackFacts DEF ClosureInv, Ready
  <1>4. calls' = Append(calls, call) /\ Released(base)
    BY <1>1
  <1>5. base = i /\ base \in 1 .. len /\ base \in Nat /\ base > Base
    <2>1. i <= base /\ ~(i < base) /\ base > Base
      BY <1>1
    <2>2. base \in Int
      <3> HIDE DEF len, v
      <3> QED
        BY <1>3
    <2> HIDE DEF base
    <2> QED
      BY <1>3, <2>1, <2>2
  <1>6. upvalueStack[base] = Null
    <2>1. base \in base .. len
      <3> HIDE DEF base, len
      <3> QED
        BY <1>3, <1>5
    <2> QED
      BY <1>4, <2>1 DEF Released
  <1>7. calls \in Seq([closure : Cells, base : Nat]) /\ call \in [closure : Cells, base : Nat]
    BY <1>3, <1>5 DEF ClosureInv, TypeOK
  <1>8. /\ depth \in Nat /\ DOMAIN calls = 1 .. depth
        /\ \A k \in DOMAIN calls : calls[k].base \in 1 .. Base
    BY CallFacts DEF ClosureInv
  <1>9. /\ calls' \in Seq([closure : Cells, base : Nat])
        /\ DOMAIN calls' = 1 .. depth + 1
        /\ \A k \in 1 .. depth : calls'[k] = calls[k]
        /\ calls'[depth + 1] = call
    <2> HIDE DEF call
    <2>1. /\ calls' \in Seq([closure : Cells, base : Nat])
          /\ Len(calls') = depth + 1
          /\ \A k \in 1 .. depth : calls'[k] = calls[k]
          /\ calls'[depth + 1] = call
      BY <1>4, <1>7, AppendFacts
    <2> QED
      BY <2>1, SeqFacts
  <1>10. call.base = base /\ call.closure = stack[base].closure /\ IsClosure(stack[base])
    BY <1>1, <1>5
  <1> HIDE DEF call, base, v, len, depth
  <1>11. CallsInv'
    <2>1. ASSUME NEW k \in DOMAIN calls'
          PROVE  /\ calls'[k].base \in DOMAIN upvalueStack
                 /\ upvalueStack[calls'[k].base] = Null
                 /\ IsClosure(stack[calls'[k].base])
                 /\ stack[calls'[k].base].closure = calls'[k].closure
      <3>1. CASE k = depth + 1
        BY <3>1, <1>3, <1>5, <1>6, <1>9, <1>10
      <3>2. CASE k # depth + 1
        <4>1. k \in DOMAIN calls /\ calls'[k] = calls[k]
          BY <3>2, <1>8, <1>9
        <4> QED
          BY <4>1 DEF ClosureInv, CallsInv
      <3> QED
        BY <3>1, <3>2
    <2>2. ASSUME NEW j \in DOMAIN calls', NEW k \in DOMAIN calls', j < k
          PROVE  calls'[j].base < calls'[k].base
      <3>1. j \in DOMAIN calls /\ calls'[j] = calls[j] /\ calls[j].base \in 1 .. Base
        BY <2>2, <1>8, <1>9
      <3>2. CASE k = depth + 1
        BY <3>1, <3>2, <1>3, <1>5, <1>9, <1>10
      <3>3. CASE k # depth + 1
        <4>1. k \in DOMAIN calls /\ calls'[k] = calls[k]
          BY <3>3, <1>8, <1>9
        <4> QED
          BY <2>2, <3>1, <4>1 DEF ClosureInv, CallsInv
      <3> QED
        BY <3>2, <3>3
    <2> QED
      BY <1>2, <2>1, <2>2 DEF CallsInv, IsClosure
  <1>12. Changes({}, {})
    BY <1>2, WritesNothing DEF ClosureInv
  <1>13. Roots({}) /\ SlotsStay({}, {})
    BY <1>2 DEF Roots, SlotsStay, ClosureInv, TypeOK
  <1>14. Len(stack') = Len(upvalueStack')
    BY <1>2, <1>3 DEF len
  <1> QED
    BY <1>2, <1>9, <1>11, <1>12, <1>13, <1>14, NothingIsNoArray, ReadyStep

-----------------------------------------------------------------------------
(* push-closure. *)

\* The running function keeps its slots' base and its upvalues.
LEMMA UpvaluesStay ==
    ASSUME ClosureInv, NEW N, NEW T, Changes(N, T), calls' = calls,
           calls # <<>> => Last(calls).closure \notin T
    PROVE  Upvalues' = Upvalues /\ Base' = Base
  <1>1. Base' = Base
    BY DEF Base
  <1>2. ASSUME calls # <<>> PROVE heap'[Last(calls).closure] = heap[Last(calls).closure]
    <2>1. Last(calls).closure \in Live /\ Last(calls).closure \in Cells
      BY <1>2, CallFacts, HeapFacts DEF ClosureInv
    <2> QED
      BY <1>2, <2>1 DEF Changes
  <1> QED
    BY <1>1, <1>2 DEF Upvalues

LEMMA UpvaluesAreASeq ==
    ASSUME ClosureInv
    PROVE  DOMAIN Upvalues = 1 .. Len(Upvalues) /\ Len(Upvalues) \in Nat
  <1>1. Upvalues \in Seq(Pointers)
    <2>1. CASE calls = <<>>
      BY <2>1 DEF Upvalues
    <2>2. CASE calls # <<>>
      <3>1. Last(calls).closure \in Cells
        BY <2>2, CallFacts, HeapFacts DEF ClosureInv
      <3> QED
        BY <2>2, <3>1 DEF Upvalues, ClosureInv, TypeOK, Objects
    <2> QED
      BY <2>1, <2>2
  <1> QED
    BY <1>1, SeqFacts

LEMMA ArrayObjects ==
    \A refs \in Seq(Pointers) : /\ UpvalueArray(refs) \in Objects
                                /\ UpvalueArray(refs).type = "array"
                                /\ UpvalueArray(refs).refs = refs
                                /\ UpvalueArray(refs).initialized
  <1>1. Nil \in Values
    BY ClosuresAssumption DEF Values
  <1> QED
    BY <1>1 DEF UpvalueArray, Cell, Objects, CellTypes

\* An array of n null pointers.
LEMMA EmptyArrayFacts ==
    ASSUME NEW n \in Nat, NEW refs, refs = [k \in 1 .. n |-> Null]
    PROVE  /\ UpvalueArray(refs) \in Objects
           /\ UpvalueArray(refs).type = "array"
           /\ UpvalueArray(refs).refs = refs
           /\ Len(refs) = n
           /\ Children(UpvalueArray(refs)) = {}
           /\ \A objects : WellFormed(objects, UpvalueArray(refs))
  <1>1. refs \in Seq(Pointers) /\ Range(refs) \subseteq {Null} /\ Len(refs) = n
    BY ConstantSeq DEF Pointers, Range
  <1>2. /\ UpvalueArray(refs) \in Objects
        /\ UpvalueArray(refs).type = "array"
        /\ UpvalueArray(refs).refs = refs
        /\ UpvalueArray(refs).initialized
    BY <1>1, ArrayObjects
  <1> DEFINE o == UpvalueArray(refs)
  <1> HIDE DEF o
  <1>3. Children(o) = {}
    BY <1>1, <1>2 DEF Children, Traced, o
  <1>4. \A objects : WellFormed(objects, o)
    BY <1>1, <1>2 DEF WellFormed, Lead, o
  <1> QED
    BY <1>1, <1>2, <1>3, <1>4 DEF o

LEMMA BeginKeeps ==
    ASSUME ClosureInv, Ready,
           NEW n \in 0 .. CaptureBound, NEW arity \in Arities,
           NEW captures \in [1 .. n -> Captures], NEW c \in NewCell,
           heap' = [heap EXCEPT ![c] = UpvalueArray([k \in 1 .. n |-> Null])],
           stack' = Append(stack, Closure(c, arity)),
           op' = [name |-> "pushClosure", captures |-> captures, next |-> 1,
                  array |-> c, arity |-> arity],
           upvalueStack' = upvalueStack, calls' = calls
    PROVE  ClosureInv' /\ Changes({c}, {}) /\ Roots({c})
  <1> DEFINE refs == [k \in 1 .. n |-> Null]
             o == UpvalueArray(refs)
             v == Closure(c, arity)
             len == Len(stack)
  <1>1. /\ o \in Objects /\ o.type = "array" /\ o.refs = refs /\ Len(refs) = n
        /\ Children(o) = {}
        /\ \A objects : WellFormed(objects, o)
    <2>1. n \in Nat
      OBVIOUS
    <2> HIDE DEF refs
    <2>2. refs = [k \in 1 .. n |-> Null]
      BY DEF refs
    <2> QED
      BY <2>1, <2>2, EmptyArrayFacts
  <1>2. c \in Cells /\ c \notin Live /\ c # Null /\ Ready /\ Live \subseteq Cells
    BY NewCellFacts, HeapFacts DEF ClosureInv
  <1>3. heap' = [heap EXCEPT ![c] = o]
    OBVIOUS
  <1> HIDE DEF o, refs
  <1>4. /\ heap' \in [Cells -> Objects] /\ heap'[c] = o
        /\ \A d \in Cells \ {c} : heap'[d] = heap[d]
    BY <1>1, <1>2, <1>3 DEF ClosureInv, TypeOK
  <1>5. Changes({c}, {})
    BY <1>1, <1>2, <1>4 DEF Changes, Inner
  <1>6. v \in Values /\ v.closure = c /\ stack' = Append(stack, v)
    BY <1>2 DEF Values, Closure
  <1>7. /\ len \in Nat /\ len = Len(upvalueStack) /\ DOMAIN upvalueStack = 1 .. len
        /\ stack \in Seq(Values)
    BY <1>2, StackFacts DEF ClosureInv, TypeOK, Ready
  <1> HIDE DEF v
  <1>8. /\ stack' \in Seq(Values) /\ Len(stack') = len + 1
        /\ \A i \in 1 .. len : stack'[i] = stack[i]
        /\ stack'[len + 1] = v
        /\ Range(stack') = Range(stack) \cup {v}
    BY <1>6, <1>7, AppendFacts
  <1>9. Roots({c})
    BY <1>1, <1>4, <1>6, <1>8 DEF Roots, ClosureInv, TypeOK
  <1>10. SlotsStay({c}, {})
    BY <1>1, <1>4 DEF SlotsStay
  <1>11. /\ HeapInv' /\ Live' \subseteq Live \cup {c}
         /\ \A i \in DOMAIN stack' :
               IsClosure(stack'[i]) => heap'[stack'[i].closure].type = "array"
    BY <1>5, <1>9, WritesKeep DEF ClosureInv
  <1>12. SlotsInv' /\ UpvaluesNameTheirSlots'
    BY <1>5, <1>9, <1>10, SlotsKept
  <1>13. op'.array = c /\ op.array = Null
    BY <1>2 DEF Ready, Idle
  <1>14. ClosuresInv'
    <2> SUFFICES ASSUME NEW d \in LiveClosures'
                 PROVE  Null \notin Range(heap'[d].refs)
      BY <1>11 DEF ClosuresInv, IsClosure
    <2>1. d \in Live /\ d # c /\ heap'[d].type = "array" /\ heap'[d] = heap[d] /\ d # Null
      BY <1>2, <1>4, <1>11, <1>13, NullAssumption DEF LiveClosures
    <2>2. d \in LiveClosures
      BY <1>13, <2>1 DEF LiveClosures
    <2> QED
      BY <2>1, <2>2 DEF ClosureInv, ClosuresInv
  <1>15. \A b \in 1 .. Base : b \in 1 .. len
    BY <1>7, BaseFacts
  <1>16. CallsInv'
    <2>1. CallsStay
      BY <1>7, <1>8, <1>15 DEF CallsStay
    <2> QED
      BY <2>1, CallsKept DEF ClosureInv
  <1>17. /\ DOMAIN Upvalues = 1 .. Len(Upvalues) /\ Len(Upvalues) \in Nat
         /\ Base \in Nat /\ Base <= len
    BY <1>7, UpvaluesAreASeq, CallFacts DEF ClosureInv
  <1>18. /\ Captures \subseteq Int
         /\ \A i \in Captures : i \in Base + 1 .. len + 1 \/ -i \in DOMAIN Upvalues
    <2> HIDE DEF len
    <2>1. Captures \subseteq (Base + 1 .. len + 1) \cup {-k : k \in DOMAIN Upvalues}
      BY <1>7, <1>17 DEF Captures, Slots, len
    <2> QED
      BY <1>7, <1>17, <2>1
  <1>19. captures \in Seq(Int) /\ Len(captures) = n /\ DOMAIN captures = 1 .. n /\ n \in Nat
    <2>1. captures \in [1 .. n -> Int] /\ n \in Nat
      <3> DEFINE C == Captures
      <3>1. captures \in [1 .. n -> C] /\ C \subseteq Int /\ n \in Nat
        BY <1>18
      <3> HIDE DEF C
      <3> QED
        BY <3>1
    <2> QED
      BY <2>1, SeqDef
  <1>20. op' \in [name : {"idle", "pushClosure", "outOfMemory"}, captures : Seq(Int),
                  next : Nat \ {0}, array : Pointers, arity : Arities \cup {0}]
    BY <1>2, <1>19 DEF Pointers
  <1>21. op'.name = "pushClosure"
    OBVIOUS
  <1>22. TypeOK'
    <2>1. op' # Idle
      BY <1>21 DEF Idle
    <2>2. Len(stack') - Len(upvalueStack') \in 0 .. (IF op' = Idle THEN 0 ELSE 1)
      BY <1>7, <1>8, <2>1
    <2>3. upvalueStack' \in Seq(Pointers) /\ calls' \in Seq([closure : Cells, base : Nat])
      BY DEF ClosureInv, TypeOK
    <2> QED
      BY <1>4, <1>8, <1>20, <2>2, <2>3 DEF TypeOK
  <1>23. PushInv'
    <2>1. Upvalues' = Upvalues /\ Base' = Base
      BY <1>5, UpvaluesStay
    <2>2. stack' # <<>> /\ Last(stack') = Closure(c, arity)
      <3>1. Len(stack') # 0
        BY <1>7, <1>8
      <3> QED
        BY <1>8, <3>1 DEF Last, v
    <2>3. ASSUME NEW k \in DOMAIN captures
          PROVE  captures[k] \in Slots' \/ -captures[k] \in DOMAIN Upvalues'
      <3>1. captures[k] \in Captures
        BY <1>19
      <3> QED
        BY <1>8, <1>18, <2>1, <3>1 DEF Slots
    <2>4. calls' # <<>> => Last(calls').base < Len(stack') /\ Last(calls').closure # c
      <3> SUFFICES ASSUME calls # <<>>
                   PROVE  Last(calls).base < len + 1 /\ Last(calls).closure # c
        BY <1>8
      <3>1. Last(calls).base = Base /\ Last(calls).closure \in Live
        BY CallFacts DEF ClosureInv
      <3> HIDE DEF len
      <3> QED
        BY <1>2, <1>7, <1>17, <3>1
    <2>5. op'.captures = captures /\ op'.next = 1 /\ op'.arity = arity
      OBVIOUS
    <2>6. Len(heap'[c].refs) = n /\ 1 \in 1 .. n + 1 /\ 1 .. (1 - 1) = {}
      BY <1>1, <1>4, <1>19
    <2> QED
      BY <1>1, <1>2, <1>4, <1>13, <1>19, <1>21, <2>2, <2>3, <2>4, <2>5, <2>6 DEF PushInv
  <1> QED
    BY <1>5, <1>9, <1>11, <1>12, <1>14, <1>16, <1>22, <1>23 DEF ClosureInv

LEMMA BeginPushClosureKeeps == ASSUME ClosureInv, BeginPushClosure PROVE ClosureInv'
  <1>1. Ready
    BY DEF BeginPushClosure
  <1> SUFFICES ASSUME NEW n \in 0 .. CaptureBound, NEW arity \in Arities,
                      NEW captures \in [1 .. n -> Captures], NEW c \in NewCell,
                      heap' = [heap EXCEPT ![c] = UpvalueArray([k \in 1 .. n |-> Null])],
                      stack' = Append(stack, Closure(c, arity)),
                      op' = [name |-> "pushClosure", captures |-> captures, next |-> 1,
                             array |-> c, arity |-> arity],
                      upvalueStack' = upvalueStack, calls' = calls
               PROVE  ClosureInv'
    BY OutOfMemoryKeeps DEF BeginPushClosure
  <1> QED
    BY <1>1, BeginKeeps

\* The heap with new upvalues in the cells of N, which were dead.
NewUpvalues(N, cells) ==
    /\ N \subseteq Cells /\ N \cap Live = {}
    /\ cells \in [Cells -> Objects]
    /\ \A d \in Cells \ N : cells[d] = heap[d]
    /\ \A d \in N : /\ Kind(cells[d]) = "upvalue"
                    /\ Children(cells[d]) \subseteq Live
                    /\ \A objects : KindsStay(objects) => WellFormed(objects, cells[d])
                    /\ Inner(cells, d) => /\ Outer(cells, d) \in Live
                                          /\ cells[d] = HeapUpvalue(Outer(cells, d))

\* Of them, those that name a slot are its upvalue then.
SlotsGet(N, cells) ==
    /\ upvalueStack' \in Seq(Pointers)
    /\ Len(upvalueStack') <= Len(stack) /\ Len(stack) <= Len(upvalueStack') + 1
    /\ \A i \in DOMAIN upvalueStack : upvalueStack[i] # Null =>
           i \in DOMAIN upvalueStack' /\ upvalueStack'[i] = upvalueStack[i]
    /\ \A i \in DOMAIN upvalueStack' :
           \/ upvalueStack'[i] = Null
           \/ i \in DOMAIN upvalueStack /\ upvalueStack'[i] = upvalueStack[i]
           \/ upvalueStack'[i] \in N /\ cells[upvalueStack'[i]] = StackIndex(i)
    /\ \A c \in N : cells[c].type = "stack_index" =>
           cells[c].index \in DOMAIN upvalueStack' /\ upvalueStack'[cells[c].index] = c

\* The closure being pushed, and what it lacks.
LEMMA CapturingFacts ==
    ASSUME ClosureInv, Capturing
    PROVE  /\ op.name = "pushClosure" /\ op # Idle
           /\ op.array \in Live /\ op.array \in Cells
           /\ heap[op.array] \in Objects /\ heap[op.array].type = "array"
           /\ heap[op.array].refs \in Seq(Pointers)
           /\ Len(heap[op.array].refs) = Len(op.captures)
           /\ op.next \in 1 .. Len(op.captures) /\ Len(op.captures) \in Nat
           /\ DOMAIN op.captures = 1 .. Len(op.captures)
           /\ Source \in Int
           /\ Source \in Slots \/ -Source \in DOMAIN Upvalues
  <1> DEFINE a == op.array
             len == Len(stack)
  <1>1. op.name = "pushClosure" /\ op # Idle /\ op.next \in DOMAIN op.captures
    BY DEF Capturing, Idle
  <1>2. op.captures \in Seq(Int)
    BY DEF ClosureInv, TypeOK
  <1>3. /\ Len(op.captures) \in Nat
        /\ DOMAIN op.captures = 1 .. Len(op.captures)
        /\ \A k \in 1 .. Len(op.captures) : op.captures[k] \in Int
    BY <1>2, SeqFacts
  <1>4. /\ a \in Cells /\ heap[a].type = "array"
        /\ Len(heap[a].refs) = Len(op.captures)
        /\ stack # <<>> /\ Last(stack) = Closure(a, op.arity) /\ op.arity \in Arities
        /\ \A k \in DOMAIN op.captures :
               op.captures[k] \in Slots \/ -op.captures[k] \in DOMAIN Upvalues
    BY <1>1 DEF ClosureInv, PushInv
  <1>5. a \in Live
    <2>1. len \in 1 .. len
      <3>1. len \in Nat /\ len > 0
        BY <1>4, SeqFacts DEF ClosureInv, TypeOK
      <3> HIDE DEF len
      <3> QED
        BY <3>1
    <2>2. IsSound(stack[len])
      BY <2>1, StackFacts DEF ClosureInv
    <2>3. stack[len] = Closure(a, op.arity)
      BY <1>4 DEF Last
    <2>4. IsClosure(stack[len]) /\ stack[len].closure = a
      BY <1>4, <2>3, ClosuresAssumption DEF Closure
    <2> QED
      BY <2>2, <2>4 DEF IsSound
  <1>6. heap[a] \in Objects /\ heap[a].refs \in Seq(Pointers)
    BY <1>4 DEF ClosureInv, TypeOK, Objects
  <1> QED
    BY <1>1, <1>3, <1>4, <1>5, <1>6 DEF Source

\* The upvalue for a capture.
UpvalueFor(capture) ==
    IF capture < 0 THEN HeapUpvalue(Upvalues[-capture]) ELSE StackIndex(capture)

\* The next upvalue of the closure is u: one in use, or a new one.
Gets(N, cells, u) ==
    /\ NewUpvalues(N, cells) /\ u \in Live \cup N
    /\ Kind(cells[u]) = "upvalue" /\ cells[u] = UpvalueFor(Source)
    /\ heap' = [cells EXCEPT ![op.array].refs[op.next] = u]
    /\ op' = [op EXCEPT !.next = @ + 1]
    /\ stack' = stack /\ calls' = calls
    /\ SlotsGet(N, cells) /\ CallsStay

LEMMA CapturedKeeps ==
    ASSUME ClosureInv, Capturing, NEW N, NEW cells, NEW u, Gets(N, cells, u)
    PROVE  /\ ClosureInv' /\ Changes(N, {op.array}) /\ Roots(N)
           /\ \A d \in N : Kind(heap'[d]) = "upvalue"
           /\ heap'[u] = UpvalueFor(Source)
           /\ heap'[op.array].refs[op.next] = u
           /\ \A k \in 1 .. op.next - 1 :
                 heap'[op.array].refs[k] = heap[op.array].refs[k]
  <1> DEFINE a == op.array
             k == op.next
             refs == heap[a].refs
             all == [refs EXCEPT ![k] = u]
             n == Len(op.captures)
  <1>1. /\ NewUpvalues(N, cells) /\ u \in Live \cup N /\ Kind(cells[u]) = "upvalue"
        /\ heap' = [cells EXCEPT ![op.array].refs[op.next] = u]
        /\ op' = [op EXCEPT !.next = @ + 1] /\ stack' = stack /\ calls' = calls
        /\ SlotsGet(N, cells) /\ CallsStay
    BY DEF Gets
  <1>2. /\ op.name = "pushClosure" /\ op # Idle
        /\ a \in Live /\ a \in Cells /\ heap[a] \in Objects /\ heap[a].type = "array"
        /\ refs \in Seq(Pointers) /\ Len(refs) = n
        /\ k \in 1 .. n /\ n \in Nat /\ Live \subseteq Cells
    BY CapturingFacts, HeapFacts DEF ClosureInv
  <1>3. u \in Cells /\ u \in Pointers /\ u # Null /\ u # a
    <2>1. a \notin N /\ cells[a] = heap[a] /\ N \subseteq Cells
      BY <1>1, <1>2 DEF NewUpvalues
    <2>2. Kind(cells[a]) = "array"
      BY <1>2, <2>1, ArraysAreAKind
    <2> QED
      BY <1>1, <1>2, <2>1, <2>2, NullAssumption DEF Pointers
  <1>4. Written(Pointers, refs, k, u, all)
    <2>1. refs \in Seq(Pointers) /\ k \in 1 .. Len(refs) /\ u \in Pointers /\ all = [refs EXCEPT ![k] = u]
      BY <1>2, <1>3
    <2> HIDE DEF refs, k, all
    <2> QED
      BY <2>1, WrittenFacts
  <1>5. /\ heap'[a] = [heap[a] EXCEPT !.refs = all]
        /\ \A d \in Cells \ {a} : heap'[d] = cells[d]
        /\ DOMAIN heap' = Cells
    BY <1>1, <1>2 DEF NewUpvalues
  <1> HIDE DEF refs, all, a, k, n
  <1>6. /\ heap'[a] \in Objects /\ heap'[a].type = "array" /\ heap'[a].refs = all
        /\ heap'[a].initialized = heap[a].initialized
    BY <1>2, <1>4, <1>5, SMTT(20) DEF Objects, Written
  <1>7. heap' \in [Cells -> Objects]
    <2>1. \A d \in Cells : heap'[d] \in Objects
      BY <1>1, <1>5, <1>6 DEF NewUpvalues
    <2>2. heap' = [d \in Cells |-> heap'[d]]
      BY <1>1, <1>2 DEF NewUpvalues, a
    <2> QED
      BY <2>1, <2>2
  <1>8. \A d \in Live \ {a} : heap'[d] = heap[d]
    BY <1>1, <1>2, <1>5 DEF NewUpvalues
  <1>9. KindsStay(heap')
    BY <1>2, <1>6, <1>8, ArraysAreAKind, ZenonT(20) DEF KindsStay
  <1>10. Range(all) \subseteq Range(refs) \cup {u}
    BY <1>4 DEF Written
  <1>11. WellFormed(heap, heap[a])
    BY <1>2 DEF ClosureInv, HeapInv
  <1>12. Children(heap'[a]) \subseteq Live \cup {u} /\ Range(refs) \ {Null} \subseteq Live
    <2>1. Children(heap[a]) = Range(refs) \ {Null}
      BY <1>11 DEF WellFormed, Children, Traced, refs
    <2>2. Children(heap[a]) \subseteq Live
      BY <1>2, HeapFacts DEF ClosureInv
    <2>3. Children(heap'[a]) = Range(all) \ {Null}
      BY <1>6, <1>11 DEF WellFormed, Children, Traced
    <2> QED
      BY <1>10, <2>1, <2>2, <2>3
  <1>13. WellFormed(heap', heap'[a])
    <2>1. Lead(heap, refs, "upvalue")
      BY <1>2, <1>11 DEF WellFormed, refs
    <2>2. Kind(heap'[u]) = "upvalue"
      BY <1>1, <1>3, <1>5
    <2>3. Lead(heap', all, "upvalue")
      BY <1>9, <1>10, <1>12, <2>1, <2>2 DEF Lead, KindsStay
    <2> QED
      BY <1>6, <1>11, <2>3 DEF WellFormed
  <1>14. Changes(N, {a})
    <2>1. a \notin N
      BY <1>1, <1>2 DEF NewUpvalues
    <2>2. ASSUME NEW d \in N
          PROVE  /\ heap'[d] = cells[d]
                 /\ Children(heap'[d]) \subseteq Live /\ WellFormed(heap', heap'[d])
                 /\ Inner(heap', d) => /\ Outer(heap', d) \in Live
                                       /\ heap'[d] = HeapUpvalue(Outer(heap', d))
      <3>1. heap'[d] = cells[d]
        BY <1>1, <1>5, <2>1 DEF NewUpvalues
      <3>2. WellFormed(heap', cells[d])
        BY <1>1, <1>9 DEF NewUpvalues
      <3> QED
        BY <1>1, <3>1, <3>2 DEF NewUpvalues, Inner, Outer
    <2>3. \A d \in Cells \ (N \cup {a}) : heap'[d] = heap[d]
      BY <1>1, <1>5 DEF NewUpvalues
    <2>4. Children(heap'[a]) \subseteq Live \cup N
      BY <1>1, <1>12
    <2>5. Kind(heap'[a]) = Kind(heap[a]) /\ ~Inner(heap, a) /\ ~Inner(heap', a)
      BY <1>2, <1>6, ArraysAreAKind DEF Inner
    <2>6. N \subseteq Cells /\ N \cap Live = {} /\ {a} \subseteq Live
      BY <1>1, <1>2 DEF NewUpvalues
    <2> QED
      BY <1>7, <1>13, <2>2, <2>3, <2>4, <2>5, <2>6 DEF Changes
  <1>15. Roots(N)
    <2>1. Range(upvalueStack') \subseteq Range(upvalueStack) \cup N \cup {Null}
      <3>1. DOMAIN upvalueStack' = 1 .. Len(upvalueStack')
        BY <1>1, SeqFacts DEF SlotsGet
      <3> QED
        BY <1>1, <3>1 DEF SlotsGet, Range
    <2> QED
      BY <1>1, <2>1 DEF Roots, SlotsGet, ClosureInv, TypeOK
  <1>16. SlotsStay(N, {a})
    <2>1. ASSUME NEW i \in DOMAIN upvalueStack, upvalueStack[i] # Null
          PROVE  upvalueStack[i] # a
      BY <1>2, <2>1 DEF ClosureInv, SlotsInv, StackIndex, Cell
    <2>2. \A d \in N : heap'[d] = cells[d]
      BY <1>1, <1>2, <1>5 DEF NewUpvalues
    <2>3. a # Null
      BY <1>2, NullAssumption
    <2>4. \A i \in DOMAIN upvalueStack : upvalueStack[i] \notin {a} \cup {Null} =>
              i \in DOMAIN upvalueStack' /\ upvalueStack'[i] = upvalueStack[i]
      BY <1>1 DEF SlotsGet
    <2>5. \A i \in DOMAIN upvalueStack' : upvalueStack'[i] # Null =>
              \/ /\ i \in DOMAIN upvalueStack
                 /\ upvalueStack'[i] = upvalueStack[i]
                 /\ upvalueStack[i] \notin {a}
              \/ heap'[upvalueStack'[i]] = StackIndex(i)
      BY <1>1, <2>1, <2>2 DEF SlotsGet
    <2>6. \A c \in N \cup {a} : heap'[c].type = "stack_index" =>
              /\ heap'[c].index \in DOMAIN upvalueStack'
              /\ upvalueStack'[heap'[c].index] = c
      BY <1>1, <1>6, <2>2 DEF SlotsGet
    <2> QED
      BY <2>4, <2>5, <2>6 DEF SlotsStay
  <1>17. /\ HeapInv' /\ Live' \subseteq Live \cup N
         /\ \A i \in DOMAIN stack' :
               IsClosure(stack'[i]) => heap'[stack'[i].closure].type = "array"
    BY <1>14, <1>15, WritesKeep DEF ClosureInv
  <1>18. SlotsInv' /\ UpvaluesNameTheirSlots'
    BY <1>14, <1>15, <1>16, SlotsKept
  <1>19. /\ op' \in [name : {"idle", "pushClosure", "outOfMemory"}, captures : Seq(Int),
                     next : Nat \ {0}, array : Pointers, arity : Arities \cup {0}]
         /\ op'.name = op.name /\ op'.captures = op.captures /\ op'.array = a
         /\ op'.next = k + 1 /\ op'.arity = op.arity
    <2>1. op \in [name : {"idle", "pushClosure", "outOfMemory"}, captures : Seq(Int),
                  next : Nat \ {0}, array : Pointers, arity : Arities \cup {0}]
      BY DEF ClosureInv, TypeOK
    <2> DEFINE next == op.next + 1
    <2>2. next \in Nat \ {0} /\ op' = [op EXCEPT !.next = next]
      BY <1>1, <2>1
    <2> HIDE DEF next
    <2>3. /\ op' \in [name : {"idle", "pushClosure", "outOfMemory"}, captures : Seq(Int),
                      next : Nat \ {0}, array : Pointers, arity : Arities \cup {0}]
          /\ op'.name = op.name /\ op'.captures = op.captures /\ op'.array = op.array
          /\ op'.next = next /\ op'.arity = op.arity
      BY <2>1, <2>2
    <2> QED
      BY <2>3 DEF next, a, k
  <1>20. ClosuresInv'
    <2> SUFFICES ASSUME NEW c \in LiveClosures'
                 PROVE  Null \notin Range(heap'[c].refs)
      BY <1>17 DEF ClosuresInv, IsClosure
    <2>1. c \in Live \cup N /\ heap'[c].type = "array" /\ c # a
      BY <1>17, <1>19 DEF LiveClosures
    <2>2. c \notin N
      <3> SUFFICES ASSUME c \in N PROVE FALSE
        OBVIOUS
      <3>1. heap'[c] = cells[c] /\ Kind(cells[c]) = "upvalue"
        BY <1>1, <1>5, <2>1 DEF NewUpvalues
      <3> QED
        BY <2>1, <3>1, ArraysAreAKind
    <2>3. c \in Live /\ heap'[c] = heap[c]
      BY <1>8, <2>1, <2>2
    <2>4. c \in LiveClosures
      BY <2>1, <2>3 DEF LiveClosures, a
    <2> QED
      BY <2>3, <2>4 DEF ClosureInv, ClosuresInv
  <1>21. CallsInv'
    BY <1>1, CallsKept DEF ClosureInv
  <1>22. TypeOK'
    <2> DEFINE len == Len(stack)
               m == Len(upvalueStack')
    <2>1. len \in Nat /\ m \in Nat /\ m <= len /\ len <= m + 1
      BY <1>1, StackFacts, SeqFacts DEF SlotsGet, ClosureInv
    <2>2. op' # Idle
      BY <1>2, <1>19 DEF Idle
    <2> HIDE DEF len, m
    <2>3. len - m \in 0 .. (IF op' = Idle THEN 0 ELSE 1)
      BY <2>1, <2>2
    <2>4. Len(stack') = len
      BY <1>1 DEF len
    <2> QED
      BY <1>1, <1>7, <1>19, <2>3, <2>4 DEF ClosureInv, TypeOK, SlotsGet, m
  <1>23. PushInv'
    <2>1. calls # <<>> => Last(calls).closure # a /\ Last(calls).base < Len(stack)
      BY <1>2 DEF ClosureInv, PushInv, a
    <2>2. Upvalues' = Upvalues /\ Base' = Base
      BY <1>1, <1>14, <2>1, UpvaluesStay
    <2>3. Slots' = Slots
      BY <1>1, <2>2 DEF Slots
    <2>4. Len(heap'[a].refs) = n /\ k + 1 \in 1 .. n + 1
      BY <1>2, <1>4, <1>6 DEF Written
    <2>5. \A j \in 1 .. (k + 1) - 1 : heap'[a].refs[j] # Null
      <3>1. \A j \in 1 .. k - 1 : refs[j] # Null
        BY <1>2 DEF ClosureInv, PushInv, refs, a, k
      <3>2. \A j \in 1 .. (k + 1) - 1 : j = k \/ (j \in 1 .. k - 1 /\ j \in 1 .. n /\ j # k)
        BY <1>2
      <3> QED
        BY <1>2, <1>3, <1>4, <1>6, <3>1, <3>2 DEF Written
    <2>6. /\ op.arity \in Arities /\ stack # <<>> /\ Last(stack) = Closure(a, op.arity)
          /\ \A j \in DOMAIN op.captures :
                 op.captures[j] \in Slots \/ -op.captures[j] \in DOMAIN Upvalues
      BY <1>2 DEF ClosureInv, PushInv, a
    <2>7. op'.name = "pushClosure"
      BY <1>2, <1>19
    <2> QED
      BY <1>1, <1>2, <1>6, <1>19, <2>1, <2>2, <2>3, <2>4, <2>5, <2>6, <2>7 DEF PushInv, n
  <1>24. ClosureInv'
    BY <1>17, <1>18, <1>20, <1>21, <1>22, <1>23 DEF ClosureInv
  <1>25. heap'[u] = UpvalueFor(Source)
    BY <1>3, <1>5 DEF Gets
  <1>26. \A d \in N : Kind(heap'[d]) = "upvalue"
    BY <1>1, <1>2, <1>5 DEF NewUpvalues
  <1>27. /\ heap'[a].refs[k] = u
         /\ \A j \in 1 .. k - 1 : heap'[a].refs[j] = refs[j]
    <2>1. \A j \in 1 .. k - 1 : j \in 1 .. n /\ j # k
      BY <1>2
    <2> QED
      BY <1>2, <1>4, <1>6, <2>1 DEF Written
  <1> QED
    BY <1>14, <1>15, <1>24, <1>25, <1>26, <1>27 DEF a, k, refs

\* What a new upvalue can be.
IsUpvalueFor(o) ==
    /\ o \in Objects
    /\ Kind(o) = "upvalue"
    /\ Children(o) \subseteq Live
    /\ \A objects : KindsStay(objects) => WellFormed(objects, o)
    /\ o.type = "heap_upvalue" => \E w \in Live : o = HeapUpvalue(w)

LEMMA NewUpvalueFacts ==
    ASSUME ClosureInv, NEW c \in NewCell, NEW o, IsUpvalueFor(o),
           NEW cells, cells = [heap EXCEPT ![c] = o]
    PROVE  NewUpvalues({c}, cells) /\ cells[c] = o
  <1>1. c \in Cells /\ c \notin Live
    BY NewCellFacts DEF ClosureInv
  <1>2. /\ cells \in [Cells -> Objects] /\ cells[c] = o
        /\ \A d \in Cells \ {c} : cells[d] = heap[d]
    BY <1>1 DEF IsUpvalueFor, ClosureInv, TypeOK
  <1>3. ASSUME o.type = "heap_upvalue"
        PROVE  Outer(cells, c) \in Live /\ cells[c] = HeapUpvalue(Outer(cells, c))
    <2>1. PICK w \in Live : o = HeapUpvalue(w)
      BY <1>3 DEF IsUpvalueFor
    <2>2. o.refs[1] = w
      BY <2>1 DEF HeapUpvalue, Cell
    <2> QED
      BY <1>2, <2>1, <2>2 DEF Outer
  <1> QED
    BY <1>1, <1>2, <1>3 DEF NewUpvalues, IsUpvalueFor, Inner

LEMMA StackIndexFacts ==
    ASSUME NEW i \in Nat
    PROVE  IsUpvalueFor(StackIndex(i)) /\ StackIndex(i).index = i
  BY UpvalueObjects, UpvaluesWellFormed DEF IsUpvalueFor, Kind, IsUpvalue

LEMMA HeapUpvalueFacts ==
    ASSUME TypeOK, NEW u \in Live, Kind(heap[u]) = "upvalue"
    PROVE  IsUpvalueFor(HeapUpvalue(u))
  <1>1. u \in Cells
    BY HeapFacts
  <1>2. ASSUME NEW objects, KindsStay(objects) PROVE WellFormed(objects, HeapUpvalue(u))
    <2>1. Kind(objects[u]) = "upvalue"
      BY <1>2 DEF KindsStay
    <2> QED
      BY <1>1, <2>1, UpvaluesWellFormed
  <1>3. Kind(HeapUpvalue(u)) = "upvalue"
    BY <1>1, UpvalueObjects DEF Kind, IsUpvalue
  <1> QED
    BY <1>1, <1>2, <1>3, UpvalueObjects DEF IsUpvalueFor

LEMMA UpvalueStackFacts ==
    ASSUME ClosureInv, Capturing
    PROVE  /\ upvalueStack \in Seq(Pointers) /\ Len(upvalueStack) \in Nat
           /\ DOMAIN upvalueStack = 1 .. Len(upvalueStack)
           /\ Len(stack) \in Nat
           /\ Len(upvalueStack) <= Len(stack) /\ Len(stack) <= Len(upvalueStack) + 1
           /\ Base \in Nat /\ Base <= Len(upvalueStack)
           /\ Source \in Int
           /\ Source > 0 => Source > Base /\ Source <= Len(stack)
  <1> DEFINE len == Len(stack)
  <1>1. Source \in Int /\ (Source \in Slots \/ -Source \in DOMAIN Upvalues)
    BY CapturingFacts
  <1>2. DOMAIN Upvalues = 1 .. Len(Upvalues) /\ Len(Upvalues) \in Nat
    BY UpvaluesAreASeq
  <1>3. /\ upvalueStack \in Seq(Pointers) /\ Len(upvalueStack) \in Nat
        /\ DOMAIN upvalueStack = 1 .. Len(upvalueStack)
        /\ len \in Nat /\ Len(upvalueStack) <= len /\ len <= Len(upvalueStack) + 1
        /\ Base \in Nat /\ Base <= Len(upvalueStack)
    BY StackFacts, CallFacts DEF ClosureInv, TypeOK
  <1>4. Source > 0 => Source > Base /\ Source <= len
    <2> DEFINE m == Len(Upvalues)
    <2>1. Source \in Base + 1 .. len \/ -Source \in 1 .. m
      BY <1>1, <1>2 DEF Slots
    <2> HIDE DEF len, m
    <2> QED
      BY <1>1, <1>2, <1>3, <2>1
  <1> QED
    BY <1>1, <1>3, <1>4

LEMMA CaptureSelfGets ==
    ASSUME ClosureInv, CaptureSelf
    PROVE  OutOfMemory \/ \E N, cells, u : Gets(N, cells, u)
  <1>1. Capturing /\ Source = Len(upvalueStack) + 1
    BY DEF CaptureSelf
  <1> DEFINE m == Len(upvalueStack)
             o == StackIndex(Source)
  <1> SUFFICES ASSUME NEW c \in NewCell, NewUpvalue(c, o),
                      upvalueStack' = Append(upvalueStack, c)
               PROVE  \E N, cells, u : Gets(N, cells, u)
    BY DEF CaptureSelf
  <1>2. /\ upvalueStack \in Seq(Pointers) /\ m \in Nat /\ DOMAIN upvalueStack = 1 .. m
        /\ Len(stack) \in Nat /\ m <= Len(stack) /\ Len(stack) <= m + 1
        /\ Base \in Nat /\ Base <= m /\ Source <= Len(stack)
    BY <1>1, UpvalueStackFacts
  <1>3. Len(stack) = m + 1 /\ Source \in Nat /\ Source = m + 1
    BY <1>1, <1>2
  <1>4. IsUpvalueFor(o) /\ o.index = Source
    BY <1>3, StackIndexFacts
  <1>5. c \in Cells /\ c \notin Live /\ c \in Pointers /\ c # Null
    BY NewCellFacts DEF ClosureInv, Pointers
  <1> DEFINE cells == [heap EXCEPT ![c] = o]
  <1>6. NewUpvalues({c}, cells) /\ cells[c] = o
    <2> HIDE DEF o
    <2> QED
      BY <1>4, NewUpvalueFacts
  <1>7. /\ heap' = [cells EXCEPT ![op.array].refs[op.next] = c]
        /\ op' = [op EXCEPT !.next = @ + 1] /\ stack' = stack /\ calls' = calls
    BY DEF NewUpvalue, Captured
  <1> HIDE DEF cells, o, m
  <1>8. /\ upvalueStack' \in Seq(Pointers) /\ Len(upvalueStack') = m + 1
        /\ \A i \in 1 .. m : upvalueStack'[i] = upvalueStack[i]
        /\ upvalueStack'[m + 1] = c
        /\ DOMAIN upvalueStack' = 1 .. m + 1
    <2>1. /\ upvalueStack' \in Seq(Pointers) /\ Len(upvalueStack') = m + 1
          /\ \A i \in 1 .. m : upvalueStack'[i] = upvalueStack[i]
          /\ upvalueStack'[m + 1] = c
      BY <1>2, <1>5, AppendFacts DEF m
    <2> QED
      BY <2>1, SeqFacts
  <1>9. SlotsGet({c}, cells)
    <2>1. \A i \in 1 .. m : i \in 1 .. m + 1
      BY <1>2
    <2>2. \A i \in 1 .. m + 1 : i \in 1 .. m \/ i = m + 1
      BY <1>2
    <2>3. cells[upvalueStack'[m + 1]] = StackIndex(m + 1)
      BY <1>3, <1>6, <1>8 DEF o
    <2>4. Len(upvalueStack') <= Len(stack) /\ Len(stack) <= Len(upvalueStack') + 1
      BY <1>2, <1>3, <1>8
    <2>5. cells[c].index = m + 1 /\ m + 1 \in 1 .. m + 1
      BY <1>2, <1>3, <1>4, <1>6
    <2> QED
      BY <1>2, <1>8, <2>1, <2>2, <2>3, <2>4, <2>5 DEF SlotsGet
  <1>10. CallsStay
    <2>1. \A b \in 1 .. Base : b \in 1 .. m /\ b \in 1 .. m + 1
      BY <1>2
    <2> QED
      BY <1>7, <1>8, <2>1 DEF CallsStay
  <1>11. c \in Live \cup {c} /\ Kind(cells[c]) = "upvalue"
    BY <1>4, <1>6 DEF IsUpvalueFor
  <1>12. cells[c] = UpvalueFor(Source)
    BY <1>3, <1>6 DEF UpvalueFor, o
  <1>13. Gets({c}, cells, c)
    BY <1>6, <1>7, <1>9, <1>10, <1>11, <1>12 DEF Gets
  <1> QED
    BY <1>13

LEMMA CaptureUpvalueGets ==
    ASSUME ClosureInv, CaptureUpvalue
    PROVE  OutOfMemory \/ \E N, cells, u : Gets(N, cells, u)
  <1>1. Capturing /\ Source < 0
    BY DEF CaptureUpvalue
  <1> DEFINE m == Len(upvalueStack)
             u == Upvalues[-Source]
             o == HeapUpvalue(u)
  <1> SUFFICES ASSUME NEW c \in NewCell, NewUpvalue(c, o), upvalueStack' = upvalueStack
               PROVE  \E N, cells, v : Gets(N, cells, v)
    BY DEF CaptureUpvalue
  <1>2. /\ upvalueStack \in Seq(Pointers) /\ m \in Nat /\ DOMAIN upvalueStack = 1 .. m
        /\ Len(stack) \in Nat /\ m <= Len(stack) /\ Len(stack) <= m + 1
        /\ Base \in Nat /\ Base <= m
    BY <1>1, UpvalueStackFacts
  <1>3. u \in Live /\ Kind(heap[u]) = "upvalue"
    <2>1. Source \in Int /\ (Source \in Slots \/ -Source \in DOMAIN Upvalues)
          /\ op.name = "pushClosure"
      BY <1>1, CapturingFacts
    <2> DEFINE len == Len(stack)
    <2>2. Source \notin Base + 1 .. len
      <3> HIDE DEF len
      <3> QED
        BY <1>1, <1>2, <2>1
    <2>3. -Source \in DOMAIN Upvalues
      BY <2>1, <2>2 DEF Slots
    <2> DEFINE k == -Source
    <2>4. k \in DOMAIN Upvalues /\ u = Upvalues[k]
      BY <2>3
    <2> HIDE DEF k, u
    <2> QED
      BY <2>1, <2>4, UpvalueFacts DEF ClosureInv
  <1> HIDE DEF u
  <1>4. IsUpvalueFor(o) /\ o.type = "heap_upvalue"
    BY <1>3, HeapUpvalueFacts, HeapFacts, UpvalueObjects DEF ClosureInv
  <1>5. c \in Cells /\ c \notin Live
    BY NewCellFacts DEF ClosureInv
  <1> DEFINE cells == [heap EXCEPT ![c] = o]
  <1>6. NewUpvalues({c}, cells) /\ cells[c] = o
    <2> HIDE DEF o
    <2> QED
      BY <1>4, NewUpvalueFacts
  <1>7. /\ heap' = [cells EXCEPT ![op.array].refs[op.next] = c]
        /\ op' = [op EXCEPT !.next = @ + 1] /\ stack' = stack /\ calls' = calls
    BY DEF NewUpvalue, Captured
  <1> HIDE DEF cells, o, m
  <1>8. SlotsGet({c}, cells)
    BY <1>2, <1>4, <1>6 DEF SlotsGet, m
  <1>9. CallsStay
    BY <1>7, BaseFacts DEF CallsStay
  <1>10. c \in Live \cup {c} /\ Kind(cells[c]) = "upvalue"
    BY <1>4, <1>6 DEF IsUpvalueFor
  <1>11. cells[c] = UpvalueFor(Source)
    BY <1>1, <1>6 DEF UpvalueFor, o, u
  <1>12. Gets({c}, cells, c)
    BY <1>6, <1>7, <1>8, <1>9, <1>10, <1>11 DEF Gets
  <1> QED
    BY <1>12

LEMMA CaptureSlotGets ==
    ASSUME ClosureInv, CaptureSlot
    PROVE  OutOfMemory \/ \E N, cells, u : Gets(N, cells, u)
  <1>1. Capturing /\ Source \in DOMAIN upvalueStack /\ upvalueStack[Source] = Null
    BY DEF CaptureSlot
  <1> DEFINE m == Len(upvalueStack)
             s == Source
             o == StackIndex(s)
  <1> SUFFICES ASSUME NEW c \in NewCell, NewUpvalue(c, o),
                      upvalueStack' = [upvalueStack EXCEPT ![s] = c]
               PROVE  \E N, cells, u : Gets(N, cells, u)
    BY DEF CaptureSlot
  <1>2. /\ upvalueStack \in Seq(Pointers) /\ m \in Nat /\ DOMAIN upvalueStack = 1 .. m
        /\ Len(stack) \in Nat /\ m <= Len(stack) /\ Len(stack) <= m + 1
        /\ Base \in Nat /\ Base <= m /\ s \in Int /\ (s > 0 => s > Base)
    BY <1>1, UpvalueStackFacts
  <1>3. s \in 1 .. m /\ s \in Nat /\ s > Base /\ upvalueStack[s] = Null
    <2> HIDE DEF s
    <2>1. s \in 1 .. m
      BY <1>1, <1>2 DEF s
    <2> HIDE DEF m
    <2>2. s > 0 /\ s \in Nat
      BY <1>2, <2>1
    <2> QED
      BY <1>1, <1>2, <2>1, <2>2 DEF s
  <1>4. IsUpvalueFor(o) /\ o.index = s
    BY <1>3, StackIndexFacts
  <1>5. c \in Cells /\ c \notin Live /\ c \in Pointers /\ c # Null
    BY NewCellFacts DEF ClosureInv, Pointers
  <1> DEFINE cells == [heap EXCEPT ![c] = o]
  <1>6. NewUpvalues({c}, cells) /\ cells[c] = o
    <2> HIDE DEF o
    <2> QED
      BY <1>4, NewUpvalueFacts
  <1>7. /\ heap' = [cells EXCEPT ![op.array].refs[op.next] = c]
        /\ op' = [op EXCEPT !.next = @ + 1] /\ stack' = stack /\ calls' = calls
    BY DEF NewUpvalue, Captured
  <1> HIDE DEF cells, o, s
  <1>8. Written(Pointers, upvalueStack, s, c, upvalueStack')
    <2>1. upvalueStack \in Seq(Pointers) /\ c \in Pointers /\ s \in 1 .. Len(upvalueStack)
      BY <1>2, <1>3, <1>5
    <2> QED
      BY <2>1, WrittenFacts
  <1> HIDE DEF m
  <1>9. /\ upvalueStack' \in Seq(Pointers) /\ Len(upvalueStack') = m
        /\ \A i \in 1 .. m : i # s => upvalueStack'[i] = upvalueStack[i]
        /\ upvalueStack'[s] = c
        /\ DOMAIN upvalueStack' = 1 .. m
    <2>1. /\ upvalueStack' \in Seq(Pointers) /\ Len(upvalueStack') = m
          /\ \A i \in 1 .. m : i # s => upvalueStack'[i] = upvalueStack[i]
          /\ upvalueStack'[s] = c
      BY <1>8 DEF Written, m
    <2> QED
      BY <2>1, SeqFacts
  <1>10. SlotsGet({c}, cells)
    <2>1. cells[upvalueStack'[s]] = StackIndex(s)
      BY <1>6, <1>9 DEF o
    <2>2. Len(upvalueStack') <= Len(stack) /\ Len(stack) <= Len(upvalueStack') + 1
      BY <1>2, <1>9
    <2> QED
      BY <1>2, <1>3, <1>4, <1>6, <1>9, <2>1, <2>2 DEF SlotsGet
  <1>11. CallsStay
    <2>1. \A b \in 1 .. Base : b \in 1 .. m /\ b # s
      BY <1>2, <1>3
    <2> QED
      BY <1>7, <1>9, <2>1 DEF CallsStay
  <1>12. c \in Live \cup {c} /\ Kind(cells[c]) = "upvalue"
    BY <1>4, <1>6 DEF IsUpvalueFor
  <1>13. cells[c] = UpvalueFor(Source)
    BY <1>3, <1>6 DEF UpvalueFor, o, s
  <1>14. Gets({c}, cells, c)
    BY <1>6, <1>7, <1>10, <1>11, <1>12, <1>13 DEF Gets
  <1> QED
    BY <1>14

LEMMA CaptureAgainGets ==
    ASSUME ClosureInv, CaptureAgain
    PROVE  \E N, cells, u : Gets(N, cells, u)
  <1> DEFINE u == upvalueStack[Source]
  <1>1. /\ Capturing /\ Source \in DOMAIN upvalueStack /\ u # Null
        /\ heap' = [heap EXCEPT ![op.array].refs[op.next] = u]
        /\ op' = [op EXCEPT !.next = @ + 1] /\ stack' = stack /\ calls' = calls
        /\ upvalueStack' = upvalueStack
    BY DEF CaptureAgain, Captured
  <1>2. u \in Live /\ Kind(heap[u]) = "upvalue" /\ heap[u] = UpvalueFor(Source)
    <2> DEFINE s == Source
    <2>1. s \in DOMAIN upvalueStack /\ s \in Nat
      BY <1>1, UpvalueStackFacts
    <2>2. heap[u] = StackIndex(s) /\ u \in Live
      BY <1>1, <2>1, StackFacts DEF ClosureInv, SlotsInv
    <2>3. heap[u] = UpvalueFor(s)
      BY <2>1, <2>2 DEF UpvalueFor
    <2> HIDE DEF s
    <2>4. Kind(heap[u]) = "upvalue"
      BY <2>1, <2>2, StackIndexFacts DEF IsUpvalueFor
    <2> QED
      BY <2>2, <2>3, <2>4 DEF s
  <1>3. NewUpvalues({}, heap)
    BY DEF NewUpvalues, ClosureInv, TypeOK
  <1>4. SlotsGet({}, heap)
    BY <1>1, UpvalueStackFacts DEF SlotsGet
  <1>5. CallsStay
    BY <1>1, BaseFacts DEF CallsStay
  <1>6. Gets({}, heap, u)
    BY <1>1, <1>2, <1>3, <1>4, <1>5 DEF Gets
  <1> QED
    BY <1>6

LEMMA CaptureGets ==
    ASSUME ClosureInv, CaptureSelf \/ CaptureUpvalue \/ CaptureSlot \/ CaptureAgain
    PROVE  Capturing /\ (OutOfMemory \/ \E N, cells, u : Gets(N, cells, u))
  <1>1. Capturing
    BY DEF CaptureSelf, CaptureUpvalue, CaptureSlot, CaptureAgain
  <1> QED
    BY <1>1, CaptureSelfGets, CaptureUpvalueGets, CaptureSlotGets, CaptureAgainGets

LEMMA CaptureKeeps ==
    ASSUME ClosureInv, CaptureSelf \/ CaptureUpvalue \/ CaptureSlot \/ CaptureAgain
    PROVE  ClosureInv'
  BY CaptureGets, OutOfMemoryKeeps, CapturedKeeps

LEMMA FinishPushClosureKeeps ==
    ASSUME ClosureInv, FinishPushClosure
    PROVE  /\ ClosureInv' /\ Changes({}, {}) /\ Roots({})
           /\ \A i \in 1 .. Len(stack) : stack'[i] = stack[i]
           /\ stack' \in Seq(Values) /\ Len(stack') = Len(stack)
  <1> DEFINE a == op.array
             len == Len(stack)
             m == Len(upvalueStack)
             v == Closure(a, op.arity)
             n == Len(op.captures)
  <1>1. /\ op.name = "pushClosure" /\ op.next \notin DOMAIN op.captures
        /\ heap' = heap /\ calls' = calls /\ op' = Idle
        /\ stack' = [stack EXCEPT ![len] = v]
        /\ upvalueStack' = IF m < len THEN Append(upvalueStack, Null) ELSE upvalueStack
    BY DEF FinishPushClosure, Capturing
  <1>2. /\ a \in Cells /\ heap[a].type = "array" /\ Len(heap[a].refs) = n
        /\ op.next \in 1 .. n + 1
        /\ \A k \in 1 .. op.next - 1 : heap[a].refs[k] # Null
        /\ stack # <<>> /\ stack[len] = v
    BY <1>1 DEF ClosureInv, PushInv, Last
  <1>3. /\ stack \in Seq(Values) /\ upvalueStack \in Seq(Pointers) /\ Null \in Pointers
        /\ len \in Nat /\ m \in Nat /\ m <= len /\ len <= m + 1
        /\ DOMAIN upvalueStack = 1 .. m /\ DOMAIN stack = 1 .. len
        /\ \A i \in 1 .. len : IsSound(stack[i])
    BY StackFacts DEF ClosureInv, TypeOK, Pointers
  <1>4. len \in 1 .. len /\ v \in Values
    <2>1. len > 0
      BY <1>2, <1>3, SeqFacts
    <2>2. len \in 1 .. len
      <3> HIDE DEF len
      <3> QED
        BY <1>3, <2>1
    <2> QED
      BY <1>2, <1>3, <2>2 DEF IsSound
  <1>5. Written(Values, stack, len, v, stack')
    <2> HIDE DEF v
    <2>1. stack \in Seq(Values) /\ v \in Values /\ len \in 1 .. Len(stack)
          /\ stack' = [stack EXCEPT ![len] = v]
      BY <1>1, <1>3, <1>4
    <2> HIDE DEF len
    <2> QED
      BY <2>1, WrittenFacts
  <1>6. \A i \in 1 .. len : stack'[i] = stack[i]
    BY <1>2, <1>5 DEF Written
  <1> HIDE DEF v, n
  <1>7. /\ upvalueStack' \in Seq(Pointers) /\ Len(upvalueStack') = len
        /\ DOMAIN upvalueStack' = 1 .. len
        /\ \A i \in 1 .. m : upvalueStack'[i] = upvalueStack[i]
        /\ \A i \in 1 .. len : i \in 1 .. m \/ upvalueStack'[i] = Null
        /\ Range(upvalueStack') \subseteq Range(upvalueStack) \cup {Null}
    <2>1. CASE ~(m < len)
      <3>1. upvalueStack' = upvalueStack
        BY <1>1, <2>1
      <3>2. m = len
        <4>1. m \in Nat /\ len \in Nat /\ m <= len
          BY <1>3
        <4> HIDE DEF m, len
        <4> QED
          BY <2>1, <4>1
      <3> HIDE DEF m, len
      <3> QED
        BY <1>3, <3>1, <3>2
    <2>2. CASE m < len
      <3>1. upvalueStack' = Append(upvalueStack, Null)
        BY <1>1, <2>2
      <3>2. len = m + 1
        <4> HIDE DEF m, len
        <4> QED
          BY <1>3, <2>2
      <3>3. /\ upvalueStack' \in Seq(Pointers) /\ Len(upvalueStack') = m + 1
            /\ \A i \in 1 .. m : upvalueStack'[i] = upvalueStack[i]
            /\ upvalueStack'[m + 1] = Null
            /\ Range(upvalueStack') = Range(upvalueStack) \cup {Null}
        BY <1>3, <3>1, AppendFacts
      <3>4. DOMAIN upvalueStack' = 1 .. m + 1
        BY <3>3, SeqFacts
      <3>5. \A i \in 1 .. m + 1 : i \in 1 .. m \/ i = m + 1
        <4> HIDE DEF m
        <4> QED
          BY <1>3
      <3> HIDE DEF m, len
      <3> QED
        BY <3>2, <3>3, <3>4, <3>5
    <2> QED
      BY <2>1, <2>2
  <1>8. Changes({}, {})
    BY <1>1, WritesNothing DEF ClosureInv
  <1>9. Roots({})
    <2>1. stack' \in Seq(Values) /\ v \in Range(stack)
      <3>1. len \in DOMAIN stack /\ stack[len] = v
        BY <1>2, <1>3, <1>4 DEF v
      <3> HIDE DEF len
      <3> QED
        BY <1>5, <3>1 DEF Written, Range
    <2>2. Range(stack') \subseteq Range(stack)
      BY <1>5, <2>1 DEF Written
    <2> QED
      BY <1>7, <2>1, <2>2 DEF Roots
  <1> HIDE DEF len, m
  <1>10. \A i \in 1 .. m : i \in 1 .. len
    BY <1>3
  <1>11. SlotsStay({}, {})
    BY <1>3, <1>7, <1>10 DEF SlotsStay
  <1>12. CallsInv'
    <2>1. \A b \in 1 .. Base : b \in 1 .. m
      BY <1>3, BaseFacts
    <2>2. CallsStay
      BY <1>1, <1>6, <1>7, <1>10, <2>1 DEF CallsStay
    <2> QED
      BY <2>2, CallsKept DEF ClosureInv
  <1>13. /\ HeapInv' /\ Live' \subseteq Live
         /\ \A i \in DOMAIN stack' :
               IsClosure(stack'[i]) => heap'[stack'[i].closure].type = "array"
    BY <1>8, <1>9, WritesKeep DEF ClosureInv
  <1>14. SlotsInv' /\ UpvaluesNameTheirSlots'
    BY <1>8, <1>9, <1>11, SlotsKept
  <1>15. Null \notin Range(heap[a].refs)
    <2>1. op.captures \in Seq(Int) /\ heap[a].refs \in Seq(Pointers)
      BY <1>2 DEF ClosureInv, TypeOK, Objects
    <2>2. DOMAIN op.captures = 1 .. n /\ n \in Nat /\ DOMAIN heap[a].refs = 1 .. n
      BY <1>2, <2>1, SeqFacts DEF n
    <2>3. \A k \in 1 .. n : k \in 1 .. op.next - 1
      BY <1>1, <1>2, <2>2
    <2> QED
      BY <1>2, <2>2, <2>3 DEF Range
  <1>16. ClosuresInv'
    <2> SUFFICES ASSUME NEW c \in LiveClosures', c # a
                 PROVE  Null \notin Range(heap'[c].refs)
      BY <1>1, <1>13, <1>15 DEF ClosuresInv, IsClosure
    <2>1. c \in LiveClosures
      BY <1>1, <1>13 DEF LiveClosures, a
    <2> QED
      BY <1>1, <2>1 DEF ClosureInv, ClosuresInv
  <1>17. TypeOK'
    <2>1. Idle \in [name : {"idle", "pushClosure", "outOfMemory"}, captures : Seq(Int),
                    next : Nat \ {0}, array : Pointers, arity : Arities \cup {0}]
      BY <1>3 DEF Idle
    <2>2. stack' \in Seq(Values) /\ Len(stack') = len
      BY <1>5 DEF Written, len
    <2>3. Len(stack') - Len(upvalueStack') \in 0 .. (IF op' = Idle THEN 0 ELSE 1)
      BY <1>1, <1>3, <1>7, <2>2
    <2> QED
      BY <1>1, <1>7, <2>1, <2>2, <2>3 DEF ClosureInv, TypeOK
  <1>18. PushInv'
    BY <1>1 DEF PushInv, Idle
  <1>19. stack' \in Seq(Values) /\ Len(stack') = len
    BY <1>5 DEF Written, len
  <1> QED
    BY <1>6, <1>8, <1>9, <1>12, <1>13, <1>14, <1>16, <1>17, <1>18, <1>19 DEF ClosureInv, len

-----------------------------------------------------------------------------
(* The theorems. *)

LEMMA InitIsSound == ASSUME Init PROVE ClosureInv
  <1>1. /\ heap = [c \in Cells |-> Cell("none", <<>>)]
        /\ stack = <<>> /\ upvalueStack = <<>> /\ calls = <<>> /\ op = Idle
    BY DEF Init
  <1>2. \A c \in Cells : heap[c].type = "none" /\ heap[c] \in Objects
                         /\ heap[c].initialized /\ heap[c].refs = <<>>
    BY <1>1, ClosuresAssumption DEF Cell, Objects, CellTypes, Values
  <1>3. TypeOK
    <2>1. heap \in [Cells -> Objects]
      BY <1>1, <1>2
    <2>2. op \in [name : {"idle", "pushClosure", "outOfMemory"}, captures : Seq(Int),
                  next : Nat \ {0}, array : Pointers, arity : Arities \cup {0}]
      BY <1>1 DEF Idle, Pointers
    <2>3. Len(stack) - Len(upvalueStack) \in 0 .. (IF op = Idle THEN 0 ELSE 1)
      BY <1>1
    <2> QED
      BY <1>1, <2>1, <2>2, <2>3 DEF TypeOK
  <1>4. Live \subseteq Cells
    BY <1>3, HeapFacts
  <1>5. HeapInv
    <2>1. \A c \in Cells : WellFormed(heap, heap[c])
      BY <1>2 DEF WellFormed
    <2>2. \A c \in Cells : Kind(heap[c]) # "upvalue"
      BY <1>2 DEF Kind, IsUpvalue
    <2> QED
      BY <1>2, <1>4, <2>1, <2>2 DEF HeapInv
  <1>6. ClosuresInv
    BY <1>1, <1>2, <1>4 DEF ClosuresInv, LiveClosures
  <1>7. SlotsInv /\ CallsInv
    BY <1>1 DEF SlotsInv, CallsInv
  <1>8. UpvaluesNameTheirSlots
    BY <1>2, <1>4 DEF UpvaluesNameTheirSlots
  <1>9. PushInv
    BY <1>1 DEF PushInv, Idle
  <1> QED
    BY <1>3, <1>5, <1>6, <1>7, <1>8, <1>9 DEF ClosureInv

LEMMA StutterKeeps == ASSUME ClosureInv, UNCHANGED vars PROVE ClosureInv'
  <1>1. /\ heap' = heap /\ stack' = stack /\ upvalueStack' = upvalueStack
        /\ calls' = calls /\ op' = op
    BY DEF vars, machine
  <1>2. Live' = Live /\ LiveClosures' = LiveClosures
    BY <1>1 DEF Live, Graph, RootCells, StackCells, IsClosure, LiveClosures
  <1>3. TypeOK' /\ HeapInv'
    BY <1>1, <1>2 DEF ClosureInv, TypeOK, HeapInv
  <1>4. ClosuresInv' /\ SlotsInv' /\ UpvaluesNameTheirSlots'
    BY <1>1, <1>2 DEF ClosureInv, ClosuresInv, SlotsInv, UpvaluesNameTheirSlots, IsClosure
  <1>5. CallsInv'
    BY <1>1 DEF ClosureInv, CallsInv, IsClosure
  <1>6. Slots' = Slots /\ Upvalues' = Upvalues
    BY <1>1 DEF Slots, Base, Upvalues
  <1>7. PushInv'
    BY <1>1, <1>6 DEF ClosureInv, PushInv
  <1> QED
    BY <1>3, <1>4, <1>5, <1>7 DEF ClosureInv

\* ClosureInv holds in every state: the program's chains of upvalues end at variables,
\* the upvalue stack agrees with the upvalues (stack_push, release-upvalues and
\* push-closure in duckVM.c), and under each function's slots is the function itself.
THEOREM ClosureInvariant ==
    ASSUME CalleeIsTemporary
    PROVE  Spec => []ClosureInv
  <1>1. Init => ClosureInv
    BY InitIsSound
  <1>2. ClosureInv /\ [Next]_vars => ClosureInv'
    <2> SUFFICES ASSUME ClosureInv, [Next]_vars PROVE ClosureInv'
      OBVIOUS
    <2>1. CASE PushAtom
      BY <2>1, PushAtomKeeps
    <2>2. CASE PushIndex
      BY <2>2, PushIndexKeeps
    <2>3. CASE PushUpvalue
      BY <2>3, PushUpvalueKeeps
    <2>4. CASE Move
      BY <2>4, MoveKeeps
    <2>5. CASE SetUpvalue
      BY <2>5, SetUpvalueKeeps
    <2>6. CASE ReleaseUpvalue
      BY <2>6, ReleaseUpvalueKeeps
    <2>7. CASE Pop
      BY <2>7, PopKeeps
    <2>8. CASE BeginPushClosure
      BY <2>8, BeginPushClosureKeeps
    <2>9. CASE CaptureSelf
      BY <2>9, CaptureKeeps
    <2>10. CASE CaptureUpvalue
      BY <2>10, CaptureKeeps
    <2>11. CASE CaptureSlot
      BY <2>11, CaptureKeeps
    <2>12. CASE CaptureAgain
      BY <2>12, CaptureKeeps
    <2>13. CASE FinishPushClosure
      BY <2>13, FinishPushClosureKeeps
    <2>14. CASE Funcall
      BY <2>14, FuncallKeeps
    <2>15. CASE Return
      BY <2>15, ReturnKeeps
    <2>16. CASE UNCHANGED vars
      BY <2>16, StutterKeeps
    <2> QED
      BY <2>1, <2>2, <2>3, <2>4, <2>5, <2>6, <2>7, <2>8, <2>9, <2>10, <2>11, <2>12, <2>13,
         <2>14, <2>15, <2>16 DEF Next, PushClosure
  <1> QED
    BY <1>1, <1>2, PTL DEF Spec

\* Every variable keeps its type; the upvalue stack is as long as the stack but while a
\* closure is pushed (stack_push grows both, duckVM.c:496).
THEOREM TypeCorrect ==
    ASSUME CalleeIsTemporary
    PROVE  Spec => []TypeOK
  <1>1. ClosureInv => TypeOK
    BY DEF ClosureInv
  <1> QED
    BY <1>1, ClosureInvariant, PTL

\* No slot is popped, moved over or given to another variable while a closure that can
\* still be called reaches it through an upvalue (release-upvalues, return in duckVM.c).
THEOREM SlotsOutliveTheirUpvalues ==
    ASSUME CalleeIsTemporary
    PROVE  Spec => []UpvaluesNameTheirSlots
  <1>1. ClosureInv => UpvaluesNameTheirSlots
    BY DEF ClosureInv
  <1> QED
    BY <1>1, ClosureInvariant, PTL

\* The upvalues of a running function are not collected, though the collector does not
\* scan upvalue_array_call_stack: the function's temporary stays under its slots.
THEOREM RunningFunctionsStay ==
    ASSUME CalleeIsTemporary
    PROVE  Spec => []RunningFunctionsAreLive
  <1>1. ClosureInv => RunningFunctionsAreLive
    BY CallFacts DEF ClosureInv, RunningFunctionsAreLive
  <1> QED
    BY <1>1, ClosureInvariant, PTL

-----------------------------------------------------------------------------
(* What closures hold. *)

LEMMA CapturedFacts ==
    ASSUME ClosureInv, CapturedInv, NEW c \in LiveClosures
    PROVE  /\ c \in Cells /\ captured[c] \in Seq(Variables)
           /\ DOMAIN captured[c] = DOMAIN heap[c].refs
           /\ \A k \in DOMAIN captured[c] :
                 /\ captured[c][k] \in Variables
                 /\ heap[c].refs[k] \in Live
                 /\ Kind(heap[heap[c].refs[k]]) = "upvalue"
  <1>1. c \in Cells /\ heap[c].refs \in Seq(Pointers)
    BY ClosureFacts DEF ClosureInv
  <1>2. captured[c] \in Seq(Variables) /\ Len(captured[c]) = Len(heap[c].refs)
    BY <1>1 DEF CapturedInv
  <1>3. DOMAIN captured[c] = DOMAIN heap[c].refs
    <2>1. DOMAIN captured[c] = 1 .. Len(captured[c])
      BY <1>2, SeqFacts
    <2>2. DOMAIN heap[c].refs = 1 .. Len(heap[c].refs)
      BY <1>1, SeqFacts
    <2> QED
      BY <1>2, <2>1, <2>2
  <1>4. \A k \in DOMAIN captured[c] : captured[c][k] \in Variables
    BY <1>2, SeqFacts
  <1> QED
    BY <1>1, <1>2, <1>3, <1>4, ClosureFacts DEF ClosureInv

LEMMA HeldFacts ==
    ASSUME ClosureInv, CapturedInv, NEW x, NEW e, Holds(x, e)
    PROVE  /\ x \in Variables /\ e \in Live /\ e \in Cells
           /\ Names(e, x)
           /\ heap[e].type \in {"stack_index", "heap_object"}
           /\ heap[e].type = "heap_object" =>
                 /\ heap[e].refs[1] \in Live /\ heap[e].refs[1] \in Cells
                 /\ heap[heap[e].refs[1]].type = "object"
  <1>1. PICK c \in LiveClosures :
            \E k \in DOMAIN captured[c] :
                x = captured[c][k] /\ e \in Ends(heap, heap[c].refs[k])
    BY DEF Holds
  <1>2. PICK k \in DOMAIN captured[c] :
            x = captured[c][k] /\ e \in Ends(heap, heap[c].refs[k])
    BY <1>1
  <1> DEFINE u == heap[c].refs[k]
  <1>3. x \in Variables /\ u \in Live /\ Kind(heap[u]) = "upvalue" /\ e \in Ends(heap, u)
    BY <1>2, CapturedFacts
  <1> HIDE DEF u
  <1>4. /\ e \in Live /\ e \in Cells
        /\ heap[e].type \in {"stack_index", "heap_object"}
        /\ heap[e].type = "heap_object" =>
              /\ heap[e].refs[1] \in Live /\ heap[e].refs[1] \in Cells
              /\ heap[heap[e].refs[1]].type = "object"
    BY <1>3, EndFacts DEF ClosureInv
  <1> QED
    BY <1>3, <1>4 DEF CapturedInv

\* A captured variable is held.
LEMMA CapturedIsHeld ==
    ASSUME ClosureInv, CapturedInv, NEW c \in LiveClosures, NEW k \in DOMAIN captured[c]
    PROVE  Holds(captured[c][k], EndOfChain(heap[c].refs[k]))
  <1> DEFINE u == heap[c].refs[k]
  <1>1. u \in Live /\ Kind(heap[u]) = "upvalue"
    BY CapturedFacts
  <1>2. EndOfChain(u) \in Ends(heap, u)
    <2> HIDE DEF u
    <2> QED
      BY <1>1, EndOfChainIsAnEnd DEF ClosureInv
  <1> QED
    BY <1>2 DEF Holds

\* The upvalue of a captured variable has the variable's value.
LEMMA MeaningGives ==
    ASSUME ClosureInv, EnvInv, CapturedInv
    PROVE  VariablesHaveTheirValues
  <1> SUFFICES ASSUME NEW c \in LiveClosures, NEW k \in DOMAIN captured[c]
               PROVE  Deref(heap[c].refs[k]) = store[captured[c][k]]
    BY DEF VariablesHaveTheirValues, EnvInv
  <1> DEFINE u == heap[c].refs[k]
             e == EndOfChain(u)
             x == captured[c][k]
  <1>1. Holds(x, e)
    BY CapturedIsHeld
  <1>2. /\ Names(e, x)
        /\ heap[e].type \in {"stack_index", "heap_object"}
    <2> HIDE DEF e, x
    <2> QED
      BY <1>1, HeldFacts
  <1>3. Deref(u) = IF heap[e].type = "stack_index" THEN stack[heap[e].index]
                   ELSE heap[heap[e].refs[1]].value
    BY DEF Deref
  <1> HIDE DEF e, x, u
  <1>4. CASE heap[e].type = "stack_index"
    <2>1. heap[e].index \in DOMAIN env /\ env[heap[e].index] = x
      BY <1>2, <1>4 DEF Names
    <2>2. stack[heap[e].index] = store[x]
      BY <2>1 DEF EnvInv
    <2> QED
      BY <1>3, <1>4, <2>2 DEF u, x
  <1>5. CASE heap[e].type = "heap_object"
    <2>1. heap[heap[e].refs[1]].value = store[x]
      BY <1>2, <1>5 DEF Names
    <2> QED
      BY <1>3, <1>5, <2>1 DEF u, x
  <1> QED
    BY <1>2, <1>4, <1>5

\* The running function's variables.
LEMMA RunningVariables ==
    ASSUME ClosureInv, CapturedInv, op.name \in {"idle", "pushClosure"},
           NEW k \in DOMAIN Upvalues
    PROVE  /\ CapturedVariables[k] \in Variables
           /\ Holds(CapturedVariables[k], EndOfChain(Upvalues[k]))
           /\ \A e \in Ends(heap, Upvalues[k]) : Holds(CapturedVariables[k], e)
           /\ VariablesHaveTheirValues => Deref(Upvalues[k]) = store[CapturedVariables[k]]
  <1> DEFINE c == Last(calls).closure
  <1>1. calls # <<>> /\ Upvalues = heap[c].refs /\ CapturedVariables = captured[c]
    BY DEF Upvalues, CapturedVariables
  <1>2. c \in LiveClosures
    BY <1>1, RunningFacts DEF ClosureInv
  <1> HIDE DEF c
  <1>3. k \in DOMAIN captured[c]
    BY <1>1, <1>2, CapturedFacts
  <1> QED
    BY <1>1, <1>2, <1>3, CapturedFacts, CapturedIsHeld
    DEF Holds, VariablesHaveTheirValues

-----------------------------------------------------------------------------
(* What a step does to what closures hold: nothing, but that some go. *)

KeepsClosures(N, T) ==
    /\ Changes(N, T) /\ Roots(N)
    /\ captured' = captured
    /\ op.array \in {Null, op'.array}
    /\ \A d \in N : heap'[d].type = "array" => d = op'.array
    /\ \A d \in T : heap[d].type = "array" => d = op.array

LEMMA HoldsShrinks ==
    ASSUME ClosureInv, CapturedInv, NEW N, NEW T, KeepsClosures(N, T)
    PROVE  /\ LiveClosures' \subseteq LiveClosures
           /\ \A c \in LiveClosures' : heap'[c] = heap[c]
           /\ \A x, e : Holds(x, e)' => Holds(x, e)
  <1>1. Changes(N, T) /\ Roots(N) /\ captured' = captured
    BY DEF KeepsClosures
  <1>2. Live' \subseteq Live \cup N
    BY <1>1, WritesBound DEF ClosureInv
  <1>3. ASSUME NEW c \in LiveClosures'
        PROVE  c \in LiveClosures /\ heap'[c] = heap[c]
    <2>1. c \in Live' /\ heap'[c].type = "array" /\ c # op'.array
      BY DEF LiveClosures
    <2>2. c \in Live /\ c \in Cells
      BY <1>2, <2>1, HeapFacts DEF KeepsClosures, ClosureInv
    <2>3. Kind(heap'[c]) = Kind(heap[c])
      BY <1>1, <2>2, KindsKept DEF ClosureInv
    <2>4. heap[c].type = "array" /\ c # op.array
      BY <2>1, <2>2, <2>3, ArraysAreAKind, NullAssumption DEF KeepsClosures
    <2>5. c \notin N \cup T
      BY <1>1, <2>2, <2>4 DEF KeepsClosures, Changes
    <2> QED
      BY <1>1, <2>2, <2>4, <2>5 DEF LiveClosures, Changes
  <1>4. ASSUME NEW x, NEW e, Holds(x, e)' PROVE Holds(x, e)
    <2>1. PICK c \in LiveClosures' :
              \E k \in DOMAIN captured[c] :
                  x = captured[c][k] /\ e \in Ends(heap', heap'[c].refs[k])
      BY <1>1, <1>4 DEF Holds
    <2>2. PICK k \in DOMAIN captured[c] :
              x = captured[c][k] /\ e \in Ends(heap', heap'[c].refs[k])
      BY <2>1
    <2> DEFINE u == heap[c].refs[k]
    <2>3. c \in LiveClosures /\ heap'[c] = heap[c]
      BY <1>3
    <2>4. u \in Live /\ Kind(heap[u]) = "upvalue" /\ e \in Ends(heap', u)
      BY <2>2, <2>3, CapturedFacts
    <2>5. e \in Ends(heap, u)
      <3> HIDE DEF u
      <3> QED
        BY <1>1, <2>4, EndsKept DEF ClosureInv
    <2> QED
      BY <2>2, <2>3, <2>5 DEF Holds
  <1> QED
    BY <1>3, <1>4

\* Where a held upvalue leads is not overwritten.
LEMMA ReachesTheSame ==
    ASSUME ClosureInv, CapturedInv, NEW N, NEW T, Changes(N, T),
           \A d \in T : Kind(heap[d]) \notin {"upvalue", "object"},
           NEW x, NEW e, Holds(x, e)
    PROVE  /\ heap'[e] = heap[e]
           /\ heap[e].type = "heap_object" => heap'[heap[e].refs[1]] = heap[heap[e].refs[1]]
  <1>1. /\ e \in Live /\ e \in Cells
        /\ heap[e].type \in {"stack_index", "heap_object"}
        /\ heap[e].type = "heap_object" =>
              /\ heap[e].refs[1] \in Live /\ heap[e].refs[1] \in Cells
              /\ heap[heap[e].refs[1]].type = "object"
    BY HeldFacts
  <1>2. Kind(heap[e]) = "upvalue"
    BY <1>1 DEF Kind, IsUpvalue
  <1>3. heap[e].type = "heap_object" => Kind(heap[heap[e].refs[1]]) = "object"
    BY <1>1, ArraysAreAKind
  <1> QED
    BY <1>1, <1>2, <1>3 DEF Changes

\* So a step keeps the meaning that overwrites no upvalue, if those that are still
\* held lead to their variables.
LEMMA MeaningKept ==
    ASSUME ClosureInv, MeaningInv, NEW N, NEW T, KeepsClosures(N, T),
           \A d \in T : Kind(heap[d]) # "upvalue",
           EnvInv', CapturesInv',
           \A x \in Variables, e \in Cells : Holds(x, e) /\ Holds(x, e)' => Names(e, x)'
    PROVE  MeaningInv'
  <1>1. /\ EnvInv /\ CapturedInv /\ DistinctInv /\ CapturesInv
        /\ Changes(N, T) /\ captured' = captured
    BY DEF MeaningInv, KeepsClosures
  <1>2. /\ LiveClosures' \subseteq LiveClosures
        /\ \A c \in LiveClosures' : heap'[c] = heap[c]
        /\ \A x, e : Holds(x, e)' => Holds(x, e)
    BY <1>1, HoldsShrinks
  <1>3. CapturedInv'
    BY <1>1, <1>2 DEF CapturedInv
  <1>4. ASSUME NEW x, NEW e, Holds(x, e) PROVE heap'[e] = heap[e]
    <2>1. e \in Live /\ e \in Cells /\ heap[e].type \in {"stack_index", "heap_object"}
      BY <1>1, <1>4, HeldFacts
    <2>2. Kind(heap[e]) = "upvalue"
      BY <2>1 DEF Kind, IsUpvalue
    <2> QED
      BY <1>1, <2>1, <2>2 DEF Changes
  <1>5. DistinctInv'
    <2> SUFFICES ASSUME NEW x \in Variables, NEW y \in Variables, NEW e \in Cells, NEW f \in Cells,
                        Holds(x, e)', heap'[e].type = "heap_object",
                        Holds(y, f)', heap'[f].type = "heap_object"
                 PROVE  /\ x = y <=> e = f
                        /\ heap'[e].refs[1] = heap'[f].refs[1] => e = f
      BY DEF DistinctInv
    <2>1. Holds(x, e) /\ Holds(y, f) /\ heap'[e] = heap[e] /\ heap'[f] = heap[f]
      BY <1>2, <1>4
    <2> QED
      BY <1>1, <2>1 DEF DistinctInv
  <1> QED
    BY <1>3, <1>5 DEF MeaningInv

-----------------------------------------------------------------------------
(* Declarations. *)

\* There is a variable that no slot and no closure has: the released variables that
\* are held have an upvalue each.
LEMMA FreshFacts ==
    ASSUME ClosureInv, MeaningInv, Len(env) <= StackBound
    PROVE  /\ Fresh(LiveClosures) \in Variables
           /\ Fresh(LiveClosures) \notin Range(env)
           /\ \A x, e : Holds(x, e) => x # Fresh(LiveClosures)
  <1> DEFINE known(x) == x \in Range(env) \/ \E c \in LiveClosures : x \in Range(captured[c])
             total == StackBound + ObjectsLength
             place == [x \in Variables |->
                          IF x \in Range(env) THEN CHOOSE i \in DOMAIN env : env[i] = x
                          ELSE StackBound + CHOOSE e \in Cells : Holds(x, e)]
  <1>1. /\ EnvInv /\ CapturedInv /\ DistinctInv
        /\ StackBound \in Nat /\ ObjectsLength \in Nat /\ Cells = 1 .. ObjectsLength
    BY ClosuresAssumption, ObjectsLengthAssumption DEF MeaningInv, Cells
  <1>2. DOMAIN env = 1 .. Len(env) /\ Len(env) \in Nat
    BY <1>1, SeqFacts DEF EnvInv
  <1>3. \A x \in Range(env) : \E i \in DOMAIN env : env[i] = x
    BY DEF Range
  <1>4. ASSUME NEW c \in LiveClosures, NEW x \in Range(captured[c])
        PROVE  \E e \in Cells : Holds(x, e)
    <2>1. PICK k \in DOMAIN captured[c] : x = captured[c][k]
      BY DEF Range
    <2>2. Holds(x, EndOfChain(heap[c].refs[k]))
      BY <1>1, <2>1, CapturedIsHeld
    <2> QED
      BY <1>1, <2>2, HeldFacts
  <1>5. ASSUME NEW x, NEW e, Holds(x, e), x \notin Range(env)
        PROVE  heap[e].type = "heap_object"
    <2>1. Names(e, x) /\ heap[e].type \in {"stack_index", "heap_object"}
      BY <1>1, <1>5, HeldFacts
    <2> QED
      BY <1>5, <2>1 DEF Names, Range
  <1>6. \E x \in Variables : ~known(x)
    <2> SUFFICES ASSUME \A x \in Variables : known(x) PROVE FALSE
      OBVIOUS
    <2>1. ASSUME NEW x \in Variables
          PROVE  IF x \in Range(env)
                 THEN place[x] \in 1 .. Len(env) /\ env[place[x]] = x
                 ELSE \E e \in Cells : Holds(x, e) /\ place[x] = StackBound + e
      <3>1. CASE x \in Range(env)
        BY <1>2, <1>3, <3>1
      <3>2. CASE x \notin Range(env)
        <4>1. \E e \in Cells : Holds(x, e)
          BY <1>4, <3>2
        <4> QED
          BY <3>2, <4>1
      <3> QED
        BY <3>1, <3>2
    <2> HIDE DEF place, known
    <2>2. place \in [Variables -> 1 .. total]
      <3>1. ASSUME NEW x \in Variables PROVE place[x] \in 1 .. total
        <4>1. CASE x \in Range(env)
          <5> DEFINE n == Len(env)
          <5>1. place[x] \in 1 .. n /\ n \in Nat /\ n <= StackBound
            BY <1>2, <2>1, <4>1
          <5> HIDE DEF n
          <5> QED
            BY <1>1, <5>1
        <4>2. CASE x \notin Range(env)
          <5>1. PICK e \in 1 .. ObjectsLength : place[x] = StackBound + e
            BY <1>1, <2>1, <4>2
          <5> QED
            BY <1>1, <5>1
        <4> QED
          BY <4>1, <4>2
      <3>2. place = [x \in Variables |-> place[x]]
        BY DEF place
      <3> QED
        BY <3>1, <3>2
    <2>3. /\ IsFiniteSet(Variables) /\ Cardinality(Variables) = total + 1
          /\ IsFiniteSet(1 .. total) /\ Cardinality(1 .. total) = total
      <3>1. total \in Nat /\ Variables = 1 .. total + 1
        BY <1>1 DEF Variables
      <3> HIDE DEF total
      <3> DEFINE one == 1
                 more == total + 1
      <3>2. one \in Int /\ total \in Int /\ more \in Int
        BY <3>1
      <3> HIDE DEF one, more
      <3>3. /\ IsFiniteSet(one .. total)
            /\ Cardinality(one .. total) = IF one > total THEN 0 ELSE total - one + 1
        BY <3>2, FS_Interval
      <3>4. /\ IsFiniteSet(one .. more)
            /\ Cardinality(one .. more) = IF one > more THEN 0 ELSE more - one + 1
        BY <3>2, FS_Interval
      <3>5. (total - one) + 1 = total /\ (more - one) + 1 = total + 1 /\ ~(one > more)
            /\ (one > total => total = 0)
        BY <3>1 DEF one, more
      <3>6. Cardinality(one .. total) = total /\ Cardinality(one .. more) = total + 1
        BY <3>1, <3>3, <3>4, <3>5
      <3> QED
        BY <3>1, <3>3, <3>4, <3>6 DEF one, more
    <2>4. \E x, y \in Variables : x # y /\ place[x] = place[y]
      <3>1. total \in Nat /\ total < total + 1
        BY <1>1
      <3> DEFINE P == 1 .. total
      <3>2. /\ IsFiniteSet(Variables) /\ IsFiniteSet(P) /\ Cardinality(P) < Cardinality(Variables)
            /\ place \in [Variables -> P]
        BY <2>2, <2>3, <3>1
      <3> HIDE DEF P, total
      <3> QED
        BY <3>2, FS_PigeonHole
    <2>5. PICK x \in Variables, y \in Variables : x # y /\ place[x] = place[y]
      BY <2>4
    <2>6. ASSUME NEW z \in Variables, NEW w \in Variables, place[z] = place[w],
                 z \in Range(env), w \notin Range(env)
          PROVE  FALSE
      <3> DEFINE n == Len(env)
      <3>1. place[z] \in 1 .. n /\ n \in Nat /\ n <= StackBound
        BY <1>2, <2>1, <2>6
      <3>2. PICK e \in 1 .. ObjectsLength : place[w] = StackBound + e
        BY <1>1, <2>1, <2>6
      <3> HIDE DEF n
      <3> QED
        BY <1>1, <2>6, <3>1, <3>2
    <2>7. CASE x \in Range(env) /\ y \in Range(env)
      BY <2>1, <2>5, <2>7
    <2>8. CASE x \notin Range(env) /\ y \notin Range(env)
      <3>1. PICK e \in Cells : Holds(x, e) /\ place[x] = StackBound + e
        BY <2>1, <2>8
      <3>2. PICK f \in Cells : Holds(y, f) /\ place[y] = StackBound + f
        BY <2>1, <2>8
      <3>3. e = f
        <4>1. StackBound + e = StackBound + f
          BY <2>5, <3>1, <3>2
        <4>2. e \in Nat /\ f \in Nat
          BY <1>1
        <4> QED
          BY <1>1, <4>1, <4>2
      <3>4. heap[e].type = "heap_object"
        BY <1>5, <2>8, <3>1
      <3> QED
        BY <1>1, <2>5, <3>1, <3>2, <3>3, <3>4 DEF DistinctInv
    <2> QED
      BY <2>5, <2>6, <2>7, <2>8
  <1>7. /\ Fresh(LiveClosures) \in Variables
        /\ ~known(Fresh(LiveClosures))
    BY <1>6 DEF Fresh
  <1>8. ASSUME NEW x, NEW e, Holds(x, e) PROVE known(x)
    BY <1>8 DEF Holds, Range
  <1> QED
    BY <1>7, <1>8

\* A new variable in the slot above the others.
LEMMA EnvGrows ==
    ASSUME ClosureInv, MeaningInv, Len(env) < StackBound, NEW v \in Values, Declare(v),
           stack' \in Seq(Values), Len(stack') = Len(env) + 1,
           \A i \in 1 .. Len(env) : stack'[i] = stack[i],
           stack'[Len(env) + 1] = v,
           op'.name = "idle"
    PROVE  /\ EnvInv'
           /\ Len(env) \in Nat /\ DOMAIN env = 1 .. Len(env) /\ Last(env') = env'[Len(env) + 1]
           /\ DOMAIN env' = 1 .. Len(env) + 1
           /\ \A i \in DOMAIN env : i \in DOMAIN env' /\ env'[i] = env[i]
           /\ \A x, e : Holds(x, e) => /\ store'[x] = store[x]
                                       /\ x \notin Range(env) => x \notin Range(env')
  <1> DEFINE x == Fresh(LiveClosures)
             n == Len(env)
  <1>1. /\ env \in Seq(Variables) /\ IsInjective(env) /\ store \in [Variables -> Values]
        /\ \A i \in DOMAIN env : i \in DOMAIN stack /\ stack[i] = store[env[i]]
        /\ CapturedInv /\ StackBound \in Nat
    BY ClosuresAssumption DEF MeaningInv, EnvInv
  <1>2. n \in Nat /\ DOMAIN env = 1 .. n /\ n <= StackBound /\ n + 1 <= StackBound
    <2>1. n \in Nat /\ DOMAIN env = 1 .. n /\ n < StackBound
      BY <1>1, SeqFacts
    <2> HIDE DEF n
    <2> QED
      BY <1>1, <2>1
  <1>3. x \in Variables /\ x \notin Range(env) /\ \A y, e : Holds(y, e) => y # x
    BY <1>2, FreshFacts
  <1>4. env' = Append(env, x) /\ store' = [store EXCEPT ![x] = v]
    BY DEF Declare
  <1> HIDE DEF x
  <1>5. /\ env' \in Seq(Variables) /\ Len(env') = n + 1
        /\ \A i \in 1 .. n : env'[i] = env[i]
        /\ env'[n + 1] = x
        /\ Range(env') = Range(env) \cup {x}
    BY <1>1, <1>3, <1>4, AppendFacts
  <1>6. /\ store' \in [Variables -> Values] /\ store'[x] = v
        /\ \A y \in Variables \ {x} : store'[y] = store[y]
    BY <1>1, <1>3, <1>4
  <1>7. DOMAIN env' = 1 .. Len(env') /\ DOMAIN stack' = 1 .. Len(stack')
    BY <1>5, SeqFacts
  <1>8. Last(env') = env'[n + 1]
    BY <1>5 DEF Last
  <1>9. \A i \in 1 .. n : env[i] \in Variables /\ env[i] \in Range(env) /\ env[i] # x
    BY <1>1, <1>3, RangeFacts, SeqFacts
  <1>10. Len(stack') = n + 1 /\ (\A i \in 1 .. n : stack'[i] = stack[i]) /\ stack'[n + 1] = v
    OBVIOUS
  <1> HIDE DEF n
  <1>11. \A i \in 1 .. n + 1 : i \in 1 .. n \/ i = n + 1
    BY <1>2
  <1>12. \A i \in 1 .. n : i \in 1 .. n + 1
    BY <1>2
  <1>13. IsInjective(env')
    <2> SUFFICES ASSUME NEW i \in 1 .. n + 1, NEW j \in 1 .. n + 1, env'[i] = env'[j]
                 PROVE  i = j
      BY <1>5, <1>7 DEF IsInjective
    <2> QED
      BY <1>1, <1>2, <1>5, <1>9, <1>11 DEF IsInjective
  <1>14. \A i \in DOMAIN env' : i \in DOMAIN stack' /\ stack'[i] = store'[env'[i]]
    BY <1>1, <1>2, <1>5, <1>6, <1>7, <1>9, <1>10, <1>11
  <1>15. EnvInv'
    BY <1>2, <1>5, <1>6, <1>10, <1>13, <1>14 DEF EnvInv
  <1>16. \A y, e : Holds(y, e) => store'[y] = store[y] /\ (y \notin Range(env) => y \notin Range(env'))
    <2> SUFFICES ASSUME NEW y, NEW e, Holds(y, e)
                 PROVE  store'[y] = store[y] /\ (y \notin Range(env) => y \notin Range(env'))
      OBVIOUS
    <2>1. y \in Variables /\ y # x
      BY <1>1, <1>3, HeldFacts
    <2> QED
      BY <1>5, <1>6, <2>1
  <1> QED
    BY <1>2, <1>5, <1>7, <1>8, <1>12, <1>15, <1>16 DEF n

\* An upvalue leads to its variable after a step that overwrites no upvalue and no copy
\* of a variable, if the slots and variables that are captured are kept.
LEMMA NamesKept ==
    ASSUME ClosureInv, CapturedInv, NEW N, NEW T, Changes(N, T),
           \A d \in T : Kind(heap[d]) \notin {"upvalue", "object"},
           NEW x, NEW e, Holds(x, e),
           heap[e].type = "stack_index" =>
               heap[e].index \in DOMAIN env' /\ env'[heap[e].index] = env[heap[e].index],
           x \notin Range(env) => x \notin Range(env') /\ store'[x] = store[x]
    PROVE  Names(e, x)'
  <1>1. /\ heap'[e] = heap[e]
        /\ heap[e].type = "heap_object" => heap'[heap[e].refs[1]] = heap[heap[e].refs[1]]
    BY ReachesTheSame
  <1>2. Names(e, x)
    BY HeldFacts
  <1> QED
    BY <1>1, <1>2 DEF Names

LEMMA ReadyMeaning ==
    ASSUME ClosureInv, MeaningInv, Ready
    PROVE  /\ EnvInv /\ CapturedInv /\ DistinctInv
           /\ env \in Seq(Variables) /\ Len(env) = Len(stack) /\ Len(env) \in Nat
           /\ DOMAIN env = 1 .. Len(stack) /\ Len(stack) <= StackBound
           /\ stack \in Seq(Values) /\ DOMAIN stack = 1 .. Len(stack)
           /\ op.name = "idle" /\ op.array = Null
           /\ \A i \in 1 .. Len(stack) :
                 env[i] \in Variables /\ env[i] \in Range(env) /\ stack[i] = store[env[i]]
  <1>1. EnvInv /\ CapturedInv /\ DistinctInv /\ op.name = "idle" /\ op.array = Null
    BY DEF MeaningInv, Ready, Idle
  <1>2. env \in Seq(Variables) /\ Len(env) = Len(stack) /\ Len(stack) <= StackBound
    BY <1>1 DEF EnvInv
  <1>3. /\ DOMAIN env = 1 .. Len(env) /\ Len(env) \in Nat
        /\ \A i \in 1 .. Len(env) : env[i] \in Variables /\ env[i] \in Range(env)
    BY <1>2, SeqFacts, RangeFacts
  <1>4. stack \in Seq(Values) /\ DOMAIN stack = 1 .. Len(stack)
    BY SeqFacts DEF ClosureInv, TypeOK
  <1> QED
    BY <1>1, <1>2, <1>3, <1>4 DEF EnvInv

LEMMA PushMeans ==
    ASSUME ClosureInv, MeaningInv, Ready, HasRoom, NEW v, IsSound(v), Push(v), Declare(v)
    PROVE  MeaningInv'
  <1>1. ClosureInv' /\ Changes({}, {}) /\ Roots({})
    BY PushKeeps
  <1>2. /\ EnvInv /\ CapturedInv /\ DistinctInv
        /\ env \in Seq(Variables) /\ Len(env) = Len(stack) /\ Len(env) \in Nat
        /\ stack \in Seq(Values) /\ op.name = "idle" /\ op.array = Null
    BY ReadyMeaning
  <1>3. v \in Values /\ stack' = Append(stack, v) /\ op' = op /\ captured' = captured /\ heap' = heap
    BY DEF IsSound, Push
  <1>4. KeepsClosures({}, {})
    BY <1>1, <1>3 DEF KeepsClosures
  <1>5. /\ stack' \in Seq(Values) /\ Len(stack') = Len(env) + 1
        /\ \A i \in 1 .. Len(env) : stack'[i] = stack[i]
        /\ stack'[Len(env) + 1] = v
    <2> DEFINE n == Len(stack)
    <2>1. /\ stack' \in Seq(Values) /\ Len(stack') = n + 1
          /\ \A i \in 1 .. n : stack'[i] = stack[i]
          /\ stack'[n + 1] = v
      BY <1>2, <1>3, AppendFacts
    <2> QED
      BY <1>2, <2>1
  <1>6. Len(env) < StackBound /\ op'.name = "idle"
    BY <1>2, <1>3 DEF HasRoom
  <1>7. /\ EnvInv'
        /\ \A i \in DOMAIN env : i \in DOMAIN env' /\ env'[i] = env[i]
        /\ \A x, e : Holds(x, e) => /\ store'[x] = store[x]
                                    /\ x \notin Range(env) => x \notin Range(env')
    BY <1>3, <1>5, <1>6, EnvGrows
  <1>8. ASSUME NEW x, NEW e, Holds(x, e) PROVE Names(e, x)'
    <2>1. heap[e].type = "stack_index" =>
              heap[e].index \in DOMAIN env' /\ env'[heap[e].index] = env[heap[e].index]
      BY <1>2, <1>7, <1>8, HeldFacts DEF Names
    <2>2. x \notin Range(env) => x \notin Range(env') /\ store'[x] = store[x]
      BY <1>7, <1>8
    <2>3. \A d \in {} : Kind(heap[d]) \notin {"upvalue", "object"}
      OBVIOUS
    <2> QED
      BY <1>1, <1>2, <1>8, <2>1, <2>2, <2>3, NamesKept
  <1>9. CapturesInv'
    BY <1>6 DEF CapturesInv
  <1> QED
    BY <1>4, <1>7, <1>8, <1>9, MeaningKept

LEMMA PushAtomMeans == ASSUME ClosureInv, MeaningInv, PushAtom PROVE MeaningInv'
  <1>1. PICK v \in Atoms : Push(v) /\ Declare(v)
    BY DEF PushAtom
  <1>2. IsSound(v)
    BY DEF IsSound, Values, IsClosure
  <1> QED
    BY <1>1, <1>2, PushMeans DEF PushAtom

LEMMA PushIndexMeans == ASSUME ClosureInv, MeaningInv, PushIndex PROVE MeaningInv'
  <1>1. PICK i \in Slots : Push(stack[i]) /\ Declare(store[env[i]])
    BY DEF PushIndex
  <1>2. IsSound(stack[i]) /\ stack[i] = store[env[i]]
    BY SlotsFacts, ReadyMeaning DEF PushIndex
  <1> QED
    BY <1>1, <1>2, PushMeans DEF PushIndex

LEMMA PushUpvalueMeans == ASSUME ClosureInv, MeaningInv, PushUpvalue PROVE MeaningInv'
  <1>1. PICK k \in DOMAIN Upvalues :
            Push(Deref(Upvalues[k])) /\ Declare(store[CapturedVariables[k]])
    BY DEF PushUpvalue
  <1>2. Ready /\ HasRoom /\ op.name \in {"idle", "pushClosure"}
    BY DEF PushUpvalue, Ready, Idle
  <1>3. Upvalues[k] \in Live /\ Kind(heap[Upvalues[k]]) = "upvalue"
    BY <1>2, UpvalueFacts DEF ClosureInv
  <1>4. IsSound(Deref(Upvalues[k]))
    BY <1>2, <1>3, DerefFacts DEF ClosureInv
  <1>5. Deref(Upvalues[k]) = store[CapturedVariables[k]]
    BY <1>2, MeaningGives, RunningVariables DEF MeaningInv
  <1> QED
    BY <1>1, <1>2, <1>4, <1>5, PushMeans

-----------------------------------------------------------------------------
(* Assignments. *)

\* A slot is assigned to, and its variable with it.
LEMMA WriteSlotMeans ==
    ASSUME ClosureInv, MeaningInv, Ready, NEW i \in 1 .. Len(stack),
           i > Base \/ upvalueStack[i] # Null,
           NEW v, IsSound(v), stack' = [stack EXCEPT ![i] = v], Assign(env[i], v),
           heap' = heap, upvalueStack' = upvalueStack, calls' = calls, op' = op,
           env' = env, captured' = captured
    PROVE  MeaningInv'
  <1>1. ClosureInv' /\ Changes({}, {}) /\ Roots({})
    BY WriteSlotKeeps
  <1>2. /\ EnvInv /\ CapturedInv /\ DistinctInv
        /\ DOMAIN env = 1 .. Len(stack)
        /\ stack \in Seq(Values) /\ op.name = "idle" /\ op.array = Null
        /\ env[i] \in Variables /\ env[i] \in Range(env)
    BY ReadyMeaning
  <1>3. KeepsClosures({}, {})
    BY <1>1 DEF KeepsClosures
  <1>4. v \in Values
    BY DEF IsSound
  <1>5. Written(Values, stack, i, v, stack')
    BY <1>2, <1>4, WrittenFacts
  <1>6. /\ store' \in [Variables -> Values] /\ store'[env[i]] = v
        /\ \A y \in Variables : y # env[i] => store'[y] = store[y]
    <2> DEFINE x == env[i]
    <2>1. x \in Variables /\ store' = [store EXCEPT ![x] = v] /\ store \in [Variables -> Values]
      BY <1>2 DEF Assign, EnvInv
    <2> HIDE DEF x
    <2>2. /\ store' \in [Variables -> Values] /\ store'[x] = v
          /\ \A y \in Variables : y # x => store'[y] = store[y]
      BY <1>4, <2>1
    <2> QED
      BY <2>2 DEF x
  <1>7. /\ Len(stack) <= StackBound /\ env \in Seq(Variables) /\ IsInjective(env)
        /\ op.name = "idle" => Len(stack) = Len(env)
        /\ \A j \in DOMAIN env : j \in DOMAIN stack /\ stack[j] = store[env[j]]
    BY <1>2 DEF EnvInv
  <1>8. \A j \in DOMAIN env : j \in DOMAIN stack' /\ stack'[j] = store'[env[j]]
    <2> SUFFICES ASSUME NEW j \in 1 .. Len(stack)
                 PROVE  j \in DOMAIN stack' /\ stack'[j] = store'[env[j]]
      BY <1>2
    <2>1. j \in DOMAIN stack'
      <3>1. stack' \in Seq(Values) /\ Len(stack') = Len(stack)
        BY <1>5 DEF Written
      <3>2. DOMAIN stack' = 1 .. Len(stack')
        BY <3>1, SeqFacts
      <3> QED
        BY <3>1, <3>2
    <2>2. CASE j = i
      BY <1>5, <1>6, <2>1, <2>2 DEF Written
    <2>3. CASE j # i
      <3>1. env[j] # env[i]
        BY <1>2, <1>7, <2>3 DEF IsInjective
      <3>2. env[j] \in Variables
        BY ReadyMeaning
      <3> QED
        BY <1>2, <1>5, <1>6, <1>7, <2>1, <2>3, <3>1, <3>2 DEF Written
    <2> QED
      BY <2>2, <2>3
  <1>9. EnvInv'
    BY <1>2, <1>5, <1>6, <1>7, <1>8 DEF EnvInv, Written
  <1>10. CapturesInv'
    BY <1>2 DEF CapturesInv
  <1>11. ASSUME NEW x, NEW e, Holds(x, e) PROVE Names(e, x)'
    <2>1. heap[e].type = "stack_index" =>
              heap[e].index \in DOMAIN env' /\ env'[heap[e].index] = env[heap[e].index]
      BY <1>2, <1>11, HeldFacts DEF Names
    <2>2. x \notin Range(env) => x \notin Range(env') /\ store'[x] = store[x]
      BY <1>2, <1>6, <1>11, HeldFacts
    <2>3. \A d \in {} : Kind(heap[d]) \notin {"upvalue", "object"}
      OBVIOUS
    <2> QED
      BY <1>1, <1>2, <1>11, <2>1, <2>2, <2>3, NamesKept
  <1> QED
    BY <1>3, <1>9, <1>10, <1>11, MeaningKept

\* A released variable is assigned to: its copy is.
LEMMA WriteCopyMeans ==
    ASSUME ClosureInv, MeaningInv, Ready, NEW x, NEW e, Holds(x, e),
           heap[e].type = "heap_object",
           NEW v, IsSound(v), heap' = [heap EXCEPT ![heap[e].refs[1]] = Copy(v)], Assign(x, v),
           stack' = stack, upvalueStack' = upvalueStack, calls' = calls, op' = op,
           env' = env, captured' = captured
    PROVE  MeaningInv'
  <1> DEFINE c == heap[e].refs[1]
  <1>1. /\ EnvInv /\ CapturedInv /\ DistinctInv
        /\ DOMAIN env = 1 .. Len(stack)
        /\ op.name = "idle" /\ op.array = Null
        /\ \A i \in 1 .. Len(stack) : env[i] \in Variables /\ env[i] \in Range(env)
    BY ReadyMeaning
  <1>2. /\ x \in Variables /\ e \in Cells /\ Names(e, x)
        /\ c \in Live /\ c \in Cells /\ heap[c].type = "object"
    BY <1>1, HeldFacts
  <1>3. x \notin Range(env)
    BY <1>2 DEF Names
  <1>4. heap' = [heap EXCEPT ![c] = Copy(v)]
    OBVIOUS
  <1> HIDE DEF c
  <1>5. /\ ClosureInv' /\ Changes({}, {c}) /\ Roots({})
        /\ heap'[c] = Copy(v) /\ \A d \in Cells \ {c} : heap'[d] = heap[d]
    BY <1>2, <1>4, WriteCopyKeeps
  <1>6. KeepsClosures({}, {c})
    BY <1>2, <1>5 DEF KeepsClosures
  <1>7. Kind(heap[c]) = "object"
    BY <1>2, ArraysAreAKind
  <1>8. v \in Values
    BY DEF IsSound
  <1>9. /\ store' \in [Variables -> Values] /\ store'[x] = v
        /\ \A y \in Variables : y # x => store'[y] = store[y]
    BY <1>1, <1>2, <1>8 DEF Assign, EnvInv
  <1>10. EnvInv'
    <2>1. \A j \in DOMAIN env : store'[env[j]] = store[env[j]]
      BY <1>1, <1>3, <1>9
    <2> QED
      BY <1>1, <1>9, <2>1 DEF EnvInv
  <1>11. CapturesInv'
    BY <1>1 DEF CapturesInv
  <1>12. ASSUME NEW y \in Variables, NEW f \in Cells, Holds(y, f) PROVE Names(f, y)'
    <2>1. /\ f \in Live /\ Names(f, y)
          /\ heap[f].type \in {"stack_index", "heap_object"}
          /\ heap[f].type = "heap_object" => heap[f].refs[1] \in Cells
      BY <1>1, <1>12, HeldFacts
    <2>2. heap'[f] = heap[f]
      BY <1>2, <1>5, <2>1
    <2>3. CASE heap[f].type = "stack_index"
      BY <2>1, <2>2, <2>3 DEF Names
    <2>4. CASE heap[f].type = "heap_object" /\ f = e
      <3>1. y = x
        BY <1>1, <1>2, <1>12, <2>4 DEF DistinctInv
      <3>2. Copy(v).value = v
        BY DEF Copy, Cell
      <3>3. heap'[heap'[f].refs[1]].value = store'[y]
        BY <1>5, <1>9, <2>2, <2>4, <3>1, <3>2 DEF c
      <3> QED
        BY <1>3, <2>2, <2>4, <3>1, <3>3 DEF Names
    <2>5. CASE heap[f].type = "heap_object" /\ f # e
      <3>1. y # x /\ heap[f].refs[1] # c
        BY <1>1, <1>2, <1>12, <2>5 DEF DistinctInv, c
      <3>2. heap'[heap[f].refs[1]] = heap[heap[f].refs[1]] /\ store'[y] = store[y]
        BY <1>5, <1>9, <2>1, <2>5, <3>1
      <3> QED
        BY <2>1, <2>2, <2>5, <3>2 DEF Names
    <2> QED
      BY <2>1, <2>3, <2>4, <2>5
  <1> QED
    BY <1>6, <1>7, <1>10, <1>11, <1>12, MeaningKept

LEMMA MoveMeans == ASSUME ClosureInv, MeaningInv, Move PROVE MeaningInv'
  <1>1. PICK i, j \in Slots : /\ stack' = [stack EXCEPT ![j] = stack[i]]
                              /\ Assign(env[j], store[env[i]])
    BY DEF Move
  <1> DEFINE v == stack[i]
  <1>2. /\ Ready /\ heap' = heap /\ upvalueStack' = upvalueStack /\ calls' = calls /\ op' = op
        /\ env' = env /\ captured' = captured
    BY DEF Move
  <1>3. j \in 1 .. Len(stack) /\ j > Base /\ IsSound(v) /\ v = store[env[i]]
    BY <1>2, SlotsFacts, ReadyMeaning
  <1>4. stack' = [stack EXCEPT ![j] = v] /\ Assign(env[j], v)
    BY <1>1, <1>3
  <1> HIDE DEF v
  <1> QED
    BY <1>2, <1>3, <1>4, WriteSlotMeans

LEMMA SetUpvalueMeans == ASSUME ClosureInv, MeaningInv, SetUpvalue PROVE MeaningInv'
  <1>1. PICK k \in DOMAIN Upvalues, i \in Slots :
            /\ SetThrough(Upvalues[k], stack[i])
            /\ Assign(CapturedVariables[k], store[env[i]])
    BY DEF SetUpvalue
  <1> DEFINE u == Upvalues[k]
             v == stack[i]
             e == EndOfChain(u)
             x == CapturedVariables[k]
             j == heap[e].index
  <1>2. /\ Ready /\ upvalueStack' = upvalueStack /\ calls' = calls /\ op' = op
        /\ env' = env /\ captured' = captured /\ op.name \in {"idle", "pushClosure"}
    BY DEF SetUpvalue, Ready, Idle
  <1>3. IsSound(v) /\ v = store[env[i]]
    BY <1>2, SlotsFacts, ReadyMeaning
  <1>4. u \in Live /\ Kind(heap[u]) = "upvalue"
    BY <1>2, UpvalueFacts DEF ClosureInv
  <1>5. heap[e].type = "stack_index" =>
              j \in 1 .. Len(stack) /\ upvalueStack[j] # Null
    BY <1>2, <1>4, DerefFacts DEF ClosureInv
  <1>6. Holds(x, e)
    BY <1>2, RunningVariables DEF MeaningInv
  <1>7. \/ heap[e].type = "stack_index" /\ stack' = [stack EXCEPT ![j] = v] /\ heap' = heap
        \/ /\ heap[e].type = "heap_object"
           /\ heap' = [heap EXCEPT ![heap[e].refs[1]] = Copy(v)] /\ stack' = stack
    BY <1>1 DEF SetThrough
  <1>8. Assign(x, v)
    BY <1>1, <1>3
  <1>9. heap[e].type = "stack_index" => env[j] = x
    BY <1>6, HeldFacts DEF MeaningInv, Names
  <1> HIDE DEF u, v, e, x, j
  <1>10. CASE heap[e].type = "stack_index" /\ stack' = [stack EXCEPT ![j] = v] /\ heap' = heap
    <2>1. j \in 1 .. Len(stack) /\ (j > Base \/ upvalueStack[j] # Null) /\ Assign(env[j], v)
      BY <1>5, <1>8, <1>9, <1>10
    <2> QED
      BY <1>2, <1>3, <1>10, <2>1, WriteSlotMeans
  <1>11. CASE /\ heap[e].type = "heap_object"
              /\ heap' = [heap EXCEPT ![heap[e].refs[1]] = Copy(v)] /\ stack' = stack
    BY <1>2, <1>3, <1>6, <1>8, <1>11, WriteCopyMeans
  <1> QED
    BY <1>7, <1>10, <1>11

-----------------------------------------------------------------------------
(* The end of a scope. *)

\* A variable leaves its slot for its copy, and the slot has a new one.
LEMMA ReleaseMeans ==
    ASSUME ClosureInv, MeaningInv, Ready, NEW i \in Slots, NEW c \in NewCell, Releases(i, c),
           env' = [env EXCEPT ![i] = Fresh(LiveClosures)], Assign(Fresh(LiveClosures), Nil),
           captured' = captured
    PROVE  MeaningInv'
  <1> DEFINE u == upvalueStack[i]
             x == Fresh(LiveClosures)
             y == env[i]
  <1>1. /\ ClosureInv' /\ Changes({c}, {u}) /\ Roots({c})
        /\ heap'[c] = Copy(stack[i]) /\ heap'[u] = HeapObject(c)
        /\ \A d \in Cells \ {c, u} : heap'[d] = heap[d]
    BY ReleaseKeeps
  <1>2. /\ EnvInv /\ CapturedInv /\ DistinctInv
        /\ env \in Seq(Variables) /\ Len(env) = Len(stack)
        /\ DOMAIN env = 1 .. Len(stack) /\ Len(stack) <= StackBound
        /\ stack \in Seq(Values) /\ DOMAIN stack = 1 .. Len(stack)
        /\ op.name = "idle" /\ op.array = Null
        /\ \A j \in 1 .. Len(stack) :
              env[j] \in Variables /\ env[j] \in Range(env) /\ stack[j] = store[env[j]]
    BY ReadyMeaning
  <1>3. i \in 1 .. Len(stack)
    BY SlotsFacts
  <1>4. x \in Variables /\ x \notin Range(env) /\ \A z, e : Holds(z, e) => z # x
    BY <1>2, FreshFacts
  <1>5. /\ u \in Live /\ heap[u].type = "stack_index" /\ heap[u].index = i
        /\ upvalueStack[i] # Null /\ op' = op
        /\ stack' = [stack EXCEPT ![i] = Nil]
    <2>1. /\ op = Idle /\ Len(upvalueStack) = Len(stack) /\ DOMAIN upvalueStack = 1 .. Len(stack)
          /\ \A j \in 1 .. Len(stack) : upvalueStack[j] = Null \/ upvalueStack[j] \in Live
      BY StackFacts DEF ClosureInv, Ready
    <2>2. heap[u] = StackIndex(i) /\ i \in Nat
      BY <1>3, <2>1 DEF ClosureInv, SlotsInv, Releases
    <2> QED
      BY <1>3, <2>1, <2>2, UpvalueObjects DEF Releases
  <1>6. c \in Cells /\ c \notin Live /\ u \in Cells
    BY <1>5, NewCellFacts, HeapFacts DEF ClosureInv
  <1>7. /\ Copy(stack[i]).type = "object" /\ Copy(stack[i]).value = stack[i]
        /\ HeapObject(c).type = "heap_object" /\ HeapObject(c).refs[1] = c
    BY DEF Copy, Cell, HeapObject
  <1>8. env' = [env EXCEPT ![i] = x] /\ store' = [store EXCEPT ![x] = Nil] /\ y = env[i]
    BY DEF Assign
  <1> HIDE DEF u, x, y
  <1>9. KeepsClosures({c}, {u})
    BY <1>1, <1>5, <1>7 DEF KeepsClosures
  <1>10. /\ LiveClosures' \subseteq LiveClosures
         /\ \A d \in LiveClosures' : heap'[d] = heap[d]
         /\ \A z, e : Holds(z, e)' => Holds(z, e)
    BY <1>2, <1>9, HoldsShrinks
  <1>11. Written(Variables, env, i, x, env')
    BY <1>2, <1>3, <1>4, <1>8, WrittenFacts
  <1>12. Nil \in Values /\ Written(Values, stack, i, Nil, stack')
    <2>1. Nil \in Values
      BY ClosuresAssumption DEF Values
    <2> QED
      BY <1>2, <1>3, <1>5, <2>1, WrittenFacts
  <1>13. /\ store' \in [Variables -> Values] /\ store'[x] = Nil
         /\ \A z \in Variables : z # x => store'[z] = store[z]
    BY <1>2, <1>4, <1>8, <1>12 DEF EnvInv
  <1>14. /\ DOMAIN env' = 1 .. Len(stack) /\ DOMAIN stack' = 1 .. Len(stack)
         /\ env' \in Seq(Variables) /\ Len(env') = Len(stack)
         /\ stack' \in Seq(Values) /\ Len(stack') = Len(stack)
    <2>1. /\ env' \in Seq(Variables) /\ Len(env') = Len(stack)
          /\ stack' \in Seq(Values) /\ Len(stack') = Len(stack)
      BY <1>2, <1>11, <1>12 DEF Written
    <2>2. DOMAIN env' = 1 .. Len(env') /\ DOMAIN stack' = 1 .. Len(stack')
      BY <2>1, SeqFacts
    <2> QED
      BY <2>1, <2>2
  <1>15. /\ env'[i] = x /\ stack'[i] = Nil
         /\ \A j \in 1 .. Len(stack) : j # i => env'[j] = env[j] /\ stack'[j] = stack[j]
    BY <1>2, <1>11, <1>12 DEF Written
  <1>16. IsInjective(env)
    BY <1>2 DEF EnvInv
  <1>17. \A j \in 1 .. Len(stack) : env[j] # x
    BY <1>2, <1>4
  <1>18. IsInjective(env')
    <2> SUFFICES ASSUME NEW j \in 1 .. Len(stack), NEW k \in 1 .. Len(stack), env'[j] = env'[k]
                 PROVE  j = k
      BY <1>14 DEF IsInjective
    <2>1. CASE j # i /\ k # i
      BY <1>2, <1>15, <1>16, <2>1 DEF IsInjective
    <2>2. CASE j = i \/ k = i
      BY <1>15, <1>17, <2>2
    <2> QED
      BY <2>1, <2>2
  <1>19. \A j \in 1 .. Len(stack) : stack'[j] = store'[env'[j]]
    BY <1>2, <1>13, <1>15, <1>17
  <1>20. EnvInv'
    BY <1>2, <1>5, <1>13, <1>14, <1>18, <1>19 DEF EnvInv
  <1>21. /\ y \in Variables /\ y \in Range(env) /\ y # x
         /\ store'[y] = stack[i] /\ y \notin Range(env')
    <2>1. y \in Variables /\ y \in Range(env) /\ y # x /\ store'[y] = stack[i]
      BY <1>2, <1>3, <1>8, <1>13, <1>17
    <2>2. ASSUME NEW j \in 1 .. Len(stack) PROVE env'[j] # y
      BY <1>2, <1>3, <1>8, <1>15, <1>16, <2>1 DEF IsInjective
    <2> QED
      BY <1>14, <2>1, <2>2 DEF Range
  <1>22. ASSUME NEW z \in Variables, NEW f \in Cells, Holds(z, f)'
         PROVE  /\ Names(f, z)' /\ Holds(z, f)
                /\ f = u => z = y
                /\ f # u => /\ heap'[f] = heap[f]
                            /\ heap[f].type = "heap_object" =>
                                  z \notin Range(env) /\ heap[f].refs[1] # c
    <2>1. /\ Holds(z, f) /\ f \in Live /\ Names(f, z)
          /\ heap[f].type \in {"stack_index", "heap_object"}
          /\ heap[f].type = "heap_object" =>
                /\ heap[f].refs[1] \in Live /\ heap[f].refs[1] \in Cells
                /\ heap[heap[f].refs[1]].type = "object"
      BY <1>2, <1>10, <1>22, HeldFacts
    <2>2. z # x
      BY <1>4, <2>1
    <2>3. CASE f = u
      <3>1. z = y
        BY <1>5, <1>8, <2>1, <2>3 DEF Names
      <3>2. heap'[heap'[f].refs[1]].value = store'[z]
        BY <1>1, <1>7, <1>21, <2>3, <3>1
      <3> QED
        BY <1>1, <1>7, <1>21, <2>1, <2>3, <3>1, <3>2 DEF Names
    <2>4. CASE f # u /\ heap[f].type = "stack_index"
      <3> DEFINE j == heap[f].index
      <3>1. j \in DOMAIN env /\ env[j] = z
        BY <2>1, <2>4 DEF Names
      <3>2. upvalueStack[j] = f
        BY <2>1, <2>4 DEF ClosureInv, UpvaluesNameTheirSlots
      <3>3. u = upvalueStack[i]
        BY DEF u
      <3> HIDE DEF j
      <3>4. j # i
        BY <2>4, <3>2, <3>3
      <3>5. heap'[f] = heap[f]
        BY <1>1, <1>6, <2>1, <2>4
      <3>6. j \in DOMAIN env' /\ env'[j] = z
        BY <1>2, <1>14, <1>15, <3>1, <3>4
      <3> QED
        BY <2>1, <2>4, <3>5, <3>6 DEF Names, j
    <2>5. CASE f # u /\ heap[f].type = "heap_object"
      <3>1. heap'[f] = heap[f] /\ heap[f].refs[1] # c /\ heap[f].refs[1] # u
        BY <1>1, <1>5, <1>6, <2>1, <2>5
      <3>2. heap'[heap[f].refs[1]] = heap[heap[f].refs[1]]
        BY <1>1, <2>1, <2>5, <3>1
      <3>3. z \notin Range(env) /\ heap[heap[f].refs[1]].value = store[z]
        BY <2>1, <2>5 DEF Names
      <3>4. z \notin Range(env')
        BY <1>11, <2>2, <3>3 DEF Written
      <3>5. store'[z] = store[z]
        BY <1>13, <2>2
      <3> QED
        BY <2>1, <2>5, <3>1, <3>2, <3>3, <3>4, <3>5 DEF Names
    <2> QED
      BY <2>1, <2>3, <2>4, <2>5
  <1>23. CapturedInv'
    BY <1>2, <1>10, <1>22 DEF CapturedInv
  <1>24. DistinctInv'
    <2> SUFFICES ASSUME NEW z \in Variables, NEW w \in Variables, NEW e \in Cells, NEW f \in Cells,
                        Holds(z, e)', heap'[e].type = "heap_object",
                        Holds(w, f)', heap'[f].type = "heap_object"
                 PROVE  /\ z = w <=> e = f
                        /\ heap'[e].refs[1] = heap'[f].refs[1] => e = f
      BY DEF DistinctInv
    <2>1. heap'[u].refs[1] = c
      BY <1>1, <1>7
    <2>2. CASE e = u /\ f = u
      BY <1>22, <2>2
    <2>3. CASE e = u /\ f # u
      BY <1>21, <1>22, <2>1, <2>3
    <2>4. CASE e # u /\ f = u
      BY <1>21, <1>22, <2>1, <2>4
    <2>5. CASE e # u /\ f # u
      BY <1>2, <1>22, <2>5 DEF DistinctInv
    <2> QED
      BY <2>2, <2>3, <2>4, <2>5
  <1>25. CapturesInv'
    BY <1>2, <1>5 DEF CapturesInv
  <1> QED
    BY <1>20, <1>23, <1>24, <1>25 DEF MeaningInv

LiveEnds ==
    \A c \in LiveClosures : \A k \in DOMAIN heap[c].refs :
        \A e \in Ends(heap, heap[c].refs[k]) : e \in Live

LEMMA EndsAreLive == ClosureInv => LiveEnds
  <1> SUFFICES ASSUME ClosureInv, NEW c \in LiveClosures, NEW k \in DOMAIN heap[c].refs,
                      NEW e \in Ends(heap, heap[c].refs[k])
               PROVE  e \in Live
    BY DEF LiveEnds
  <1>1. heap[c].refs[k] \in Live /\ Kind(heap[heap[c].refs[k]]) = "upvalue"
    BY ClosureFacts DEF ClosureInv
  <1> DEFINE u == heap[c].refs[k]
  <1>2. u \in Live /\ Kind(heap[u]) = "upvalue" /\ e \in Ends(heap, u)
    BY <1>1
  <1> HIDE DEF u
  <1> QED
    BY <1>2, EndFacts DEF ClosureInv

LEMMA EndsStayLive == ClosureInv' => LiveEnds'
  BY EndsAreLive, PTL

LEMMA HeldIsLive ==
    ASSUME ClosureInv, ClosureInv', CapturedInv, NEW N, NEW T, KeepsClosures(N, T),
           NEW x, NEW e, Holds(x, e)'
    PROVE  e \in Live'
  <1>1. captured' = captured
    BY DEF KeepsClosures
  <1>2. PICK c \in LiveClosures' :
            \E k \in DOMAIN captured[c] :
                x = captured[c][k] /\ e \in Ends(heap', heap'[c].refs[k])
    BY <1>1 DEF Holds
  <1>3. PICK k \in DOMAIN captured[c] : e \in Ends(heap', heap'[c].refs[k])
    BY <1>2
  <1>4. c \in LiveClosures /\ heap'[c] = heap[c]
    BY HoldsShrinks
  <1>5. k \in DOMAIN heap'[c].refs
    BY <1>4, CapturedFacts
  <1> QED
    BY <1>3, <1>5, EndsStayLive DEF LiveEnds

\* The first elements of a sequence, and perhaps the last.
LEMMA ShortFacts ==
    ASSUME NEW S, NEW s \in Seq(S), NEW n \in Nat, n + 1 <= Len(s), NEW t,
           t = SubSeq(s, 1, n) \/ t = Append(SubSeq(s, 1, n), s[Len(s)])
    PROVE  /\ t \in Seq(S) /\ Range(t) \subseteq Range(s)
           /\ \A i \in 1 .. n : t[i] = s[i]
           /\ t = SubSeq(s, 1, n) => Len(t) = n
           /\ t = Append(SubSeq(s, 1, n), s[Len(s)]) => Len(t) = n + 1 /\ t[n + 1] = s[Len(s)]
  <1> DEFINE front == SubSeq(s, 1, n)
             m == Len(s)
             v == s[m]
  <1>1. m \in Nat /\ n + 1 <= m
    BY SeqFacts
  <1>2. n <= m /\ m \in 1 .. m
    <2> HIDE DEF m
    <2> QED
      BY <1>1
  <1>3. v \in S /\ v \in Range(s)
    BY <1>2, SeqFacts, RangeFacts
  <1>4. /\ front \in Seq(S) /\ Len(front) = n
        /\ \A i \in 1 .. n : front[i] = s[i]
        /\ Range(front) \subseteq Range(s)
    BY <1>2, PrefixFacts
  <1>5. t = front \/ t = Append(front, v)
    OBVIOUS
  <1> HIDE DEF front, v, m
  <1>6. /\ Append(front, v) \in Seq(S) /\ Len(Append(front, v)) = n + 1
        /\ \A i \in 1 .. n : Append(front, v)[i] = front[i]
        /\ Append(front, v)[n + 1] = v
        /\ Range(Append(front, v)) = Range(front) \cup {v}
    BY <1>3, <1>4, AppendFacts
  <1>7. /\ t \in Seq(S) /\ Range(t) \subseteq Range(s)
        /\ \A i \in 1 .. n : t[i] = s[i]
        /\ t = front => Len(t) = n
        /\ t = Append(front, v) => Len(t) = n + 1 /\ t[n + 1] = v
    BY <1>3, <1>4, <1>5, <1>6
  <1> QED
    BY <1>7 DEF front, v, m

\* Slots are popped, and with them their variables.
LEMMA TruncateMeans ==
    ASSUME ClosureInv, MeaningInv, Ready, NEW n, Truncates(n),
           \/ /\ stack' = SubSeq(stack, 1, n)
              /\ env' = SubSeq(env, 1, n)
           \/ /\ stack' = Append(SubSeq(stack, 1, n), stack[Len(stack)])
              /\ env' = Append(SubSeq(env, 1, n), env[Len(env)]),
           store' = store, captured' = captured
    PROVE  MeaningInv'
  <1> DEFINE m == Len(stack)
             origin(j) == IF j <= n THEN j ELSE m
  <1>1. /\ ClosureInv' /\ Changes({}, {}) /\ Roots({})
        /\ \A i \in DOMAIN upvalueStack' : upvalueStack'[i] # Null => i \in 1 .. n
    BY TruncateKeeps
  <1>2. /\ EnvInv /\ CapturedInv /\ DistinctInv
        /\ env \in Seq(Variables) /\ Len(env) = m /\ m <= StackBound
        /\ DOMAIN env = 1 .. m /\ stack \in Seq(Values)
        /\ op.name = "idle" /\ op.array = Null
        /\ \A j \in 1 .. m : env[j] \in Variables /\ stack[j] = store[env[j]]
    BY ReadyMeaning
  <1>3. n \in Nat /\ n + 1 <= m /\ m \in Nat /\ StackBound \in Nat /\ heap' = heap /\ op' = op
    BY StackFacts, ClosuresAssumption DEF Truncates, ClosureInv
  <1>4. KeepsClosures({}, {})
    BY <1>1, <1>3 DEF KeepsClosures
  <1>5. /\ stack' \in Seq(Values) /\ env' \in Seq(Variables) /\ Range(env') \subseteq Range(env)
        /\ \A i \in 1 .. n : stack'[i] = stack[i] /\ env'[i] = env[i]
        /\ \/ Len(stack') = n /\ Len(env') = n
           \/ /\ Len(stack') = n + 1 /\ Len(env') = n + 1
              /\ stack'[n + 1] = stack[m] /\ env'[n + 1] = env[m]
    <2>1. n + 1 <= Len(env) /\ n + 1 <= Len(stack)
      BY <1>2, <1>3
    <2>2. CASE stack' = SubSeq(stack, 1, n) /\ env' = SubSeq(env, 1, n)
      <3>1. /\ stack' \in Seq(Values) /\ Len(stack') = n
            /\ \A i \in 1 .. n : stack'[i] = stack[i]
        BY <1>2, <1>3, <2>1, <2>2, ShortFacts
      <3>2. /\ env' \in Seq(Variables) /\ Len(env') = n /\ Range(env') \subseteq Range(env)
            /\ \A i \in 1 .. n : env'[i] = env[i]
        <4> DEFINE t == env'
        <4>1. t = SubSeq(env, 1, n) \/ t = Append(SubSeq(env, 1, n), env[Len(env)])
          BY <2>2
        <4>2. t = SubSeq(env, 1, n)
          BY <2>2
        <4> HIDE DEF t
        <4>3. n \in Nat /\ n + 1 <= Len(env) /\ env \in Seq(Variables)
          BY <1>2, <1>3, <2>1
        <4>4. /\ t \in Seq(Variables) /\ Len(t) = n /\ Range(t) \subseteq Range(env)
              /\ \A i \in 1 .. n : t[i] = env[i]
          <5>1. /\ t \in Seq(Variables) /\ Range(t) \subseteq Range(env)
                /\ \A i \in 1 .. n : t[i] = env[i]
                /\ t = SubSeq(env, 1, n) => Len(t) = n
                /\ t = Append(SubSeq(env, 1, n), env[Len(env)]) =>
                       Len(t) = n + 1 /\ t[n + 1] = env[Len(env)]
            BY <4>1, <4>3, ShortFacts
          <5> QED
            BY <4>2, <5>1
        <4> QED
          BY <4>4 DEF t
      <3> QED
        BY <3>1, <3>2
    <2>3. CASE /\ stack' = Append(SubSeq(stack, 1, n), stack[Len(stack)])
               /\ env' = Append(SubSeq(env, 1, n), env[Len(env)])
      <3>1. /\ stack' \in Seq(Values) /\ Len(stack') = n + 1 /\ stack'[n + 1] = stack[Len(stack)]
            /\ \A i \in 1 .. n : stack'[i] = stack[i]
        BY <1>2, <1>3, <2>1, <2>3, ShortFacts
      <3>2. /\ env' \in Seq(Variables) /\ Len(env') = n + 1 /\ Range(env') \subseteq Range(env)
            /\ env'[n + 1] = env[Len(env)]
            /\ \A i \in 1 .. n : env'[i] = env[i]
        <4> DEFINE t == env'
        <4>1. t = SubSeq(env, 1, n) \/ t = Append(SubSeq(env, 1, n), env[Len(env)])
          BY <2>3
        <4>2. t = Append(SubSeq(env, 1, n), env[Len(env)])
          BY <2>3
        <4> HIDE DEF t
        <4>3. n \in Nat /\ n + 1 <= Len(env) /\ env \in Seq(Variables)
          BY <1>2, <1>3, <2>1
        <4>4. /\ t \in Seq(Variables) /\ Len(t) = n + 1 /\ Range(t) \subseteq Range(env)
              /\ \A i \in 1 .. n : t[i] = env[i]
              /\ t[n + 1] = env[Len(env)]
          <5>1. /\ t \in Seq(Variables) /\ Range(t) \subseteq Range(env)
                /\ \A i \in 1 .. n : t[i] = env[i]
                /\ t = SubSeq(env, 1, n) => Len(t) = n
                /\ t = Append(SubSeq(env, 1, n), env[Len(env)]) =>
                       Len(t) = n + 1 /\ t[n + 1] = env[Len(env)]
            BY <4>1, <4>3, ShortFacts
          <5> QED
            BY <4>2, <5>1
        <4> QED
          BY <4>4 DEF t
      <3> QED
        BY <1>2, <3>1, <3>2
    <2> QED
      BY <2>2, <2>3
  <1> HIDE DEF m
  <1>6. DOMAIN env' = 1 .. Len(env') /\ DOMAIN stack' = 1 .. Len(stack')
    BY <1>5, SeqFacts
  <1>7. /\ Len(stack') = Len(env') /\ Len(env') \in Nat /\ Len(env') <= m
        /\ 1 .. n \subseteq 1 .. Len(env')
        /\ \A j \in 1 .. Len(env') : j \in 1 .. n \/ (j = n + 1 /\ Len(env') = n + 1)
    BY <1>3, <1>5
  <1>8. ASSUME NEW j \in 1 .. Len(env')
        PROVE  origin(j) \in 1 .. m /\ env'[j] = env[origin(j)] /\ stack'[j] = stack[origin(j)]
    <2>1. CASE j \in 1 .. n
      BY <1>3, <1>5, <2>1
    <2>2. CASE j = n + 1 /\ Len(env') = n + 1
      BY <1>3, <1>5, <2>2
    <2> QED
      BY <1>7, <2>1, <2>2
  <1>9. ASSUME NEW j \in 1 .. Len(env'), NEW k \in 1 .. Len(env'), origin(j) = origin(k)
        PROVE  j = k
    BY <1>3, <1>7, <1>9
  <1> HIDE DEF origin
  <1>10. IsInjective(env')
    <2> SUFFICES ASSUME NEW j \in 1 .. Len(env'), NEW k \in 1 .. Len(env'), env'[j] = env'[k]
                 PROVE  j = k
      BY <1>6 DEF IsInjective
    <2>1. origin(j) = origin(k)
      BY <1>2, <1>8 DEF EnvInv, IsInjective
    <2> QED
      BY <1>9, <2>1
  <1>11. \A j \in DOMAIN env' : j \in DOMAIN stack' /\ stack'[j] = store'[env'[j]]
    BY <1>2, <1>6, <1>7, <1>8
  <1>12. Len(stack') <= StackBound
    BY <1>2, <1>3, <1>7
  <1>13. EnvInv'
    BY <1>2, <1>3, <1>5, <1>7, <1>10, <1>11, <1>12 DEF EnvInv
  <1>14. CapturesInv'
    BY <1>2, <1>3 DEF CapturesInv
  <1>15. ASSUME NEW x \in Variables, NEW e \in Cells, Holds(x, e), Holds(x, e)'
         PROVE  Names(e, x)'
    <2>1. heap[e].type = "stack_index" =>
              heap[e].index \in DOMAIN env' /\ env'[heap[e].index] = env[heap[e].index]
      <3> SUFFICES ASSUME heap[e].type = "stack_index"
                   PROVE  heap[e].index \in DOMAIN env' /\ env'[heap[e].index] = env[heap[e].index]
        OBVIOUS
      <3>1. e \in Live' /\ heap'[e].type = "stack_index"
        BY <1>1, <1>2, <1>3, <1>4, <1>15, HeldIsLive
      <3>2. heap'[e].index \in DOMAIN upvalueStack' /\ upvalueStack'[heap'[e].index] = e
        BY <1>1, <3>1 DEF ClosureInv, UpvaluesNameTheirSlots
      <3>3. heap[e].index \in 1 .. n
        BY <1>1, <1>3, <3>2, NullAssumption DEF Cells
      <3> QED
        BY <1>5, <1>6, <1>7, <3>3
    <2>2. x \notin Range(env) => x \notin Range(env') /\ store'[x] = store[x]
      BY <1>5
    <2>3. \A d \in {} : Kind(heap[d]) \notin {"upvalue", "object"}
      OBVIOUS
    <2> QED
      BY <1>1, <1>2, <1>15, <2>1, <2>2, <2>3, NamesKept
  <1>16. \A d \in {} : Kind(heap[d]) # "upvalue"
    OBVIOUS
  <1> QED
    BY <1>4, <1>13, <1>14, <1>15, <1>16, MeaningKept

LEMMA PopMeans == ASSUME ClosureInv, MeaningInv, Pop PROVE MeaningInv'
  <1> DEFINE n == Len(stack) - 1
  <1>1. Ready /\ store' = store /\ captured' = captured
    BY DEF Pop
  <1>2. Truncates(n)
    BY PopTruncates
  <1>3. Len(env) = Len(stack)
    BY <1>1, ReadyMeaning
  <1>4. stack' = SubSeq(stack, 1, n) /\ env' = SubSeq(env, 1, n)
    BY <1>3 DEF Pop, Front
  <1> HIDE DEF n
  <1> QED
    BY <1>1, <1>2, <1>4, TruncateMeans

LEMMA ReturnMeans == ASSUME ClosureInv, MeaningInv, Return PROVE MeaningInv'
  <1> DEFINE n == Base
  <1>1. Ready /\ store' = store /\ captured' = captured
    BY DEF Return
  <1>2. Truncates(n)
    BY ReturnTruncates
  <1>3. /\ stack' = Append(SubSeq(stack, 1, n), stack[Len(stack)])
        /\ env' = Append(SubSeq(env, 1, n), env[Len(env)])
    BY DEF Return, Last
  <1> HIDE DEF n
  <1> QED
    BY <1>1, <1>2, <1>3, TruncateMeans

-----------------------------------------------------------------------------
(* Steps that write nothing. *)

LEMMA HistoryStays ==
    ASSUME MeaningInv, heap' = heap, stack' = stack, upvalueStack' = upvalueStack,
           env' = env, store' = store, captured' = captured,
           op'.array = op.array,
           op'.name = "outOfMemory" \/ (op' = op /\ (op.name = "idle" \/ calls' = calls))
    PROVE  MeaningInv'
  <1>1. LiveClosures' = LiveClosures
    BY DEF LiveClosures, Live, RootCells, StackCells
  <1>2. \A x, e : Holds(x, e)' = Holds(x, e)
    BY <1>1 DEF Holds
  <1>3. \A x, e : Names(e, x)' = Names(e, x)
    BY DEF Names
  <1>4. EnvInv'
    BY DEF MeaningInv, EnvInv
  <1>5. CapturedInv'
    BY <1>1, <1>2, <1>3 DEF MeaningInv, CapturedInv
  <1>6. DistinctInv'
    BY <1>2 DEF MeaningInv, DistinctInv
  <1>7. CapturesInv'
    <2>1. CASE op'.name = "outOfMemory"
      BY <2>1 DEF CapturesInv
    <2>2. CASE op' = op /\ op.name = "idle"
      BY <2>2 DEF CapturesInv
    <2>3. CASE op' = op /\ calls' = calls
      BY <2>3 DEF MeaningInv, CapturesInv, Upvalues
    <2> QED
      BY <2>1, <2>2, <2>3
  <1> QED
    BY <1>4, <1>5, <1>6, <1>7 DEF MeaningInv

LEMMA OutOfMemoryMeans == ASSUME ClosureInv, MeaningInv, OutOfMemory PROVE MeaningInv'
  <1>1. op'.array = op.array /\ op'.name = "outOfMemory"
    BY DEF OutOfMemory, ClosureInv, TypeOK
  <1> QED
    BY <1>1, HistoryStays DEF OutOfMemory, history

LEMMA FuncallMeans == ASSUME ClosureInv, MeaningInv, Funcall PROVE MeaningInv'
  BY HistoryStays DEF Funcall, Ready, Idle, history

LEMMA StutterMeans == ASSUME MeaningInv, UNCHANGED vars PROVE MeaningInv'
  BY HistoryStays DEF vars, machine, history

LEMMA ReleaseUpvalueMeans == ASSUME ClosureInv, MeaningInv, ReleaseUpvalue PROVE MeaningInv'
  <1>1. CASE OutOfMemory
    BY <1>1, OutOfMemoryMeans
  <1>2. CASE ~OutOfMemory
    <2>1. PICK i \in Slots, c \in NewCell :
              /\ upvalueStack[i] # Null
              /\ heap' = [heap EXCEPT ![c] = Copy(stack[i]), ![upvalueStack[i]] = HeapObject(c)]
              /\ stack' = [stack EXCEPT ![i] = Nil]
              /\ upvalueStack' = [upvalueStack EXCEPT ![i] = Null]
              /\ env' = [env EXCEPT ![i] = Fresh(LiveClosures)]
              /\ Assign(Fresh(LiveClosures), Nil)
              /\ calls' = calls /\ op' = op /\ captured' = captured
      BY <1>2 DEF ReleaseUpvalue
    <2>2. Releases(i, c)
      BY <2>1 DEF Releases
    <2>3. Ready
      BY DEF ReleaseUpvalue
    <2> QED
      BY <2>1, <2>2, <2>3, ReleaseMeans
  <1> QED
    BY <1>1, <1>2

LEMMA InitMeans == ASSUME Init PROVE MeaningInv
  <1>1. /\ stack = <<>> /\ upvalueStack = <<>> /\ env = <<>> /\ op = Idle
        /\ store = [x \in Variables |-> Nil] /\ captured = [c \in Cells |-> <<>>]
        /\ heap = [c \in Cells |-> Cell("none", <<>>)]
    BY DEF Init
  <1>2. EnvInv
    <2>1. Nil \in Values /\ StackBound \in Nat
      BY ClosuresAssumption DEF Values
    <2>2. env \in Seq(Variables) /\ Len(env) = 0 /\ DOMAIN env = {} /\ Len(stack) = 0
      BY <1>1
    <2>3. op.name = "idle"
      BY <1>1 DEF Idle
    <2>4. IsInjective(env)
      BY <2>2 DEF IsInjective
    <2> QED
      BY <1>1, <2>1, <2>2, <2>3, <2>4 DEF EnvInv
  <1>3. LiveClosures = {}
    <2>1. \A c \in Cells : heap[c].type = "none"
      BY <1>1 DEF Cell
    <2>2. Live \subseteq Cells
      BY InitIsSound, HeapFacts DEF ClosureInv
    <2> QED
      BY <2>1, <2>2 DEF LiveClosures
  <1>4. \A x, e : ~Holds(x, e)
    BY <1>3 DEF Holds
  <1>5. CapturedInv
    <2>1. \A c \in Cells : captured[c] = <<>>
      BY <1>1
    <2>2. <<>> \in Seq(Variables)
      OBVIOUS
    <2> QED
      BY <1>1, <1>3, <1>4, <2>1, <2>2 DEF CapturedInv
  <1>6. DistinctInv
    BY <1>4 DEF DistinctInv
  <1>7. CapturesInv
    BY <1>1 DEF CapturesInv, Idle
  <1> QED
    BY <1>2, <1>5, <1>6, <1>7 DEF MeaningInv

-----------------------------------------------------------------------------
(* push-closure. *)

LEMMA BeginMeans ==
    ASSUME ClosureInv, MeaningInv, Ready, HasRoom,
           NEW n \in 0 .. CaptureBound, NEW arity \in Arities,
           NEW captures \in [1 .. n -> Captures], NEW c \in NewCell,
           heap' = [heap EXCEPT ![c] = UpvalueArray([k \in 1 .. n |-> Null])],
           stack' = Append(stack, Closure(c, arity)),
           op' = [name |-> "pushClosure", captures |-> captures, next |-> 1,
                  array |-> c, arity |-> arity],
           upvalueStack' = upvalueStack, calls' = calls, UNCHANGED history
    PROVE  MeaningInv'
  <1>1. ClosureInv' /\ Changes({c}, {}) /\ Roots({c})
    BY BeginKeeps
  <1>2. /\ EnvInv /\ CapturedInv /\ DistinctInv
        /\ env \in Seq(Variables) /\ Len(env) = Len(stack) /\ Len(stack) < StackBound
        /\ DOMAIN env = 1 .. Len(stack) /\ Len(env) \in Nat
        /\ stack \in Seq(Values) /\ op.array = Null
    BY ReadyMeaning DEF HasRoom
  <1>3. /\ op'.name = "pushClosure" /\ op'.array = c /\ op'.next = 1
        /\ env' = env /\ store' = store /\ captured' = captured
    BY DEF history
  <1>4. KeepsClosures({c}, {})
    BY <1>1, <1>2, <1>3 DEF KeepsClosures
  <1>5. Closure(c, arity) \in Values
    BY NewCellFacts DEF ClosureInv, Values, Closure
  <1>6. /\ Len(stack') = Len(stack) + 1
        /\ \A i \in 1 .. Len(stack) : stack'[i] = stack[i]
        /\ stack' \in Seq(Values)
    <2> DEFINE v == Closure(c, arity)
    <2>1. v \in Values /\ stack' = Append(stack, v)
      BY <1>5
    <2> HIDE DEF v
    <2> QED
      BY <1>2, <2>1, AppendFacts
  <1>7. EnvInv'
    <2>1. DOMAIN stack' = 1 .. Len(stack')
      BY <1>6, SeqFacts
    <2>2. /\ Len(stack') <= StackBound /\ Len(stack') = Len(env) + 1
          /\ \A i \in 1 .. Len(stack) : i \in 1 .. Len(stack')
      <3> DEFINE l == Len(stack)
                 m == Len(stack')
      <3>1. l \in Nat /\ m = l + 1 /\ l < StackBound /\ StackBound \in Nat /\ Len(env) = l
        BY <1>2, <1>6, ClosuresAssumption
      <3> HIDE DEF l, m
      <3>2. m <= StackBound /\ m = Len(env) + 1 /\ \A i \in 1 .. l : i \in 1 .. m
        BY <3>1
      <3> QED
        BY <3>2 DEF l, m
    <2>3. \A i \in DOMAIN env' : i \in DOMAIN stack' /\ stack'[i] = store'[env'[i]]
      BY <1>2, <1>3, <1>6, <2>1, <2>2 DEF EnvInv
    <2> QED
      BY <1>2, <1>3, <2>2, <2>3 DEF EnvInv
  <1>8. CapturesInv'
    BY <1>3 DEF CapturesInv
  <1>9. \A d \in {} : Kind(heap[d]) \notin {"upvalue", "object"}
    OBVIOUS
  <1>10. ASSUME NEW x \in Variables, NEW e \in Cells, Holds(x, e), Holds(x, e)'
         PROVE  Names(e, x)'
    <2>1. heap[e].type = "stack_index" =>
              heap[e].index \in DOMAIN env' /\ env'[heap[e].index] = env[heap[e].index]
      BY <1>2, <1>3, <1>10, HeldFacts DEF Names
    <2> QED
      BY <1>1, <1>2, <1>3, <1>9, <1>10, <2>1, NamesKept
  <1>11. \A d \in {} : Kind(heap[d]) # "upvalue"
    OBVIOUS
  <1> QED
    BY <1>4, <1>7, <1>8, <1>10, <1>11, MeaningKept

LEMMA BeginPushClosureMeans ==
    ASSUME ClosureInv, MeaningInv, BeginPushClosure PROVE MeaningInv'
  <1>1. CASE OutOfMemory
    BY <1>1, OutOfMemoryMeans
  <1>2. CASE ~OutOfMemory
    BY <1>2, BeginMeans DEF BeginPushClosure
  <1> QED
    BY <1>1, <1>2

LEMMA GetsMeans ==
    ASSUME ClosureInv, MeaningInv, Capturing, NEW N, NEW cells, NEW u, Gets(N, cells, u),
           UNCHANGED history
    PROVE  MeaningInv'
  <1> DEFINE a == op.array
  <1>1. /\ ClosureInv' /\ Changes(N, {a}) /\ Roots(N)
        /\ \A d \in N : Kind(heap'[d]) = "upvalue"
        /\ heap'[u] = UpvalueFor(Source)
        /\ heap'[a].refs[op.next] = u
        /\ \A k \in 1 .. op.next - 1 : heap'[a].refs[k] = heap[a].refs[k]
    BY CapturedKeeps
  <1>2. /\ op.name = "pushClosure" /\ a \in Live /\ a \in Cells
        /\ heap[a] \in Objects /\ heap[a].type = "array" /\ heap[a].refs \in Seq(Pointers)
        /\ Len(heap[a].refs) = Len(op.captures)
        /\ op.next \in 1 .. Len(op.captures) /\ Len(op.captures) \in Nat
    BY CapturingFacts
  <1>3. /\ op' = [op EXCEPT !.next = @ + 1] /\ stack' = stack /\ calls' = calls
        /\ env' = env /\ store' = store /\ captured' = captured
    BY DEF Gets, history
  <1>4. /\ op'.name = "pushClosure" /\ op'.array = a /\ op'.captures = op.captures
        /\ op'.next = op.next + 1
    BY <1>2, <1>3 DEF ClosureInv, TypeOK
  <1>5. EnvInv /\ CapturedInv /\ DistinctInv /\ CapturesInv
    BY DEF MeaningInv
  <1> HIDE DEF a
  <1>6. Kind(heap[a]) = "array"
    BY <1>2, ArraysAreAKind
  <1>7. KeepsClosures(N, {a})
    <2>1. \A d \in N : heap'[d].type # "array"
      BY <1>1, ArraysAreAKind
    <2>2. a = op.array
      BY DEF a
    <2> QED
      BY <1>1, <1>3, <1>4, <2>1, <2>2 DEF KeepsClosures
  <1>8. EnvInv'
    BY <1>2, <1>3, <1>4, <1>5 DEF EnvInv
  <1>9. Upvalues' = Upvalues
    <2>1. calls # <<>> => Last(calls).closure \notin {a}
      BY <1>2 DEF ClosureInv, PushInv, a
    <2> QED
      BY <1>1, <1>3, <2>1, UpvaluesStay
  <1>10. ASSUME NEW k \in 1 .. op'.next - 1
         PROVE  heap'[heap'[a].refs[k]] = UpvalueFor(op.captures[k])
    <2>1. CASE k = op.next
      BY <1>1, <2>1 DEF Source
    <2>2. CASE k # op.next
      <3> DEFINE p == heap[a].refs[k]
      <3>1. k \in 1 .. op.next - 1 /\ k \in 1 .. Len(op.captures)
        BY <1>2, <1>4, <2>2
      <3>2. heap'[a].refs[k] = p /\ p # Null /\ p \in Pointers /\ k \in DOMAIN heap[a].refs
        BY <1>1, <1>2, <3>1, SeqFacts DEF ClosureInv, PushInv, a
      <3>3. heap[p] = UpvalueFor(op.captures[k])
        BY <1>2, <1>5, <3>1 DEF CapturesInv, UpvalueFor, a
      <3>4. p \in Live
        <4>1. p \in Children(heap[a])
          <5>1. heap[a].initialized
            BY <1>2 DEF ClosureInv, HeapInv, WellFormed
          <5>2. p \in Range(heap[a].refs)
            BY <3>2 DEF Range
          <5> QED
            BY <3>2, <5>1, <5>2 DEF Children, Traced
        <4> QED
          BY <1>2, <4>1, HeapFacts DEF ClosureInv
      <3>5. heap[p].type # "array"
        BY <3>3 DEF UpvalueFor, HeapUpvalue, StackIndex, Cell
      <3> HIDE DEF p
      <3>6. heap'[p] = heap[p]
        BY <1>1, <1>2, <3>4, <3>5, HeapFacts DEF Changes, ClosureInv
      <3> QED
        BY <3>2, <3>3, <3>6
    <2> QED
      BY <2>1, <2>2
  <1>11. CapturesInv'
    BY <1>4, <1>9, <1>10 DEF CapturesInv, UpvalueFor
  <1>12. \A d \in {a} : Kind(heap[d]) \notin {"upvalue", "object"}
    BY <1>6
  <1>13. ASSUME NEW x \in Variables, NEW e \in Cells, Holds(x, e), Holds(x, e)'
         PROVE  Names(e, x)'
    <2>1. heap[e].type = "stack_index" =>
              heap[e].index \in DOMAIN env' /\ env'[heap[e].index] = env[heap[e].index]
      BY <1>3, <1>5, <1>13, HeldFacts DEF Names
    <2> QED
      BY <1>1, <1>3, <1>5, <1>12, <1>13, <2>1, NamesKept
  <1> QED
    BY <1>7, <1>8, <1>11, <1>12, <1>13, MeaningKept

LEMMA CaptureMeans ==
    ASSUME ClosureInv, MeaningInv,
           CaptureSelf \/ CaptureUpvalue \/ CaptureSlot \/ CaptureAgain
    PROVE  MeaningInv'
  <1>1. Capturing /\ (OutOfMemory \/ \E N, cells, u : Gets(N, cells, u))
    BY CaptureGets
  <1>2. UNCHANGED history
    BY DEF CaptureSelf, CaptureUpvalue, CaptureSlot, CaptureAgain, NewUpvalue, Captured, OutOfMemory
  <1> QED
    BY <1>1, <1>2, OutOfMemoryMeans, GetsMeans

\* The closure being pushed can be used now, and reaches the variables it captured.
LEMMA FinishPushClosureMeans ==
    ASSUME ClosureInv, MeaningInv, FinishPushClosure PROVE MeaningInv'
  <1> DEFINE a == op.array
             v == Closure(a, op.arity)
             n == Len(env)
             x == Last(env')
  <1>1. /\ ClosureInv' /\ Changes({}, {}) /\ Roots({})
        /\ \A i \in 1 .. Len(stack) : stack'[i] = stack[i]
        /\ stack' \in Seq(Values) /\ Len(stack') = Len(stack)
    BY FinishPushClosureKeeps
  <1>2. /\ op.name = "pushClosure" /\ op.next \notin DOMAIN op.captures
        /\ heap' = heap /\ calls' = calls /\ op' = Idle /\ Declare(v)
        /\ captured' = [captured EXCEPT ![a] =
               [k \in DOMAIN op.captures |-> CapturedVariable(op.captures[k], x)]]
    BY DEF FinishPushClosure, Capturing
  <1>3. /\ EnvInv /\ CapturedInv /\ DistinctInv /\ CapturesInv
        /\ env \in Seq(Variables) /\ Len(stack) = n + 1 /\ Len(stack) <= StackBound
    BY <1>2 DEF MeaningInv, EnvInv
  <1>4. /\ a \in Cells /\ heap[a].type = "array" /\ Len(heap[a].refs) = Len(op.captures)
        /\ stack # <<>> /\ Last(stack) = v
        /\ \A k \in DOMAIN op.captures :
               op.captures[k] \in Slots \/ -op.captures[k] \in DOMAIN Upvalues
    BY <1>2 DEF ClosureInv, PushInv
  <1>5. /\ op.captures \in Seq(Int) /\ heap[a] \in Objects /\ heap[a].refs \in Seq(Pointers)
        /\ captured \in [Cells -> Seq(Variables)]
        /\ op.next \in Nat \ {0}
    BY <1>3, <1>4 DEF ClosureInv, TypeOK, CapturedInv, Objects
  <1>6. /\ DOMAIN op.captures = 1 .. Len(op.captures) /\ Len(op.captures) \in Nat
        /\ DOMAIN heap[a].refs = 1 .. Len(op.captures)
    <2>1. /\ DOMAIN op.captures = 1 .. Len(op.captures) /\ Len(op.captures) \in Nat
          /\ DOMAIN heap[a].refs = 1 .. Len(heap[a].refs)
      BY <1>5, SeqFacts
    <2> QED
      BY <1>4, <2>1
  <1>7. /\ \A k \in DOMAIN op.captures : k \in 1 .. op.next - 1 /\ k \in DOMAIN heap[a].refs
        /\ \A k \in DOMAIN op.captures : heap[a].refs[k] \in Cells
    <2>1. ASSUME NEW k \in DOMAIN op.captures PROVE k \in 1 .. op.next - 1
      BY <1>2, <1>5, <1>6
    <2>2. ASSUME NEW k \in DOMAIN op.captures PROVE heap[a].refs[k] \in Cells
      <3>1. heap[a].refs[k] # Null
        BY <1>2, <2>1 DEF ClosureInv, PushInv
      <3> QED
        BY <1>5, <1>6, <3>1, SeqFacts DEF Pointers
    <2> QED
      BY <1>6, <2>1, <2>2
  <1>8. n \in Nat /\ DOMAIN env = 1 .. n /\ n < StackBound /\ Len(stack) \in 1 .. Len(stack)
    <2>1. n \in Nat /\ DOMAIN env = 1 .. n
      BY <1>3, SeqFacts
    <2> HIDE DEF n
    <2> QED
      BY <1>3, <2>1, ClosuresAssumption
  <1>9. stack'[n + 1] = v /\ v \in Values /\ \A i \in 1 .. n : stack'[i] = stack[i]
    <2>1. stack'[Len(stack)] = v
      BY <1>1, <1>4, <1>8 DEF Last
    <2>2. v \in Values
      BY <1>4, <1>8, SeqFacts DEF ClosureInv, TypeOK, Last
    <2>3. \A i \in 1 .. n : i \in 1 .. n + 1
      BY <1>8
    <2> QED
      BY <1>1, <1>3, <2>1, <2>2, <2>3
  <1>10. op'.name = "idle" /\ op'.array = Null
    BY <1>2 DEF Idle
  <1>11. /\ EnvInv'
         /\ x = env'[n + 1] /\ DOMAIN env' = 1 .. n + 1
         /\ \A i \in DOMAIN env : i \in DOMAIN env' /\ env'[i] = env[i]
         /\ \A z, e : Holds(z, e) => /\ store'[z] = store[z]
                                     /\ z \notin Range(env) => z \notin Range(env')
    BY <1>1, <1>2, <1>3, <1>8, <1>9, <1>10, EnvGrows
  <1>12. env' \in Seq(Variables) /\ \A i \in 1 .. n + 1 : env'[i] \in Variables
    <2>1. env' \in Seq(Variables)
      BY <1>11 DEF EnvInv
    <2>2. DOMAIN env' = 1 .. Len(env') /\ \A i \in 1 .. Len(env') : env'[i] \in Variables
      BY <2>1, SeqFacts
    <2> QED
      BY <1>11, <2>1, <2>2
  <1> HIDE DEF x, v
  <1>13. ASSUME NEW k \in DOMAIN op.captures, op.captures[k] >= 0
         PROVE  /\ op.captures[k] \in 1 .. n + 1
                /\ CapturedVariable(op.captures[k], x) = env'[op.captures[k]]
    <2> DEFINE i == op.captures[k]
    <2>1. DOMAIN Upvalues = 1 .. Len(Upvalues)
      BY UpvaluesAreASeq
    <2>2. i \in Int /\ i >= 0 /\ (i \in Slots \/ -i \in DOMAIN Upvalues)
      BY <1>4, <1>5, <1>6, <1>13, SeqFacts
    <2>3. \A j \in Slots : j \in 1 .. Len(stack)
      BY SlotsFacts
    <2> HIDE DEF i
    <2>4. i \in 1 .. n + 1
      BY <1>3, <2>1, <2>2, <2>3
    <2>5. CASE i = n + 1
      BY <1>3, <1>11, <2>2, <2>4, <2>5 DEF CapturedVariable, i
    <2>6. CASE i # n + 1
      <3>1. i \in 1 .. n
        BY <1>8, <2>4, <2>6
      <3> QED
        BY <1>3, <1>8, <1>11, <2>2, <2>6, <3>1 DEF CapturedVariable, i
    <2> QED
      BY <2>4, <2>5, <2>6 DEF i
  <1>14. ASSUME NEW k \in DOMAIN op.captures, op.captures[k] < 0
         PROVE  /\ -op.captures[k] \in DOMAIN Upvalues
                /\ CapturedVariable(op.captures[k], x) = CapturedVariables[-op.captures[k]]
    <2> DEFINE i == op.captures[k]
    <2>1. \A j \in Slots : j >= 0
      BY SlotsFacts
    <2>2. i \in Int /\ i < 0 /\ (i \in Slots \/ -i \in DOMAIN Upvalues)
      BY <1>4, <1>5, <1>6, <1>14, SeqFacts
    <2> HIDE DEF i
    <2>3. -i \in DOMAIN Upvalues
      BY <2>1, <2>2
    <2>4. CapturedVariable(i, x) = CapturedVariables[-i]
      BY <2>2 DEF CapturedVariable
    <2> QED
      BY <2>3, <2>4 DEF i
  <1>15. ASSUME NEW k \in DOMAIN op.captures
         PROVE  CapturedVariable(op.captures[k], x) \in Variables
    <2>1. CASE op.captures[k] >= 0
      BY <1>12, <1>13, <2>1
    <2>2. CASE op.captures[k] < 0
      BY <1>2, <1>3, <1>14, <2>2, RunningVariables
    <2>3. op.captures[k] \in Int
      BY <1>5, <1>6, SeqFacts
    <2> QED
      BY <2>1, <2>2, <2>3
  <1>16. [k \in DOMAIN op.captures |-> CapturedVariable(op.captures[k], x)] \in Seq(Variables)
    BY <1>6, <1>15, SeqDef
  <1>17. /\ captured' \in [Cells -> Seq(Variables)]
         /\ captured'[a] = [k \in DOMAIN op.captures |-> CapturedVariable(op.captures[k], x)]
         /\ \A c \in Cells : c # a => captured'[c] = captured[c]
    <2> DEFINE variables == [k \in DOMAIN op.captures |-> CapturedVariable(op.captures[k], x)]
    <2>1. variables \in Seq(Variables) /\ captured' = [captured EXCEPT ![a] = variables]
      BY <1>2, <1>16
    <2> HIDE DEF variables
    <2>2. /\ captured' \in [Cells -> Seq(Variables)]
          /\ captured'[a] = variables
          /\ \A c \in Cells : c # a => captured'[c] = captured[c]
      BY <1>4, <1>5, <2>1
    <2> QED
      BY <2>2 DEF variables
  <1>18. ASSUME NEW c \in LiveClosures' PROVE c = a \/ (c \in LiveClosures /\ c # a /\ c \in Cells)
    <2>1. c \in Live' /\ heap[c].type = "array"
      BY <1>2 DEF LiveClosures
    <2>2. c \in Live /\ c \in Cells
      BY <1>1, <2>1, WritesBound, HeapFacts DEF ClosureInv
    <2> QED
      BY <2>1, <2>2 DEF LiveClosures
  <1>19. Chained(heap)
    BY DEF Chained, ClosureInv, TypeOK, HeapInv
  <1>20. ASSUME NEW k \in DOMAIN op.captures, NEW f \in Ends(heap, heap[a].refs[k])
         PROVE  \/ Holds(CapturedVariable(op.captures[k], x), f)
                \/ /\ heap[f].type = "stack_index" /\ heap[f].index \in DOMAIN env'
                   /\ env'[heap[f].index] = CapturedVariable(op.captures[k], x)
    <2> DEFINE p == heap[a].refs[k]
               i == op.captures[k]
    <2>1. p \in Cells /\ heap[p] = UpvalueFor(i)
      BY <1>2, <1>3, <1>7 DEF CapturesInv, UpvalueFor
    <2>2. IF Inner(heap, p) THEN Ends(heap, p) = Ends(heap, Outer(heap, p)) ELSE Ends(heap, p) = {p}
      <3> HIDE DEF p
      <3> QED
        BY <1>19, <2>1, EndsFacts
    <2>3. CASE i < 0
      <3> DEFINE u == Upvalues[-i]
      <3>1. heap[p] = HeapUpvalue(u)
        BY <2>1, <2>3 DEF UpvalueFor
      <3>2. Inner(heap, p) /\ Outer(heap, p) = u
        <4> HIDE DEF u
        <4> QED
          BY <3>1 DEF Inner, Outer, HeapUpvalue, Cell
      <3>3. f \in Ends(heap, Upvalues[-i])
        BY <2>2, <3>2
      <3> QED
        BY <1>2, <1>3, <1>14, <2>3, <3>3, RunningVariables
    <2>4. CASE i >= 0
      <3>1. heap[p] = StackIndex(i) /\ i \in 1 .. n + 1 /\ i \in Nat
        BY <1>13, <2>1, <2>4 DEF UpvalueFor
      <3>2. heap[p].type = "stack_index" /\ heap[p].index = i
        BY <3>1, UpvalueObjects
      <3>3. f = p
        BY <2>2, <3>2 DEF Inner
      <3> QED
        BY <1>11, <1>13, <2>4, <3>1, <3>2, <3>3
    <2>5. i \in Int
      BY <1>5, <1>6, SeqFacts
    <2> HIDE DEF i
    <2> QED
      BY <2>3, <2>4, <2>5
  <1>21. ASSUME NEW z, NEW f, Holds(z, f)'
         PROVE  \/ Holds(z, f)
                \/ /\ heap[f].type = "stack_index" /\ heap[f].index \in DOMAIN env'
                   /\ env'[heap[f].index] = z
    <2>1. PICK c \in LiveClosures' :
              \E k \in DOMAIN captured'[c] :
                  z = captured'[c][k] /\ f \in Ends(heap, heap[c].refs[k])
      BY <1>2, <1>21 DEF Holds
    <2>2. PICK k \in DOMAIN captured'[c] :
              z = captured'[c][k] /\ f \in Ends(heap, heap[c].refs[k])
      BY <2>1
    <2>3. CASE c = a
      <3>1. k \in DOMAIN op.captures /\ z = CapturedVariable(op.captures[k], x)
        BY <1>17, <2>2, <2>3
      <3> QED
        BY <1>20, <2>2, <2>3, <3>1
    <2>4. CASE c # a
      BY <1>17, <1>18, <2>2, <2>4 DEF Holds
    <2> QED
      BY <2>3, <2>4
  <1>22. ASSUME NEW z \in Variables, NEW f \in Cells, Holds(z, f)'
         PROVE  /\ Names(f, z)'
                /\ heap[f].type = "heap_object" => Holds(z, f)
    <2>1. CASE Holds(z, f)
      <3>1. heap[f].type = "stack_index" =>
                heap[f].index \in DOMAIN env' /\ env'[heap[f].index] = env[heap[f].index]
        BY <1>3, <1>11, <2>1, HeldFacts DEF Names
      <3>2. z \notin Range(env) => z \notin Range(env') /\ store'[z] = store[z]
        BY <1>11, <2>1
      <3>3. \A d \in {} : Kind(heap[d]) \notin {"upvalue", "object"}
        OBVIOUS
      <3> QED
        BY <1>1, <1>3, <2>1, <3>1, <3>2, <3>3, NamesKept
    <2>2. CASE /\ heap[f].type = "stack_index" /\ heap[f].index \in DOMAIN env'
               /\ env'[heap[f].index] = z
      BY <1>2, <2>2 DEF Names
    <2> QED
      BY <1>21, <1>22, <2>1, <2>2
  <1>23. CapturedInv'
    <2>1. ASSUME NEW c \in LiveClosures' PROVE Len(captured'[c]) = Len(heap'[c].refs)
      <3>1. CASE c = a
        <4>1. captured'[a] \in Seq(Variables) /\ DOMAIN captured'[a] = 1 .. Len(op.captures)
          BY <1>4, <1>6, <1>17
        <4>2. Len(captured'[a]) \in Nat /\ DOMAIN captured'[a] = 1 .. Len(captured'[a])
          BY <4>1, SeqFacts
        <4>3. Len(captured'[a]) = Len(op.captures)
          <5> DEFINE l == Len(captured'[a])
                     m == Len(op.captures)
          <5>1. l \in Nat /\ m \in Nat /\ 1 .. l = 1 .. m
            BY <1>6, <4>1, <4>2
          <5> HIDE DEF l, m
          <5>2. l = m
            BY <5>1
          <5> QED
            BY <5>2 DEF l, m
        <4> QED
          BY <1>2, <1>4, <3>1, <4>3
      <3>2. CASE c # a
        BY <1>2, <1>3, <1>17, <1>18, <3>2 DEF CapturedInv
      <3> QED
        BY <3>1, <3>2
    <2> QED
      BY <1>17, <1>22, <2>1 DEF CapturedInv
  <1>24. DistinctInv'
    <2> SUFFICES ASSUME NEW z \in Variables, NEW w \in Variables, NEW e \in Cells, NEW f \in Cells,
                        Holds(z, e)', heap'[e].type = "heap_object",
                        Holds(w, f)', heap'[f].type = "heap_object"
                 PROVE  /\ z = w <=> e = f
                        /\ heap'[e].refs[1] = heap'[f].refs[1] => e = f
      BY DEF DistinctInv
    <2>1. Holds(z, e) /\ Holds(w, f)
      BY <1>2, <1>22
    <2> QED
      BY <1>2, <1>3, <2>1 DEF DistinctInv
  <1>25. CapturesInv'
    BY <1>10 DEF CapturesInv
  <1> QED
    BY <1>11, <1>23, <1>24, <1>25 DEF MeaningInv

-----------------------------------------------------------------------------
(* The meaning is kept. *)

\* MeaningInv holds in every state: slots, upvalues and copies hold the values of
\* variables of their own, and each closure reaches the variables it captured
\* (push-closure, release-upvalues and set-upvalue in duckVM.c).
THEOREM MeaningInvariant ==
    ASSUME CalleeIsTemporary
    PROVE  Spec => [](ClosureInv /\ MeaningInv)
  <1>1. Init => MeaningInv
    BY InitMeans
  <1>2. ClosureInv /\ MeaningInv /\ [Next]_vars => MeaningInv'
    <2> SUFFICES ASSUME ClosureInv, MeaningInv, [Next]_vars PROVE MeaningInv'
      OBVIOUS
    <2>1. CASE PushAtom
      BY <2>1, PushAtomMeans
    <2>2. CASE PushIndex
      BY <2>2, PushIndexMeans
    <2>3. CASE PushUpvalue
      BY <2>3, PushUpvalueMeans
    <2>4. CASE Move
      BY <2>4, MoveMeans
    <2>5. CASE SetUpvalue
      BY <2>5, SetUpvalueMeans
    <2>6. CASE ReleaseUpvalue
      BY <2>6, ReleaseUpvalueMeans
    <2>7. CASE Pop
      BY <2>7, PopMeans
    <2>8. CASE BeginPushClosure
      BY <2>8, BeginPushClosureMeans
    <2>9. CASE CaptureSelf \/ CaptureUpvalue \/ CaptureSlot \/ CaptureAgain
      BY <2>9, CaptureMeans
    <2>10. CASE FinishPushClosure
      BY <2>10, FinishPushClosureMeans
    <2>11. CASE Funcall
      BY <2>11, FuncallMeans
    <2>12. CASE Return
      BY <2>12, ReturnMeans
    <2>13. CASE UNCHANGED vars
      BY <2>13, StutterMeans
    <2> QED
      BY <2>1, <2>2, <2>3, <2>4, <2>5, <2>6, <2>7, <2>8, <2>9, <2>10, <2>11, <2>12, <2>13
      DEF Next, PushClosure
  <1>3. Spec => []ClosureInv
    BY ClosureInvariant
  <1> QED
    BY <1>1, <1>2, <1>3, PTL DEF Spec

\* Slots, upvalues and their chains give every variable the value it was last assigned,
\* by whichever function or closure, before and after its scope ended
\* (duckVM_upvalueArray_getUpvalue, duckVM_upvalueArray_setUpvalue).
THEOREM VariablesKeepTheirValues ==
    ASSUME CalleeIsTemporary
    PROVE  Spec => []VariablesHaveTheirValues
  <1>1. ClosureInv /\ MeaningInv => VariablesHaveTheirValues
    BY MeaningGives DEF MeaningInv
  <1>2. Spec => [](ClosureInv /\ MeaningInv)
    BY MeaningInvariant
  <1> QED
    BY <1>1, <1>2, PTL
=============================================================================
