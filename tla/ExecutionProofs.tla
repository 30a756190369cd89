-------------------------- MODULE ExecutionProofs --------------------------
(***************************************************************************)
(* Proofs about Execution, for any cells, any bounds and any number of     *)
(* liberties.                                                              *)
(***************************************************************************)
EXTENDS Execution, SequenceLemmas

-----------------------------------------------------------------------------
(* Parts of the state. *)

LEMMA LastFacts ==
    ASSUME NEW S, NEW s \in Seq(S), s # <<>>
    PROVE  /\ Len(s) \in Nat \ {0}
           /\ Last(s) = s[Len(s)]
           /\ Last(s) \in S
           /\ Front(s) = SubSeq(s, 1, Len(s) - 1)
           /\ Front(s) \in Seq(S)
           /\ Len(Front(s)) = Len(s) - 1
           /\ \A i \in 1..Len(s) - 1 : Front(s)[i] = s[i]
           /\ ToSet(Front(s)) \subseteq ToSet(s)
           /\ Last(s) \in ToSet(s)
  <1>1. /\ Len(s) \in Nat \ {0}
        /\ \A i \in 1..Len(s) : s[i] \in S
    BY SeqFacts
  <1>2. Last(s) = s[Len(s)] /\ Front(s) = SubSeq(s, 1, Len(s) - 1)
    BY DEF Last, Front
  <1>3. Len(s) - 1 \in Int /\ Len(s) - 1 <= Len(s) /\ Len(s) \in 1..Len(s)
    BY <1>1
  <1>4. /\ Front(s) \in Seq(S)
        /\ Len(Front(s)) = IF 1 <= Len(s) - 1 THEN Len(s) - 1 ELSE 0
        /\ \A i \in 1..Len(s) - 1 : Front(s)[i] = s[i]
        /\ Range(Front(s)) \subseteq Range(s)
    BY <1>2, <1>3, PrefixFacts
  <1>5. s[Len(s)] \in Range(s)
    BY <1>3, RangeFacts
  <1>6. Len(Front(s)) = Len(s) - 1
    <2> DEFINE n == Len(s)
    <2>1. n \in Nat \ {0} /\ Len(Front(s)) = IF 1 <= n - 1 THEN n - 1 ELSE 0
      BY <1>1, <1>4
    <2> HIDE DEF n
    <2>2. (IF 1 <= n - 1 THEN n - 1 ELSE 0) = n - 1
      BY <2>1
    <2> QED
      BY <2>1, <2>2 DEF n
  <1> QED
    BY <1>1, <1>2, <1>3, <1>4, <1>5, <1>6 DEF ToSet, Range

LEMMA ActFacts ==
    ASSUME TypeInv, host # <<>>
    PROVE  /\ Len(host) \in Nat \ {0}
           /\ Act = host[Len(host)]
           /\ Act \in Activations
  BY LastFacts DEF TypeInv, Act

\* The innermost execution changes, and only it.
LEMMA ActUpdate ==
    ASSUME TypeInv, host # <<>>, NEW a \in Activations,
           host' = [host EXCEPT ![Len(host)] = a]
    PROVE  /\ host' \in Seq(Activations)
           /\ Len(host') = Len(host)
           /\ \A k \in 1..Len(host) : host'[k] = IF k = Len(host) THEN a ELSE host[k]
  <1>1. Len(host) \in 1..Len(host)
    BY ActFacts
  <1> QED
    BY <1>1, ExceptFacts DEF TypeInv

LEMMA AtUpdate ==
    ASSUME TypeInv, host # <<>>, NEW ip \in Cells \cup {Shim}, At(ip)
    PROVE  /\ host' \in Seq(Activations)
           /\ Len(host') = Len(host)
           /\ \A k \in 1..Len(host) :
                host'[k] = IF k = Len(host) THEN [host[k] EXCEPT !.ip = ip] ELSE host[k]
  <1> DEFINE a == [host[Len(host)] EXCEPT !.ip = ip]
  <1>1. a \in Activations
    BY ActFacts DEF Activations
  <1>2. host' = [host EXCEPT ![Len(host)] = a]
    BY DEF At
  <1> HIDE DEF a
  <1>3. /\ host' \in Seq(Activations)
        /\ Len(host') = Len(host)
        /\ \A k \in 1..Len(host) : host'[k] = IF k = Len(host) THEN a ELSE host[k]
    BY <1>1, <1>2, ActUpdate
  <1> QED
    BY <1>3 DEF a

LEMMA FloorFacts ==
    ASSUME TypeInv
    PROVE  /\ host = <<>> => Floor = 0
           /\ Running /\ Len(callers) > Act.depth => Floor = callers[Len(callers)].base
           /\ Running /\ ~(Len(callers) > Act.depth) => Floor = Act.base
           /\ host # <<>> /\ Act.phase = "callback" => Floor = Act.floor
           /\ Running \/ InHost => Floor \in Nat
  <1>1. host = <<>> => Floor = 0
    BY DEF Floor, Running
  <1>2. ASSUME Running, Len(callers) > Act.depth
        PROVE  Floor = callers[Len(callers)].base /\ Floor \in Nat
    <2>1. host # <<>> /\ Act.phase = "run" /\ Act.depth \in Nat
      BY <1>2, ActFacts DEF Running, Activations
    <2>2. Floor = Last(callers).base
      BY <1>2, <2>1 DEF Floor
    <2>3. callers # <<>>
      BY <1>2, <2>1, SeqFacts DEF TypeInv
    <2>4. Last(callers) = callers[Len(callers)] /\ Last(callers) \in Callers
      BY <2>3, LastFacts DEF TypeInv
    <2> QED
      BY <2>2, <2>4 DEF Callers
  <1>3. ASSUME Running, ~(Len(callers) > Act.depth)
        PROVE  Floor = Act.base /\ Floor \in Nat
    <2>1. host # <<>> /\ Act.phase = "run" /\ Act.base \in Nat
      BY <1>3, ActFacts DEF Running, Activations
    <2> QED
      BY <1>3, <2>1 DEF Floor
  <1>4. ASSUME host # <<>>, Act.phase = "callback"
        PROVE  Floor = Act.floor /\ Floor \in Nat
    <2>1. Act.floor \in Nat /\ ~Running
      BY <1>4, ActFacts DEF Running, Activations
    <2> QED
      BY <1>4, <2>1 DEF Floor
  <1>5. InHost => host = <<>> \/ (host # <<>> /\ Act.phase = "callback")
    BY DEF InHost
  <1> QED
    BY <1>1, <1>2, <1>3, <1>4, <1>5

LEMMA TopFacts ==
    ASSUME TypeInv, Running \/ InHost, OwnTop
    PROVE  /\ stack # <<>>
           /\ Len(stack) \in Nat \ {0}
           /\ Len(stack) > Floor
           /\ Last(stack) = stack[Len(stack)]
           /\ Last(stack) \in Values
           /\ Last(stack) \in ToSet(stack)
  <1>1. Floor \in Nat /\ Len(stack) > Floor
    BY FloorFacts DEF OwnTop
  <1>2. stack # <<>>
    BY <1>1, SeqFacts DEF TypeInv
  <1> QED
    BY <1>1, <1>2, LastFacts DEF TypeInv

LEMMA ClosureFacts ==
    ASSUME TypeInv, Running \/ InHost, ClosureOnTop
    PROVE  /\ OwnTop
           /\ Last(stack) \in Closures
           /\ Last(stack).bytecode \in Cells
           /\ Last(stack).entry \in Cells
  BY TopFacts DEF ClosureOnTop, Closures, Values

LEMMA RunningFacts ==
    ASSUME TypeInv, Running
    PROVE  /\ host # <<>> /\ ~error
           /\ Len(host) \in Nat \ {0}
           /\ Act = host[Len(host)]
           /\ Act \in Activations
           /\ Act.phase = "run"
           /\ Act.ip \in Cells /\ Act.ip # Shim
           /\ Act.code \in Cells
           /\ Act.depth \in Nat
  BY ActFacts DEF Running, Activations

LEMMA LibertyFacts ==
    ASSUME TypeInv, NEW name \in Liberties, NEW b \in BOOLEAN, Liberty(name, b)
    PROVE  /\ taken' \subseteq Liberties
           /\ taken \subseteq taken'
           /\ b => name \in taken'
  BY DEF TypeInv, Liberty

LEMMA PushFacts ==
    ASSUME TypeInv, NEW v \in Values, Push(v)
    PROVE  /\ stack' \in Seq(Values)
           /\ Len(stack') = Len(stack) + 1
           /\ Len(stack') <= MaxStack
           /\ stack'[Len(stack')] = v
           /\ \A i \in 1..Len(stack) : stack'[i] = stack[i]
           /\ ToSet(stack') = ToSet(stack) \cup {v}
  <1>1. Len(stack) \in Nat /\ MaxStack \in Nat
    BY SeqFacts, BoundsAssumption DEF TypeInv
  <1>2. stack' = Append(stack, v) /\ Len(stack) < MaxStack
    BY DEF Push
  <1>3. Range(stack') = Range(stack) \cup {v}
    BY <1>2, AppendFacts DEF TypeInv
  <1>4. /\ stack' \in Seq(Values)
        /\ Len(stack') = Len(stack) + 1
        /\ stack'[Len(stack) + 1] = v
        /\ \A i \in 1..Len(stack) : stack'[i] = stack[i]
    BY <1>2, AppendFacts DEF TypeInv
  <1> QED
    BY <1>1, <1>2, <1>3, <1>4 DEF ToSet, Range

LEMMA FramePushFacts ==
    ASSUME TypeInv, NEW ip \in Cells \cup {Shim}, NEW bytecode \in Cells \cup {Shim},
           CallStackPush(ip, bytecode)
    PROVE  /\ calls' \in Seq(Frames)
           /\ Len(calls') = Len(calls) + 1
           /\ Len(calls') <= MaxCalls
           /\ calls'[Len(calls')] = [ip |-> ip, bytecode |-> bytecode]
           /\ \A i \in 1..Len(calls) : calls'[i] = calls[i]
           /\ ToSet(calls') = ToSet(calls) \cup {[ip |-> ip, bytecode |-> bytecode]}
  <1>1. Len(calls) \in Nat /\ MaxCalls \in Nat
    BY SeqFacts, BoundsAssumption DEF TypeInv
  <1> DEFINE f == [ip |-> ip, bytecode |-> bytecode]
  <1>2. f \in Frames
    BY DEF Frames
  <1>3. calls' = Append(calls, f) /\ Len(calls) < MaxCalls
    BY DEF CallStackPush
  <1> HIDE DEF f
  <1>4. Range(calls') = Range(calls) \cup {f}
    BY <1>2, <1>3, AppendFacts DEF TypeInv
  <1>5. /\ calls' \in Seq(Frames)
        /\ Len(calls') = Len(calls) + 1
        /\ calls'[Len(calls')] = f
        /\ \A i \in 1..Len(calls) : calls'[i] = calls[i]
    BY <1>2, <1>3, AppendFacts DEF TypeInv
  <1> QED
    BY <1>1, <1>3, <1>4, <1>5 DEF f, ToSet, Range

\* The stack loses its top element.
LEMMA PopFacts ==
    ASSUME TypeInv, Running \/ InHost, OwnTop, stack' = Front(stack)
    PROVE  /\ stack' \in Seq(Values)
           /\ Len(stack') = Len(stack) - 1
           /\ \A i \in 1..Len(stack) - 1 : stack'[i] = stack[i]
           /\ ToSet(stack') \subseteq ToSet(stack)
  BY TopFacts, LastFacts DEF TypeInv

\* A value of one's own is overwritten by the one on top.
LEMMA MoveFacts ==
    ASSUME TypeInv, Running \/ InHost, MoveTop
    PROVE  /\ OwnTop
           /\ stack' \in Seq(Values)
           /\ Len(stack') = Len(stack)
           /\ Floor \in Nat
           /\ \A i \in 1..Len(stack) : i <= Floor => stack'[i] = stack[i]
           /\ ToSet(stack') \subseteq ToSet(stack)
  <1>1. /\ OwnTop /\ Last(stack) \in Values /\ Last(stack) \in ToSet(stack)
        /\ Len(stack) \in Nat /\ Floor \in Nat /\ stack \in Seq(Values)
    BY TopFacts, FloorFacts DEF MoveTop, TypeInv
  <1>2. PICK k \in Floor + 1..Len(stack) - 1 : stack' = [stack EXCEPT ![k] = Last(stack)]
    BY DEF MoveTop
  <1>3. k \in 1..Len(stack) /\ k > Floor
    BY <1>1, <1>2
  <1>4. stack' \in Seq(Values) /\ Len(stack') = Len(stack)
    BY <1>1, <1>2, <1>3
  <1>5. \A i \in 1..Len(stack) : stack'[i] = IF i = k THEN Last(stack) ELSE stack[i]
    BY <1>1, <1>2, <1>3
  <1>6. ToSet(stack') \subseteq ToSet(stack)
    BY <1>1, <1>4, <1>5 DEF ToSet
  <1> QED
    BY <1>1, <1>3, <1>4, <1>5, <1>6

\* A function's result takes the place of everything above its first n.
LEMMA ResultFacts ==
    ASSUME TypeInv, NEW n \in Nat, n < Len(stack),
           stack' = Append(SubSeq(stack, 1, n), Last(stack))
    PROVE  /\ stack' \in Seq(Values)
           /\ Len(stack') = n + 1
           /\ Len(stack') <= MaxStack
           /\ \A i \in 1..n : stack'[i] = stack[i]
           /\ ToSet(stack') \subseteq ToSet(stack)
  <1> DEFINE s == SubSeq(stack, 1, n)
             v == Last(stack)
  <1>1. /\ stack # <<>> /\ Len(stack) \in Nat /\ MaxStack \in Nat /\ Len(stack) <= MaxStack
        /\ v \in Values /\ v \in ToSet(stack)
    BY SeqFacts, LastFacts, BoundsAssumption DEF TypeInv
  <1>2. /\ s \in Seq(Values)
        /\ Len(s) = IF 1 <= n THEN n ELSE 0
        /\ \A i \in 1..n : s[i] = stack[i]
        /\ Range(s) \subseteq Range(stack)
    BY <1>1, PrefixFacts DEF TypeInv
  <1>3. Len(s) = n
    BY <1>2
  <1> HIDE DEF s, v
  <1>4. stack' = Append(s, v)
    BY DEF s, v
  <1>5. /\ stack' \in Seq(Values)
        /\ Len(stack') = n + 1
        /\ \A i \in 1..n : stack'[i] = s[i]
        /\ Range(stack') = Range(s) \cup {v}
    <2>1. /\ Append(s, v) \in Seq(Values)
          /\ Len(Append(s, v)) = Len(s) + 1
          /\ \A i \in 1..Len(s) : Append(s, v)[i] = s[i]
          /\ Range(Append(s, v)) = Range(s) \cup {v}
      BY <1>1, <1>2, AppendFacts
    <2> QED
      BY <1>3, <1>4, <2>1
  <1>6. ToSet(stack') \subseteq ToSet(stack)
    BY <1>1, <1>2, <1>5 DEF ToSet, Range
  <1> QED
    BY <1>1, <1>2, <1>5, <1>6

LEMMA FramePopFacts ==
    ASSUME TypeInv, calls' = IF calls = <<>> THEN calls ELSE Front(calls)
    PROVE  /\ calls' \in Seq(Frames)
           /\ Len(calls') <= Len(calls)
           /\ calls # <<>> => Len(calls') = Len(calls) - 1
           /\ calls = <<>> => Len(calls') = 0
           /\ \A i \in 1..Len(calls) - 1 : calls'[i] = calls[i]
           /\ ToSet(calls') \subseteq ToSet(calls)
  <1>1. CASE calls = <<>>
    BY <1>1, SeqFacts DEF TypeInv
  <1>2. CASE calls # <<>>
    <2>1. calls' = Front(calls) /\ calls \in Seq(Frames)
      BY <1>2 DEF TypeInv
    <2>2. /\ Front(calls) \in Seq(Frames)
          /\ Len(Front(calls)) = Len(calls) - 1
          /\ Len(calls) \in Nat
          /\ \A i \in 1..Len(calls) - 1 : Front(calls)[i] = calls[i]
          /\ ToSet(Front(calls)) \subseteq ToSet(calls)
      BY <1>2, <2>1, LastFacts
    <2> QED
      BY <1>2, <2>1, <2>2
  <1> QED
    BY <1>1, <1>2

\* An execution ends: the one that waits for it is innermost again, and the
\* calls it had made are over.
LEMMA LeaveFacts ==
    ASSUME TypeInv, NestingInv, host # <<>>, NEW failed \in BOOLEAN, Leave(failed)
    PROVE  /\ current' = Null
           /\ error' = failed
           /\ host' \in Seq(Activations)
           /\ Len(host) \in Nat \ {0}
           /\ Len(host') = Len(host) - 1
           /\ \A k \in 1..Len(host) - 1 : host'[k] = host[k]
           /\ Act = host[Len(host)]
           /\ Act.depth \in 0..Len(callers)
           /\ callers' \in Seq(Callers)
           /\ Len(callers') = Act.depth
           /\ \A k \in 1..Act.depth : callers'[k] = callers[k]
  <1>1. /\ current' = Null /\ error' = failed
        /\ host' = Front(host)
        /\ callers' = SubSeq(callers, 1, Act.depth)
    BY DEF Leave
  <1>2. /\ host' \in Seq(Activations)
        /\ Len(host) \in Nat \ {0}
        /\ Len(host') = Len(host) - 1
        /\ \A k \in 1..Len(host) - 1 : host'[k] = host[k]
    BY <1>1, LastFacts DEF TypeInv
  <1>3. Act = host[Len(host)] /\ Act \in Activations
    BY ActFacts
  <1> DEFINE d == Act.depth
  <1>4. d \in Nat /\ d <= Len(callers) /\ Len(callers) \in Nat
    <2>1. Len(host) \in 1..Len(host)
      BY <1>2
    <2> QED
      BY <1>3, <2>1, SeqFacts DEF Activations, NestingInv, TypeInv
  <1>5. callers' = SubSeq(callers, 1, d)
    BY <1>1
  <1> HIDE DEF d
  <1>6. /\ callers' \in Seq(Callers)
        /\ Len(callers') = IF 1 <= d THEN d ELSE 0
        /\ \A k \in 1..d : callers'[k] = callers[k]
    BY <1>4, <1>5, PrefixFacts DEF TypeInv
  <1>7. Len(callers') = d
    BY <1>4, <1>6
  <1> QED
    BY <1>1, <1>2, <1>3, <1>4, <1>6, <1>7 DEF d

\* The execution that starts another one is marked, and nothing else.
LEMMA OuterFacts ==
    ASSUME TypeInv
    PROVE  /\ Outer \in Seq(Activations)
           /\ Len(Outer) = Len(host)
           /\ Len(host) \in Nat
           /\ \A k \in 1..Len(host) :
                Outer[k] = IF k = Len(host) THEN [host[k] EXCEPT !.called = TRUE] ELSE host[k]
  <1>1. CASE host = <<>>
    BY <1>1, SeqFacts DEF TypeInv, Outer
  <1>2. CASE host # <<>>
    <2> DEFINE a == [host[Len(host)] EXCEPT !.called = TRUE]
    <2>1. /\ Len(host) \in 1..Len(host) /\ Len(host) \in Nat
          /\ host[Len(host)] \in Activations
      BY <1>2, ActFacts
    <2>2. a \in Activations
      BY <2>1 DEF Activations
    <2>3. Outer = [host EXCEPT ![Len(host)] = a]
      BY <1>2 DEF Outer
    <2> HIDE DEF a
    <2>4. /\ Outer \in Seq(Activations)
          /\ Len(Outer) = Len(host)
          /\ Outer[Len(host)] = a
          /\ \A k \in 1..Len(host) : k # Len(host) => Outer[k] = host[k]
      BY <2>1, <2>2, <2>3, ExceptFacts DEF TypeInv
    <2> QED
      BY <2>1, <2>4 DEF a
  <1> QED
    BY <1>1, <1>2

LEMMA ExecuteFacts ==
    ASSUME TypeInv, NEW isCall \in BOOLEAN, NEW collects \in BOOLEAN,
           ExecuteWithIp(isCall, collects)
    PROVE  \/ \E cell \in Cells \ Kept(collects) :
                /\ heap' = Kept(collects) \cup {cell}
                /\ current' = cell
                /\ error' = error
                /\ host' \in Seq(Activations)
                /\ Len(host') = Len(host) + 1
                /\ host'[Len(host) + 1] = Activation(cell, isCall)
                /\ Activation(cell, isCall) \in Activations
                /\ \A k \in 1..Len(host) :
                     host'[k] = IF k = Len(host) THEN [host[k] EXCEPT !.called = TRUE] ELSE host[k]
           \/ /\ collects /\ Kept(TRUE) = Cells
              /\ heap' = Cells /\ error' = TRUE /\ current' = current
              /\ host' \in Seq(Activations)
              /\ Len(host') = Len(host)
              /\ \A k \in 1..Len(host) :
                   host'[k] = IF k = Len(host) THEN [host[k] EXCEPT !.called = TRUE] ELSE host[k]
  <1>1. ASSUME NEW cell \in Cells \ Kept(collects),
               heap' = Kept(collects) \cup {cell},
               current' = cell,
               host' = Append(Outer, Activation(cell, isCall)),
               UNCHANGED error
        PROVE  /\ heap' = Kept(collects) \cup {cell}
               /\ current' = cell
               /\ error' = error
               /\ host' \in Seq(Activations)
               /\ Len(host') = Len(host) + 1
               /\ host'[Len(host) + 1] = Activation(cell, isCall)
               /\ Activation(cell, isCall) \in Activations
               /\ \A k \in 1..Len(host) :
                    host'[k] = IF k = Len(host) THEN [host[k] EXCEPT !.called = TRUE] ELSE host[k]
    <2> DEFINE a == Activation(cell, isCall)
    <2>1. a \in Activations
      <3>1. Len(callers) \in Nat /\ Len(stack) \in Nat
        BY SeqFacts DEF TypeInv
      <3> QED
        BY <3>1 DEF Activation, Activations
    <2>2. host' = Append(Outer, a)
      BY <1>1
    <2> HIDE DEF a
    <2>3. /\ host' \in Seq(Activations)
          /\ Len(host') = Len(Outer) + 1
          /\ \A k \in 1..Len(Outer) : host'[k] = Outer[k]
          /\ host'[Len(Outer) + 1] = a
      BY <2>1, <2>2, OuterFacts, AppendFacts
    <2> QED
      BY <1>1, <2>1, <2>3, OuterFacts DEF a
  <1>2. ASSUME collects, Kept(TRUE) = Cells, heap' = Cells, host' = Outer, error' = TRUE,
               UNCHANGED current
        PROVE  /\ host' \in Seq(Activations)
               /\ Len(host') = Len(host)
               /\ \A k \in 1..Len(host) :
                    host'[k] = IF k = Len(host) THEN [host[k] EXCEPT !.called = TRUE] ELSE host[k]
    BY <1>2, OuterFacts
  <1> QED
    BY <1>1, <1>2 DEF ExecuteWithIp

\* What the instructions do to the innermost execution and to the calls.
LEMMA FuncallFacts ==
    ASSUME TypeInv, Funcall
    PROVE  /\ Running /\ host # <<>> /\ ClosureOnTop
           /\ host' \in Seq(Activations)
           /\ Len(host') = Len(host)
           /\ \A k \in 1..Len(host) :
                host'[k] = IF k = Len(host) THEN [host[k] EXCEPT !.ip = Last(stack).entry] ELSE host[k]
           /\ calls' \in Seq(Frames)
           /\ Len(calls') = Len(calls) + 1
           /\ Len(calls') <= MaxCalls
           /\ calls'[Len(calls) + 1] = [ip |-> Act.ip, bytecode |-> Act.code]
           /\ \A i \in 1..Len(calls) : calls'[i] = calls[i]
           /\ ToSet(calls') = ToSet(calls) \cup {[ip |-> Act.ip, bytecode |-> Act.code]}
           /\ callers' \in Seq(Callers)
           /\ Len(callers') = Len(callers) + 1
           /\ callers'[Len(callers) + 1] = [ip |-> Act.ip, base |-> Len(stack)]
           /\ \A i \in 1..Len(callers) : callers'[i] = callers[i]
  <1>1. /\ Running /\ ClosureOnTop /\ host # <<>> /\ Last(stack).entry \in Cells \cup {Shim}
        /\ Act.ip \in Cells \cup {Shim} /\ Act.code \in Cells \cup {Shim}
    BY RunningFacts, ClosureFacts DEF Funcall
  <1>2. /\ calls' \in Seq(Frames)
        /\ Len(calls') = Len(calls) + 1
        /\ Len(calls') <= MaxCalls
        /\ calls'[Len(calls')] = [ip |-> Act.ip, bytecode |-> Act.code]
        /\ \A i \in 1..Len(calls) : calls'[i] = calls[i]
        /\ ToSet(calls') = ToSet(calls) \cup {[ip |-> Act.ip, bytecode |-> Act.code]}
    BY <1>1, FramePushFacts DEF Funcall
  <1>3. /\ host' \in Seq(Activations)
        /\ Len(host') = Len(host)
        /\ \A k \in 1..Len(host) :
             host'[k] = IF k = Len(host) THEN [host[k] EXCEPT !.ip = Last(stack).entry] ELSE host[k]
    BY <1>1, AtUpdate DEF Funcall
  <1>4. [ip |-> Act.ip, base |-> Len(stack)] \in Callers
    BY <1>1, ClosureFacts, TopFacts DEF Callers
  <1>5. /\ callers' \in Seq(Callers)
        /\ Len(callers') = Len(callers) + 1
        /\ callers'[Len(callers) + 1] = [ip |-> Act.ip, base |-> Len(stack)]
        /\ \A i \in 1..Len(callers) : callers'[i] = callers[i]
    BY <1>4, AppendFacts DEF Funcall, TypeInv
  <1> QED
    BY <1>1, <1>2, <1>3, <1>5

LEMMA ReturnFacts ==
    ASSUME TypeInv, Return
    PROVE  /\ Running /\ host # <<>> /\ OwnTop
           /\ Len(callers) > Act.depth
           /\ Len(callers) \in Nat \ {0}
           /\ callers[Len(callers)] \in Callers
           /\ callers[Len(callers)].base < Len(stack)
           /\ stack' \in Seq(Values)
           /\ Len(stack') = callers[Len(callers)].base + 1
           /\ Len(stack') <= MaxStack
           /\ \A i \in 1..callers[Len(callers)].base : stack'[i] = stack[i]
           /\ ToSet(stack') \subseteq ToSet(stack)
           /\ host' \in Seq(Activations)
           /\ Len(host') = Len(host)
           /\ \A k \in 1..Len(host) :
                host'[k] = IF k = Len(host)
                           THEN [host[k] EXCEPT !.ip = IF calls = <<>> THEN Shim ELSE calls[Len(calls)].ip]
                           ELSE host[k]
           /\ calls' \in Seq(Frames)
           /\ Len(calls') <= MaxCalls
           /\ Len(calls') <= Len(calls)
           /\ calls # <<>> => Len(calls') = Len(calls) - 1
           /\ \A i \in 1..Len(calls) - 1 : calls'[i] = calls[i]
           /\ ToSet(calls') \subseteq ToSet(calls)
           /\ callers' \in Seq(Callers)
           /\ Len(callers') = Len(callers) - 1
           /\ \A i \in 1..Len(callers) - 1 : callers'[i] = callers[i]
  <1>1. /\ Running /\ Len(callers) > Act.depth /\ OwnTop /\ Act.depth \in Nat /\ host # <<>>
    BY RunningFacts DEF Return
  <1>2. /\ Len(callers) \in Nat \ {0}
        /\ Last(callers) = callers[Len(callers)]
        /\ Last(callers) \in Callers
        /\ callers' \in Seq(Callers)
        /\ Len(callers') = Len(callers) - 1
        /\ \A i \in 1..Len(callers) - 1 : callers'[i] = callers[i]
    <2>1. callers \in Seq(Callers) /\ callers # <<>>
      BY <1>1, SeqFacts DEF TypeInv
    <2>2. callers' = Front(callers)
      BY DEF Return
    <2> QED
      BY <2>1, <2>2, LastFacts
  <1>3. /\ stack' \in Seq(Values)
        /\ Len(stack') = callers[Len(callers)].base + 1
        /\ Len(stack') <= MaxStack
        /\ \A i \in 1..callers[Len(callers)].base : stack'[i] = stack[i]
        /\ ToSet(stack') \subseteq ToSet(stack)
        /\ callers[Len(callers)].base < Len(stack)
    <2> DEFINE n == callers[Len(callers)].base
    <2>1. n \in Nat
      BY <1>2 DEF Callers
    <2>2. n < Len(stack)
      BY <1>1, TopFacts, FloorFacts
    <2>3. stack' = Append(SubSeq(stack, 1, n), Last(stack))
      BY <1>2 DEF Return
    <2> HIDE DEF n
    <2>4. /\ stack' \in Seq(Values)
          /\ Len(stack') = n + 1
          /\ Len(stack') <= MaxStack
          /\ \A i \in 1..n : stack'[i] = stack[i]
          /\ ToSet(stack') \subseteq ToSet(stack)
      BY <2>1, <2>2, <2>3, ResultFacts
    <2> QED
      BY <2>2, <2>4 DEF n
  <1>4. /\ calls' \in Seq(Frames)
        /\ Len(calls') <= MaxCalls
        /\ Len(calls') <= Len(calls)
        /\ calls # <<>> => Len(calls') = Len(calls) - 1
        /\ \A i \in 1..Len(calls) - 1 : calls'[i] = calls[i]
        /\ ToSet(calls') \subseteq ToSet(calls)
    <2>1. calls' = IF calls = <<>> THEN calls ELSE Front(calls)
      BY DEF Return
    <2>2. /\ calls' \in Seq(Frames)
          /\ Len(calls') <= Len(calls)
          /\ calls # <<>> => Len(calls') = Len(calls) - 1
          /\ \A i \in 1..Len(calls) - 1 : calls'[i] = calls[i]
          /\ ToSet(calls') \subseteq ToSet(calls)
      BY <2>1, FramePopFacts
    <2>3. Len(calls') \in Nat /\ Len(calls) \in Nat /\ Len(calls) <= MaxCalls
      BY <2>2, SeqFacts DEF TypeInv
    <2> QED
      BY <2>2, <2>3, BoundsAssumption
  <1>5. /\ host' \in Seq(Activations)
        /\ Len(host') = Len(host)
        /\ \A k \in 1..Len(host) :
             host'[k] = IF k = Len(host)
                        THEN [host[k] EXCEPT !.ip = IF calls = <<>> THEN Shim ELSE calls[Len(calls)].ip]
                        ELSE host[k]
    <2> DEFINE ip == IF calls = <<>> THEN Shim ELSE calls[Len(calls)].ip
    <2>1. ip \in Cells \cup {Shim} /\ ip = IF calls = <<>> THEN Shim ELSE Last(calls).ip
      <3>1. CASE calls = <<>>
        BY <3>1
      <3>2. CASE calls # <<>>
        <4>1. Last(calls) \in Frames /\ Last(calls) = calls[Len(calls)]
          BY <3>2, LastFacts DEF TypeInv
        <4> QED
          BY <3>2, <4>1 DEF Frames
      <3> QED
        BY <3>1, <3>2
    <2>2. At(ip) /\ host # <<>>
      BY <1>1, <2>1 DEF Return
    <2> HIDE DEF ip
    <2>3. /\ host' \in Seq(Activations)
          /\ Len(host') = Len(host)
          /\ \A k \in 1..Len(host) :
               host'[k] = IF k = Len(host) THEN [host[k] EXCEPT !.ip = ip] ELSE host[k]
      BY <2>1, <2>2, AtUpdate
    <2> QED
      BY <2>3 DEF ip
  <1> QED
    BY <1>1, <1>2, <1>3, <1>4, <1>5

LEMMA CcallFacts ==
    ASSUME TypeInv, Ccall
    PROVE  /\ Running /\ host # <<>>
           /\ host' \in Seq(Activations)
           /\ Len(host') = Len(host)
           /\ \A k \in 1..Len(host) :
                host'[k] = IF k = Len(host)
                           THEN [host[k] EXCEPT !.phase = "callback", !.floor = Len(stack)]
                           ELSE host[k]
  <1> DEFINE a == [host[Len(host)] EXCEPT !.phase = "callback", !.floor = Len(stack)]
  <1>1. a \in Activations /\ host # <<>> /\ Running
    BY RunningFacts, SeqFacts DEF Activations, Ccall, TypeInv
  <1>2. host' = [host EXCEPT ![Len(host)] = a]
    BY DEF Ccall
  <1> HIDE DEF a
  <1>3. /\ host' \in Seq(Activations)
        /\ Len(host') = Len(host)
        /\ \A k \in 1..Len(host) : host'[k] = IF k = Len(host) THEN a ELSE host[k]
    BY <1>1, <1>2, ActUpdate
  <1> QED
    BY <1>1, <1>3 DEF a

LEMMA CallbackReturnsFacts ==
    ASSUME TypeInv, CallbackReturns
    PROVE  /\ host # <<>>
           /\ host' \in Seq(Activations)
           /\ Len(host') = Len(host)
           /\ \A k \in 1..Len(host) :
                host'[k] = IF k = Len(host) THEN [host[k] EXCEPT !.phase = "run"] ELSE host[k]
  <1> DEFINE a == [host[Len(host)] EXCEPT !.phase = "run"]
  <1>1. a \in Activations /\ host # <<>>
    BY ActFacts DEF Activations, CallbackReturns
  <1>2. host' = [host EXCEPT ![Len(host)] = a]
    BY DEF CallbackReturns
  <1> HIDE DEF a
  <1>3. /\ host' \in Seq(Activations)
        /\ Len(host') = Len(host)
        /\ \A k \in 1..Len(host) : host'[k] = IF k = Len(host) THEN a ELSE host[k]
    BY <1>1, <1>2, ActUpdate
  <1> QED
    BY <1>1, <1>3 DEF a

-----------------------------------------------------------------------------
(* Types. *)

LEMMA TypeInit == Init => TypeInv
  <1> SUFFICES ASSUME Init PROVE TypeInv
    OBVIOUS
  <1>1. /\ stack = <<>> /\ calls = <<>> /\ callers = <<>> /\ host = <<>>
        /\ current = Null /\ global = Null /\ heap = {} /\ error = FALSE /\ taken = {}
    BY DEF Init
  <1>2. Null \in Values
    BY DEF Values
  <1>3. /\ stack \in Seq(Values) /\ calls \in Seq(Frames)
        /\ host \in Seq(Activations) /\ callers \in Seq(Callers)
    BY <1>1, EmptySeq
  <1>4. Len(stack) = 0 /\ Len(calls) = 0 /\ Len(host) = 0
    BY <1>1, <1>3, EmptySeq
  <1>5. Len(stack) <= MaxStack /\ Len(calls) <= MaxCalls /\ Len(host) <= MaxHost
    BY <1>4, BoundsAssumption
  <1>6. /\ global \in Values /\ current \in Cells \cup {Null} /\ heap \subseteq Cells
        /\ error \in BOOLEAN /\ taken \subseteq Liberties
    BY <1>1, <1>2
  <1> QED
    BY <1>3, <1>5, <1>6 DEF TypeInv

\* The collector, and what may be given up by it.
LEMMA CollectFacts ==
    ASSUME TypeInv, Collect
    PROVE  heap' \subseteq heap /\ heap' \subseteq Cells
  BY DEF TypeInv, Collect

\* Actions that leave the executions and the calls as they are.
LEMMA DataType ==
    ASSUME TypeInv,
           PushNil \/ PushGlobal \/ SetGlobal \/ Pop \/ Move \/ Allocate \/ PushClosure
             \/ HostPushGlobal \/ HostPop \/ CopyFromTop \/ GarbageCollect
    PROVE  TypeInv'
  <1>1. Null \in Values /\ global \in Values
    BY DEF TypeInv, Values
  <1>2. CASE PushNil
    BY <1>1, <1>2, PushFacts DEF PushNil, TypeInv
  <1>3. CASE PushGlobal
    BY <1>1, <1>3, PushFacts DEF PushGlobal, TypeInv
  <1>4. CASE HostPushGlobal
    BY <1>1, <1>4, PushFacts DEF HostPushGlobal, TypeInv
  <1>5. CASE SetGlobal
    BY <1>5, TopFacts DEF SetGlobal, TypeInv
  <1>6. CASE Pop
    <2>1. stack' \in Seq(Values) /\ Len(stack') = Len(stack) - 1 /\ Len(stack) \in Nat
      BY <1>6, PopFacts, TopFacts DEF Pop
    <2>2. Len(stack') <= MaxStack
      BY <2>1, BoundsAssumption DEF TypeInv
    <2> QED
      BY <1>6, <2>1, <2>2 DEF Pop, TypeInv
  <1>7. CASE HostPop
    <2>1. stack' \in Seq(Values) /\ Len(stack') = Len(stack) - 1 /\ Len(stack) \in Nat
      BY <1>7, PopFacts, TopFacts DEF HostPop
    <2>2. Len(stack') <= MaxStack
      BY <2>1, BoundsAssumption DEF TypeInv
    <2> QED
      BY <1>7, <2>1, <2>2 DEF HostPop, TypeInv
  <1>8. CASE Allocate
    BY <1>8, CollectFacts, LibertyFacts DEF Allocate, TypeInv, Liberties, InCall
  <1>9. CASE GarbageCollect
    BY <1>9, CollectFacts, LibertyFacts DEF GarbageCollect, TypeInv, Liberties, InCall
  <1>10. CASE PushClosure
    <2> DEFINE v == [bytecode |-> Act.code, entry |-> Act.ip]
    <2>1. v \in Values
      BY <1>10, RunningFacts DEF Values, PushClosure
    <2>2. Push(v)
      BY <1>10 DEF PushClosure
    <2> HIDE DEF v
    <2>3. stack' \in Seq(Values) /\ Len(stack') <= MaxStack
      BY <2>1, <2>2, PushFacts
    <2>4. taken' \subseteq Liberties
      BY <1>10, LibertyFacts DEF PushClosure, Liberties
    <2> QED
      BY <1>10, <2>3, <2>4 DEF PushClosure, TypeInv
  <1>11. CASE Move \/ CopyFromTop
    <2>1. (Running \/ InHost) /\ MoveTop
      BY <1>11 DEF Move, CopyFromTop
    <2>2. stack' \in Seq(Values) /\ Len(stack') = Len(stack)
      BY <2>1, MoveFacts
    <2> QED
      BY <1>11, <2>2 DEF Move, CopyFromTop, TypeInv
  <1> QED
    BY <1>2, <1>3, <1>4, <1>5, <1>6, <1>7, <1>8, <1>9, <1>10, <1>11

\* Actions of the innermost execution that neither start nor end one.
LEMMA ControlType ==
    ASSUME TypeInv, Funcall \/ Return \/ Ccall \/ CallbackReturns
    PROVE  TypeInv'
  <1>1. CASE Funcall
    BY <1>1, FuncallFacts DEF Funcall, TypeInv
  <1>2. CASE Return
    BY <1>2, ReturnFacts DEF Return, TypeInv
  <1>3. CASE Ccall
    BY <1>3, CcallFacts DEF Ccall, TypeInv
  <1>4. CASE CallbackReturns
    BY <1>4, CallbackReturnsFacts DEF CallbackReturns, TypeInv
  <1> QED
    BY <1>1, <1>2, <1>3, <1>4

\* Actions that end an execution.
LEMMA LeaveType ==
    ASSUME TypeInv, NestingInv, RuntimeError \/ Halt \/ HaltOfShim \/ CallbackFails
    PROVE  TypeInv'
  <1>1. ASSUME host # <<>>, NEW failed \in BOOLEAN, Leave(failed)
        PROVE  /\ current' \in Cells \cup {Null} /\ error' \in BOOLEAN
               /\ host' \in Seq(Activations) /\ Len(host') <= MaxHost
               /\ callers' \in Seq(Callers)
    <2>1. /\ current' = Null /\ error' = failed
          /\ host' \in Seq(Activations) /\ Len(host') = Len(host) - 1 /\ Len(host) \in Nat
          /\ callers' \in Seq(Callers)
      BY <1>1, LeaveFacts
    <2>2. Len(host') <= MaxHost
      BY <2>1, BoundsAssumption DEF TypeInv
    <2> QED
      BY <2>1, <2>2
  <1>2. CASE RuntimeError
    BY <1>1, <1>2, RunningFacts DEF RuntimeError, TypeInv
  <1>3. CASE HaltOfShim
    BY <1>1, <1>3 DEF HaltOfShim, TypeInv
  <1>4. CASE CallbackFails
    BY <1>1, <1>4 DEF CallbackFails, TypeInv
  <1>5. CASE Halt
    <2>1. host # <<>> /\ Leave(FALSE)
      BY <1>5, RunningFacts DEF Halt
    <2> QED
      BY <1>1, <1>5, <2>1 DEF Halt, TypeInv
  <1> QED
    BY <1>2, <1>3, <1>4, <1>5

\* Actions that start an execution.
LEMMA StartType ==
    ASSUME TypeInv, Execute \/ Call
    PROVE  TypeInv'
  <1>1. ASSUME NEW isCall \in BOOLEAN, NEW collects \in BOOLEAN, Len(host) < MaxHost,
               ExecuteWithIp(isCall, collects)
        PROVE  /\ current' \in Cells \cup {Null} /\ heap' \subseteq Cells /\ error' \in BOOLEAN
               /\ host' \in Seq(Activations) /\ Len(host') <= MaxHost
    <2>1. Len(host) \in Nat /\ MaxHost \in Nat /\ Len(host) <= MaxHost /\ Kept(collects) \subseteq Cells
      BY SeqFacts, BoundsAssumption DEF TypeInv, Kept
    <2>2. ASSUME NEW cell \in Cells \ Kept(collects),
                 heap' = Kept(collects) \cup {cell}, current' = cell, error' = error,
                 host' \in Seq(Activations), Len(host') = Len(host) + 1
          PROVE  /\ current' \in Cells \cup {Null} /\ heap' \subseteq Cells /\ error' \in BOOLEAN
                 /\ Len(host') <= MaxHost
      BY <1>1, <2>1, <2>2 DEF TypeInv
    <2>3. ASSUME heap' = Cells, error' = TRUE, current' = current, Len(host') = Len(host)
          PROVE  /\ current' \in Cells \cup {Null} /\ heap' \subseteq Cells /\ error' \in BOOLEAN
                 /\ Len(host') <= MaxHost
      BY <2>1, <2>3 DEF TypeInv
    <2> QED
      BY <1>1, <2>2, <2>3, ExecuteFacts
  <1>2. CASE Execute
    <2>1. PICK collects \in BOOLEAN :
            ExecuteWithIp(FALSE, collects) /\ Liberty("collect", collects /\ host # <<>>)
      BY <1>2 DEF Execute
    <2>2. taken' \subseteq Liberties
      BY <2>1, LibertyFacts DEF Liberties
    <2> QED
      BY <1>1, <1>2, <2>1, <2>2 DEF Execute, TypeInv
  <1>3. CASE Call
    <2>1. calls' \in Seq(Frames) /\ Len(calls') <= MaxCalls
      BY <1>3, FramePushFacts DEF Call
    <2>2. CASE \E collects \in BOOLEAN :
                 /\ ExecuteWithIp(TRUE, collects)
                 /\ Liberty("collect", collects)
                 /\ callers' = IF error' THEN callers
                               ELSE Append(callers, [ip |-> Shim, base |-> Len(stack)])
      <3>1. taken' \subseteq Liberties
        BY <2>2, LibertyFacts DEF Liberties
      <3>2. callers' \in Seq(Callers)
        <4>1. [ip |-> Shim, base |-> Len(stack)] \in Callers
          BY <1>3, ClosureFacts, TopFacts DEF Call, Callers
        <4>2. Append(callers, [ip |-> Shim, base |-> Len(stack)]) \in Seq(Callers)
          BY <4>1, AppendFacts DEF TypeInv
        <4> QED
          BY <2>2, <4>2 DEF TypeInv
      <3>3. Len(host) < MaxHost /\ UNCHANGED <<stack, global>>
        BY <1>3 DEF Call
      <3> QED
        BY <1>1, <2>1, <2>2, <3>1, <3>2, <3>3 DEF TypeInv
    <2>3. CASE /\ Last(stack).entry # Last(stack).bytecode
               /\ error' = TRUE
               /\ UNCHANGED <<current, heap, host, callers, taken>>
      BY <1>3, <2>1, <2>3 DEF Call, TypeInv
    <2> QED
      BY <1>3, <2>2, <2>3 DEF Call
  <1> QED
    BY <1>2, <1>3

LEMMA HostType ==
    ASSUME TypeInv, CallRefused \/ CallbackCatches \/ SoftReset \/ Ignore
    PROVE  TypeInv'
  <1>1. CASE CallRefused
    BY <1>1 DEF CallRefused, TypeInv
  <1>2. CASE CallbackCatches
    BY <1>2, LibertyFacts DEF CallbackCatches, TypeInv, Liberties
  <1>3. CASE Ignore
    BY <1>3, LibertyFacts DEF Ignore, TypeInv, Liberties
  <1>4. CASE SoftReset
    <2>1. stack' = <<>> /\ calls' = <<>>
      BY <1>4 DEF SoftReset
    <2>2. /\ stack' \in Seq(Values) /\ calls' \in Seq(Frames)
          /\ Len(stack') = 0 /\ Len(calls') = 0
      BY <2>1, EmptySeq
    <2>3. Len(stack') <= MaxStack /\ Len(calls') <= MaxCalls
      BY <2>2, BoundsAssumption
    <2> QED
      BY <1>4, <2>2, <2>3 DEF SoftReset, TypeInv
  <1> QED
    BY <1>1, <1>2, <1>3, <1>4

LEMMA TypeNext == TypeInv /\ NestingInv /\ [Next]_vars => TypeInv'
  <1> SUFFICES ASSUME TypeInv, NestingInv, [Next]_vars PROVE TypeInv'
    OBVIOUS
  <1>1. CASE UNCHANGED vars
    BY <1>1 DEF vars, TypeInv
  <1> QED
    BY <1>1, DataType, ControlType, LeaveType, StartType, HostType
       DEF Next, Instruction, Application
-----------------------------------------------------------------------------
(* Nesting. *)

LEMMA NestingInit == Init => NestingInv
  BY EmptySeq DEF Init, NestingInv

\* What types and nesting say of the innermost execution.
LEMMA NestingFacts ==
    ASSUME TypeInv, NestingInv
    PROVE  /\ Len(host) \in Nat /\ Len(callers) \in Nat /\ Len(calls) \in Nat
           /\ \A k \in 1..Len(host) : host[k] \in Activations /\ host[k].depth \in 0..Len(callers)
           /\ \A k \in 1..Len(callers) : callers[k] \in Callers
           /\ host # <<>> => /\ Len(host) \in 1..Len(host) /\ 1 \in 1..Len(host)
                             /\ \A k \in 1..Len(host) : host[k].depth <= Act.depth
  <1>1. /\ Len(host) \in Nat /\ Len(callers) \in Nat /\ Len(calls) \in Nat
        /\ \A k \in 1..Len(host) : host[k] \in Activations
        /\ \A k \in 1..Len(callers) : callers[k] \in Callers
    BY SeqFacts DEF TypeInv
  <1>2. \A k \in 1..Len(host) : host[k].depth \in 0..Len(callers)
    BY <1>1 DEF NestingInv, Activations
  <1>3. ASSUME host # <<>>
        PROVE  /\ Len(host) \in 1..Len(host) /\ 1 \in 1..Len(host)
               /\ \A k \in 1..Len(host) : host[k].depth <= Act.depth
    <2>1. Len(host) \in Nat \ {0} /\ Act = host[Len(host)]
      BY <1>3, ActFacts
    <2> QED
      BY <2>1 DEF NestingInv
  <1> QED
    BY <1>1, <1>2, <1>3

LEMMA DataNesting ==
    ASSUME NestingInv, UNCHANGED <<host, calls, callers>>
    PROVE  NestingInv'
  BY DEF NestingInv

\* A call that returns to the shim is still the first of its duckVM_call.
LEMMA ShimKept ==
    ASSUME NestingInv, Len(callers') \in Nat, Len(callers) \in Nat, Len(host) \in Nat,
           NEW n \in 0..Len(callers), n <= Len(callers'),
           \A i \in 1..n : callers'[i] = callers[i],
           \A i \in 1..Len(callers') : i > n => callers'[i].ip # Shim,
           \A j \in 1..Len(host) : host[j].depth < n =>
              j \in 1..Len(host') /\ host'[j].depth = host[j].depth /\ host'[j].isCall = host[j].isCall
    PROVE  \A k \in 1..Len(callers') :
             callers'[k].ip = Shim => \E j \in 1..Len(host') : host'[j].isCall /\ host'[j].depth = k - 1
  <1> SUFFICES ASSUME NEW k \in 1..Len(callers'), callers'[k].ip = Shim
               PROVE  \E j \in 1..Len(host') : host'[j].isCall /\ host'[j].depth = k - 1
    OBVIOUS
  <1>1. k \in 1..n /\ k \in 1..Len(callers) /\ callers[k].ip = Shim
    OBVIOUS
  <1>2. PICK j \in 1..Len(host) : host[j].isCall /\ host[j].depth = k - 1
    BY <1>1 DEF NestingInv
  <1>3. host[j].depth < n
    BY <1>1, <1>2
  <1> QED
    BY <1>2, <1>3

LEMMA ControlNesting ==
    ASSUME TypeInv, NestingInv, Funcall \/ Return \/ Ccall \/ CallbackReturns
    PROVE  NestingInv'
  <1>1. CASE Funcall
    <2>1. Act = host[Len(host)] /\ Act.ip # Shim /\ Last(stack).entry # Shim
      BY <1>1, FuncallFacts, RunningFacts, ClosureFacts, DistinctAssumption
    <2>2. \A k \in 1..Len(host) : /\ host'[k].depth = host[k].depth
                                  /\ host'[k].isCall = host[k].isCall
                                  /\ host'[k].called = host[k].called
                                  /\ host'[k].phase = host[k].phase
                                  /\ host'[k].ip = Shim => host[k].ip = Shim
      BY <1>1, <2>1, FuncallFacts, NestingFacts, ZenonT(20) DEF Activations
    <2>3. callers'[Len(callers) + 1].ip # Shim
      BY <1>1, <2>1, FuncallFacts
    <2>4. host' # <<>> /\ host'[1].depth = 0 /\ Len(callers') <= Len(calls')
      BY <1>1, <2>2, FuncallFacts, NestingFacts, EmptySeq DEF NestingInv
    <2>5. \A k \in 1..Len(host') :
            /\ host'[k].depth <= Len(callers')
            /\ host'[k].ip = Shim => host'[k].phase = "run"
            /\ k < Len(host') => host'[k].called /\ host'[k].phase = "callback"
      <3>1. Len(host') = Len(host) /\ Len(callers') = Len(callers) + 1 /\ Len(callers) \in Nat
        BY <1>1, FuncallFacts, NestingFacts
      <3>2. \A k \in 1..Len(host) :
              /\ host[k].depth \in Nat /\ host[k].depth <= Len(callers)
              /\ host[k].ip = Shim => host[k].phase = "run"
              /\ k < Len(host) => host[k].called /\ host[k].phase = "callback"
        BY NestingFacts DEF NestingInv
      <3> SUFFICES ASSUME NEW k \in 1..Len(host)
                   PROVE  /\ host'[k].depth <= Len(callers')
                          /\ host'[k].ip = Shim => host'[k].phase = "run"
                          /\ k < Len(host) => host'[k].called /\ host'[k].phase = "callback"
        BY <3>1
      <3>3. host'[k].depth <= Len(callers')
        BY <2>2, <3>1, <3>2
      <3> QED
        BY <2>2, <3>2, <3>3
    <2>6. \A j, k \in 1..Len(host') : j <= k => host'[j].depth <= host'[k].depth
      BY <1>1, <2>2, FuncallFacts DEF NestingInv
    <2>7. \A k \in 1..Len(callers') :
            callers'[k].ip = Shim => \E j \in 1..Len(host') : host'[j].isCall /\ host'[j].depth = k - 1
      <3>1. Len(callers) \in Nat /\ Len(host) \in Nat /\ Len(callers) \in 0..Len(callers)
            /\ Len(callers') = Len(callers) + 1 /\ Len(host') = Len(host)
            /\ \A i \in 1..Len(callers) : callers'[i] = callers[i]
        BY <1>1, FuncallFacts, NestingFacts
      <3>2. \A i \in 1..Len(callers') : i > Len(callers) => callers'[i].ip # Shim
        BY <2>3, <3>1
      <3>3. \A j \in 1..Len(host) : /\ j \in 1..Len(host') /\ host'[j].depth = host[j].depth
                                    /\ host'[j].isCall = host[j].isCall
        BY <2>2, <3>1
      <3> QED
        BY <3>1, <3>2, <3>3, ShimKept
    <2> QED
      BY <2>4, <2>5, <2>6, <2>7 DEF NestingInv
  <1>2. CASE Return
    <2>1. /\ Len(callers) > Act.depth /\ host # <<>> /\ Act.phase = "run" /\ Act = host[Len(host)]
      BY <1>2, ReturnFacts, RunningFacts
    <2>2. Len(calls') = Len(calls) - 1 /\ Len(calls) >= Len(callers)
      <3>1. Len(calls) >= Len(callers) /\ Len(callers) > 0
        BY <1>2, ReturnFacts DEF NestingInv
      <3>2. calls # <<>>
        BY <3>1, NestingFacts, EmptySeq
      <3> QED
        BY <1>2, <3>1, <3>2, ReturnFacts
    <2>3. \A k \in 1..Len(host) : /\ host'[k].depth = host[k].depth
                                  /\ host'[k].isCall = host[k].isCall
                                  /\ host'[k].called = host[k].called
                                  /\ host'[k].phase = host[k].phase
                                  /\ k < Len(host) => host'[k].ip = host[k].ip
      <3> TAKE k \in 1..Len(host)
      <3> DEFINE ip == IF calls = <<>> THEN Shim ELSE calls[Len(calls)].ip
      <3>1. host[k] \in Activations /\ ~(Len(host) < Len(host))
        BY NestingFacts
      <3>2. host'[k] = IF k = Len(host) THEN [host[k] EXCEPT !.ip = ip] ELSE host[k]
        BY <1>2, ReturnFacts
      <3> HIDE DEF ip
      <3> QED
        BY <3>1, <3>2 DEF Activations
    <2>4. host' # <<>> /\ host'[1].depth = 0 /\ Len(callers') <= Len(calls')
      BY <1>2, <2>1, <2>2, <2>3, ReturnFacts, NestingFacts, EmptySeq, SMTT(20) DEF NestingInv
    <2>5. \A k \in 1..Len(host') :
            /\ host'[k].depth <= Len(callers')
            /\ host'[k].ip = Shim => host'[k].phase = "run"
            /\ k < Len(host') => host'[k].called /\ host'[k].phase = "callback"
      <3> TAKE k \in 1..Len(host')
      <3>1. k \in 1..Len(host) /\ host[k].depth <= Act.depth /\ Len(host') = Len(host)
        BY <1>2, <2>1, ReturnFacts, NestingFacts
      <3>2. host'[k].depth <= Len(callers')
        <4> DEFINE depth == host[k].depth
                   inner == Act.depth
                   n == Len(callers)
        <4>1. depth \in Nat /\ inner \in Nat /\ n \in Nat /\ depth <= inner /\ n > inner
          BY <2>1, <3>1, NestingFacts
        <4>2. host'[k].depth = depth /\ Len(callers') = n - 1
          BY <1>2, <2>3, <3>1, ReturnFacts
        <4> HIDE DEF depth, inner, n
        <4> QED
          BY <4>1, <4>2
      <3> QED
        BY <2>1, <2>3, <3>1, <3>2 DEF NestingInv
    <2>6. \A j, k \in 1..Len(host') : j <= k => host'[j].depth <= host'[k].depth
      BY <1>2, <2>3, ReturnFacts DEF NestingInv
    <2>7. \A k \in 1..Len(callers') :
            callers'[k].ip = Shim => \E j \in 1..Len(host') : host'[j].isCall /\ host'[j].depth = k - 1
      <3>1. Len(callers) \in Nat \ {0} /\ Len(host) \in Nat
            /\ Len(callers') = Len(callers) - 1 /\ Len(host') = Len(host)
            /\ \A i \in 1..Len(callers) - 1 : callers'[i] = callers[i]
        BY <1>2, ReturnFacts, NestingFacts
      <3>2. Len(callers) - 1 \in 0..Len(callers) /\ Len(callers') \in Nat
        BY <3>1
      <3>3. \A j \in 1..Len(host) : /\ j \in 1..Len(host') /\ host'[j].depth = host[j].depth
                                    /\ host'[j].isCall = host[j].isCall
        BY <2>3, <3>1
      <3> DEFINE n == Len(callers) - 1
      <3>4. /\ n \in 0..Len(callers) /\ n <= Len(callers')
            /\ \A i \in 1..n : callers'[i] = callers[i]
            /\ \A i \in 1..Len(callers') : i > n => callers'[i].ip # Shim
        BY <3>1
      <3> HIDE DEF n
      <3> QED
        BY <3>1, <3>2, <3>3, <3>4, ShimKept
    <2> QED
      BY <2>4, <2>5, <2>6, <2>7 DEF NestingInv
  <1>3. ASSUME host # <<>>, Len(host') = Len(host), UNCHANGED <<calls, callers>>,
               \A k \in 1..Len(host) : /\ host'[k].depth = host[k].depth
                                       /\ host'[k].isCall = host[k].isCall
                                       /\ k < Len(host) => host'[k] = host[k]
                                       /\ host'[k].ip = Shim => host'[k].phase = "run"
        PROVE  NestingInv'
    <2>1. host' # <<>> /\ host'[1].depth = 0 /\ Len(callers') <= Len(calls')
      BY <1>3, NestingFacts, EmptySeq DEF NestingInv
    <2>2. \A k \in 1..Len(host') :
            /\ host'[k].depth <= Len(callers')
            /\ host'[k].ip = Shim => host'[k].phase = "run"
            /\ k < Len(host') => host'[k].called /\ host'[k].phase = "callback"
      BY <1>3 DEF NestingInv
    <2>3. \A j, k \in 1..Len(host') : j <= k => host'[j].depth <= host'[k].depth
      BY <1>3 DEF NestingInv
    <2>4. \A k \in 1..Len(callers') :
            callers'[k].ip = Shim => \E j \in 1..Len(host') : host'[j].isCall /\ host'[j].depth = k - 1
      BY <1>3, SMTT(20) DEF NestingInv
    <2> QED
      BY <2>1, <2>2, <2>3, <2>4 DEF NestingInv
  <1>4. CASE Ccall
    <2>1. Act.ip # Shim /\ Act = host[Len(host)]
      BY <1>4, CcallFacts, RunningFacts
    <2>2. \A k \in 1..Len(host) : /\ host'[k].depth = host[k].depth
                                  /\ host'[k].isCall = host[k].isCall
                                  /\ k < Len(host) => host'[k] = host[k]
                                  /\ host'[k].ip = Shim => host'[k].phase = "run"
      <3> TAKE k \in 1..Len(host)
      <3>1. host[k] \in Activations /\ ~(Len(host) < Len(host))
        BY NestingFacts
      <3>2. CASE k = Len(host)
        <4>1. host'[k] = [host[k] EXCEPT !.phase = "callback", !.floor = Len(stack)]
          BY <1>4, <3>2, CcallFacts
        <4> QED
          BY <2>1, <3>1, <3>2, <4>1 DEF Activations
      <3>3. CASE k # Len(host)
        BY <1>4, <3>3, CcallFacts DEF NestingInv
      <3> QED
        BY <3>2, <3>3
    <2> QED
      BY <1>3, <1>4, <2>2, CcallFacts DEF Ccall
  <1>5. CASE CallbackReturns
    <2>1. \A k \in 1..Len(host) : /\ host'[k].depth = host[k].depth
                                  /\ host'[k].isCall = host[k].isCall
                                  /\ k < Len(host) => host'[k] = host[k]
                                  /\ host'[k].ip = Shim => host'[k].phase = "run"
      <3> TAKE k \in 1..Len(host)
      <3>1. host[k] \in Activations
        BY NestingFacts
      <3>2. CASE k = Len(host)
        <4>1. host'[k] = [host[k] EXCEPT !.phase = "run"] /\ ~(k < Len(host))
          BY <1>5, <3>2, CallbackReturnsFacts, NestingFacts
        <4> QED
          BY <3>1, <3>2, <4>1 DEF Activations
      <3>3. CASE k # Len(host)
        BY <1>5, <3>3, CallbackReturnsFacts DEF NestingInv
      <3> QED
        BY <3>2, <3>3
    <2> QED
      BY <1>3, <1>5, <2>1, CallbackReturnsFacts DEF CallbackReturns
  <1> QED
    BY <1>1, <1>2, <1>4, <1>5

LEMMA LeaveNesting ==
    ASSUME TypeInv, NestingInv, RuntimeError \/ Halt \/ HaltOfShim \/ CallbackFails
    PROVE  NestingInv'
  <1>1. PICK failed \in BOOLEAN : Leave(failed) /\ host # <<>> /\ UNCHANGED calls
    BY RunningFacts DEF RuntimeError, Halt, HaltOfShim, CallbackFails
  <1> DEFINE d == Act.depth
  <1>2. /\ Len(host) \in Nat \ {0} /\ Len(host') = Len(host) - 1
        /\ \A k \in 1..Len(host') : k \in 1..Len(host) /\ k < Len(host) /\ host'[k] = host[k]
        /\ d \in 0..Len(callers) /\ Len(callers') = d
        /\ \A k \in 1..d : callers'[k] = callers[k]
        /\ d = host[Len(host)].depth
        /\ Len(callers) \in Nat /\ Len(calls) \in Nat
        /\ host' = <<>> <=> Len(host') = 0
        /\ callers' = <<>> <=> Len(callers') = 0
    <2>1. /\ Len(host) \in Nat \ {0} /\ Len(host') = Len(host) - 1
          /\ \A k \in 1..Len(host) - 1 : host'[k] = host[k]
          /\ Len(callers') = d /\ \A k \in 1..d : callers'[k] = callers[k]
          /\ d = host[Len(host)].depth
          /\ host' \in Seq(Activations) /\ callers' \in Seq(Callers)
      BY <1>1, LeaveFacts
    <2>2. d \in 0..Len(callers) /\ Len(callers) \in Nat /\ Len(calls) \in Nat
      BY <1>1, LeaveFacts, NestingFacts
    <2>3. /\ host' = <<>> <=> Len(host') = 0
          /\ callers' = <<>> <=> Len(callers') = 0
      BY <2>1, EmptySeq
    <2>4. \A k \in 1..Len(host') : k \in 1..Len(host) /\ k < Len(host) /\ host'[k] = host[k]
      BY <2>1
    <2> HIDE DEF d
    <2> QED
      BY <2>1, <2>2, <2>3, <2>4
  <1>3. \A k \in 1..Len(host) : host[k].depth \in Nat /\ host[k].depth <= d
    BY <1>1, NestingFacts
  <1> HIDE DEF d
  <1>10. \A k \in 1..Len(host') : k \in 1..Len(host) /\ k < Len(host) /\ host'[k] = host[k]
    BY <1>2
  <1>11. Len(callers') = d /\ Len(host) \in Nat /\ Len(host') \in Nat
    BY <1>2
  <1>4. host' = <<>> => callers' = <<>>
    <2>1. Len(host) = 1 => d = 0
      BY <1>1, <1>2 DEF NestingInv
    <2> QED
      BY <1>2, <2>1
  <1>5. host' # <<>> => host'[1].depth = 0
    BY <1>1, <1>2 DEF NestingInv
  <1>6. Len(callers') <= Len(calls')
    BY <1>1, <1>2 DEF NestingInv
  <1>7. \A k \in 1..Len(host') :
          /\ host'[k].depth <= Len(callers')
          /\ host'[k].ip = Shim => host'[k].phase = "run"
          /\ k < Len(host') => host'[k].called /\ host'[k].phase = "callback"
    BY <1>3, <1>10, <1>11 DEF NestingInv
  <1>8. \A j, k \in 1..Len(host') : j <= k => host'[j].depth <= host'[k].depth
    BY <1>10 DEF NestingInv
  <1>9. \A k \in 1..Len(callers') :
          callers'[k].ip = Shim => \E j \in 1..Len(host') : host'[j].isCall /\ host'[j].depth = k - 1
    <2>1. \A j \in 1..Len(host) : host[j].depth < d =>
             j \in 1..Len(host') /\ host'[j].depth = host[j].depth /\ host'[j].isCall = host[j].isCall
      <3> SUFFICES ASSUME NEW j \in 1..Len(host), host[j].depth < d
                   PROVE  j \in 1..Len(host') /\ host'[j] = host[j]
        OBVIOUS
      <3>1. j # Len(host)
        BY <1>2
      <3>2. j \in 1..Len(host')
        BY <1>2, <3>1
      <3> QED
        BY <1>10, <3>2
    <2>2. /\ Len(callers') \in Nat /\ Len(callers) \in Nat /\ Len(host) \in Nat
          /\ d \in 0..Len(callers) /\ d <= Len(callers')
          /\ \A i \in 1..d : callers'[i] = callers[i]
          /\ \A i \in 1..Len(callers') : i > d => callers'[i].ip # Shim
      BY <1>2
    <2> QED
      BY <2>1, <2>2, ShimKept
  <1> QED
    BY <1>4, <1>5, <1>6, <1>7, <1>8, <1>9 DEF NestingInv

\* An execution is started, or was not for want of memory.
LEMMA OuterNesting ==
    ASSUME TypeInv, NestingInv, InHost, NEW isCall \in BOOLEAN, NEW collects \in BOOLEAN,
           ExecuteWithIp(isCall, collects), Len(calls') \in Nat,
           \/ ~isCall /\ UNCHANGED <<calls, callers>>
           \/ /\ isCall /\ Len(calls') = Len(calls) + 1
              /\ callers' = IF error' THEN callers ELSE Append(callers, [ip |-> Shim, base |-> Len(stack)])
              /\ [ip |-> Shim, base |-> Len(stack)] \in Callers
    PROVE  NestingInv'
  <1>1. /\ Len(host) \in Nat /\ Len(callers) \in Nat /\ Len(calls) \in Nat
        /\ \A k \in 1..Len(host) : host[k] \in Activations /\ host[k].depth \in 0..Len(callers)
        /\ ~error
        /\ host # <<>> => host[Len(host)].phase = "callback" /\ Len(host) \in 1..Len(host)
        /\ host = <<>> <=> Len(host) = 0
    BY NestingFacts, ActFacts, EmptySeq DEF InHost, TypeInv
  <1>2. \A k \in 1..Len(host) :
           LET h == IF k = Len(host) THEN [host[k] EXCEPT !.called = TRUE] ELSE host[k]
           IN  /\ h.depth = host[k].depth /\ h.isCall = host[k].isCall
               /\ h.ip = host[k].ip /\ h.phase = host[k].phase
               /\ h.called /\ h.phase = "callback"
    <2> TAKE k \in 1..Len(host)
    <2>1. CASE k = Len(host)
      BY <1>1, <2>1 DEF Activations
    <2>2. CASE k # Len(host)
      BY <1>1, <2>2 DEF NestingInv
    <2> QED
      BY <2>1, <2>2
  <1>3. CASE \E cell \in Cells \ Kept(collects) :
               /\ error' = error
               /\ host' \in Seq(Activations)
               /\ Len(host') = Len(host) + 1
               /\ host'[Len(host) + 1] = Activation(cell, isCall)
               /\ \A k \in 1..Len(host) :
                    host'[k] = IF k = Len(host) THEN [host[k] EXCEPT !.called = TRUE] ELSE host[k]
    <2>1. PICK cell \in Cells \ Kept(collects) : host'[Len(host) + 1] = Activation(cell, isCall)
      BY <1>3
    <2>2. /\ Len(host') = Len(host) + 1
          /\ host'[Len(host')].depth = Len(callers) /\ host'[Len(host')].isCall = isCall
          /\ host'[Len(host')].phase = "run"
          /\ host' # <<>> /\ ~error'
      BY <1>1, <1>3, <2>1, EmptySeq DEF Activation
    <2>3. \A k \in 1..Len(host) :
            /\ host'[k].depth = host[k].depth /\ host'[k].isCall = host[k].isCall
            /\ host'[k].called /\ host'[k].phase = "callback"
            /\ host'[k].ip = host[k].ip
      BY <1>2, <1>3
    <2>4. /\ Len(callers') = IF isCall THEN Len(callers) + 1 ELSE Len(callers)
          /\ \A i \in 1..Len(callers) : callers'[i] = callers[i]
          /\ Len(calls') = IF isCall THEN Len(calls) + 1 ELSE Len(calls)
      <3>1. CASE isCall
        <4>1. callers' = Append(callers, [ip |-> Shim, base |-> Len(stack)])
          BY <2>2, <3>1
        <4> QED
          BY <3>1, <4>1, AppendFacts DEF TypeInv
      <3> QED
        BY <3>1
    <2>5. host'[1].depth = 0
      <3>1. CASE host = <<>>
        <4>1. Len(callers) = 0
          BY <3>1, EmptySeq DEF NestingInv
        <4> QED
          BY <1>1, <2>2, <3>1, <4>1
      <3>2. CASE host # <<>>
        BY <1>1, <2>3, <3>2 DEF NestingInv
      <3> QED
        BY <3>1, <3>2
    <2>6. Len(callers') <= Len(calls')
      BY <1>1, <2>4 DEF NestingInv
    <2>7. \A k \in 1..Len(host') :
            /\ host'[k].depth <= Len(callers')
            /\ host'[k].ip = Shim => host'[k].phase = "run"
            /\ k < Len(host') => host'[k].called /\ host'[k].phase = "callback"
      <3> TAKE k \in 1..Len(host')
      <3>1. CASE k = Len(host')
        BY <1>1, <2>2, <2>4, <3>1
      <3>2. CASE k # Len(host')
        <4>1. k \in 1..Len(host)
          BY <1>1, <2>2, <3>2
        <4>2. host'[k].ip # Shim
          BY <1>2, <2>3, <4>1 DEF NestingInv
        <4> QED
          BY <1>1, <2>2, <2>3, <2>4, <4>1, <4>2
      <3> QED
        BY <3>1, <3>2
    <2>8. \A j, k \in 1..Len(host') : j <= k => host'[j].depth <= host'[k].depth
      <3> SUFFICES ASSUME NEW j \in 1..Len(host'), NEW k \in 1..Len(host'), j <= k
                   PROVE  host'[j].depth <= host'[k].depth
        OBVIOUS
      <3>1. CASE k \in 1..Len(host)
        BY <1>1, <2>3, <3>1 DEF NestingInv
      <3>2. CASE k = Len(host') /\ j \in 1..Len(host)
        BY <1>1, <2>2, <2>3, <3>2, SMTT(20)
      <3>3. CASE k = Len(host') /\ j = Len(host')
        BY <1>1, <2>2, <3>3
      <3> QED
        BY <1>1, <2>2, <3>1, <3>2, <3>3
    <2>9. \A k \in 1..Len(callers') :
            callers'[k].ip = Shim => \E j \in 1..Len(host') : host'[j].isCall /\ host'[j].depth = k - 1
      <3> SUFFICES ASSUME NEW k \in 1..Len(callers'), callers'[k].ip = Shim
                   PROVE  \E j \in 1..Len(host') : host'[j].isCall /\ host'[j].depth = k - 1
        OBVIOUS
      <3>1. CASE k \in 1..Len(callers)
        <4>1. PICK j \in 1..Len(host) : host[j].isCall /\ host[j].depth = k - 1
          BY <2>4, <3>1 DEF NestingInv
        <4> QED
          BY <1>1, <2>2, <2>3, <4>1, SMTT(20)
      <3>2. CASE isCall /\ k = Len(callers) + 1
        <4>1. Len(host') \in 1..Len(host') /\ k - 1 = Len(callers)
          BY <1>1, <2>2, <3>2
        <4> QED
          BY <2>2, <3>2, <4>1
      <3> QED
        BY <1>1, <2>4, <3>1, <3>2
    <2> QED
      BY <2>2, <2>5, <2>6, <2>7, <2>8, <2>9 DEF NestingInv
  <1>4. CASE /\ error' = TRUE
             /\ host' \in Seq(Activations)
             /\ Len(host') = Len(host)
             /\ \A k \in 1..Len(host) :
                  host'[k] = IF k = Len(host) THEN [host[k] EXCEPT !.called = TRUE] ELSE host[k]
    <2>1. \A k \in 1..Len(host) :
            /\ host'[k].depth = host[k].depth /\ host'[k].isCall = host[k].isCall
            /\ host'[k].called /\ host'[k].phase = "callback"
            /\ host'[k].ip = host[k].ip
      BY <1>2, <1>4
    <2>2. callers' = callers /\ Len(calls') >= Len(calls)
      BY <1>1, <1>4
    <2>3. /\ host' = <<>> => callers' = <<>>
          /\ host' # <<>> => host'[1].depth = 0
          /\ Len(callers') <= Len(calls')
      BY <1>1, <1>4, <2>1, <2>2, EmptySeq DEF NestingInv
    <2>4. \A k \in 1..Len(host') :
            /\ host'[k].depth <= Len(callers')
            /\ host'[k].ip = Shim => host'[k].phase = "run"
            /\ k < Len(host') => host'[k].called /\ host'[k].phase = "callback"
      BY <1>2, <1>4, <2>1, <2>2 DEF NestingInv
    <2>5. \A j, k \in 1..Len(host') : j <= k => host'[j].depth <= host'[k].depth
      BY <1>4, <2>1 DEF NestingInv
    <2>6. \A k \in 1..Len(callers') :
            callers'[k].ip = Shim => \E j \in 1..Len(host') : host'[j].isCall /\ host'[j].depth = k - 1
      <3> SUFFICES ASSUME NEW k \in 1..Len(callers), callers[k].ip = Shim
                   PROVE  \E j \in 1..Len(host') : host'[j].isCall /\ host'[j].depth = k - 1
        BY <2>2
      <3>1. PICK j \in 1..Len(host) : host[j].isCall /\ host[j].depth = k - 1
        BY DEF NestingInv
      <3> QED
        BY <1>4, <2>1, <3>1
    <2> QED
      BY <2>3, <2>4, <2>5, <2>6 DEF NestingInv
  <1> QED
    BY <1>3, <1>4, ExecuteFacts

LEMMA StartNesting ==
    ASSUME TypeInv, NestingInv, Execute \/ Call
    PROVE  NestingInv'
  <1>1. CASE Execute
    <2>1. PICK collects \in BOOLEAN : ExecuteWithIp(FALSE, collects)
      BY <1>1 DEF Execute
    <2> QED
      BY <1>1, <2>1, NestingFacts, OuterNesting DEF Execute
  <1>2. CASE Call
    <2>1. /\ InHost /\ [ip |-> Shim, base |-> Len(stack)] \in Callers
      BY <1>2, ClosureFacts, TopFacts DEF Call, Callers
    <2>2. Len(calls') = Len(calls) + 1 /\ Len(calls) \in Nat /\ Len(calls') \in Nat
      <3>1. CallStackPush(Shim, Shim)
        BY <1>2 DEF Call
      <3>2. Len(calls') = Len(calls) + 1
        BY <3>1, FramePushFacts
      <3> QED
        BY <3>2, NestingFacts
    <2>3. CASE UNCHANGED <<host, callers>>
      BY <2>2, <2>3 DEF NestingInv
    <2>4. CASE \E collects \in BOOLEAN :
                 /\ ExecuteWithIp(TRUE, collects)
                 /\ Liberty("collect", collects)
                 /\ callers' = IF error' THEN callers
                               ELSE Append(callers, [ip |-> Shim, base |-> Len(stack)])
      BY <2>1, <2>2, <2>4, OuterNesting
    <2> QED
      BY <1>2, <2>3, <2>4 DEF Call
  <1> QED
    BY <1>1, <1>2

LEMMA HostNesting ==
    ASSUME TypeInv, NestingInv, CallRefused \/ CallbackCatches \/ SoftReset \/ Ignore
    PROVE  NestingInv'
  <1>1. CASE CallRefused \/ CallbackCatches \/ Ignore
    BY <1>1, DataNesting DEF CallRefused, CallbackCatches, Ignore
  <1>2. CASE SoftReset
    BY <1>2, EmptySeq DEF SoftReset, NestingInv
  <1> QED
    BY <1>1, <1>2

LEMMA NestingNext == TypeInv /\ NestingInv /\ [Next]_vars => NestingInv'
  <1> SUFFICES ASSUME TypeInv, NestingInv, [Next]_vars PROVE NestingInv'
    OBVIOUS
  <1>1. CASE \/ UNCHANGED vars
             \/ PushNil \/ PushGlobal \/ SetGlobal \/ Pop \/ Move \/ Allocate \/ PushClosure
             \/ HostPushGlobal \/ HostPop \/ CopyFromTop \/ GarbageCollect
    BY <1>1, DataNesting DEF vars, PushNil, PushGlobal, SetGlobal, Pop, Move, Allocate, PushClosure,
                             HostPushGlobal, HostPop, CopyFromTop, GarbageCollect
  <1> QED
    BY <1>1, ControlNesting, LeaveNesting, StartNesting, HostNesting
       DEF Next, Instruction, Application

-----------------------------------------------------------------------------
(* The frames are the calls. *)

\* Liberties are never given back.
LEMMA LibertiesGrow ==
    ASSUME TypeInv, [Next]_vars
    PROVE  taken \subseteq taken'
  <1>1. ASSUME NEW name, NEW b, Liberty(name, b)
        PROVE  taken \subseteq taken'
    BY <1>1 DEF Liberty
  <1>2. CASE \/ UNCHANGED vars \/ Halt \/ HaltOfShim \/ RuntimeError
             \/ PushNil \/ PushGlobal \/ SetGlobal \/ Pop \/ Move \/ Funcall \/ Return \/ Ccall
             \/ HostPushGlobal \/ HostPop \/ CopyFromTop \/ CallRefused \/ CallbackReturns
             \/ CallbackFails \/ SoftReset
    BY <1>2 DEF vars, Halt, HaltOfShim, RuntimeError, PushNil, PushGlobal, SetGlobal, Pop, Move, Funcall,
                Return, Ccall, HostPushGlobal, HostPop, CopyFromTop, CallRefused, CallbackReturns,
                CallbackFails, SoftReset
  <1>3. CASE Allocate \/ PushClosure \/ GarbageCollect \/ CallbackCatches \/ Ignore
    BY <1>1, <1>3 DEF Allocate, PushClosure, GarbageCollect, CallbackCatches, Ignore
  <1>4. CASE Execute
    BY <1>1, <1>4 DEF Execute
  <1>5. CASE Call
    BY <1>1, <1>5 DEF Call
  <1> QED
    BY <1>2, <1>3, <1>4, <1>5 DEF Next, Instruction, Application

\* Only a callback that goes on after an error, and the end of everything,
\* take an error back.
LEMMA ErrorsStay ==
    ASSUME [Next]_vars, error
    PROVE  error' \/ "catch" \in taken' \/ (host = <<>> /\ UNCHANGED <<host, callers>>)
  <1>1. ~Running /\ ~InHost
    BY DEF Running, InHost
  <1>2. CASE UNCHANGED vars
    BY <1>2 DEF vars
  <1>3. CASE Instruction
    BY <1>1, <1>3 DEF Instruction, PushNil, PushGlobal, SetGlobal, Pop, Move, Allocate, PushClosure,
                      Funcall, Return, Ccall, RuntimeError, Halt, HaltOfShim
  <1>4. CASE CallbackFails \/ CallbackCatches \/ SoftReset \/ Ignore
    BY <1>4 DEF CallbackFails, Leave, CallbackCatches, Liberty, SoftReset, Ignore
  <1>5. CASE \/ HostPushGlobal \/ HostPop \/ CopyFromTop \/ GarbageCollect \/ Execute \/ Call
             \/ CallRefused \/ CallbackReturns
    BY <1>1, <1>5 DEF HostPushGlobal, HostPop, CopyFromTop, GarbageCollect, Execute, Call, CallRefused,
                      CallbackReturns
  <1> QED
    BY <1>2, <1>3, <1>4, <1>5 DEF Next, Application

LEMMA FramesInit == Init => FramesInv
  BY EmptySeq DEF Init, FramesInv, FramesMatch

\* A frame is pushed for a new call.
LEMMA MatchPush ==
    ASSUME TypeInv, NestingInv, FramesMatch,
           Len(calls') = Len(calls) + 1, Len(callers') = Len(callers) + 1,
           \A i \in 1..Len(calls) : calls'[i] = calls[i],
           \A i \in 1..Len(callers) : callers'[i] = callers[i],
           calls'[Len(calls) + 1].ip = callers'[Len(callers) + 1].ip
    PROVE  FramesMatch'
  <1> SUFFICES ASSUME NEW k \in 1..Len(callers')
               PROVE  calls'[Len(calls') - Len(callers') + k].ip = callers'[k].ip
    BY DEF FramesMatch
  <1>1. Len(calls) \in Nat /\ Len(callers) \in Nat /\ Len(callers) <= Len(calls)
    BY NestingFacts DEF NestingInv
  <1>2. Len(calls') - Len(callers') + k = Len(calls) - Len(callers) + k
    BY <1>1
  <1>3. CASE k = Len(callers) + 1
    <2>1. Len(calls) - Len(callers) + k = Len(calls) + 1
      BY <1>1, <1>3
    <2> QED
      BY <1>2, <1>3, <2>1
  <1>4. CASE k \in 1..Len(callers)
    <2>1. Len(calls) - Len(callers) + k \in 1..Len(calls)
      BY <1>1, <1>4
    <2> QED
      BY <1>2, <1>4, <2>1 DEF FramesMatch
  <1> QED
    BY <1>1, <1>3, <1>4

\* The last call returns, and its frame is popped.
LEMMA MatchPop ==
    ASSUME TypeInv, NestingInv, FramesMatch, callers # <<>>,
           Len(calls') = Len(calls) - 1, Len(callers') = Len(callers) - 1,
           \A i \in 1..Len(calls) - 1 : calls'[i] = calls[i],
           \A i \in 1..Len(callers) - 1 : callers'[i] = callers[i]
    PROVE  /\ FramesMatch'
           /\ calls # <<>> /\ calls[Len(calls)].ip = callers[Len(callers)].ip
  <1>1. /\ Len(calls) \in Nat /\ Len(callers) \in Nat \ {0} /\ Len(callers) <= Len(calls)
    BY NestingFacts, SeqFacts DEF NestingInv, TypeInv
  <1>2. calls[Len(calls)].ip = callers[Len(callers)].ip
    <2>1. Len(callers) \in 1..Len(callers) /\ Len(calls) - Len(callers) + Len(callers) = Len(calls)
      BY <1>1
    <2> QED
      BY <2>1 DEF FramesMatch
  <1>3. ASSUME NEW k \in 1..Len(callers')
        PROVE  calls'[Len(calls') - Len(callers') + k].ip = callers'[k].ip
    <2>1. /\ Len(calls') - Len(callers') + k = Len(calls) - Len(callers) + k
          /\ Len(calls) - Len(callers) + k \in 1..Len(calls) - 1
          /\ k \in 1..Len(callers) /\ k \in 1..Len(callers) - 1
      BY <1>1
    <2> QED
      BY <2>1 DEF FramesMatch
  <1>4. calls # <<>>
    BY <1>1, EmptySeq
  <1> QED
    BY <1>2, <1>3, <1>4 DEF FramesMatch

LEMMA FramesNext == TypeInv /\ NestingInv /\ NestingInv' /\ FramesInv /\ [Next]_vars => FramesInv'
  <1> SUFFICES ASSUME TypeInv, NestingInv, NestingInv', FramesInv, [Next]_vars, ~error', "catch" \notin taken'
               PROVE  /\ FramesMatch'
                      /\ \A k \in 1..Len(host') : host'[k].ip = Shim => Len(callers') = host'[k].depth
    BY DEF FramesInv
  <1>1. CASE error
    BY <1>1, ErrorsStay, EmptySeq DEF NestingInv, FramesMatch
  <1>2. CASE ~error
    <2>1. /\ FramesMatch
          /\ \A k \in 1..Len(host) : host[k].ip = Shim => Len(callers) = host[k].depth
      BY <1>2, LibertiesGrow DEF FramesInv
    <2>2. /\ \A k \in 1..Len(host) : host[k].ip = Shim => ~(k < Len(host))
          /\ \A k \in 1..Len(host') : host'[k].ip = Shim => ~(k < Len(host'))
      BY DEF NestingInv
    <2>3. CASE UNCHANGED <<host, calls, callers>>
      BY <2>1, <2>3 DEF FramesMatch
    <2>4. CASE Funcall
      <3>1. Act.ip \in Cells \cup {Shim} /\ Last(stack).entry # Shim /\ Len(host) \in Nat
        BY <2>4, FuncallFacts, RunningFacts, ClosureFacts, DistinctAssumption, NestingFacts
      <3>2. calls'[Len(calls) + 1].ip = callers'[Len(callers) + 1].ip
        BY <2>4, FuncallFacts
      <3>3. FramesMatch'
        BY <2>1, <2>4, <3>2, FuncallFacts, MatchPush
      <3>4. ASSUME NEW k \in 1..Len(host'), host'[k].ip = Shim
            PROVE  FALSE
        <4>1. k = Len(host) /\ k \in 1..Len(host) /\ host[k] \in Activations
          BY <2>2, <2>4, <3>1, <3>4, FuncallFacts, NestingFacts
        <4>2. host'[k] = [host[k] EXCEPT !.ip = Last(stack).entry]
          BY <2>4, <4>1, FuncallFacts
        <4> QED
          BY <3>1, <3>4, <4>1, <4>2 DEF Activations
      <3> QED
        BY <3>3, <3>4
    <2>5. CASE Return
      <3>1. /\ Len(callers) \in Nat \ {0} /\ callers # <<>> /\ Len(host) \in Nat /\ host # <<>>
            /\ Act = host[Len(host)] /\ Len(callers) > Act.depth /\ Act.depth \in Nat
        BY <2>5, ReturnFacts, EmptySeq, RunningFacts
      <3>2. Len(calls') = Len(calls) - 1
        <4>1. Len(calls) >= Len(callers)
          BY DEF NestingInv
        <4>2. calls # <<>>
          BY <3>1, <4>1, NestingFacts, EmptySeq
        <4> QED
          BY <2>5, <4>2, ReturnFacts
      <3>3. /\ FramesMatch'
            /\ calls # <<>> /\ calls[Len(calls)].ip = callers[Len(callers)].ip
        BY <2>1, <2>5, <3>1, <3>2, ReturnFacts, MatchPop
      <3>4. ASSUME NEW k \in 1..Len(host'), host'[k].ip = Shim
            PROVE  Len(callers') = host'[k].depth
        <4>1. k = Len(host) /\ k \in 1..Len(host) /\ host[k] \in Activations
          BY <2>2, <2>5, <3>1, <3>4, ReturnFacts, NestingFacts
        <4>2. host'[k] = [host[k] EXCEPT !.ip = calls[Len(calls)].ip]
          BY <2>5, <3>3, <4>1, ReturnFacts
        <4>3. callers[Len(callers)].ip = Shim /\ host'[k].depth = Act.depth
          BY <3>1, <3>3, <3>4, <4>1, <4>2 DEF Activations
        <4>4. PICK j \in 1..Len(host) : host[j].depth = Len(callers) - 1
          BY <3>1, <4>3 DEF NestingInv
        <4>5. host[j].depth <= Act.depth
          BY <3>1, NestingFacts
        <4> QED
          BY <2>5, <3>1, <4>3, <4>4, <4>5, ReturnFacts
      <3> QED
        BY <3>3, <3>4
    <2>6. CASE Ccall
      <3>1. UNCHANGED <<calls, callers>> /\ Len(host') = Len(host)
        BY <2>6, CcallFacts DEF Ccall
      <3>2. ASSUME NEW k \in 1..Len(host)
            PROVE  host'[k].ip = host[k].ip /\ host'[k].depth = host[k].depth
        <4>1. host[k] \in Activations
          BY NestingFacts
        <4>2. host'[k] = IF k = Len(host) THEN [host[k] EXCEPT !.phase = "callback", !.floor = Len(stack)]
                         ELSE host[k]
          BY <2>6, CcallFacts
        <4> QED
          BY <4>1, <4>2 DEF Activations
      <3> QED
        BY <2>1, <3>1, <3>2 DEF FramesMatch
    <2>7. CASE CallbackReturns
      <3>1. UNCHANGED <<calls, callers>> /\ Len(host') = Len(host)
        BY <2>7, CallbackReturnsFacts DEF CallbackReturns
      <3>2. ASSUME NEW k \in 1..Len(host)
            PROVE  host'[k].ip = host[k].ip /\ host'[k].depth = host[k].depth
        <4>1. host[k] \in Activations
          BY NestingFacts
        <4>2. host'[k] = IF k = Len(host) THEN [host[k] EXCEPT !.phase = "run"] ELSE host[k]
          BY <2>7, CallbackReturnsFacts
        <4> QED
          BY <4>1, <4>2 DEF Activations
      <3> QED
        BY <2>1, <3>1, <3>2 DEF FramesMatch
    <2>8. CASE Halt \/ HaltOfShim
      <3>1. /\ Leave(FALSE) /\ host # <<>> /\ UNCHANGED calls
            /\ Halt => Len(callers) = Act.depth
            /\ HaltOfShim => Act.ip = Shim
        BY <2>8, RunningFacts DEF Halt, HaltOfShim
      <3>2. Act = host[Len(host)] /\ Len(host) \in 1..Len(host)
        BY <3>1, ActFacts, NestingFacts
      <3>3. Len(callers) = Act.depth
        BY <2>1, <2>8, <3>1, <3>2
      <3>4. /\ Len(host') = Len(host) - 1 /\ Len(host) \in Nat
            /\ \A k \in 1..Len(host) - 1 : host'[k] = host[k]
            /\ Len(callers') = Len(callers)
            /\ \A k \in 1..Len(callers) : callers'[k] = callers[k]
        BY <3>1, <3>3, LeaveFacts
      <3>5. FramesMatch'
        BY <2>1, <3>1, <3>4 DEF FramesMatch
      <3> QED
        BY <2>1, <2>2, <3>4, <3>5
    <2>9. ASSUME NEW isCall \in BOOLEAN, NEW collects \in BOOLEAN, ExecuteWithIp(isCall, collects), InHost
          PROVE  \A k \in 1..Len(host') : host'[k].ip # Shim
      <3>1. /\ Len(host') = Len(host) + 1 /\ Len(host) \in Nat
            /\ \E cell \in Cells : host'[Len(host) + 1] = Activation(cell, isCall)
            /\ \A k \in 1..Len(host) :
                 host'[k] = IF k = Len(host) THEN [host[k] EXCEPT !.called = TRUE] ELSE host[k]
        BY <2>9, ExecuteFacts, NestingFacts
      <3>2. PICK cell \in Cells : host'[Len(host) + 1] = Activation(cell, isCall)
        BY <3>1
      <3> SUFFICES ASSUME NEW k \in 1..Len(host'), host'[k].ip = Shim PROVE FALSE
        OBVIOUS
      <3>3. k = Len(host')
        BY <2>2, <3>1
      <3>4. host'[k].ip = cell
        BY <3>1, <3>2, <3>3 DEF Activation
      <3> QED
        BY <3>4, DistinctAssumption
    <2>10. CASE Execute
      <3>1. \E collects \in BOOLEAN : ExecuteWithIp(FALSE, collects)
        BY <2>10 DEF Execute
      <3>2. InHost /\ UNCHANGED <<calls, callers>>
        BY <2>10 DEF Execute
      <3> QED
        BY <2>1, <2>9, <3>1, <3>2 DEF FramesMatch
    <2>11. CASE Call
      <3>1. InHost /\ CallStackPush(Shim, Shim)
        BY <2>11 DEF Call
      <3>2. PICK collects \in BOOLEAN :
              /\ ExecuteWithIp(TRUE, collects)
              /\ callers' = IF error' THEN callers
                            ELSE Append(callers, [ip |-> Shim, base |-> Len(stack)])
        BY <2>11 DEF Call
      <3>3. [ip |-> Shim, base |-> Len(stack)] \in Callers
        BY <2>11, ClosureFacts, TopFacts DEF Call, Callers
      <3>4. callers' = Append(callers, [ip |-> Shim, base |-> Len(stack)])
        BY <3>2
      <3>5. /\ Len(callers') = Len(callers) + 1
            /\ \A i \in 1..Len(callers) : callers'[i] = callers[i]
            /\ callers'[Len(callers) + 1].ip = Shim
        BY <3>3, <3>4, AppendFacts DEF TypeInv
      <3>6. /\ Len(calls') = Len(calls) + 1
            /\ \A i \in 1..Len(calls) : calls'[i] = calls[i]
            /\ calls'[Len(calls) + 1].ip = Shim
        <4>1. /\ Len(calls') = Len(calls) + 1
              /\ \A i \in 1..Len(calls) : calls'[i] = calls[i]
              /\ calls'[Len(calls')] = [ip |-> Shim, bytecode |-> Shim]
          BY <3>1, FramePushFacts
        <4> QED
          BY <4>1
      <3>7. FramesMatch'
        BY <2>1, <3>5, <3>6, MatchPush
      <3> QED
        BY <2>9, <3>1, <3>2, <3>7
    <2>12. CASE RuntimeError \/ CallbackFails \/ CallRefused
      BY <2>12 DEF RuntimeError, CallbackFails, CallRefused, Leave
    <2>13. CASE SoftReset
      BY <2>13, EmptySeq DEF SoftReset, NestingInv, FramesMatch
    <2> QED
      BY <2>3, <2>4, <2>5, <2>6, <2>7, <2>8, <2>10, <2>11, <2>12, <2>13
         DEF Next, Instruction, Application, vars, PushNil, PushGlobal, SetGlobal, Pop, Move, Allocate,
             PushClosure, HostPushGlobal, HostPop, CopyFromTop, GarbageCollect, CallbackCatches, Ignore
  <1> QED
    BY <1>1, <1>2

-----------------------------------------------------------------------------
(* Code is kept. *)

LEMMA KeptInit == Init => KeptInv
  <1> SUFFICES ASSUME Init PROVE CodeInHeap /\ SingleInv
    BY DEF KeptInv
  <1>1. /\ Len(host) = 0 /\ Len(callers) = 0 /\ Len(calls) = 0
        /\ ToSet(stack) = {} /\ global = Null
    BY EmptySeq DEF Init, ToSet
  <1> QED
    BY <1>1 DEF CodeInHeap, SingleInv, Single, Closures

LEMMA SingleFacts ==
    ASSUME TypeInv, NestingInv, Single
    PROVE  /\ host # <<>> /\ Len(host) = 1 /\ Act = host[1] /\ host[1] \in Activations
           /\ Act.depth = 0
           /\ Len(callers) \in Nat
           /\ \A k \in 1..Len(callers) : callers[k] \in Callers
           /\ Running /\ callers # <<>> => Floor = callers[Len(callers)].base
  <1>1. Len(host) = 1 /\ host # <<>>
    BY EmptySeq DEF Single
  <1>2. Act = host[1] /\ host[1] \in Activations /\ Act.depth = 0
    BY <1>1, ActFacts DEF NestingInv
  <1>3. Running /\ callers # <<>> => Floor = callers[Len(callers)].base
    <2>1. callers # <<>> => Len(callers) > 0 /\ Len(callers) \in Nat
      BY SeqFacts DEF TypeInv
    <2> QED
      BY <1>2, <2>1, FloorFacts
  <1> QED
    BY <1>1, <1>2, <1>3, NestingFacts

\* The closures of the functions that run lie below the floor.
LEMMA BasesFacts ==
    ASSUME TypeInv, NestingInv, SingleInv, Single
    PROVE  /\ \A k \in 1..Len(callers) : /\ callers[k].base \in 1..Len(stack)
                                         /\ callers[k].base <= callers[Len(callers)].base
                                         /\ (Running \/ InHost) => callers[k].base <= Floor
           /\ \A k \in 0..Len(callers) : CodeOf(k) \in Cells
  <1>1. \A k \in 1..Len(callers) : /\ callers[k].base \in 1..Len(stack)
                                   /\ callers[k].base <= callers[Len(callers)].base
    <2> TAKE k \in 1..Len(callers)
    <2>1. callers[k].base \in 1..Len(stack) /\ callers[Len(callers)].base \in Nat
      BY SingleFacts DEF SingleInv, Callers
    <2>2. CASE k = Len(callers)
      BY <2>1, <2>2
    <2>3. CASE k < Len(callers)
      <3>1. Len(callers) \in 1..Len(callers)
        BY SingleFacts
      <3>2. callers[k].base < callers[Len(callers)].base
        BY <2>3, <3>1 DEF SingleInv
      <3> QED
        BY <2>1, <3>2
    <2> QED
      BY <2>1, <2>2, <2>3, SingleFacts
  <1>2. ASSUME NEW k \in 1..Len(callers), Running \/ InHost
        PROVE  callers[k].base <= Floor
    <2>1. callers # <<>>
      BY <1>2, EmptySeq
    <2>2. CASE Running
      BY <1>1, <2>1, <2>2, SingleFacts
    <2>3. CASE InHost
      <3>1. Act.phase = "callback" /\ Floor = host[1].floor
        BY <2>3, SingleFacts, FloorFacts DEF InHost
      <3>2. callers[Len(callers)].base <= host[1].floor
        BY <2>1, <3>1, SingleFacts DEF SingleInv
      <3>3. /\ callers[k].base \in Nat /\ callers[Len(callers)].base \in Nat /\ host[1].floor \in Nat
        <4>1. k \in 1..Len(callers) /\ Len(callers) \in 1..Len(callers)
          BY SingleFacts
        <4> QED
          BY <4>1, SingleFacts DEF Callers, Activations
      <3> QED
        BY <1>1, <3>1, <3>2, <3>3
    <2> QED
      BY <1>2, <2>2, <2>3
  <1>3. ASSUME NEW k \in 0..Len(callers)
        PROVE  CodeOf(k) \in Cells
    <2>1. CASE k = 0
      BY <2>1, SingleFacts DEF CodeOf, Activations
    <2>2. CASE k # 0
      <3>1. k \in 1..Len(callers) /\ callers[k].base \in 1..Len(stack) /\ stack[callers[k].base] # Null
        BY <2>2, SingleFacts DEF SingleInv
      <3>2. stack[callers[k].base] \in Values
        BY <3>1, SeqFacts DEF TypeInv
      <3> QED
        BY <2>2, <3>1, <3>2 DEF CodeOf, Values
    <2> QED
      BY <2>1, <2>2
  <1> QED
    BY <1>1, <1>2, <1>3

\* What happens on the stack above the closures of the functions that run
\* leaves their code as it is.
LEMMA SingleStack ==
    ASSUME TypeInv, NestingInv, SingleInv, Single,
           Len(host') = 1, UNCHANGED <<current, calls, callers>>,
           host'[1].code = host[1].code, host'[1].ip = host[1].ip,
           host'[1].phase = "callback" /\ callers # <<>> => callers[Len(callers)].base <= host'[1].floor,
           Len(stack') \in Nat,
           \A k \in 1..Len(callers) :
             callers[k].base <= Len(stack') /\ stack'[callers[k].base] = stack[callers[k].base]
    PROVE  SingleInv'
  <1>1. \A k \in 0..Len(callers) : CodeOf(k)' = CodeOf(k)
    BY SingleFacts DEF CodeOf
  <1>2. \A k \in 1..Len(callers) : k - 1 \in 0..Len(callers) /\ k \in 0..Len(callers)
    BY SingleFacts
  <1>3. host'[1].ip = CodeOf(Len(callers))'
    BY <1>1, SingleFacts DEF SingleInv
  <1>4. \A k \in 1..Len(callers) :
          /\ callers[k].base \in 1..Len(stack')
          /\ stack'[callers[k].base] # Null
          /\ callers[k].ip = CodeOf(k - 1)'
    <2> TAKE k \in 1..Len(callers)
    <2>1. CodeOf(k - 1)' = CodeOf(k - 1)
      BY <1>1, <1>2
    <2>2. /\ callers[k].base \in 1..Len(stack)
          /\ stack[callers[k].base] # Null
          /\ callers[k].ip = CodeOf(k - 1)
      BY DEF SingleInv
    <2> QED
      BY <2>1, <2>2
  <1>5. FramesMatch'
    BY DEF SingleInv, FramesMatch
  <1> QED
    BY <1>3, <1>4, <1>5 DEF SingleInv

\* The same, when the innermost execution stays as it is.
LEMMA SingleData ==
    ASSUME TypeInv, NestingInv, SingleInv,
           UNCHANGED <<current, host, calls, callers>>, Len(stack') \in Nat,
           Single => \A k \in 1..Len(callers) :
             callers[k].base <= Len(stack') /\ stack'[callers[k].base] = stack[callers[k].base]
    PROVE  SingleInv'
  <1>1. CASE ~Single
    BY <1>1 DEF SingleInv, Single
  <1>2. CASE Single
    BY <1>2, SingleFacts, SingleStack DEF SingleInv
  <1> QED
    BY <1>1, <1>2

LEMMA DataSingle ==
    ASSUME TypeInv, NestingInv, SingleInv,
           PushNil \/ PushGlobal \/ SetGlobal \/ Pop \/ Move \/ Allocate \/ PushClosure
             \/ HostPushGlobal \/ HostPop \/ CopyFromTop \/ GarbageCollect
    PROVE  SingleInv'
  <1>1. /\ UNCHANGED <<current, host, calls, callers>> /\ Len(stack) \in Nat
        /\ \A k \in 1..Len(callers) : Single => callers[k].base \in 1..Len(stack)
    BY BasesFacts, SeqFacts
       DEF TypeInv, PushNil, PushGlobal, SetGlobal, Pop, Move, Allocate, PushClosure,
           HostPushGlobal, HostPop, CopyFromTop, GarbageCollect
  <1>2. CASE SetGlobal \/ Allocate \/ GarbageCollect
    BY <1>1, <1>2, SingleData DEF SetGlobal, Allocate, GarbageCollect
  <1>3. CASE PushNil \/ PushGlobal \/ HostPushGlobal \/ PushClosure
    <2>1. PICK v \in Values : Push(v)
      <3>1. Null \in Values /\ global \in Values
        BY DEF TypeInv, Values
      <3>2. PushClosure => [bytecode |-> Act.code, entry |-> Act.ip] \in Values
        BY RunningFacts DEF Values, PushClosure
      <3> QED
        BY <1>3, <3>1, <3>2 DEF PushNil, PushGlobal, HostPushGlobal, PushClosure
    <2>2. Len(stack') = Len(stack) + 1 /\ \A i \in 1..Len(stack) : stack'[i] = stack[i]
      BY <2>1, PushFacts
    <2>3. Len(stack') \in Nat
      BY <1>1, <2>2
    <2>4. Single => \A k \in 1..Len(callers) :
             callers[k].base <= Len(stack') /\ stack'[callers[k].base] = stack[callers[k].base]
      BY <1>1, <2>2
    <2> QED
      BY <1>1, <2>3, <2>4, SingleData
  <1>4. CASE Pop \/ HostPop
    <2>1. (Running \/ InHost) /\ OwnTop /\ stack' = Front(stack)
      BY <1>4 DEF Pop, HostPop
    <2>2. /\ Len(stack') = Len(stack) - 1 /\ \A i \in 1..Len(stack) - 1 : stack'[i] = stack[i]
          /\ Floor \in Nat /\ Len(stack) > Floor
      BY <2>1, PopFacts, TopFacts, FloorFacts
    <2>3. Len(stack') \in Nat
      BY <1>1, <2>2
    <2>4. Single => \A k \in 1..Len(callers) :
             callers[k].base <= Len(stack') /\ stack'[callers[k].base] = stack[callers[k].base]
      <3> SUFFICES ASSUME Single, NEW k \in 1..Len(callers)
                   PROVE  callers[k].base <= Len(stack') /\ stack'[callers[k].base] = stack[callers[k].base]
        OBVIOUS
      <3>1. callers[k].base \in 1..Len(stack) /\ callers[k].base <= Floor
        BY <2>1, BasesFacts
      <3> DEFINE b == callers[k].base
      <3>2. b \in 1..Len(stack) - 1
        BY <1>1, <2>2, <3>1
      <3> HIDE DEF b
      <3>3. b <= Len(stack') /\ stack'[b] = stack[b]
        BY <1>1, <2>2, <3>2
      <3> QED
        BY <3>3 DEF b
    <2> QED
      BY <1>1, <2>3, <2>4, SingleData
  <1>5. CASE Move \/ CopyFromTop
    <2>1. (Running \/ InHost) /\ MoveTop
      BY <1>5 DEF Move, CopyFromTop
    <2>2. /\ Len(stack') = Len(stack) /\ Floor \in Nat
          /\ \A i \in 1..Len(stack) : i <= Floor => stack'[i] = stack[i]
      BY <2>1, MoveFacts
    <2>3. Single => \A k \in 1..Len(callers) :
             callers[k].base <= Len(stack') /\ stack'[callers[k].base] = stack[callers[k].base]
      <3> SUFFICES ASSUME Single, NEW k \in 1..Len(callers)
                   PROVE  callers[k].base <= Len(stack') /\ stack'[callers[k].base] = stack[callers[k].base]
        OBVIOUS
      <3>1. callers[k].base \in 1..Len(stack) /\ callers[k].base <= Floor
        BY <2>1, BasesFacts
      <3> QED
        BY <1>1, <2>2, <3>1
    <2> QED
      BY <1>1, <2>2, <2>3, SingleData
  <1> QED
    BY <1>2, <1>3, <1>4, <1>5

LEMMA FuncallSingle ==
    ASSUME TypeInv, NestingInv, SingleInv, Funcall
    PROVE  SingleInv'
  <1> SUFFICES ASSUME Single' PROVE SingleInv'
    BY DEF SingleInv
  <1> DEFINE n == Len(callers)
             b == Len(stack)
  <1>1. Len(host) \in 1..Len(host) /\ Len(host') = Len(host) /\ UNCHANGED <<stack, current>>
    BY FuncallFacts, NestingFacts DEF Funcall
  <1>2. Single
    <2>1. Len(host) = 1 /\ host[1] \in Activations
      BY <1>1, NestingFacts DEF Single
    <2>2. host'[1] = [host[1] EXCEPT !.ip = Last(stack).entry]
      BY <2>1, FuncallFacts
    <2>3. host'[1].isCall = host[1].isCall /\ host'[1].called = host[1].called
      BY <2>1, <2>2 DEF Activations
    <2> QED
      BY <2>1, <2>3 DEF Single
  <1>3. /\ Len(host) = 1 /\ host[1] \in Activations /\ Act = host[1]
        /\ host'[1] = [host[1] EXCEPT !.ip = Last(stack).entry]
    <2>1. Len(host) = 1 /\ host[1] \in Activations /\ Act = host[1]
      BY <1>2, SingleFacts
    <2> QED
      BY <2>1, FuncallFacts
  <1>4. host'[1].code = host[1].code /\ host'[1].phase = "run" /\ host'[1].ip = Last(stack).entry
    BY <1>3, FuncallFacts, RunningFacts DEF Activations
  <1>5. /\ b \in Nat \ {0} /\ b > Floor /\ Floor \in Nat
        /\ Last(stack) = stack[b] /\ Last(stack) # Null
    BY FuncallFacts, TopFacts, FloorFacts DEF ClosureOnTop
  <1>6. /\ n \in Nat /\ Len(callers') = n + 1
        /\ callers'[n + 1] = [ip |-> Act.ip, base |-> b]
        /\ \A k \in 1..n : callers'[k] = callers[k]
    BY FuncallFacts, NestingFacts
  <1>7. \A k \in 1..n : callers[k].base \in 1..b /\ callers[k].base < b
    <2> TAKE k \in 1..n
    <2>1. callers[k].base \in 1..b /\ callers[k].base <= Floor
      BY <1>2, FuncallFacts, BasesFacts
    <2> QED
      BY <1>5, <2>1
  <1> HIDE DEF n, b
  <1>8. \A k \in 0..n : CodeOf(k)' = CodeOf(k)
    BY <1>1, <1>4, <1>6 DEF CodeOf
  <1>9. host[1].ip = CodeOf(n) /\ current' = host'[1].code
    BY <1>1, <1>2, <1>4 DEF SingleInv, n
  <1>10. host'[1].ip = CodeOf(Len(callers))'
    <2>1. callers'[n + 1].base = b /\ n + 1 # 0
      BY <1>6
    <2> QED
      BY <1>1, <1>4, <1>5, <1>6, <2>1 DEF CodeOf
  <1>11. ASSUME NEW k \in 1..Len(callers')
         PROVE  /\ callers'[k].base \in 1..Len(stack')
                /\ stack'[callers'[k].base] # Null
                /\ callers'[k].ip = CodeOf(k - 1)'
    <2>1. k - 1 \in 0..n /\ CodeOf(k - 1)' = CodeOf(k - 1) /\ stack' = stack /\ Len(stack) = b
      BY <1>1, <1>6, <1>8 DEF b
    <2>2. CASE k = n + 1
      <3>1. callers'[k].base = b /\ callers'[k].ip = host[1].ip /\ k - 1 = n
        BY <1>3, <1>6, <2>2
      <3> QED
        BY <1>5, <1>9, <2>1, <3>1
    <2>3. CASE k \in 1..n
      BY <1>2, <1>6, <2>1, <2>3 DEF SingleInv, n
    <2> QED
      BY <1>6, <2>2, <2>3
  <1>12. \A j, k \in 1..Len(callers') : j < k => callers'[j].base < callers'[k].base
    <2> SUFFICES ASSUME NEW j \in 1..Len(callers'), NEW k \in 1..Len(callers'), j < k
                 PROVE  callers'[j].base < callers'[k].base
      OBVIOUS
    <2>1. j \in 1..n /\ callers'[j] = callers[j]
      BY <1>6
    <2>2. CASE k = n + 1
      BY <1>6, <1>7, <2>1, <2>2
    <2>3. CASE k \in 1..n
      BY <1>2, <1>6, <2>1, <2>3 DEF SingleInv, n
    <2> QED
      BY <1>6, <2>2, <2>3
  <1>13. FramesMatch'
    <2>1. FramesMatch
      BY <1>2 DEF SingleInv
    <2>2. calls'[Len(calls) + 1].ip = callers'[Len(callers) + 1].ip
      BY FuncallFacts
    <2> QED
      BY <2>1, <2>2, FuncallFacts, MatchPush
  <1> QED
    BY <1>4, <1>9, <1>10, <1>11, <1>12, <1>13 DEF SingleInv

LEMMA ReturnSingle ==
    ASSUME TypeInv, NestingInv, SingleInv, Return
    PROVE  SingleInv'
  <1> SUFFICES ASSUME Single' PROVE SingleInv'
    BY DEF SingleInv
  <1> DEFINE n == Len(callers)
             b == callers[n].base
  <1>1. Len(host') = Len(host) /\ UNCHANGED current /\ Len(host) = 1 /\ host[1] \in Activations
    <2>1. Len(host') = Len(host) /\ Len(host) = 1
      BY ReturnFacts DEF Single
    <2> QED
      BY <2>1, NestingFacts DEF Return
  <1> DEFINE ip == IF calls = <<>> THEN Shim ELSE calls[Len(calls)].ip
  <1>2. host'[1] = [host[1] EXCEPT !.ip = ip]
    BY <1>1, ReturnFacts
  <1> HIDE DEF ip
  <1>3. /\ host'[1].isCall = host[1].isCall /\ host'[1].called = host[1].called
        /\ host'[1].code = host[1].code /\ host'[1].phase = host[1].phase /\ host'[1].ip = ip
    <2>1. ip \in Cells \cup {Shim} => host'[1].ip = ip
      BY <1>1, <1>2 DEF Activations
    <2> QED
      BY <1>1, <1>2 DEF Activations
  <1>4. Single /\ host[1].phase = "run"
    <2>1. Act = host[1]
      BY <1>1, ReturnFacts, ActFacts
    <2> QED
      BY <1>1, <1>3, <2>1, ReturnFacts, RunningFacts DEF Single
  <1>5. /\ n \in Nat \ {0} /\ Len(callers') = n - 1
        /\ \A k \in 1..n - 1 : callers'[k] = callers[k] /\ callers[k].base < b /\ callers[k].base \in Nat \ {0}
        /\ Len(stack') = b + 1 /\ \A i \in 1..b : stack'[i] = stack[i]
        /\ b \in Nat \ {0}
    <2>1. /\ n \in Nat \ {0} /\ Len(callers') = n - 1
          /\ \A k \in 1..n - 1 : callers'[k] = callers[k]
          /\ Len(stack') = b + 1 /\ \A i \in 1..b : stack'[i] = stack[i]
          /\ callers[n] \in Callers
      BY ReturnFacts
    <2>2. \A k \in 1..n - 1 : callers[k].base < b /\ callers[k].base \in Nat \ {0}
      <3> TAKE k \in 1..n - 1
      <3>1. k \in 1..n /\ n \in 1..n /\ k < n
        BY <2>1
      <3> QED
        BY <1>4, <3>1, NestingFacts DEF SingleInv, Callers
    <2> QED
      BY <2>1, <2>2 DEF Callers
  <1>6. /\ FramesMatch' /\ ip = callers[n].ip
    <2>1. callers # <<>> /\ FramesMatch
      BY <1>4, <1>5, EmptySeq DEF SingleInv
    <2>2. Len(calls') = Len(calls) - 1
      <3>1. Len(calls) >= Len(callers) /\ Len(callers) > 0
        BY <1>5 DEF NestingInv
      <3>2. calls # <<>>
        BY <3>1, NestingFacts, EmptySeq
      <3> QED
        BY <3>2, ReturnFacts
    <2>3. FramesMatch' /\ calls # <<>> /\ calls[Len(calls)].ip = callers[Len(callers)].ip
      BY <2>1, <2>2, ReturnFacts, MatchPop
    <2> QED
      BY <2>3 DEF ip
  <1> HIDE DEF n, b
  <1>7. \A k \in 0..n - 1 : CodeOf(k)' = CodeOf(k)
    <2> TAKE k \in 0..n - 1
    <2>1. CASE k = 0
      BY <1>3, <2>1 DEF CodeOf
    <2>2. CASE k # 0
      <3>1. k \in 1..n - 1 /\ callers'[k].base = callers[k].base
        BY <1>5, <2>2
      <3> DEFINE m == callers[k].base
      <3>2. m \in 1..b
        BY <1>5, <3>1
      <3>3. stack'[m] = stack[m]
        BY <1>5, <3>2
      <3> QED
        BY <2>2, <3>1, <3>3 DEF CodeOf
    <2> QED
      BY <2>1, <2>2
  <1>8. current' = host'[1].code
    BY <1>1, <1>3, <1>4 DEF SingleInv
  <1>9. host'[1].ip = CodeOf(Len(callers))'
    <2>1. n \in 1..Len(callers)
      BY <1>5 DEF n
    <2>2. callers[n].ip = CodeOf(n - 1)
      BY <1>4, <2>1 DEF SingleInv
    <2>3. PICK m \in 0..n - 1 : m = n - 1
      BY <1>5
    <2>4. CodeOf(m)' = CodeOf(m) /\ Len(callers') = m
      BY <1>5, <1>7, <2>3
    <2>5. CodeOf(Len(callers))' = CodeOf(m)'
      BY <2>4 DEF CodeOf
    <2> QED
      BY <1>3, <1>6, <2>2, <2>3, <2>4, <2>5
  <1>10. ASSUME NEW k \in 1..Len(callers')
         PROVE  /\ callers'[k].base \in 1..Len(stack')
                /\ stack'[callers'[k].base] # Null
                /\ callers'[k].ip = CodeOf(k - 1)'
    <2>1. /\ k \in 1..n - 1 /\ k - 1 \in 0..n - 1 /\ k \in 1..Len(callers) /\ callers'[k] = callers[k]
      BY <1>5 DEF n
    <2> DEFINE m == callers[k].base
    <2>2. m \in 1..b /\ m \in 1..b + 1
      BY <1>5, <2>1
    <2>3. stack'[m] = stack[m] /\ stack[m] # Null /\ callers[k].ip = CodeOf(k - 1)
      BY <1>4, <1>5, <2>1, <2>2 DEF SingleInv
    <2>4. CodeOf(k - 1)' = CodeOf(k - 1)
      BY <1>7, <2>1
    <2> QED
      BY <1>5, <2>1, <2>2, <2>3, <2>4
  <1>11. \A j, k \in 1..Len(callers') : j < k => callers'[j].base < callers'[k].base
    <2>1. \A k \in 1..Len(callers') : k \in 1..Len(callers) /\ callers'[k] = callers[k]
      BY <1>5 DEF n
    <2> QED
      BY <1>4, <2>1 DEF SingleInv
  <1> QED
    BY <1>3, <1>4, <1>6, <1>8, <1>9, <1>10, <1>11 DEF SingleInv

LEMMA CallbackSingle ==
    ASSUME TypeInv, NestingInv, SingleInv, Ccall \/ CallbackReturns
    PROVE  SingleInv'
  <1> SUFFICES ASSUME Single' PROVE SingleInv'
    BY DEF SingleInv
  <1>1. /\ Len(host') = Len(host) /\ Len(host) = 1 /\ host[1] \in Activations
        /\ UNCHANGED <<stack, current, calls, callers>>
    BY CcallFacts, CallbackReturnsFacts, NestingFacts DEF Single, Ccall, CallbackReturns
  <1>2. CASE Ccall
    <2>1. host'[1] = [host[1] EXCEPT !.phase = "callback", !.floor = Len(stack)]
      BY <1>1, <1>2, CcallFacts
    <2>2. /\ host'[1].isCall = host[1].isCall /\ host'[1].called = host[1].called
          /\ host'[1].code = host[1].code /\ host'[1].ip = host[1].ip /\ host'[1].floor = Len(stack)
      BY <1>1, <2>1 DEF Activations
    <2>3. Single
      BY <1>1, <2>2 DEF Single
    <2>4. \A k \in 1..Len(callers) : callers[k].base \in 1..Len(stack)
      BY <2>3, BasesFacts
    <2>5. callers # <<>> => callers[Len(callers)].base <= Len(stack)
      <3>1. callers # <<>> => Len(callers) \in 1..Len(callers)
        BY SeqFacts DEF TypeInv
      <3> QED
        BY <2>4, <3>1
    <2> QED
      BY <1>1, <2>2, <2>3, <2>4, <2>5, SingleStack, SeqFacts DEF TypeInv
  <1>3. CASE CallbackReturns
    <2>1. host'[1] = [host[1] EXCEPT !.phase = "run"]
      BY <1>1, <1>3, CallbackReturnsFacts
    <2>2. /\ host'[1].isCall = host[1].isCall /\ host'[1].called = host[1].called
          /\ host'[1].code = host[1].code /\ host'[1].ip = host[1].ip /\ host'[1].phase = "run"
      BY <1>1, <2>1 DEF Activations
    <2>3. Single
      BY <1>1, <2>2 DEF Single
    <2>4. \A k \in 1..Len(callers) : callers[k].base \in 1..Len(stack)
      BY <2>3, BasesFacts
    <2> QED
      BY <1>1, <2>2, <2>3, <2>4, SingleStack, SeqFacts DEF TypeInv
  <1> QED
    BY <1>2, <1>3

\* Where an execution ends inside another one, or starts inside one or as a
\* call, none is alone afterwards.
LEMMA NotSingle ==
    ASSUME TypeInv, NestingInv,
           \/ \E failed \in BOOLEAN : host # <<>> /\ Leave(failed)
           \/ InHost /\ host # <<>> /\ \E isCall, collects \in BOOLEAN : ExecuteWithIp(isCall, collects)
           \/ \E collects \in BOOLEAN : ExecuteWithIp(TRUE, collects)
    PROVE  ~Single'
  <1> SUFFICES ASSUME Single' PROVE FALSE
    OBVIOUS
  <1>1. Len(host') = 1 /\ ~host'[1].isCall /\ ~host'[1].called /\ Len(host) \in Nat
    BY NestingFacts DEF Single
  <1>2. ASSUME NEW failed \in BOOLEAN, host # <<>>, Leave(failed)
        PROVE  FALSE
    <2>1. Len(host) = 2 /\ host'[1] = host[1]
      <3>1. Len(host') = Len(host) - 1 /\ \A k \in 1..Len(host) - 1 : host'[k] = host[k]
        BY <1>2, LeaveFacts
      <3>2. Len(host) = 2
        <4> DEFINE n == Len(host)
        <4>1. n \in Nat /\ 1 = n - 1
          BY <1>1, <3>1
        <4> HIDE DEF n
        <4>2. n = 2
          BY <4>1
        <4> QED
          BY <4>2 DEF n
      <3>3. 1 \in 1..Len(host) - 1
        BY <3>2
      <3> QED
        BY <3>1, <3>2, <3>3
    <2> QED
      BY <1>1, <2>1 DEF NestingInv
  <1>3. ASSUME NEW isCall \in BOOLEAN, NEW collects \in BOOLEAN, ExecuteWithIp(isCall, collects),
               host # <<>> \/ isCall
        PROVE  FALSE
    <2>1. /\ host # <<>> <=> Len(host) > 0
          /\ \A k \in 1..Len(host) : host[k] \in Activations
      BY NestingFacts, EmptySeq DEF TypeInv
    <2>2. CASE \E cell \in Cells :
                 /\ Len(host') = Len(host) + 1
                 /\ host'[Len(host) + 1] = Activation(cell, isCall)
      <3>1. Len(host) = 0 /\ host'[1].isCall = isCall
        BY <1>1, <2>2 DEF Activation
      <3> QED
        BY <1>1, <1>3, <2>1, <3>1
    <2>3. CASE /\ Len(host') = Len(host)
               /\ \A k \in 1..Len(host) :
                    host'[k] = IF k = Len(host) THEN [host[k] EXCEPT !.called = TRUE] ELSE host[k]
      <3>1. Len(host) = 1 /\ host[1] \in Activations /\ host'[1] = [host[1] EXCEPT !.called = TRUE]
        <4>1. Len(host) = 1
          BY <1>1, <2>3
        <4> QED
          BY <2>1, <2>3, <4>1
      <3> QED
        BY <1>1, <3>1 DEF Activations
    <2> QED
      BY <1>3, <2>2, <2>3, ExecuteFacts
  <1> QED
    BY <1>2, <1>3

\* The application's program starts.
LEMMA ExecuteSingle ==
    ASSUME TypeInv, NestingInv, SingleInv, Execute
    PROVE  SingleInv'
  <1>1. CASE host # <<>>
    <2>1. ~Single'
      BY <1>1, NotSingle DEF Execute
    <2> QED
      BY <2>1 DEF SingleInv
  <1>2. CASE host = <<>>
    <2> SUFFICES ASSUME Single' PROVE SingleInv'
      BY DEF SingleInv
    <2>1. Len(host) = 0 /\ callers = <<>> /\ callers' = <<>> /\ Len(callers') = 0
      BY <1>2, EmptySeq DEF NestingInv, Execute
    <2>2. PICK collects \in BOOLEAN : ExecuteWithIp(FALSE, collects)
      BY DEF Execute
    <2>3. PICK cell \in Cells \ Kept(collects) : current' = cell /\ host'[1] = Activation(cell, FALSE)
      <3>1. Len(host') # Len(host)
        BY <2>1 DEF Single
      <3>2. PICK cell \in Cells \ Kept(collects) :
              current' = cell /\ host'[Len(host) + 1] = Activation(cell, FALSE)
        BY <2>2, <3>1, ExecuteFacts
      <3>3. Len(host) + 1 = 1
        BY <2>1
      <3> QED
        BY <3>2, <3>3
    <2>4. host'[1].code = cell /\ host'[1].ip = cell /\ host'[1].phase = "run"
      BY <2>3 DEF Activation
    <2>5. host'[1].ip = CodeOf(Len(callers))' /\ current' = host'[1].code
      BY <2>1, <2>3, <2>4 DEF CodeOf
    <2>6. FramesMatch' /\ \A k \in 1..Len(callers') : FALSE
      BY <2>1 DEF FramesMatch
    <2> QED
      BY <2>4, <2>5, <2>6 DEF SingleInv
  <1> QED
    BY <1>1, <1>2

LEMMA SingleNext ==
    ASSUME TypeInv, NestingInv, CodeInHeap, SingleInv, [Next]_vars
    PROVE  SingleInv'
  <1>1. CASE \/ UNCHANGED vars \/ CallRefused \/ CallbackCatches \/ Ignore
    <2>1. UNCHANGED <<stack, calls, current, host, callers>>
      BY <1>1 DEF vars, CallRefused, CallbackCatches, Ignore
    <2> QED
      BY <2>1 DEF SingleInv, Single, CodeOf, FramesMatch
  <1>2. CASE SoftReset
    <2>1. Len(host') # 1
      BY <1>2, EmptySeq DEF SoftReset
    <2> QED
      BY <2>1 DEF SingleInv, Single
  <1>3. CASE RuntimeError \/ Halt \/ HaltOfShim \/ CallbackFails
    <2>1. ~Single'
      BY <1>3, NotSingle, RunningFacts DEF RuntimeError, Halt, HaltOfShim, CallbackFails
    <2> QED
      BY <2>1 DEF SingleInv
  <1>4. CASE Call
    <2>1. Last(stack) \in Closures
      BY <1>4, TopFacts DEF Call, ClosureOnTop, Closures
    <2>2. Last(stack).entry = Last(stack).bytecode
      BY <2>1 DEF CodeInHeap
    <2>3. ~Single'
      BY <1>4, <2>2, NotSingle DEF Call
    <2> QED
      BY <2>3 DEF SingleInv
  <1> QED
    BY <1>1, <1>2, <1>3, <1>4, DataSingle, FuncallSingle, ReturnSingle, CallbackSingle, ExecuteSingle
       DEF Next, Instruction, Application

\* The collector keeps the code where it runs without a liberty: no
\* execution is in progress, or one alone.
LEMMA CollectKeeps ==
    ASSUME TypeInv, NestingInv, CodeInHeap, SingleInv, ~InCall
    PROVE  /\ \A k \in 1..Len(host) : {host[k].code, host[k].ip} \subseteq (heap \cap Roots) \cup {Shim}
           /\ \A k \in 1..Len(callers) : callers[k].ip \in (heap \cap Roots) \cup {Shim}
           /\ \A v \in Closures : v.bytecode \in heap \cap Roots
           /\ \A k \in 1..Len(calls) :
                k > Len(calls) - Len(callers) => calls[k].ip \in (heap \cap Roots) \cup {Shim}
  <1>1. \A v \in Closures : v.bytecode \in heap \cap Roots /\ v.entry = v.bytecode
    <2> TAKE v \in Closures
    <2>1. v.bytecode \in heap /\ v.entry = v.bytecode
      BY DEF CodeInHeap
    <2>2. v.bytecode \in Cells /\ v.bytecode # Null
      BY <2>1, DistinctAssumption DEF TypeInv
    <2> QED
      BY <2>1, <2>2 DEF Roots, Closures
  <1>2. CASE host = <<>>
    <2>1. Len(host) = 0 /\ Len(callers) = 0 /\ Len(calls) \in Nat
      BY <1>2, EmptySeq, NestingFacts DEF NestingInv
    <2> QED
      BY <1>1, <2>1
  <1>3. CASE host # <<>>
    <2>1. Single
      <3>1. Len(host) \in Nat \ {0}
        BY <1>3, ActFacts
      <3>2. ~(Len(host) > 1)
        <4>1. Len(host) > 1 => host[1].called /\ 1 \in 1..Len(host)
          BY <3>1 DEF NestingInv
        <4> QED
          BY <4>1 DEF InCall
      <3>3. Len(host) = 1 /\ 1 \in 1..Len(host)
        <4> DEFINE n == Len(host)
        <4>1. n \in Nat \ {0} /\ ~(n > 1)
          BY <3>1, <3>2
        <4> HIDE DEF n
        <4>2. n = 1 /\ 1 \in 1..n
          BY <4>1
        <4> QED
          BY <4>2 DEF n
      <3> QED
        BY <3>3 DEF Single, InCall
    <2>2. \A k \in 0..Len(callers) : CodeOf(k) \in heap \cap Roots
      <3> TAKE k \in 0..Len(callers)
      <3>1. CASE k = 0
        <4>1. CodeOf(k) = current /\ CodeOf(k) \in Cells /\ CodeOf(k) = host[1].code
          BY <2>1, <3>1, BasesFacts DEF CodeOf, SingleInv
        <4>2. CodeOf(k) \in heap
          BY <2>1, <4>1, SingleFacts, DistinctAssumption DEF CodeInHeap
        <4>3. CodeOf(k) \in Roots
          BY <4>1, DistinctAssumption DEF Roots
        <4> QED
          BY <4>2, <4>3
      <3>2. CASE k # 0
        <4>1. k \in 1..Len(callers)
          BY <2>1, <3>2, SingleFacts
        <4>2. callers[k].base \in 1..Len(stack) /\ stack[callers[k].base] # Null
          BY <2>1, <4>1 DEF SingleInv
        <4>3. stack[callers[k].base] \in Closures
          BY <4>2 DEF Closures, ToSet
        <4> QED
          BY <1>1, <3>2, <4>3 DEF CodeOf
      <3> QED
        BY <3>1, <3>2
    <2>3. /\ Len(host) = 1 /\ host[1].code = CodeOf(0) /\ host[1].ip = CodeOf(Len(callers))
          /\ Len(callers) \in Nat /\ FramesMatch
      BY <2>1, SingleFacts DEF CodeOf, SingleInv
    <2>4. \A k \in 1..Len(callers) : callers[k].ip \in heap \cap Roots
      <3> TAKE k \in 1..Len(callers)
      <3>1. k - 1 \in 0..Len(callers) /\ callers[k].ip = CodeOf(k - 1)
        BY <2>1, <2>3 DEF SingleInv
      <3> QED
        BY <2>2, <3>1
    <2>5. ASSUME NEW k \in 1..Len(calls), k > Len(calls) - Len(callers)
          PROVE  calls[k].ip \in heap \cap Roots
      <3> DEFINE i == k - (Len(calls) - Len(callers))
      <3>1. i \in 1..Len(callers) /\ Len(calls) - Len(callers) + i = k
        BY <2>3, <2>5, NestingFacts
      <3> HIDE DEF i
      <3>2. calls[k].ip = callers[i].ip
        BY <2>3, <3>1 DEF FramesMatch
      <3> QED
        BY <2>4, <3>1, <3>2
    <2>6. host[1].code \in heap \cap Roots /\ host[1].ip \in heap \cap Roots
      BY <2>2, <2>3
    <2> QED
      BY <1>1, <2>3, <2>4, <2>5, <2>6
  <1> QED
    BY <1>2, <1>3

\* What the stack gains and the global is given.
LEMMA ClosuresFacts ==
    ASSUME TypeInv
    PROVE  /\ \A v \in Closures : v \in Values /\ v # Null /\ v.bytecode \in Cells /\ v.entry \in Cells
           /\ ToSet(stack') \subseteq ToSet(stack) /\ UNCHANGED global => Closures' \subseteq Closures
           /\ \A v \in Values : Push(v) /\ UNCHANGED global => Closures' \subseteq Closures \cup ({v} \ {Null})
           /\ SetGlobal => Closures' \subseteq Closures
  <1>1. ToSet(stack) \subseteq Values
    BY RangeFacts DEF TypeInv, ToSet, Range
  <1>2. \A v \in Closures : v \in Values /\ v # Null /\ v.bytecode \in Cells /\ v.entry \in Cells
    BY <1>1 DEF Closures, TypeInv, Values
  <1>3. ToSet(stack') \subseteq ToSet(stack) /\ UNCHANGED global => Closures' \subseteq Closures
    BY DEF Closures
  <1>4. ASSUME NEW v \in Values, Push(v), UNCHANGED global
        PROVE  Closures' \subseteq Closures \cup ({v} \ {Null})
    BY <1>4, PushFacts DEF Closures
  <1>5. ASSUME SetGlobal
        PROVE  Closures' \subseteq Closures
    <2>1. Last(stack) \in ToSet(stack) /\ global' = Last(stack) /\ stack' = stack
      BY <1>5, TopFacts DEF SetGlobal
    <2> QED
      BY <2>1 DEF Closures
  <1> QED
    BY <1>2, <1>3, <1>4, <1>5

LEMMA DataKeepsCode ==
    ASSUME TypeInv, NestingInv, CodeInHeap, SingleInv,
           PushNil \/ PushGlobal \/ SetGlobal \/ Pop \/ Move \/ Allocate \/ PushClosure
             \/ HostPushGlobal \/ HostPop \/ CopyFromTop \/ GarbageCollect,
           taken' \cap {"collect", "abroad"} = {}
    PROVE  CodeInHeap'
  <1>1. CASE Allocate \/ GarbageCollect
    <2>1. /\ UNCHANGED <<stack, calls, global, host, callers>> /\ heap' = heap \cap Roots
          /\ Liberty("collect", InCall)
      BY <1>1 DEF Allocate, GarbageCollect, Collect
    <2>2. ~InCall
      BY <2>1 DEF Liberty
    <2>3. Closures' = Closures
      BY <2>1 DEF Closures
    <2>4. \A v \in Closures : v.entry = v.bytecode
      BY DEF CodeInHeap
    <2>5. /\ \A k \in 1..Len(host) : {host[k].code, host[k].ip} \subseteq heap' \cup {Shim}
          /\ \A k \in 1..Len(callers) : callers[k].ip \in heap' \cup {Shim}
          /\ \A v \in Closures : v.bytecode \in heap'
          /\ \A k \in 1..Len(calls) : k > Len(calls) - Len(callers) => calls[k].ip \in heap' \cup {Shim}
      BY <2>1, <2>2, CollectKeeps
    <2> QED
      BY <2>1, <2>3, <2>4, <2>5 DEF CodeInHeap
  <1>2. ASSUME UNCHANGED <<calls, heap, host, callers>>,
               NEW v, v # Null => v.bytecode \in heap /\ v.entry = v.bytecode,
               Closures' \subseteq Closures \cup ({v} \ {Null})
        PROVE  CodeInHeap'
    BY <1>2 DEF CodeInHeap
  <1>3. CASE \/ PushNil \/ PushGlobal \/ HostPushGlobal \/ SetGlobal \/ Pop \/ HostPop \/ Move
             \/ CopyFromTop
    <2>1. Null \in Values /\ global \in Values
      BY DEF TypeInv, Values
    <2>2. UNCHANGED <<calls, heap, host, callers>>
      BY <1>3 DEF PushNil, PushGlobal, HostPushGlobal, SetGlobal, Pop, HostPop, Move, CopyFromTop
    <2>3. Closures' \subseteq Closures
      <3>1. CASE SetGlobal
        BY <3>1, ClosuresFacts
      <3>2. CASE Pop \/ HostPop
        BY <3>2, PopFacts, ClosuresFacts DEF Pop, HostPop
      <3>3. CASE PushNil
        BY <2>1, <3>3, ClosuresFacts DEF PushNil
      <3>4. CASE PushGlobal \/ HostPushGlobal
        BY <2>1, <3>4, ClosuresFacts DEF PushGlobal, HostPushGlobal, Closures
      <3>5. CASE Move \/ CopyFromTop
        BY <3>5, MoveFacts, ClosuresFacts DEF Move, CopyFromTop
      <3> QED
        BY <1>3, <3>1, <3>2, <3>3, <3>4, <3>5
    <2> QED
      BY <1>2, <2>2, <2>3
  <1>4. CASE PushClosure
    <2> DEFINE v == [bytecode |-> Act.code, entry |-> Act.ip]
    <2>1. /\ UNCHANGED <<calls, heap, host, callers, global>> /\ Push(v) /\ v \in Values
          /\ v.bytecode = Act.code /\ v.entry = Act.ip
      BY <1>4, RunningFacts DEF PushClosure, Values
    <2>2. Act.ip = Act.code
      BY <1>4 DEF PushClosure, Liberty
    <2>3. Act.code \in heap
      <3>1. Act = host[Len(host)] /\ Len(host) \in 1..Len(host) /\ Act.code \in Cells
        BY <1>4, RunningFacts DEF PushClosure
      <3> QED
        BY <3>1, DistinctAssumption DEF CodeInHeap
    <2> HIDE DEF v
    <2>4. Closures' \subseteq Closures \cup ({v} \ {Null})
      BY <2>1, ClosuresFacts
    <2> QED
      BY <1>2, <2>1, <2>2, <2>3, <2>4
  <1> QED
    BY <1>1, <1>3, <1>4

\* Actions that leave the heap as it is, start no execution and make no
\* closures.
LEMMA StaysInHeap ==
    ASSUME CodeInHeap, UNCHANGED heap, Closures' \subseteq Closures,
           \A k \in 1..Len(host') : {host'[k].code, host'[k].ip} \subseteq heap \cup {Shim},
           \A k \in 1..Len(callers') : callers'[k].ip \in heap \cup {Shim},
           \A k \in 1..Len(calls') : k > Len(calls') - Len(callers') => calls'[k].ip \in heap \cup {Shim}
    PROVE  CodeInHeap'
  <1>1. \A v \in Closures' : v.bytecode \in heap /\ v.entry = v.bytecode
    BY DEF CodeInHeap
  <1> QED
    BY <1>1 DEF CodeInHeap

LEMMA ControlKeepsCode ==
    ASSUME TypeInv, NestingInv, CodeInHeap, Funcall \/ Return \/ Ccall \/ CallbackReturns
    PROVE  CodeInHeap'
  <1>1. \A k \in 1..Len(host) : {host[k].code, host[k].ip} \subseteq heap \cup {Shim} /\ host[k] \in Activations
    BY NestingFacts DEF CodeInHeap
  <1>2. /\ Len(calls) \in Nat /\ Len(callers) \in Nat /\ Len(host) \in Nat
        /\ \A k \in 1..Len(callers) : callers[k].ip \in heap \cup {Shim}
        /\ \A k \in 1..Len(calls) : k > Len(calls) - Len(callers) => calls[k].ip \in heap \cup {Shim}
    BY NestingFacts DEF CodeInHeap
  <1>3. ASSUME host # <<>>
        PROVE  Act = host[Len(host)] /\ {Act.ip, Act.code} \subseteq heap \cup {Shim}
    <2>1. Act = host[Len(host)] /\ Len(host) \in 1..Len(host)
      BY <1>3, ActFacts, NestingFacts
    <2> QED
      BY <1>1, <2>1
  <1>4. CASE Funcall
    <2>1. Last(stack).entry \in heap
      <3>1. Last(stack) \in Closures
        BY <1>4, FuncallFacts, TopFacts DEF ClosureOnTop, Closures
      <3> QED
        BY <3>1 DEF CodeInHeap
    <2>2. ASSUME NEW k \in 1..Len(host')
          PROVE  {host'[k].code, host'[k].ip} \subseteq heap \cup {Shim}
      <3>1. /\ k \in 1..Len(host)
            /\ host'[k] = IF k = Len(host) THEN [host[k] EXCEPT !.ip = Last(stack).entry] ELSE host[k]
        BY <1>4, FuncallFacts
      <3> QED
        BY <1>1, <2>1, <3>1 DEF Activations
    <2>3. ASSUME NEW k \in 1..Len(callers')
          PROVE  callers'[k].ip \in heap \cup {Shim}
      <3>1. CASE k \in 1..Len(callers)
        BY <1>2, <1>4, <3>1, FuncallFacts
      <3>2. CASE k = Len(callers) + 1
        BY <1>3, <1>4, <3>2, FuncallFacts
      <3> QED
        BY <1>2, <1>4, <3>1, <3>2, FuncallFacts
    <2>4. ASSUME NEW k \in 1..Len(calls'), k > Len(calls') - Len(callers')
          PROVE  calls'[k].ip \in heap \cup {Shim}
      <3>1. Len(calls') = Len(calls) + 1 /\ Len(callers') = Len(callers) + 1
        BY <1>4, FuncallFacts
      <3>2. CASE k \in 1..Len(calls)
        <4>1. k > Len(calls) - Len(callers)
          BY <1>2, <2>4, <3>1
        <4> QED
          BY <1>2, <1>4, <3>2, <4>1, FuncallFacts
      <3>3. CASE k = Len(calls) + 1
        BY <1>3, <1>4, <3>3, FuncallFacts
      <3> QED
        BY <1>2, <3>1, <3>2, <3>3
    <2>5. UNCHANGED heap /\ Closures' \subseteq Closures
      BY <1>4 DEF Funcall, Closures
    <2> QED
      BY <2>2, <2>3, <2>4, <2>5, StaysInHeap
  <1>5. CASE Return
    <2> DEFINE ip == IF calls = <<>> THEN Shim ELSE calls[Len(calls)].ip
    <2>1. Len(callers) \in Nat \ {0} /\ Len(callers) <= Len(calls) /\ calls # <<>>
      <3>1. Len(callers) \in Nat \ {0} /\ Len(callers) <= Len(calls)
        BY <1>5, ReturnFacts DEF NestingInv
      <3> QED
        BY <1>2, <3>1, EmptySeq
    <2>2. ip \in heap \cup {Shim}
      <3>1. Len(calls) \in 1..Len(calls) /\ Len(calls) > Len(calls) - Len(callers)
        BY <1>2, <2>1
      <3> QED
        BY <1>2, <2>1, <3>1
    <2>3. ASSUME NEW k \in 1..Len(host')
          PROVE  {host'[k].code, host'[k].ip} \subseteq heap \cup {Shim}
      <3>1. /\ k \in 1..Len(host)
            /\ host'[k] = IF k = Len(host) THEN [host[k] EXCEPT !.ip = ip] ELSE host[k]
        BY <1>5, ReturnFacts
      <3> HIDE DEF ip
      <3> QED
        BY <1>1, <2>2, <3>1 DEF Activations
    <2>4. /\ Len(callers') = Len(callers) - 1 /\ Len(calls') = Len(calls) - 1
          /\ \A k \in 1..Len(callers) - 1 : callers'[k] = callers[k]
          /\ \A k \in 1..Len(calls) - 1 : calls'[k] = calls[k]
          /\ UNCHANGED heap /\ Closures' \subseteq Closures
      BY <1>5, <2>1, ReturnFacts, ClosuresFacts DEF Return
    <2>5. ASSUME NEW k \in 1..Len(callers')
          PROVE  callers'[k].ip \in heap \cup {Shim}
      <3>1. k \in 1..Len(callers) /\ k \in 1..Len(callers) - 1
        BY <2>1, <2>4
      <3> QED
        BY <1>2, <2>4, <3>1
    <2>6. ASSUME NEW k \in 1..Len(calls'), k > Len(calls') - Len(callers')
          PROVE  calls'[k].ip \in heap \cup {Shim}
      <3>1. k \in 1..Len(calls) /\ k \in 1..Len(calls) - 1 /\ k > Len(calls) - Len(callers)
        BY <1>2, <2>1, <2>4, <2>6
      <3> QED
        BY <1>2, <2>4, <3>1
    <2> QED
      BY <2>3, <2>4, <2>5, <2>6, StaysInHeap
  <1>6. CASE Ccall
    <2>1. ASSUME NEW k \in 1..Len(host')
          PROVE  {host'[k].code, host'[k].ip} \subseteq heap \cup {Shim}
      <3>1. /\ k \in 1..Len(host)
            /\ host'[k] = IF k = Len(host) THEN [host[k] EXCEPT !.phase = "callback", !.floor = Len(stack)]
                          ELSE host[k]
        BY <1>6, CcallFacts
      <3> QED
        BY <1>1, <3>1 DEF Activations
    <2>2. UNCHANGED <<heap, calls, callers>> /\ Closures' \subseteq Closures
      BY <1>6 DEF Ccall, Closures
    <2> QED
      BY <1>2, <2>1, <2>2, StaysInHeap
  <1>7. CASE CallbackReturns
    <2>1. ASSUME NEW k \in 1..Len(host')
          PROVE  {host'[k].code, host'[k].ip} \subseteq heap \cup {Shim}
      <3>1. /\ k \in 1..Len(host)
            /\ host'[k] = IF k = Len(host) THEN [host[k] EXCEPT !.phase = "run"] ELSE host[k]
        BY <1>7, CallbackReturnsFacts
      <3> QED
        BY <1>1, <3>1 DEF Activations
    <2>2. UNCHANGED <<heap, calls, callers>> /\ Closures' \subseteq Closures
      BY <1>7 DEF CallbackReturns, Closures
    <2> QED
      BY <1>2, <2>1, <2>2, StaysInHeap
  <1> QED
    BY <1>4, <1>5, <1>6, <1>7

LEMMA LeaveKeepsCode ==
    ASSUME TypeInv, NestingInv, CodeInHeap, RuntimeError \/ Halt \/ HaltOfShim \/ CallbackFails
    PROVE  CodeInHeap'
  <1>1. PICK failed \in BOOLEAN : Leave(failed) /\ host # <<>> /\ UNCHANGED <<calls, heap, global>>
    BY RunningFacts DEF RuntimeError, Halt, HaltOfShim, CallbackFails
  <1>2. Closures' \subseteq Closures
    BY <1>1 DEF RuntimeError, Halt, HaltOfShim, CallbackFails, Closures
  <1> DEFINE d == Act.depth
  <1>3. /\ Len(host) \in Nat \ {0} /\ Len(host') = Len(host) - 1
        /\ \A k \in 1..Len(host) - 1 : host'[k] = host[k]
        /\ d \in 0..Len(callers) /\ Len(callers') = d
        /\ \A k \in 1..d : callers'[k] = callers[k]
        /\ Len(callers) \in Nat /\ Len(calls) \in Nat
    BY <1>1, LeaveFacts, NestingFacts
  <1> HIDE DEF d
  <1>4. ASSUME NEW k \in 1..Len(host')
        PROVE  {host'[k].code, host'[k].ip} \subseteq heap \cup {Shim}
    <2>1. k \in 1..Len(host) /\ k \in 1..Len(host) - 1
      BY <1>3
    <2> QED
      BY <1>3, <2>1 DEF CodeInHeap
  <1>5. ASSUME NEW k \in 1..Len(callers')
        PROVE  callers'[k].ip \in heap \cup {Shim}
    <2>1. k \in 1..d /\ k \in 1..Len(callers)
      BY <1>3
    <2> QED
      BY <1>3, <2>1 DEF CodeInHeap
  <1>6. ASSUME NEW k \in 1..Len(calls'), k > Len(calls') - Len(callers')
        PROVE  calls'[k].ip \in heap \cup {Shim}
    <2>1. k \in 1..Len(calls) /\ k > Len(calls) - Len(callers)
      BY <1>1, <1>3, <1>6
    <2> QED
      BY <1>1, <2>1 DEF CodeInHeap
  <1> QED
    BY <1>1, <1>2, <1>4, <1>5, <1>6, StaysInHeap

\* An execution starts; what it found in the heap is kept.
LEMMA StartKeepsCode ==
    ASSUME TypeInv, NestingInv, CodeInHeap, SingleInv, Execute \/ Call,
           taken' \cap {"collect", "abroad"} = {}
    PROVE  CodeInHeap'
  <1>1. UNCHANGED <<stack, global>> /\ Closures' = Closures
    BY DEF Execute, Call, Closures
  <1>2. Call => Last(stack).entry = Last(stack).bytecode
    <2>1. Call => Last(stack) \in Closures
      BY TopFacts DEF Call, ClosureOnTop, Closures
    <2> QED
      BY <2>1 DEF CodeInHeap
  <1>3. PICK isCall \in BOOLEAN, collects \in BOOLEAN :
          /\ ExecuteWithIp(isCall, collects)
          /\ Liberty("collect", collects /\ (host # <<>> \/ isCall))
          /\ ~isCall => UNCHANGED <<calls, callers>>
          /\ isCall => /\ CallStackPush(Shim, Shim)
                       /\ callers' = IF error' THEN callers
                                     ELSE Append(callers, [ip |-> Shim, base |-> Len(stack)])
                       /\ [ip |-> Shim, base |-> Len(stack)] \in Callers
    <2>1. CASE Execute
      <3>1. PICK collects \in BOOLEAN :
              ExecuteWithIp(FALSE, collects) /\ Liberty("collect", collects /\ host # <<>>)
        BY <2>1 DEF Execute
      <3>2. UNCHANGED <<calls, callers>>
        BY <2>1 DEF Execute
      <3> QED
        BY <3>1, <3>2
    <2>2. CASE Call
      <3>1. PICK collects \in BOOLEAN :
              /\ ExecuteWithIp(TRUE, collects) /\ Liberty("collect", collects)
              /\ callers' = IF error' THEN callers
                            ELSE Append(callers, [ip |-> Shim, base |-> Len(stack)])
        BY <1>2, <2>2 DEF Call
      <3>2. /\ CallStackPush(Shim, Shim) /\ [ip |-> Shim, base |-> Len(stack)] \in Callers
        BY <2>2, ClosureFacts, TopFacts DEF Call, Callers
      <3> QED
        BY <3>1, <3>2
    <2> QED
      BY <2>1, <2>2
  <1>4. ~(collects /\ (host # <<>> \/ isCall))
    BY <1>3 DEF Liberty
  <1>5. /\ \A k \in 1..Len(host) : {host[k].code, host[k].ip} \subseteq Kept(collects) \cup {Shim}
        /\ \A k \in 1..Len(callers) : callers[k].ip \in Kept(collects) \cup {Shim}
        /\ \A v \in Closures : v.bytecode \in Kept(collects) /\ v.entry = v.bytecode
        /\ \A k \in 1..Len(calls) :
             k > Len(calls) - Len(callers) => calls[k].ip \in Kept(collects) \cup {Shim}
    <2>1. CASE ~collects
      BY <2>1 DEF Kept, CodeInHeap
    <2>2. CASE collects
      <3>1. ~InCall
        BY <1>4, <2>2, EmptySeq DEF InCall
      <3>2. \A v \in Closures : v.entry = v.bytecode
        BY DEF CodeInHeap
      <3> QED
        BY <2>2, <3>1, <3>2, CollectKeeps DEF Kept
    <2> QED
      BY <2>1, <2>2
  <1>6. Kept(collects) \subseteq heap' /\ heap' \subseteq Cells
    BY <1>3, ExecuteFacts DEF Kept, TypeInv
  <1>7. ASSUME NEW k \in 1..Len(host')
        PROVE  {host'[k].code, host'[k].ip} \subseteq heap' \cup {Shim}
    <2>1. CASE k \in 1..Len(host)
      <3>1. host'[k] = IF k = Len(host) THEN [host[k] EXCEPT !.called = TRUE] ELSE host[k]
        BY <1>3, <2>1, ExecuteFacts
      <3>2. host'[k].code = host[k].code /\ host'[k].ip = host[k].ip
        BY <2>1, <3>1, NestingFacts DEF Activations
      <3> QED
        BY <1>5, <1>6, <2>1, <3>2
    <2>2. CASE k \notin 1..Len(host)
      <3>1. k = Len(host) + 1 /\ \E cell \in heap' : host'[Len(host) + 1] = Activation(cell, isCall)
        <4>1. \/ Len(host') = Len(host)
              \/ /\ Len(host') = Len(host) + 1
                 /\ \E cell \in heap' : host'[Len(host) + 1] = Activation(cell, isCall)
          BY <1>3, ExecuteFacts
        <4>2. Len(host) \in Nat
          BY NestingFacts
        <4> QED
          BY <2>2, <4>1, <4>2
      <3>2. PICK cell \in heap' : host'[k] = Activation(cell, isCall)
        BY <3>1
      <3>3. host'[k].code = cell /\ host'[k].ip = cell
        BY <3>2 DEF Activation
      <3> QED
        BY <3>2, <3>3
    <2> QED
      BY <2>1, <2>2
  <1>8. /\ Len(calls) \in Nat /\ Len(callers) \in Nat
        /\ \/ UNCHANGED callers
           \/ /\ Len(callers') = Len(callers) + 1
              /\ \A k \in 1..Len(callers) : callers'[k] = callers[k]
              /\ callers'[Len(callers) + 1].ip = Shim
    <2>1. CASE isCall /\ ~error'
      <3>1. callers' = Append(callers, [ip |-> Shim, base |-> Len(stack)])
        BY <1>3, <2>1
      <3> QED
        BY <1>3, <3>1, AppendFacts, NestingFacts DEF TypeInv
    <2>2. CASE ~(isCall /\ ~error')
      BY <1>3, <2>2, NestingFacts
    <2> QED
      BY <2>1, <2>2
  <1>9. \/ UNCHANGED <<calls, callers>>
        \/ /\ Len(calls') = Len(calls) + 1
           /\ \A k \in 1..Len(calls) : calls'[k] = calls[k]
           /\ calls'[Len(calls) + 1].ip = Shim
    <2>1. CASE isCall
      <3>1. /\ Len(calls') = Len(calls) + 1
            /\ \A i \in 1..Len(calls) : calls'[i] = calls[i]
            /\ calls'[Len(calls')] = [ip |-> Shim, bytecode |-> Shim]
        BY <1>3, <2>1, FramePushFacts
      <3> QED
        BY <3>1
    <2>2. CASE ~isCall
      BY <1>3, <2>2
    <2> QED
      BY <2>1, <2>2
  <1>10. ASSUME NEW k \in 1..Len(callers')
         PROVE  callers'[k].ip \in heap' \cup {Shim}
    <2>1. CASE k \in 1..Len(callers)
      BY <1>5, <1>6, <1>8, <2>1
    <2>2. CASE k \notin 1..Len(callers)
      BY <1>8, <2>2
    <2> QED
      BY <2>1, <2>2
  <1>11. ASSUME NEW k \in 1..Len(calls'), k > Len(calls') - Len(callers')
         PROVE  calls'[k].ip \in heap' \cup {Shim}
    <2>1. CASE UNCHANGED <<calls, callers>>
      BY <1>5, <1>6, <1>11, <2>1
    <2>2. CASE /\ Len(calls') = Len(calls) + 1
               /\ \A i \in 1..Len(calls) : calls'[i] = calls[i]
               /\ calls'[Len(calls) + 1].ip = Shim
      <3>1. CASE k = Len(calls) + 1
        BY <2>2, <3>1
      <3>2. CASE k \in 1..Len(calls)
        <4>1. k > Len(calls) - Len(callers)
          BY <1>8, <1>11, <2>2
        <4> QED
          BY <1>5, <1>6, <2>2, <3>2, <4>1
      <3> QED
        BY <1>8, <2>2, <3>1, <3>2
    <2> QED
      BY <1>9, <2>1, <2>2
  <1>12. \A v \in Closures' : v.bytecode \in heap' /\ v.entry = v.bytecode
    BY <1>1, <1>5, <1>6
  <1> QED
    BY <1>7, <1>10, <1>11, <1>12 DEF CodeInHeap

LEMMA HostKeepsCode ==
    ASSUME NestingInv, CodeInHeap, CallRefused \/ CallbackCatches \/ SoftReset \/ Ignore
    PROVE  CodeInHeap'
  <1>1. CASE CallRefused \/ CallbackCatches \/ Ignore
    BY <1>1 DEF CallRefused, CallbackCatches, Ignore, CodeInHeap, Closures
  <1>2. CASE SoftReset
    <2>1. /\ Len(host') = 0 /\ Len(callers') = 0 /\ Len(calls') = 0 /\ ToSet(stack') = {}
          /\ UNCHANGED <<global, heap>>
      BY <1>2, EmptySeq DEF SoftReset, NestingInv, ToSet
    <2>2. Closures' \subseteq Closures
      BY <2>1 DEF Closures
    <2> QED
      BY <2>1, <2>2, StaysInHeap
  <1> QED
    BY <1>1, <1>2

LEMMA KeptNext == TypeInv /\ NestingInv /\ KeptInv /\ [Next]_vars => KeptInv'
  <1> SUFFICES ASSUME TypeInv, NestingInv, KeptInv, [Next]_vars, taken' \cap {"collect", "abroad"} = {}
               PROVE  CodeInHeap' /\ SingleInv'
    BY DEF KeptInv
  <1>1. CodeInHeap /\ SingleInv
    BY LibertiesGrow DEF KeptInv
  <1>2. CodeInHeap'
    <2>1. CASE UNCHANGED vars
      BY <1>1, <2>1 DEF vars, CodeInHeap, Closures
    <2> QED
      BY <1>1, <2>1, DataKeepsCode, ControlKeepsCode, LeaveKeepsCode, StartKeepsCode, HostKeepsCode
         DEF Next, Instruction, Application
  <1> QED
    BY <1>1, <1>2, SingleNext

-----------------------------------------------------------------------------
(* The marker starts from cells. *)

LEMMA RootsInit == Init => RootsInv
  <1> SUFFICES ASSUME Init PROVE RootsInHeap /\ NoFrameIsLeft
    BY DEF RootsInv
  <1>1. /\ Len(host) = 0 /\ Len(callers) = 0 /\ Len(calls) = 0 /\ ToSet(calls) = {}
        /\ ToSet(stack) = {} /\ global = Null /\ current = Null
    BY EmptySeq DEF Init, ToSet
  <1> QED
    BY <1>1 DEF RootsInHeap, NoFrameIsLeft, Single, Closures

\* Where the collector runs without a liberty, no frame of a C function is
\* on the call stack, and what it keeps is enough.
LEMMA CollectRoots ==
    ASSUME TypeInv, NestingInv, RootsInHeap, NoFrameIsLeft, ~error, ~InCall
    PROVE  /\ Roots \subseteq heap
           /\ \A v \in Closures : v.bytecode \in Roots
           /\ \A k \in 1..Len(host) : host[k].code \in Roots
           /\ \A f \in ToSet(calls) : f.bytecode \in Roots
           /\ current \in Roots \cup {Null}
  <1>1. \A v \in Closures : v.bytecode \in heap /\ v.bytecode # Null
    BY DistinctAssumption DEF RootsInHeap, TypeInv
  <1>2. \A f \in ToSet(calls) : f.bytecode \in heap /\ f.bytecode # Null
    <2>1. CASE host = <<>>
      <3>1. Len(calls) = 0
        BY <2>1, EmptySeq DEF NoFrameIsLeft, NestingInv
      <3>2. ToSet(calls) = {}
        BY <3>1, SeqFacts DEF ToSet, TypeInv
      <3> QED
        BY <3>2
    <2>2. CASE host # <<>>
      <3> DEFINE n == Len(host)
      <3>1. n \in Nat \ {0}
        BY <2>2, ActFacts
      <3>2. ~(n > 1)
        <4>1. n > 1 => host[1].called /\ 1 \in 1..n
          BY <3>1 DEF NestingInv
        <4> QED
          BY <4>1 DEF InCall
      <3> HIDE DEF n
      <3>3. n = 1 /\ 1 \in 1..n
        BY <3>1, <3>2
      <3>4. Single
        BY <3>3 DEF Single, InCall, n
      <3> QED
        BY <3>4, DistinctAssumption DEF NoFrameIsLeft, RootsInHeap, TypeInv
    <2> QED
      BY <2>1, <2>2
  <1>3. \A k \in 1..Len(host) : host[k].code = current /\ host[k].code \in Cells
    <2> TAKE k \in 1..Len(host)
    <2>1. k = Len(host)
      BY NestingFacts DEF InCall, NestingInv
    <2>2. Len(host) = 1
      <3> DEFINE n == Len(host)
      <3>1. n \in Nat \ {0} /\ ~(n > 1)
        <4>1. n > 1 => host[1].called /\ 1 \in 1..n
          BY NestingFacts DEF NestingInv
        <4> QED
          BY <2>1, <4>1, NestingFacts DEF InCall
      <3> HIDE DEF n
      <3>2. n = 1
        BY <3>1
      <3> QED
        BY <3>2 DEF n
    <2>3. Single
      BY <2>1, <2>2 DEF Single, InCall
    <2> QED
      BY <2>1, <2>2, <2>3, NestingFacts DEF NoFrameIsLeft, Activations
  <1>4. current \in heap \cup {Null}
    BY DEF RootsInHeap
  <1>5. Roots \subseteq heap
    BY <1>1, <1>2, <1>4 DEF Roots, Closures
  <1>6. /\ \A v \in Closures : v.bytecode \in Roots
        /\ \A f \in ToSet(calls) : f.bytecode \in Roots
    BY <1>1, <1>2 DEF Roots, Closures
  <1>7. current \in Roots \cup {Null}
    BY DEF Roots
  <1>8. \A k \in 1..Len(host) : host[k].code \in Roots
    BY <1>3, <1>7, DistinctAssumption
  <1> QED
    BY <1>5, <1>6, <1>7, <1>8

\* Cells are freed only by the collector, with no error on its way, and
\* without a liberty only outside of calls.
LEMMA FreesAreCollections ==
    ASSUME [Next]_vars, heap \ heap' # {}
    PROVE  ~error /\ ("collect" \in taken' \/ ~InCall)
  <1>1. ASSUME NEW isCall, NEW collects \in BOOLEAN, ExecuteWithIp(isCall, collects)
        PROVE  collects
    BY <1>1 DEF ExecuteWithIp, Kept
  <1>2. CASE Allocate \/ GarbageCollect
    BY <1>2 DEF Allocate, GarbageCollect, Liberty, Running, InHost
  <1>3. CASE Execute
    <2>1. PICK collects \in BOOLEAN :
            ExecuteWithIp(FALSE, collects) /\ Liberty("collect", collects /\ host # <<>>)
      BY <1>3 DEF Execute
    <2>2. host # <<>> => "collect" \in taken'
      BY <1>1, <2>1 DEF Liberty
    <2>3. host = <<>> => ~InCall
      BY EmptySeq DEF InCall
    <2> QED
      BY <1>3, <2>2, <2>3 DEF Execute, InHost
  <1>4. CASE Call
    <2>1. PICK collects \in BOOLEAN : ExecuteWithIp(TRUE, collects) /\ Liberty("collect", collects)
      BY <1>4 DEF Call
    <2> QED
      BY <1>1, <1>4, <2>1 DEF Call, InHost, Liberty
  <1>5. ~UNCHANGED heap
    OBVIOUS
  <1> QED
    BY <1>2, <1>3, <1>4, <1>5
       DEF Next, Instruction, Application, vars, PushNil, PushGlobal, SetGlobal, Pop, Move, PushClosure,
           Funcall, Return, Ccall, RuntimeError, Halt, HaltOfShim, HostPushGlobal, HostPop, CopyFromTop,
           CallRefused, CallbackReturns, CallbackFails, CallbackCatches, SoftReset, Ignore

\* What the roots are in keeps its being in the heap, when the heap grows or
\* stays and the roots are the old ones or in the heap.
LEMMA RootsStay ==
    ASSUME RootsInHeap, heap \subseteq heap',
           \A v \in Closures' : v \in Closures \/ v.bytecode \in heap',
           \A k \in 1..Len(host') : host'[k].code \in heap',
           \A f \in ToSet(calls)' : f \in ToSet(calls) \/ f.bytecode \in heap' \cup {Shim},
           current' \in heap' \cup {Null}
    PROVE  RootsInHeap'
  BY DEF RootsInHeap

LEMMA DataRoots ==
    ASSUME TypeInv, NestingInv, RootsInHeap, NoFrameIsLeft,
           PushNil \/ PushGlobal \/ SetGlobal \/ Pop \/ Move \/ Allocate \/ PushClosure
             \/ HostPushGlobal \/ HostPop \/ CopyFromTop \/ GarbageCollect,
           "collect" \notin taken'
    PROVE  RootsInHeap' /\ NoFrameIsLeft'
  <1>1. UNCHANGED <<calls, current, host, error, callers>>
    BY DEF PushNil, PushGlobal, SetGlobal, Pop, Move, Allocate, PushClosure, HostPushGlobal, HostPop,
           CopyFromTop, GarbageCollect
  <1>2. NoFrameIsLeft'
    BY <1>1 DEF NoFrameIsLeft, Single
  <1>3. CASE Allocate \/ GarbageCollect
    <2>1. /\ UNCHANGED <<stack, global>> /\ heap' = heap \cap Roots /\ Liberty("collect", InCall) /\ ~error
      BY <1>3 DEF Allocate, GarbageCollect, Collect, Running, InHost
    <2>2. ~InCall
      BY <2>1 DEF Liberty
    <2>3. Closures' = Closures
      BY <2>1 DEF Closures
    <2> QED
      BY <1>1, <1>2, <2>1, <2>2, <2>3, CollectRoots DEF RootsInHeap
  <1>4. ASSUME UNCHANGED heap, NEW v, v # Null => v.bytecode \in heap,
               Closures' \subseteq Closures \cup ({v} \ {Null})
        PROVE  RootsInHeap'
    BY <1>1, <1>4 DEF RootsInHeap
  <1>5. CASE \/ PushNil \/ PushGlobal \/ HostPushGlobal \/ SetGlobal \/ Pop \/ HostPop \/ Move
             \/ CopyFromTop
    <2>1. Null \in Values /\ global \in Values
      BY DEF TypeInv, Values
    <2>2. UNCHANGED heap
      BY <1>5 DEF PushNil, PushGlobal, HostPushGlobal, SetGlobal, Pop, HostPop, Move, CopyFromTop
    <2>3. Closures' \subseteq Closures
      <3>1. CASE SetGlobal
        BY <3>1, ClosuresFacts
      <3>2. CASE Pop \/ HostPop
        BY <3>2, PopFacts, ClosuresFacts DEF Pop, HostPop
      <3>3. CASE PushNil
        BY <2>1, <3>3, ClosuresFacts DEF PushNil
      <3>4. CASE PushGlobal \/ HostPushGlobal
        BY <2>1, <3>4, ClosuresFacts DEF PushGlobal, HostPushGlobal, Closures
      <3>5. CASE Move \/ CopyFromTop
        BY <3>5, MoveFacts, ClosuresFacts DEF Move, CopyFromTop
      <3> QED
        BY <1>5, <3>1, <3>2, <3>3, <3>4, <3>5
    <2> QED
      BY <1>2, <1>4, <2>2, <2>3
  <1>6. CASE PushClosure
    <2> DEFINE v == [bytecode |-> Act.code, entry |-> Act.ip]
    <2>1. UNCHANGED <<heap, global>> /\ Push(v) /\ v \in Values /\ v.bytecode = Act.code
      BY <1>6, RunningFacts DEF PushClosure, Values
    <2>2. Act.code \in heap
      <3>1. Act = host[Len(host)] /\ Len(host) \in 1..Len(host)
        BY <1>6, RunningFacts DEF PushClosure
      <3> QED
        BY <3>1 DEF RootsInHeap
    <2> HIDE DEF v
    <2>3. Closures' \subseteq Closures \cup ({v} \ {Null})
      BY <2>1, ClosuresFacts
    <2> QED
      BY <1>2, <1>4, <2>1, <2>2, <2>3
  <1> QED
    BY <1>3, <1>5, <1>6

LEMMA ControlRoots ==
    ASSUME TypeInv, NestingInv, RootsInHeap, NoFrameIsLeft, Funcall \/ Return \/ Ccall \/ CallbackReturns
    PROVE  RootsInHeap' /\ NoFrameIsLeft'
  <1>1. /\ UNCHANGED <<current, heap, global, error>> /\ ~error
        /\ Closures' \subseteq Closures
    <2>1. UNCHANGED <<current, heap, global, error>> /\ ~error
      BY DEF Funcall, Return, Ccall, CallbackReturns, Running, InHost
    <2>2. CASE Return
      BY <2>1, <2>2, ReturnFacts, ClosuresFacts
    <2>3. CASE Funcall \/ Ccall \/ CallbackReturns
      BY <2>1, <2>3 DEF Funcall, Ccall, CallbackReturns, Closures
    <2> QED
      BY <2>1, <2>2, <2>3
  <1>2. /\ host # <<>> /\ Len(host') = Len(host) /\ Len(host) \in Nat
        /\ \A k \in 1..Len(host) : /\ host'[k].code = host[k].code
                                   /\ host'[k].isCall = host[k].isCall
                                   /\ host'[k].called = host[k].called
    <2>1. \A k \in 1..Len(host) : host[k] \in Activations
      BY NestingFacts
    <2>2. CASE Funcall
      BY <2>1, <2>2, FuncallFacts, NestingFacts, ZenonT(20) DEF Activations
    <2>3. CASE Return
      <3> DEFINE ip == IF calls = <<>> THEN Shim ELSE calls[Len(calls)].ip
      <3>1. /\ host # <<>> /\ Len(host') = Len(host)
            /\ \A k \in 1..Len(host) :
                 host'[k] = IF k = Len(host) THEN [host[k] EXCEPT !.ip = ip] ELSE host[k]
        BY <2>3, ReturnFacts
      <3> HIDE DEF ip
      <3> QED
        BY <2>1, <3>1, NestingFacts DEF Activations
    <2>4. CASE Ccall
      <3>1. \A k \in 1..Len(host) :
              host'[k] = IF k = Len(host) THEN [host[k] EXCEPT !.phase = "callback", !.floor = Len(stack)]
                         ELSE host[k]
        BY <2>4, CcallFacts
      <3>2. \A k \in 1..Len(host) : /\ host'[k].code = host[k].code
                                    /\ host'[k].isCall = host[k].isCall
                                    /\ host'[k].called = host[k].called
        BY <2>1, <3>1 DEF Activations
      <3> QED
        BY <2>4, <3>2, CcallFacts, NestingFacts
    <2>5. CASE CallbackReturns
      <3>1. \A k \in 1..Len(host) :
              host'[k] = IF k = Len(host) THEN [host[k] EXCEPT !.phase = "run"] ELSE host[k]
        BY <2>5, CallbackReturnsFacts
      <3>2. \A k \in 1..Len(host) : /\ host'[k].code = host[k].code
                                    /\ host'[k].isCall = host[k].isCall
                                    /\ host'[k].called = host[k].called
        BY <2>1, <3>1 DEF Activations
      <3> QED
        BY <2>5, <3>2, CallbackReturnsFacts, NestingFacts
    <2> QED
      BY <2>2, <2>3, <2>4, <2>5
  <1>3. Single' => Single
    BY <1>2 DEF Single
  <1>4. Act.code \in heap /\ Act.code \in Cells
    <2>1. Act = host[Len(host)] /\ Len(host) \in 1..Len(host) /\ Act \in Activations
      BY <1>2, ActFacts, NestingFacts
    <2> QED
      BY <2>1 DEF RootsInHeap, Activations
  <1>5. /\ ToSet(calls)' \subseteq ToSet(calls) \cup {[ip |-> Act.ip, bytecode |-> Act.code]}
        /\ Len(calls') = Len(callers')
    <2>1. Len(calls) = Len(callers) /\ Len(calls) \in Nat
      BY <1>1, NestingFacts DEF NoFrameIsLeft
    <2>2. CASE Funcall
      BY <2>1, <2>2, FuncallFacts
    <2>3. CASE Return
      <3>1. Len(callers) > 0 /\ Len(callers') = Len(callers) - 1 /\ ToSet(calls') \subseteq ToSet(calls)
        BY <2>3, ReturnFacts
      <3>2. calls # <<>>
        BY <2>1, <3>1, EmptySeq
      <3> QED
        BY <2>1, <2>3, <3>1, <3>2, ReturnFacts
    <2>4. CASE Ccall \/ CallbackReturns
      BY <2>1, <2>4 DEF Ccall, CallbackReturns, ToSet
    <2> QED
      BY <2>2, <2>3, <2>4
  <1> DEFINE new == [ip |-> Act.ip, bytecode |-> Act.code]
  <1>6. new.bytecode \in heap /\ new.bytecode # Shim
    BY <1>4, DistinctAssumption
  <1>7. ToSet(calls)' \subseteq ToSet(calls) \cup {new}
    BY <1>5
  <1> HIDE DEF new
  <1>8. RootsInHeap'
    BY <1>1, <1>2, <1>6, <1>7, RootsStay DEF RootsInHeap
  <1>9. NoFrameIsLeft'
    <2>1. Single' => current' = host'[1].code
      BY <1>1, <1>2, <1>3 DEF NoFrameIsLeft, Single
    <2>2. Single' => \A f \in ToSet(calls)' : f.bytecode # Shim
      BY <1>1, <1>3, <1>6, <1>7 DEF NoFrameIsLeft
    <2> QED
      BY <1>5, <2>1, <2>2 DEF NoFrameIsLeft
  <1> QED
    BY <1>8, <1>9

LEMMA LeaveRoots ==
    ASSUME TypeInv, NestingInv, FramesInv, RootsInHeap, NoFrameIsLeft, "catch" \notin taken,
           RuntimeError \/ Halt \/ HaltOfShim \/ CallbackFails
    PROVE  RootsInHeap' /\ NoFrameIsLeft'
  <1>1. PICK failed \in BOOLEAN :
          /\ Leave(failed) /\ host # <<>> /\ UNCHANGED <<calls, heap, global>>
          /\ ~failed => Halt \/ HaltOfShim
    BY RunningFacts DEF RuntimeError, Halt, HaltOfShim, CallbackFails
  <1>2. Closures' \subseteq Closures
    BY <1>1 DEF RuntimeError, Halt, HaltOfShim, CallbackFails, Closures
  <1>3. /\ Len(host) \in Nat \ {0} /\ Len(host') = Len(host) - 1
        /\ \A k \in 1..Len(host) - 1 : host'[k] = host[k]
        /\ Len(callers') = Act.depth /\ error' = failed /\ current' = Null
        /\ Act = host[Len(host)]
    BY <1>1, LeaveFacts
  <1>4. ASSUME NEW k \in 1..Len(host')
        PROVE  host'[k].code \in heap
    <2>1. k \in 1..Len(host) /\ k \in 1..Len(host) - 1
      BY <1>3
    <2> QED
      BY <1>3, <2>1 DEF RootsInHeap
  <1>5. RootsInHeap'
    BY <1>1, <1>2, <1>3, <1>4, RootsStay
  <1>6. ~Single'
    BY <1>1, NotSingle
  <1>7. ~error' => Len(calls') = Len(callers')
    <2> SUFFICES ASSUME ~failed PROVE Len(calls) = Act.depth
      BY <1>1, <1>3
    <2>1. CASE Halt
      BY <2>1 DEF Halt, Running, NoFrameIsLeft
    <2>2. CASE HaltOfShim
      <3>1. ~error /\ Act.ip = Shim /\ Len(host) \in 1..Len(host)
        BY <1>3, <2>2 DEF HaltOfShim
      <3> QED
        BY <1>3, <3>1 DEF FramesInv, NoFrameIsLeft
    <2> QED
      BY <1>1, <2>1, <2>2
  <1> QED
    BY <1>5, <1>6, <1>7 DEF NoFrameIsLeft

LEMMA StartRoots ==
    ASSUME TypeInv, NestingInv, RootsInHeap, NoFrameIsLeft, Execute \/ Call, "collect" \notin taken'
    PROVE  RootsInHeap' /\ NoFrameIsLeft'
  <1>1. ~error /\ UNCHANGED <<stack, global>> /\ Closures' = Closures /\ InHost
    BY DEF Execute, Call, InHost, Closures
  <1>2. Len(calls) = Len(callers) /\ Len(calls) \in Nat /\ Len(host) \in Nat
    BY <1>1, NestingFacts DEF NoFrameIsLeft
  <1>3. ASSUME CallStackPush(Shim, Shim)
        PROVE  /\ Len(calls') = Len(calls) + 1
               /\ \A f \in ToSet(calls)' : f \in ToSet(calls) \/ f.bytecode = Shim
    <2>1. /\ Len(calls') = Len(calls) + 1
          /\ ToSet(calls') = ToSet(calls) \cup {[ip |-> Shim, bytecode |-> Shim]}
      BY <1>3, FramePushFacts
    <2> QED
      BY <2>1
  <1>4. ASSUME Call, UNCHANGED <<current, heap, host>>, error'
        PROVE  RootsInHeap' /\ NoFrameIsLeft'
    <2>1. \A f \in ToSet(calls)' : f \in ToSet(calls) \/ f.bytecode = Shim
      BY <1>3, <1>4 DEF Call
    <2>2. RootsInHeap'
      BY <1>1, <1>4, <2>1, RootsStay DEF RootsInHeap
    <2> QED
      BY <1>4, <2>2 DEF NoFrameIsLeft
  <1>5. ASSUME NEW isCall \in BOOLEAN, NEW collects \in BOOLEAN,
               ExecuteWithIp(isCall, collects), ~(collects /\ (host # <<>> \/ isCall)),
               ~isCall => UNCHANGED <<calls, callers>>,
               isCall => /\ CallStackPush(Shim, Shim)
                         /\ ~error' => Len(callers') = Len(callers) + 1
        PROVE  RootsInHeap' /\ NoFrameIsLeft'
    <2>1. /\ \A v \in Closures : v.bytecode \in Kept(collects)
          /\ \A k \in 1..Len(host) : host[k].code \in Kept(collects)
          /\ \A f \in ToSet(calls) : f.bytecode \in Kept(collects) \cup {Shim}
          /\ current \in Kept(collects) \cup {Null}
      <3>1. CASE ~collects
        BY <3>1 DEF Kept, RootsInHeap
      <3>2. CASE collects
        <4>1. ~InCall
          BY <1>5, <3>2, EmptySeq DEF InCall
        <4>2. Roots \subseteq heap
          BY <1>1, <4>1, CollectRoots
        <4> QED
          BY <1>1, <3>2, <4>1, <4>2, CollectRoots DEF Kept
      <3> QED
        BY <3>1, <3>2
    <2>2. Kept(collects) \subseteq heap' /\ current' \in heap' \cup {Null}
      <3>1. CASE \E cell \in Cells \ Kept(collects) : heap' = Kept(collects) \cup {cell} /\ current' = cell
        BY <3>1
      <3>2. CASE collects /\ Kept(TRUE) = Cells /\ heap' = Cells /\ current' = current
        BY <2>1, <3>2 DEF Kept
      <3> QED
        BY <1>5, <3>1, <3>2, ExecuteFacts
    <2>3. ASSUME NEW k \in 1..Len(host')
          PROVE  host'[k].code \in heap'
      <3>1. CASE k \in 1..Len(host)
        <4>1. host'[k] = IF k = Len(host) THEN [host[k] EXCEPT !.called = TRUE] ELSE host[k]
          BY <1>5, <3>1, ExecuteFacts
        <4>2. host'[k].code = host[k].code
          BY <3>1, <4>1, NestingFacts DEF Activations
        <4> QED
          BY <2>1, <2>2, <3>1, <4>2
      <3>2. CASE k \notin 1..Len(host)
        <4>1. \/ Len(host') = Len(host)
              \/ /\ Len(host') = Len(host) + 1
                 /\ \E cell \in heap' : host'[Len(host) + 1] = Activation(cell, isCall)
          BY <1>5, ExecuteFacts
        <4>2. k = Len(host) + 1 /\ \E cell \in heap' : host'[Len(host) + 1] = Activation(cell, isCall)
          BY <1>2, <3>2, <4>1
        <4>3. PICK cell \in heap' : host'[k] = Activation(cell, isCall)
          BY <4>2
        <4> QED
          BY <4>3 DEF Activation
      <3> QED
        BY <3>1, <3>2
    <2>4. \A f \in ToSet(calls)' : f.bytecode \in heap' \cup {Shim}
      <3>1. CASE isCall
        BY <1>3, <1>5, <2>1, <2>2, <3>1
      <3>2. CASE ~isCall
        BY <1>5, <2>1, <2>2, <3>2 DEF ToSet
      <3> QED
        BY <3>1, <3>2
    <2>5. RootsInHeap'
      BY <1>1, <2>1, <2>2, <2>3, <2>4 DEF RootsInHeap
    <2>6. ~error' => Len(calls') = Len(callers')
      <3>1. CASE isCall
        BY <1>2, <1>3, <1>5, <3>1
      <3>2. CASE ~isCall
        BY <1>2, <1>5, <3>2
      <3> QED
        BY <3>1, <3>2
    <2>7. ~error' /\ Single' => current' = host'[1].code /\ \A f \in ToSet(calls)' : f.bytecode # Shim
      <3> SUFFICES ASSUME ~error', Single'
                   PROVE  current' = host'[1].code /\ \A f \in ToSet(calls)' : f.bytecode # Shim
        OBVIOUS
      <3>1. host = <<>> /\ ~isCall
        BY <1>1, <1>5, NotSingle
      <3>2. Len(host) = 0 /\ Len(callers) = 0 /\ calls' = calls
        BY <1>5, <3>1, EmptySeq DEF NestingInv
      <3>3. ToSet(calls)' = {}
        BY <1>2, <3>2, SeqFacts DEF ToSet, TypeInv
      <3>4. PICK cell \in Cells \ Kept(collects) :
              current' = cell /\ host'[Len(host) + 1] = Activation(cell, isCall)
        BY <1>5, ExecuteFacts
      <3>5. host'[1].code = cell
        BY <3>2, <3>4 DEF Activation
      <3> QED
        BY <3>3, <3>4, <3>5
    <2> QED
      BY <2>5, <2>6, <2>7 DEF NoFrameIsLeft
  <1>6. CASE Execute
    <2>1. PICK collects \in BOOLEAN :
            ExecuteWithIp(FALSE, collects) /\ Liberty("collect", collects /\ host # <<>>)
      BY <1>6 DEF Execute
    <2>2. ~(collects /\ host # <<>>) /\ UNCHANGED <<calls, callers>>
      BY <1>6, <2>1 DEF Execute, Liberty
    <2> QED
      BY <1>5, <2>1, <2>2
  <1>7. CASE Call
    <2>1. CallStackPush(Shim, Shim) /\ [ip |-> Shim, base |-> Len(stack)] \in Callers
      BY <1>7, ClosureFacts, TopFacts DEF Call, Callers
    <2>2. CASE \E collects \in BOOLEAN :
                 /\ ExecuteWithIp(TRUE, collects)
                 /\ Liberty("collect", collects)
                 /\ callers' = IF error' THEN callers
                               ELSE Append(callers, [ip |-> Shim, base |-> Len(stack)])
      <3>1. PICK collects \in BOOLEAN :
              /\ ExecuteWithIp(TRUE, collects)
              /\ Liberty("collect", collects)
              /\ callers' = IF error' THEN callers
                            ELSE Append(callers, [ip |-> Shim, base |-> Len(stack)])
        BY <2>2
      <3>2. ~collects
        BY <3>1 DEF Liberty
      <3>3. ~error' => Len(callers') = Len(callers) + 1
        <4>1. Len(Append(callers, [ip |-> Shim, base |-> Len(stack)])) = Len(callers) + 1
          BY <2>1, AppendFacts DEF TypeInv
        <4> QED
          BY <3>1, <4>1
      <3> QED
        BY <1>5, <2>1, <3>1, <3>2, <3>3
    <2> QED
      BY <1>4, <1>7, <2>2 DEF Call
  <1> QED
    BY <1>6, <1>7

LEMMA HostRoots ==
    ASSUME NestingInv, RootsInHeap, NoFrameIsLeft,
           CallRefused \/ CallbackCatches \/ SoftReset \/ Ignore,
           taken' \cap {"noReset", "catch"} = {}
    PROVE  RootsInHeap' /\ NoFrameIsLeft'
  <1>1. CASE CallRefused
    BY <1>1 DEF CallRefused, RootsInHeap, NoFrameIsLeft, Closures
  <1>2. CASE CallbackCatches \/ Ignore
    BY <1>2 DEF CallbackCatches, Ignore, Liberty
  <1>3. CASE SoftReset
    <2>1. /\ Len(host') = 0 /\ Len(callers') = 0 /\ Len(calls') = 0 /\ ToSet(stack') = {}
          /\ ToSet(calls)' = {} /\ UNCHANGED <<global, heap, current>>
      BY <1>3, EmptySeq DEF SoftReset, NestingInv, ToSet
    <2>2. Closures' \subseteq Closures
      BY <2>1 DEF Closures
    <2>3. RootsInHeap'
      BY <2>1, <2>2 DEF RootsInHeap
    <2> QED
      BY <2>1, <2>3 DEF NoFrameIsLeft, Single
  <1> QED
    BY <1>1, <1>2, <1>3

LEMMA RootsNext == TypeInv /\ NestingInv /\ FramesInv /\ RootsInv /\ [Next]_vars => RootsInv'
  <1> SUFFICES ASSUME TypeInv, NestingInv, FramesInv, RootsInv, [Next]_vars,
                      taken' \cap {"collect", "noReset", "catch"} = {}
               PROVE  RootsInHeap' /\ NoFrameIsLeft'
    BY DEF RootsInv
  <1>1. RootsInHeap /\ NoFrameIsLeft /\ "catch" \notin taken /\ "collect" \notin taken'
    BY LibertiesGrow DEF RootsInv
  <1>2. CASE UNCHANGED vars
    BY <1>1, <1>2 DEF vars, RootsInHeap, NoFrameIsLeft, Closures, Single
  <1> QED
    BY <1>1, <1>2, DataRoots, ControlRoots, LeaveRoots, StartRoots, HostRoots
       DEF Next, Instruction, Application
-----------------------------------------------------------------------------
(* The theorems. *)

LEMMA ExecutionInvariant == Spec => []ExecutionInv
  <1>1. Init => ExecutionInv
    BY TypeInit, NestingInit, FramesInit, KeptInit, RootsInit DEF ExecutionInv
  <1>2. ExecutionInv /\ [Next]_vars => ExecutionInv'
    BY TypeNext, NestingNext, FramesNext, KeptNext, RootsNext DEF ExecutionInv
  <1> QED
    BY <1>1, <1>2, PTL DEF Spec

(* Every variable has its type (see TypeOK). *)
THEOREM TypeCorrect == Spec => []TypeOK
  <1>1. ExecutionInv => TypeOK
    <2> SUFFICES ASSUME TypeInv PROVE TypeOK
      BY DEF ExecutionInv
    <2>1. ToSet(stack) \subseteq Values /\ ToSet(calls) \subseteq Frames
      BY RangeFacts DEF TypeInv, ToSet, Range
    <2>2. \A k \in 1..Len(host) : host[k].code \in Cells /\ host[k].ip \in Cells \cup {Shim}
      <3>1. \A k \in 1..Len(host) : host[k] \in Activations
        BY SeqFacts DEF TypeInv
      <3> QED
        BY <3>1 DEF Activations
    <2> QED
      BY <2>1, <2>2 DEF TypeInv, TypeOK, Frames
  <1> QED
    BY <1>1, ExecutionInvariant, PTL

(* Unless the collector runs in or after a nested execution or a function  *)
(* makes closures for another unit, no code is freed that runs, that a     *)
(* call in progress returns to, or that a closure within reach may run.    *)
THEOREM CodeStaysAllocated == Spec => []CodeIsKept
  <1>1. ExecutionInv => CodeIsKept
    BY DEF ExecutionInv, KeptInv, CodeIsKept, CodeInHeap, Closures
  <1> QED
    BY <1>1, ExecutionInvariant, PTL

(* However deep executions are nested, the frames on top of the call stack *)
(* are those of the calls in progress, so that every return comes back to  *)
(* the code that made the call - unless a callback goes on after an error. *)
THEOREM ReturnsComeBack == Spec => []FramesAreTheCalls
  <1>1. ExecutionInv => FramesAreTheCalls
    <2> SUFFICES ASSUME TypeInv, NestingInv, FramesInv PROVE FramesAreTheCalls
      BY DEF ExecutionInv
    <2>1. Len(calls) \in Nat /\ Len(callers) \in Nat /\ Len(callers) <= Len(calls)
      BY NestingFacts DEF NestingInv
    <2> QED
      BY <2>1 DEF FramesInv, FramesMatch, FramesAreTheCalls
  <1> QED
    BY <1>1, ExecutionInvariant, PTL

(* Whenever the collector frees a cell, every bytecode object the marker   *)
(* starts from is a cell in use: never the object duckVM_call keeps on the *)
(* C stack - unless the collector runs in or after a nested execution, or  *)
(* the application does not reset the machine after an error.              *)
THEOREM RootsAreCells == Spec => MarksOnlyCells
  <1>1. ExecutionInv /\ [Next]_vars =>
          [heap \ heap' # {} /\ taken' \cap {"collect", "noReset", "catch"} = {} => Roots \subseteq heap]_vars
    <2> SUFFICES ASSUME TypeInv, NestingInv, RootsInv, [Next]_vars, heap \ heap' # {},
                        taken' \cap {"collect", "noReset", "catch"} = {}
                 PROVE  Roots \subseteq heap
      BY DEF ExecutionInv
    <2>1. RootsInHeap /\ NoFrameIsLeft
      BY LibertiesGrow DEF RootsInv
    <2>2. ~error /\ ~InCall
      BY FreesAreCollections
    <2> QED
      BY <2>1, <2>2, CollectRoots
  <1> QED
    BY <1>1, ExecutionInvariant, PTL DEF Spec, MarksOnlyCells
=============================================================================
