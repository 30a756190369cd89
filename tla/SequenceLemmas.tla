--------------------------- MODULE SequenceLemmas ---------------------------
(***************************************************************************)
(* Facts about sequences that the proofs about the arrays and stacks of    *)
(* the virtual machine share: what popping, cutting, appending and         *)
(* overwriting does to the elements and to their set.                      *)
(***************************************************************************)
EXTENDS Integers, Sequences, SequenceTheorems, FiniteSetTheorems, TLAPS

-----------------------------------------------------------------------------
(* Induction and recursion over an interval. *)

\* A set that holds 0 and the successor of each of its elements below n holds n: otherwise
\* the successor would map it one to one into itself without 0.
LEMMA IntervalInduction ==
    ASSUME NEW n \in Nat, NEW P \in SUBSET (0 .. n), 0 \in P,
           \A i \in P : i < n => i + 1 \in P
    PROVE  n \in P
  <1> SUFFICES ASSUME n \notin P PROVE FALSE
    OBVIOUS
  <1> DEFINE Q == P \ {0}
             f == [i \in P |-> i + 1]
  <1>1. IsFiniteSet(P) /\ Cardinality(P) \in Nat
    <2>1. IsFiniteSet(0 .. n)
      BY FS_Interval
    <2> QED
      BY <2>1, FS_Subset, FS_CardinalityType
  <1>2. IsFiniteSet(Q) /\ Cardinality(Q) = Cardinality(P) - 1
    BY <1>1, FS_RemoveElement
  <1>3. f \in Injection(P, Q)
    <2>1. \A i \in P : i + 1 \in Q
      OBVIOUS
    <2> QED
      BY <2>1 DEF Injection, IsInjective
  <1>4. Cardinality(P) <= Cardinality(Q)
    <2> HIDE DEF f, Q
    <2> QED
      BY <1>2, <1>3, FS_Injection
  <1> QED
    BY <1>1, <1>2, <1>4

\* A function can be defined by its value at 0 and a step for each number.
DefinedBy(f, n, X, x, G) ==
    /\ f \in [0 .. n -> X]
    /\ f[0] = x
    /\ \A k \in 1 .. n : f[k] = G[k][f[k - 1]]

LEMMA IntervalRecursion ==
    ASSUME NEW n \in Nat, NEW X, NEW x \in X, NEW G \in [1 .. n -> [X -> X]]
    PROVE  \E f : DefinedBy(f, n, X, x, G)
  <1> DEFINE IsPart(f, m) == /\ f \in [0 .. m -> X]
                             /\ f[0] = x
                             /\ \A k \in 1 .. m : f[k] = G[k][f[k - 1]]
             P == {m \in 0 .. n : \E f : IsPart(f, m)}
  <1>1. 0 \in P
    <2> DEFINE f == [i \in 0 .. 0 |-> x]
    <2>1. f \in [0 .. 0 -> X] /\ f[0] = x
      OBVIOUS
    <2>2. \A k \in 1 .. 0 : FALSE
      OBVIOUS
    <2>3. IsPart(f, 0)
      BY <2>1, <2>2
    <2> HIDE DEF f, IsPart
    <2> QED
      BY <2>3
  <1>2. ASSUME NEW m \in P, m < n PROVE m + 1 \in P
    <2>1. PICK f : IsPart(f, m)
      OBVIOUS
    <2> DEFINE y == G[m + 1][f[m]]
               g == [i \in 0 .. m + 1 |-> IF i = m + 1 THEN y ELSE f[i]]
    <2>2. m \in Nat /\ m + 1 \in 1 .. n /\ m + 1 \in 0 .. n /\ m \in 0 .. m
      BY <1>2
    <2>3. f[m] \in X /\ y \in X
      BY <2>1, <2>2
    <2>4. g \in [0 .. m + 1 -> X]
      <3>1. \A i \in 0 .. m + 1 : i # m + 1 => i \in 0 .. m
        BY <2>2
      <3> HIDE DEF y
      <3> QED
        BY <2>1, <2>3, <3>1
    <2>5. g[0] = x
      BY <2>1, <2>2
    <2>6. ASSUME NEW k \in 1 .. m + 1 PROVE g[k] = G[k][g[k - 1]]
      <3>1. /\ k \in 0 .. m + 1 /\ k - 1 \in 0 .. m + 1 /\ k - 1 # m + 1
            /\ k # m + 1 => k \in 1 .. m
            /\ k = m + 1 => k - 1 = m
        BY <2>2
      <3>2. g[k - 1] = f[k - 1]
        BY <3>1
      <3> QED
        BY <2>1, <3>1, <3>2
    <2>7. IsPart(g, m + 1)
      BY <2>4, <2>5, <2>6
    <2> HIDE DEF g, IsPart
    <2> QED
      BY <2>2, <2>7
  <1>3. P \in SUBSET (0 .. n)
    OBVIOUS
  <1>4. n \in P
    <2> HIDE DEF P
    <2> QED
      BY <1>1, <1>2, <1>3, IntervalInduction
  <1> QED
    BY <1>4 DEF DefinedBy

\* Two functions agree if they agree at 0 and each step keeps it so.
LEMMA IntervalAgreement ==
    ASSUME NEW n \in Nat, NEW f, NEW g, f[0] = g[0],
           \A k \in 1 .. n : f[k - 1] = g[k - 1] => f[k] = g[k]
    PROVE  \A k \in 0 .. n : f[k] = g[k]
  <1> SUFFICES ASSUME NEW m \in 0 .. n PROVE f[m] = g[m]
    OBVIOUS
  <1> DEFINE P == {k \in 0 .. m : f[k] = g[k]}
  <1>1. 0 \in P
    OBVIOUS
  <1>2. ASSUME NEW k \in P, k < m PROVE k + 1 \in P
    <2>1. k + 1 \in 0 .. m /\ k + 1 \in 1 .. n /\ (k + 1) - 1 = k
      BY <1>2
    <2>2. f[(k + 1) - 1] = g[(k + 1) - 1] => f[k + 1] = g[k + 1]
      BY <2>1
    <2> QED
      BY <2>1, <2>2
  <1>3. P \in SUBSET (0 .. m) /\ m \in Nat
    OBVIOUS
  <1>4. m \in P
    <2> HIDE DEF P
    <2> QED
      BY <1>1, <1>2, <1>3, IntervalInduction
  <1> QED
    BY <1>4

\* A set of natural numbers that is not empty has a least element.
LEMMA NaturalMinimum ==
    ASSUME NEW S \in SUBSET Nat, S # {}
    PROVE  \E i \in S : \A j \in S : i <= j
  <1> PICK n \in S : TRUE
    OBVIOUS
  <1> SUFFICES ASSUME \A i \in S : \E j \in S : j < i PROVE FALSE
    BY SMT
  <1> DEFINE P == {i \in 0 .. n : \A j \in S : i < j}
  <1>1. 0 \in P
    <2>1. \A j \in S : 0 < j
      BY SMT
    <2> QED
      BY <2>1
  <1>2. \A i \in P : i < n => i + 1 \in P
    <2> SUFFICES ASSUME NEW i \in P, i < n, NEW j \in S PROVE i + 1 < j
      OBVIOUS
    <2>1. PICK k \in S : k < j
      OBVIOUS
    <2> QED
      BY <2>1
  <1>3. P \in SUBSET (0 .. n)
    OBVIOUS
  <1> HIDE DEF P
  <1>4. n \in P
    BY <1>1, <1>2, <1>3, IntervalInduction
  <1> QED
    BY <1>4 DEF P

-----------------------------------------------------------------------------
(* Sequences. *)

LEMMA SeqFacts ==
    ASSUME NEW S, NEW s \in Seq(S)
    PROVE  /\ Len(s) \in Nat
           /\ DOMAIN s = 1 .. Len(s)
           /\ \A i \in 1 .. Len(s) : s[i] \in S
           /\ s # <<>> => Len(s) > 0
           /\ s = <<>> => Len(s) = 0
  BY ElementOfSeq, LenProperties, EmptySeq

LEMMA RangeFacts ==
    ASSUME NEW S, NEW s \in Seq(S)
    PROVE  /\ Range(s) \subseteq S
           /\ \A i \in 1 .. Len(s) : s[i] \in Range(s)
           /\ \A e \in Range(s) : \E i \in 1 .. Len(s) : s[i] = e
  BY SeqFacts DEF Range

\* What is left of a sequence that is cut off after n elements.
LEMMA PrefixFacts ==
    ASSUME NEW S, NEW s \in Seq(S), NEW n \in Int, n <= Len(s)
    PROVE  /\ SubSeq(s, 1, n) \in Seq(S)
           /\ Len(SubSeq(s, 1, n)) = IF 1 <= n THEN n ELSE 0
           /\ \A i \in 1 .. n : SubSeq(s, 1, n)[i] = s[i]
           /\ Range(SubSeq(s, 1, n)) \subseteq Range(s)
  <1>1. /\ Len(s) \in Nat
        /\ \A i \in 1 .. n : s[i] \in S
    BY SeqFacts
  <1>2. 1 \in Int /\ n - 1 + 1 = n
    OBVIOUS
  <1>3. /\ SubSeq(s, 1, n) \in Seq(S)
        /\ Len(SubSeq(s, 1, n)) = IF 1 <= n THEN n - 1 + 1 ELSE 0
        /\ \A i \in 1 .. n - 1 + 1 : SubSeq(s, 1, n)[i] = s[1 + i - 1]
    BY <1>1, <1>2, SubSeqProperties
  <1>4. /\ Len(SubSeq(s, 1, n)) = IF 1 <= n THEN n ELSE 0
        /\ \A i \in 1 .. n : SubSeq(s, 1, n)[i] = s[i]
    BY <1>2, <1>3
  <1>5. \A i \in 1 .. Len(SubSeq(s, 1, n)) : SubSeq(s, 1, n)[i] \in Range(s)
    BY <1>1, <1>4, RangeFacts
  <1>6. Range(SubSeq(s, 1, n)) \subseteq Range(s)
    <2>1. DOMAIN SubSeq(s, 1, n) = 1 .. Len(SubSeq(s, 1, n))
      BY <1>3, SeqFacts
    <2> QED
      BY <1>5, <2>1 DEF Range
  <1> QED
    BY <1>3, <1>4, <1>6

\* What follows the first m elements of a sequence.
LEMMA SuffixFacts ==
    ASSUME NEW S, NEW s \in Seq(S), NEW m \in Nat
    PROVE  /\ SubSeq(s, m + 1, Len(s)) \in Seq(S)
           /\ Len(SubSeq(s, m + 1, Len(s))) = IF m < Len(s) THEN Len(s) - m ELSE 0
           /\ \A i \in 1 .. Len(s) - m : SubSeq(s, m + 1, Len(s))[i] = s[m + i]
           /\ Range(SubSeq(s, m + 1, Len(s))) \subseteq Range(s)
  <1> DEFINE n == Len(s)
             first == m + 1
             t == SubSeq(s, first, n)
  <1>1. n \in Nat /\ first \in Int /\ \A i \in first .. n : s[i] \in S
    BY SeqFacts
  <1>2. /\ t \in Seq(S)
        /\ Len(t) = IF first <= n THEN n - first + 1 ELSE 0
        /\ \A i \in 1 .. n - first + 1 : t[i] = s[first + i - 1]
    <2> HIDE DEF n, first
    <2> QED
      BY <1>1, SubSeqProperties
  <1> HIDE DEF n, t
  <1>3. Len(t) = IF m < n THEN n - m ELSE 0
    BY <1>1, <1>2
  <1>4. \A i \in 1 .. n - m : t[i] = s[m + i]
    <2>1. \A i \in 1 .. n - m : i \in 1 .. n - first + 1 /\ first + i - 1 = m + i
      BY <1>1
    <2> QED
      BY <1>2, <2>1
  <1>5. \A i \in 1 .. Len(t) : i \in 1 .. n - m /\ m + i \in 1 .. n
    BY <1>1, <1>3
  <1>6. \A i \in 1 .. Len(t) : t[i] \in Range(s)
    BY <1>4, <1>5, RangeFacts DEF n
  <1>7. Range(t) \subseteq Range(s)
    <2>1. DOMAIN t = 1 .. Len(t)
      BY <1>2, SeqFacts
    <2> QED
      BY <1>6, <2>1 DEF Range
  <1> QED
    BY <1>2, <1>3, <1>4, <1>7 DEF n, t

LEMMA AppendFacts ==
    ASSUME NEW S, NEW s \in Seq(S), NEW e \in S
    PROVE  /\ Append(s, e) \in Seq(S)
           /\ Len(Append(s, e)) = Len(s) + 1
           /\ \A i \in 1 .. Len(s) : Append(s, e)[i] = s[i]
           /\ Append(s, e)[Len(s) + 1] = e
           /\ Range(Append(s, e)) = Range(s) \cup {e}
  <1>1. /\ Append(s, e) \in Seq(S)
        /\ Len(Append(s, e)) = Len(s) + 1
        /\ \A i \in 1 .. Len(s) : Append(s, e)[i] = s[i]
        /\ Append(s, e)[Len(s) + 1] = e
        /\ Len(s) \in Nat
    BY AppendProperties, SeqFacts
  <1>2. /\ DOMAIN s = 1 .. Len(s)
        /\ DOMAIN Append(s, e) = 1 .. Len(s) + 1
    BY <1>1, SeqFacts
  <1>3. Range(Append(s, e)) \subseteq Range(s) \cup {e}
    <2> SUFFICES ASSUME NEW i \in 1 .. Len(s) + 1 PROVE Append(s, e)[i] \in Range(s) \cup {e}
      BY <1>2 DEF Range
    <2>1. CASE i = Len(s) + 1
      BY <1>1, <2>1
    <2>2. CASE i \in 1 .. Len(s)
      BY <1>1, <2>2, RangeFacts
    <2> QED
      BY <1>1, <2>1, <2>2
  <1>4. \A i \in 1 .. Len(s) : i \in 1 .. Len(s) + 1 /\ s[i] = Append(s, e)[i]
    BY <1>1
  <1>5. Range(s) \subseteq Range(Append(s, e))
    BY <1>2, <1>4 DEF Range
  <1>6. e \in Range(Append(s, e))
    <2>1. Len(s) + 1 \in 1 .. Len(s) + 1
      BY <1>1
    <2> QED
      BY <1>1, <1>2, <2>1 DEF Range
  <1> QED
    BY <1>1, <1>3, <1>5, <1>6

LEMMA ExceptFacts ==
    ASSUME NEW S, NEW s \in Seq(S), NEW n \in 1 .. Len(s), NEW e \in S
    PROVE  /\ [s EXCEPT ![n] = e] \in Seq(S)
           /\ Len([s EXCEPT ![n] = e]) = Len(s)
           /\ [s EXCEPT ![n] = e][n] = e
           /\ \A i \in 1 .. Len(s) : i # n => [s EXCEPT ![n] = e][i] = s[i]
           /\ Range([s EXCEPT ![n] = e]) \subseteq Range(s) \cup {e}
  <1>1. /\ [s EXCEPT ![n] = e] \in Seq(S)
        /\ Len([s EXCEPT ![n] = e]) = Len(s)
        /\ \A i \in 1 .. Len(s) : [s EXCEPT ![n] = e][i] = IF i = n THEN e ELSE s[i]
    BY ExceptSeq
  <1>2. \A i \in 1 .. Len(s) : [s EXCEPT ![n] = e][i] \in Range(s) \cup {e}
    BY <1>1, RangeFacts
  <1>3. Range([s EXCEPT ![n] = e]) \subseteq Range(s) \cup {e}
    <2>1. DOMAIN [s EXCEPT ![n] = e] = 1 .. Len(s)
      BY <1>1, SeqFacts
    <2> QED
      BY <1>2, <2>1 DEF Range
  <1> QED
    BY <1>1, <1>3

\* A sequence given by the one value of all its elements.
LEMMA ConstantSeq ==
    ASSUME NEW S, NEW n \in Nat, NEW d \in S
    PROVE  [k \in 1 .. n |-> d] \in Seq(S)
  BY SeqDef
=============================================================================
