---------------------------- MODULE AssemblerProofs ----------------------------
(***************************************************************************)
(* Proofs about Assembler, for any assemblies: the peephole pass removes   *)
(* only what no one can see, the addresses in the links are those of the   *)
(* finished bytecode, and every displacement is inserted behind the opcode *)
(* of a jump that waits for one.                                           *)
(***************************************************************************)
EXTENDS Assembler, SequenceLemmas, FiniteSetTheorems

-----------------------------------------------------------------------------
(* Runs of straight assembly. *)

Runs == [stack : Seq(Int), seen : Seq(Int \X Seq(Int))]

IsRun(f, p) ==
    /\ f \in [0 .. Len(p) -> Runs]
    /\ f[0] = Start
    /\ \A k \in 1 .. Len(p) : f[k] = Step(p[k], f[k - 1], k)

LEMMA AssemblyFacts ==
    ASSUME NEW p \in Assemblies
    PROVE  /\ Len(p) \in Nat
           /\ DOMAIN p = 1 .. Len(p)
           /\ \A k \in 1 .. Len(p) : WellFormed(p[k])
  BY SeqFacts DEF Assemblies

LEMMA PopFacts ==
    ASSUME NEW i, WellFormed(i), IsPop(i)
    PROVE  i.args[1] \in Nat /\ i.args[1] > 0
  <1>1. i.args \in Seq(Int) /\ Len(i.args) >= LeastOperands(i.class) /\ i.args[1] > 0
    BY DEF WellFormed
  <1>2. Len(i.args) > 0 /\ Len(i.args) \in Nat
    <2>1. LeastOperands(i.class) = 1
      BY DEF IsPop, LeastOperands, ClosurePushes
    <2> QED
      BY <1>1, <2>1, SeqFacts
  <1>3. 1 \in 1 .. Len(i.args)
    BY <1>2
  <1>4. i.args[1] \in Int
    BY <1>1, <1>3, SeqFacts
  <1> QED
    BY <1>1, <1>4

LEMMA StartIsRun == Start \in Runs
  <1>1. Caller \in Seq(Int)
    <2>1. Caller \in [1 .. 12 -> Int]
      BY DEF Caller
    <2> QED
      BY <2>1, SeqDef
  <1> QED
    BY <1>1 DEF Start, Runs

\* A step of a run.
LEMMA StepIsRun ==
    ASSUME NEW i, WellFormed(i), NEW r \in Runs, NEW k \in Int
    PROVE  Step(i, r, k) \in Runs
  <1>1. /\ r.stack \in Seq(Int) /\ r.seen \in Seq(Int \X Seq(Int)) /\ r = [stack |-> r.stack, seen |-> r.seen]
        /\ k \in Int
    BY DEF Runs
  <1>2. CASE IsPop(i)
    <2>1. i.args[1] \in Nat /\ i.args[1] > 0
      BY <1>2, PopFacts
    <2>2. Len(r.stack) \in Nat
      BY <1>1, SeqFacts
    <2> DEFINE n == Len(r.stack) - i.args[1]
    <2>3. n \in Int /\ n <= Len(r.stack)
      BY <2>1, <2>2
    <2> HIDE DEF n
    <2>4. SubSeq(r.stack, 1, n) \in Seq(Int)
      BY <1>1, <2>3, PrefixFacts
    <2>5. Step(i, r, k) = [r EXCEPT !.stack = SubSeq(r.stack, 1, n)]
      BY <1>2 DEF Step, IsPop, Pushes, n
    <2> QED
      BY <1>1, <2>4, <2>5 DEF Runs
  <1>3. CASE i.class = "internalNop"
    BY <1>3 DEF Step, IsPop, Pushes
  <1>4. CASE i.class \in Pushes
    <2>1. Append(r.stack, k) \in Seq(Int)
      BY <1>1, AppendFacts
    <2>2. Step(i, r, k) = [r EXCEPT !.stack = Append(r.stack, k)]
      BY <1>4 DEF Step, IsPop, Pushes
    <2> QED
      BY <1>1, <2>1, <2>2 DEF Runs
  <1>5. CASE ~IsPop(i) /\ i.class # "internalNop" /\ i.class \notin Pushes
    <2>1. Append(r.seen, <<k, r.stack>>) \in Seq(Int \X Seq(Int))
      BY <1>1, AppendFacts
    <2>2. Step(i, r, k) = [r EXCEPT !.seen = Append(r.seen, <<k, r.stack>>)]
      BY <1>5 DEF Step
    <2> QED
      BY <1>1, <2>1, <2>2 DEF Runs
  <1> QED
    BY <1>2, <1>3, <1>4, <1>5

LEMMA RunExists ==
    ASSUME NEW p \in Assemblies
    PROVE  \E f : IsRun(f, p)
  <1> DEFINE n == Len(p)
             G == [k \in 1 .. n |-> [r \in Runs |-> Step(p[k], r, k)]]
  <1>1. n \in Nat /\ \A k \in 1 .. n : WellFormed(p[k])
    BY AssemblyFacts
  <1>2. G \in [1 .. n -> [Runs -> Runs]]
    <2> SUFFICES ASSUME NEW k \in 1 .. n, NEW r \in Runs PROVE Step(p[k], r, k) \in Runs
      OBVIOUS
    <2> QED
      BY <1>1, StepIsRun
  <1>3. \E f : DefinedBy(f, n, Runs, Start, G)
    <2> HIDE DEF G, n
    <2> QED
      BY <1>1, <1>2, StartIsRun, IntervalRecursion
  <1>4. PICK f \in [0 .. n -> Runs] : f[0] = Start /\ \A k \in 1 .. n : f[k] = G[k][f[k - 1]]
    BY <1>3 DEF DefinedBy
  <1>5. ASSUME NEW k \in 1 .. n PROVE f[k] = Step(p[k], f[k - 1], k)
    <2>1. k - 1 \in 0 .. n
      BY <1>1
    <2> QED
      BY <1>4, <2>1
  <1> QED
    BY <1>4, <1>5 DEF IsRun

\* Run is the only function of its kind, and Seen is what it has at the end.
LEMMA RunFacts ==
    ASSUME NEW p \in Assemblies, NEW f, IsRun(f, p)
    PROVE  Seen(p) = Append(f[Len(p)].seen, f[Len(p)].stack)
  <1> DEFINE F(h) == [k \in 0 .. Len(p) |-> IF k = 0 THEN Start ELSE Step(p[k], h[k - 1], k)]
             g == CHOOSE h : h = F(h)
  <1>1. Len(p) \in Nat
    BY AssemblyFacts
  <1>2. f = F(f)
    <2>1. \A k \in 0 .. Len(p) : k # 0 => k \in 1 .. Len(p)
      BY <1>1
    <2>2. \A k \in 0 .. Len(p) : f[k] = F(f)[k]
      BY <2>1 DEF IsRun
    <2>3. DOMAIN f = 0 .. Len(p) /\ f = [k \in 0 .. Len(p) |-> f[k]]
      BY DEF IsRun
    <2> QED
      BY <2>2, <2>3
  <1>3. Run(p) = g
    BY DEF Run
  <1>4. g = F(g)
    BY <1>2
  <1> HIDE DEF g
  <1>5. \A k \in 0 .. Len(p) : g[k] = IF k = 0 THEN Start ELSE Step(p[k], g[k - 1], k)
    BY <1>4
  <1>6. \A k \in 0 .. Len(p) : g[k] = f[k]
    <2>1. g[0] = f[0]
      BY <1>1, <1>5 DEF IsRun
    <2>2. ASSUME NEW k \in 1 .. Len(p), g[k - 1] = f[k - 1] PROVE g[k] = f[k]
      <3>1. g[k] = Step(p[k], g[k - 1], k)
        BY <1>1, <1>5
      <3>2. f[k] = Step(p[k], f[k - 1], k)
        BY DEF IsRun
      <3> QED
        BY <2>2, <3>1, <3>2
    <2> DEFINE n == Len(p)
    <2>3. n \in Nat /\ g[0] = f[0] /\ \A k \in 1 .. n : g[k - 1] = f[k - 1] => g[k] = f[k]
      BY <1>1, <2>1, <2>2
    <2>4. \A k \in 0 .. n : g[k] = f[k]
      <3> HIDE DEF n
      <3> QED
        BY ONLY <2>3, IntervalAgreement
    <2> QED
      BY <2>4
  <1>7. Len(p) \in 0 .. Len(p)
    BY <1>1
  <1> QED
    BY <1>3, <1>6, <1>7 DEF Seen

-----------------------------------------------------------------------------
(* The peephole pass. *)

Edited(p, n, this, next) == [p EXCEPT ![n] = this, ![n + 1] = next]

\* An assembly with two instructions replaced does the same if the first is skipped and the
\* second does what both did.
LEMMA EditKeepsSeen ==
    ASSUME NEW p \in Assemblies, NEW f, IsRun(f, p), NEW n \in Nat, 0 < n, n < Len(p),
           NEW this, WellFormed(this), NEW next, WellFormed(next),
           Step(this, f[n - 1], n) = f[n - 1],
           Step(next, f[n - 1], n + 1) = f[n + 1],
           NEW q, q = Edited(p, n, this, next)
    PROVE  q \in Assemblies /\ Len(q) = Len(p) /\ Seen(q) = Seen(p)
  <1> DEFINE I == [class : Classes, args : Seq(Int)]
             g == [f EXCEPT ![n] = f[n - 1]]
  <1>0. q = [p EXCEPT ![n] = this, ![n + 1] = next]
    BY DEF Edited
  <1>1. Len(p) \in Nat /\ p \in Seq(I) /\ DOMAIN p = 1 .. Len(p)
    BY AssemblyFacts DEF Assemblies
  <1>2. this \in I /\ next \in I
    BY DEF WellFormed
  <1>3. n \in 1 .. Len(p) /\ n + 1 \in 1 .. Len(p) /\ n + 1 # n
    BY <1>1
  <1>4. q \in Seq(I) /\ Len(q) = Len(p)
    <2> DEFINE q1 == [p EXCEPT ![n] = this]
    <2>1. q1 \in Seq(I) /\ Len(q1) = Len(p)
      <3> HIDE DEF I
      <3> QED
        BY <1>1, <1>2, <1>3, ExceptFacts
    <2>2. q = [q1 EXCEPT ![n + 1] = next]
      BY <1>0
    <2> DEFINE m == n + 1
    <2>3. m \in 1 .. Len(q1) /\ q = [q1 EXCEPT ![m] = next]
      BY <1>3, <2>1, <2>2
    <2> HIDE DEF q1, I, m
    <2>4. [q1 EXCEPT ![m] = next] \in Seq(I) /\ Len([q1 EXCEPT ![m] = next]) = Len(q1)
      BY <1>2, <2>1, <2>3, ExceptFacts
    <2> QED
      BY <2>1, <2>3, <2>4
  <1>5. \A k \in 1 .. Len(p) : q[k] = IF k = n THEN this ELSE IF k = n + 1 THEN next ELSE p[k]
    BY <1>0, <1>1, <1>3
  <1>6. q \in Assemblies
    <2>1. DOMAIN q = 1 .. Len(p)
      BY <1>0, <1>1
    <2>2. ASSUME NEW k \in 1 .. Len(p) PROVE WellFormed(q[k])
      <3>1. WellFormed(p[k])
        BY AssemblyFacts
      <3>2. q[k] \in {this, next, p[k]}
        BY <1>5
      <3> QED
        BY <3>1, <3>2
    <2> QED
      BY <1>4, <2>1, <2>2 DEF Assemblies
  <1>7. IsRun(g, q)
    <2>1. /\ n - 1 \in 0 .. Len(p) /\ n \in 0 .. Len(p) /\ 0 # n /\ 0 \in 0 .. Len(p)
      BY <1>1
    <2>2. f[n - 1] \in Runs /\ f \in [0 .. Len(p) -> Runs]
      BY <2>1 DEF IsRun
    <2>3. \A k \in 0 .. Len(p) : g[k] = IF k = n THEN f[n - 1] ELSE f[k]
      BY <2>2
    <2>4. g \in [0 .. Len(p) -> Runs] /\ g[0] = Start
      BY <2>1, <2>2, <2>3 DEF IsRun
    <2>5. ASSUME NEW k \in 1 .. Len(p) PROVE g[k] = Step(q[k], g[k - 1], k)
      <3>1. /\ k \in 0 .. Len(p) /\ k - 1 \in 0 .. Len(p) /\ k - 1 = n <=> k = n + 1
            /\ k \in Int
        BY <1>1
      <3>2. f[k] = Step(p[k], f[k - 1], k)
        BY DEF IsRun
      <3>3. CASE k = n
        <4>1. g[k - 1] = f[n - 1] /\ g[k] = f[n - 1] /\ q[k] = this
          BY <1>5, <2>3, <3>1, <3>3
        <4> HIDE DEF g
        <4> QED
          BY <3>3, <4>1
      <3>4. CASE k = n + 1
        <4>1. g[k - 1] = f[n - 1] /\ g[k] = f[n + 1] /\ q[k] = next
          BY <1>3, <1>5, <2>3, <3>1, <3>4
        <4> HIDE DEF g
        <4> QED
          BY <3>4, <4>1
      <3>5. CASE k # n /\ k # n + 1
        <4>1. g[k - 1] = f[k - 1] /\ g[k] = f[k] /\ q[k] = p[k]
          BY <1>5, <2>3, <3>1, <3>5
        <4> HIDE DEF g
        <4> QED
          BY <3>2, <4>1
      <3> QED
        BY <3>3, <3>4, <3>5
    <2> HIDE DEF g
    <2> QED
      BY <1>4, <2>4, <2>5 DEF IsRun
  <1>8. g[Len(p)] = f[Len(p)]
    <2> DEFINE l == Len(p)
    <2>0. l \in Nat /\ n < l
      BY <1>1
    <2>2. f \in [0 .. l -> Runs]
      BY DEF IsRun
    <2> HIDE DEF l
    <2>1. l # n /\ l \in 0 .. l
      BY <2>0
    <2>3. g[l] = f[l]
      BY <2>1, <2>2
    <2> QED
      BY <2>3 DEF l
  <1> HIDE DEF g
  <1>9. Seen(q) = Append(g[Len(p)].seen, g[Len(p)].stack)
    BY <1>4, <1>6, <1>7, RunFacts
  <1>10. Seen(p) = Append(f[Len(p)].seen, f[Len(p)].stack)
    BY RunFacts
  <1>11. Seen(q) = Seen(p)
    BY <1>8, <1>9, <1>10
  <1> QED
    BY <1>4, <1>6, <1>11

\* Cutting a stack on which a value was pushed.
LEMMA CutAppend ==
    ASSUME NEW s \in Seq(Int), NEW e \in Int, NEW m \in Nat, m > 0
    PROVE  SubSeq(Append(s, e), 1, Len(Append(s, e)) - m) = SubSeq(s, 1, Len(s) - (m - 1))
  <1> DEFINE t == Append(s, e)
             a == Len(t) - m
             b == Len(s) - (m - 1)
  <1>1. t \in Seq(Int) /\ Len(t) = Len(s) + 1 /\ Len(s) \in Nat /\ \A i \in 1 .. Len(s) : t[i] = s[i]
    BY AppendFacts, SeqFacts
  <1> HIDE DEF t
  <1>2. a = b /\ a \in Int /\ a <= Len(t) /\ b <= Len(s)
    BY <1>1
  <1> HIDE DEF a, b
  <1>3. /\ SubSeq(t, 1, a) \in Seq(Int) /\ SubSeq(s, 1, b) \in Seq(Int)
        /\ Len(SubSeq(t, 1, a)) = IF 1 <= a THEN a ELSE 0
        /\ Len(SubSeq(s, 1, b)) = IF 1 <= b THEN b ELSE 0
        /\ \A i \in 1 .. a : SubSeq(t, 1, a)[i] = t[i]
        /\ \A i \in 1 .. b : SubSeq(s, 1, b)[i] = s[i]
    BY <1>1, <1>2, PrefixFacts
  <1>4. \A i \in 1 .. Len(SubSeq(t, 1, a)) : i \in 1 .. a /\ i \in 1 .. b /\ i \in 1 .. Len(s)
    BY <1>1, <1>2, <1>3
  <1>5. SubSeq(t, 1, a) = SubSeq(s, 1, b)
    <2>1. \A i \in 1 .. Len(SubSeq(t, 1, a)) : SubSeq(t, 1, a)[i] = SubSeq(s, 1, b)[i]
      BY <1>1, <1>3, <1>4
    <2>2. Len(SubSeq(t, 1, a)) = Len(SubSeq(s, 1, b))
      BY <1>2, <1>3
    <2> QED
      BY <1>3, <2>1, <2>2, SeqEqual
  <1> QED
    BY <1>5 DEF t, a, b

\* Cutting a stack twice.
LEMMA CutTwice ==
    ASSUME NEW s \in Seq(Int), NEW m \in Nat, NEW n \in Nat
    PROVE  LET t == SubSeq(s, 1, Len(s) - m)
           IN  SubSeq(t, 1, Len(t) - n) = SubSeq(s, 1, Len(s) - (m + n))
  <1> DEFINE c == Len(s) - m
             t == SubSeq(s, 1, c)
             a == Len(t) - n
             b == Len(s) - (m + n)
  <1>1. Len(s) \in Nat
    BY SeqFacts
  <1>2. c \in Int /\ c <= Len(s) /\ b \in Int /\ b <= Len(s) /\ b = c - n
    BY <1>1
  <1> HIDE DEF c
  <1>3. /\ t \in Seq(Int)
        /\ Len(t) = IF 1 <= c THEN c ELSE 0
        /\ \A i \in 1 .. c : t[i] = s[i]
    BY <1>2, PrefixFacts
  <1> HIDE DEF t, b
  <1>4. /\ Len(t) \in Nat /\ a \in Int /\ a <= Len(t)
        /\ a = b \/ (a < 1 /\ b < 1)
    BY <1>2, <1>3
  <1> HIDE DEF a
  <1>5. /\ SubSeq(t, 1, a) \in Seq(Int) /\ SubSeq(s, 1, b) \in Seq(Int)
        /\ Len(SubSeq(t, 1, a)) = IF 1 <= a THEN a ELSE 0
        /\ Len(SubSeq(s, 1, b)) = IF 1 <= b THEN b ELSE 0
        /\ \A i \in 1 .. a : SubSeq(t, 1, a)[i] = t[i]
        /\ \A i \in 1 .. b : SubSeq(s, 1, b)[i] = s[i]
    BY <1>2, <1>3, <1>4, PrefixFacts
  <1>6. \A i \in 1 .. Len(SubSeq(t, 1, a)) : i \in 1 .. a /\ i \in 1 .. b /\ i \in 1 .. c
    BY <1>2, <1>3, <1>4, <1>5
  <1>7. SubSeq(t, 1, a) = SubSeq(s, 1, b)
    <2>1. \A i \in 1 .. Len(SubSeq(t, 1, a)) : SubSeq(t, 1, a)[i] = SubSeq(s, 1, b)[i]
      BY <1>3, <1>5, <1>6
    <2>2. Len(SubSeq(t, 1, a)) = Len(SubSeq(s, 1, b))
      BY <1>2, <1>4, <1>5
    <2> QED
      BY <1>5, <2>1, <2>2, SeqEqual
  <1> QED
    BY <1>7 DEF t, a, b, c

LEMMA StepFacts ==
    ASSUME NEW i, NEW r, NEW k
    PROVE  /\ IsPop(i) => Step(i, r, k) = [r EXCEPT !.stack = SubSeq(r.stack, 1, Len(r.stack) - i.args[1])]
           /\ i.class = "internalNop" => Step(i, r, k) = r
           /\ i.class \in Pushes => Step(i, r, k) = [r EXCEPT !.stack = Append(r.stack, k)]
  BY DEF Step, IsPop, Pushes

\* What the pass writes is well-formed.
LEMMA NewInstructions ==
    /\ WellFormed(InternalNop) /\ InternalNop.class = "internalNop"
    /\ \A n \in Nat : n > 0 => WellFormed(Pop(n)) /\ IsPop(Pop(n)) /\ Pop(n).args[1] = n
  <1>1. ASSUME NEW c \in Classes, NEW a \in Seq(Int), Len(a) >= LeastOperands(c),
               c = "pop" => a[1] > 0, c # "label"
        PROVE  WellFormed(Instruction(c, a)) /\ Instruction(c, a).class = c /\ Instruction(c, a).args = a
    BY <1>1 DEF WellFormed, Instruction, IsPop
  <1>2. WellFormed(InternalNop) /\ InternalNop.class = "internalNop"
    <2>1. <<>> \in Seq(Int) /\ Len(<<>>) = 0 /\ LeastOperands("internalNop") = 0
      BY EmptySeq DEF LeastOperands, ClosurePushes
    <2>2. "internalNop" \in Classes /\ "internalNop" # "pop" /\ "internalNop" # "label"
      BY DEF Classes
    <2> DEFINE c == "internalNop"
               a == <<>>
    <2>3. InternalNop = Instruction(c, a) /\ a \in Seq(Int) /\ c # "pop" /\ c # "label" /\ c \in Classes
         /\ Len(a) >= LeastOperands(c)
      BY <2>1, <2>2 DEF InternalNop
    <2> HIDE DEF a, c
    <2>4. WellFormed(InternalNop) /\ InternalNop.class = c
      BY <1>1, <2>3
    <2> QED
      BY <2>4 DEF c
  <1>3. ASSUME NEW n \in Nat, n > 0 PROVE WellFormed(Pop(n)) /\ IsPop(Pop(n)) /\ Pop(n).args[1] = n
    <2> DEFINE c == "pop"
               a == <<n>>
    <2>1. a \in Seq(Int) /\ Len(a) = 1 /\ a[1] = n /\ LeastOperands(c) = 1
      BY DEF LeastOperands, ClosurePushes
    <2>2. c \in Classes /\ c # "label"
      BY DEF Classes
    <2>3. Pop(n) = Instruction(c, a)
      BY DEF Pop
    <2> HIDE DEF a, c
    <2>4. WellFormed(Pop(n)) /\ Pop(n).class = c /\ Pop(n).args = a
      BY <1>1, <1>3, <2>1, <2>2, <2>3
    <2>5. IsPop(Pop(n))
      BY <2>4 DEF c, IsPop
    <2> QED
      BY <2>1, <2>4, <2>5
  <1> QED
    BY <1>2, <1>3

\* An edit that keeps what is seen keeps the invariant.
LEMMA PeepholeEdit ==
    ASSUME PeepholeInv, phase = "peephole", at < Len(assembly),
           NEW f, IsRun(f, assembly),
           NEW this, WellFormed(this), NEW next, WellFormed(next), Edit(this, next),
           Step(this, f[at - 1], at) = f[at - 1],
           Step(next, f[at - 1], at + 1) = f[at + 1]
    PROVE  PeepholeInv'
  <1>1. at \in Nat /\ 0 < at
    BY DEF PeepholeInv
  <1>2. assembly' = [assembly EXCEPT ![at] = this, ![at + 1] = next]
    BY DEF Edit
  <1> DEFINE n == at
             p == assembly
             q == assembly'
  <1>3. /\ p \in Assemblies /\ IsRun(f, p) /\ n \in Nat /\ 0 < n /\ n < Len(p)
        /\ Step(this, f[n - 1], n) = f[n - 1] /\ Step(next, f[n - 1], n + 1) = f[n + 1]
        /\ q = Edited(p, n, this, next)
    BY <1>1, <1>2 DEF PeepholeInv, Edited
  <1> HIDE DEF n, p, q
  <1>4. q \in Assemblies /\ Len(q) = Len(p) /\ Seen(q) = Seen(p)
    BY <1>3, EditKeepsSeen
  <1>5. assembly' \in Assemblies /\ Len(assembly') = Len(assembly) /\ Seen(assembly') = Seen(assembly)
    BY <1>3, <1>4 DEF p, q
  <1> QED
    BY <1>1, <1>5 DEF PeepholeInv, Edit

\* What the run is before and after the two instructions that a step looks at.
LEMMA AtTwo ==
    ASSUME PeepholeInv, phase = "peephole", at < Len(assembly), NEW f, IsRun(f, assembly)
    PROVE  /\ at \in Nat /\ at > 0 /\ at + 1 \in Nat
           /\ WellFormed(assembly[at]) /\ WellFormed(assembly[at + 1])
           /\ f[at - 1] \in Runs
           /\ f[at] = Step(assembly[at], f[at - 1], at)
           /\ f[at + 1] = Step(assembly[at + 1], f[at], at + 1)
  <1>1. at \in Nat /\ at > 0 /\ Len(assembly) \in Nat /\ assembly \in Assemblies
    BY AssemblyFacts DEF PeepholeInv
  <1>2. /\ at \in 1 .. Len(assembly) /\ at + 1 \in 1 .. Len(assembly)
        /\ at - 1 \in 0 .. Len(assembly) /\ (at + 1) - 1 = at
    BY <1>1
  <1>3. WellFormed(assembly[at]) /\ WellFormed(assembly[at + 1])
    BY <1>1, <1>2, AssemblyFacts
  <1>4. f[at - 1] \in Runs
    BY <1>2 DEF IsRun
  <1>5. f[at] = Step(assembly[at], f[at - 1], at)
    BY <1>2 DEF IsRun
  <1>6. f[at + 1] = Step(assembly[at + 1], f[(at + 1) - 1], at + 1)
    BY <1>2 DEF IsRun
  <1> QED
    BY <1>1, <1>2, <1>3, <1>4, <1>5, <1>6

\* A push and one value of the pop after it.
LEMMA RemovePushKeeps ==
    ASSUME PeepholeInv, RemovePush
    PROVE  PeepholeInv'
  <1>1. phase = "peephole" /\ at < Len(assembly) /\ assembly \in Assemblies
    BY DEF RemovePush, PeepholeInv
  <1>2. PICK f : IsRun(f, assembly)
    BY <1>1, RunExists
  <1> DEFINE m == assembly[at + 1].args[1]
             r == f[at - 1]
             next == IF m - 1 = 0 THEN InternalNop ELSE Pop(m - 1)
  <1>3. assembly[at].class \in Pushes /\ IsPop(assembly[at + 1]) /\ Edit(InternalNop, next)
    BY DEF RemovePush
  <1>4. /\ at \in Nat /\ at > 0 /\ at + 1 \in Nat
        /\ WellFormed(assembly[at + 1])
        /\ r \in Runs
        /\ f[at] = Step(assembly[at], r, at)
        /\ f[at + 1] = Step(assembly[at + 1], f[at], at + 1)
    BY <1>1, <1>2, AtTwo
  <1>5. m \in Nat /\ m > 0
    BY <1>3, <1>4, PopFacts
  <1>6. WellFormed(InternalNop) /\ Step(InternalNop, r, at) = r
    BY NewInstructions, StepFacts
  <1> DEFINE s == r.stack
             t == Append(s, at)
             cut == SubSeq(s, 1, Len(s) - (m - 1))
  <1>7. f[at + 1] = [r EXCEPT !.stack = cut]
    <2>0. Step(assembly[at], r, at) = [r EXCEPT !.stack = Append(r.stack, at)]
      <3> HIDE DEF r
      <3> QED
        BY <1>3, StepFacts
    <2>1. f[at] = [r EXCEPT !.stack = t]
      BY <1>4, <2>0
    <2>2. f[at].stack = t
      BY <1>4, <2>1 DEF Runs
    <2>3. f[at + 1] = [f[at] EXCEPT !.stack = SubSeq(f[at].stack, 1, Len(f[at].stack) - m)]
      BY <1>3, <1>4, StepFacts
    <2>4. s \in Seq(Int) /\ at \in Int
      BY <1>4 DEF Runs
    <2>5. SubSeq(t, 1, Len(t) - m) = cut
      BY <1>5, <2>4, CutAppend
    <2> HIDE DEF t, m, cut
    <2>6. f[at + 1] = [f[at] EXCEPT !.stack = cut]
      BY <2>2, <2>3, <2>5
    <2> QED
      BY <1>4, <2>1, <2>6 DEF Runs
  <1>8. WellFormed(next) /\ Step(next, r, at + 1) = f[at + 1]
    <2>1. CASE m = 1
      <3>1. next = InternalNop
        BY <2>1
      <3>2. WellFormed(next) /\ Step(next, r, at + 1) = r
        BY <3>1, NewInstructions, StepFacts
      <3>3. cut = s
        <4>1. s \in Seq(Int)
          BY <1>4 DEF Runs
        <4>2. Len(s) \in Nat
          BY <4>1, SeqFacts
        <4>3. Len(s) - (m - 1) = Len(s)
          BY <2>1, <4>2
        <4>4. SubSeq(s, 1, Len(s)) = s
          <5> HIDE DEF s
          <5>1. /\ SubSeq(s, 1, Len(s)) \in Seq(Int)
                /\ Len(SubSeq(s, 1, Len(s))) = IF 1 <= Len(s) THEN Len(s) ELSE 0
                /\ \A i \in 1 .. Len(s) : SubSeq(s, 1, Len(s))[i] = s[i]
            BY <4>1, <4>2, PrefixFacts
          <5>2. Len(SubSeq(s, 1, Len(s))) = Len(s)
            BY <4>2, <5>1
          <5> QED
            BY <4>1, <5>1, <5>2, SeqEqual
        <4> QED
          BY <4>3, <4>4
      <3>4. f[at + 1] = r
        <4> HIDE DEF cut
        <4> QED
          BY <1>4, <1>7, <3>3 DEF Runs
      <3> QED
        BY <3>2, <3>4
    <2>2. CASE m # 1
      <3> DEFINE l == m - 1
      <3>1. l \in Nat /\ l > 0 /\ l # 0
        BY <1>5, <2>2
      <3>2. next = Pop(l)
        BY <3>1
      <3>3. cut = SubSeq(s, 1, Len(s) - l)
        OBVIOUS
      <3> HIDE DEF l, next, cut
      <3>4. WellFormed(Pop(l)) /\ IsPop(Pop(l)) /\ Pop(l).args[1] = l
        BY <3>1, NewInstructions
      <3>5. Step(Pop(l), r, at + 1) = [r EXCEPT !.stack = SubSeq(r.stack, 1, Len(r.stack) - Pop(l).args[1])]
        BY <3>4, StepFacts
      <3> QED
        BY <1>7, <3>2, <3>3, <3>4, <3>5
    <2> QED
      BY <2>1, <2>2
  <1> HIDE DEF next
  <1> QED
    BY <1>1, <1>2, <1>3, <1>6, <1>8, PeepholeEdit

\* Two pops in a row.
LEMMA MergePopsKeeps ==
    ASSUME PeepholeInv, MergePops
    PROVE  PeepholeInv'
  <1>1. phase = "peephole" /\ at < Len(assembly) /\ assembly \in Assemblies
    BY DEF MergePops, PeepholeInv
  <1>2. PICK f : IsRun(f, assembly)
    BY <1>1, RunExists
  <1> DEFINE m == assembly[at].args[1]
             n == assembly[at + 1].args[1]
             r == f[at - 1]
             s == r.stack
             t == SubSeq(s, 1, Len(s) - m)
             cut == SubSeq(s, 1, Len(s) - (m + n))
             l == m + n
  <1>3. IsPop(assembly[at]) /\ IsPop(assembly[at + 1]) /\ Edit(InternalNop, Pop(l))
    BY DEF MergePops
  <1>4. /\ at \in Nat /\ at > 0 /\ at + 1 \in Nat
        /\ WellFormed(assembly[at]) /\ WellFormed(assembly[at + 1])
        /\ r \in Runs
        /\ f[at] = Step(assembly[at], r, at)
        /\ f[at + 1] = Step(assembly[at + 1], f[at], at + 1)
    BY <1>1, <1>2, AtTwo
  <1>5. m \in Nat /\ m > 0 /\ n \in Nat /\ n > 0
    BY <1>3, <1>4, PopFacts
  <1>6. WellFormed(InternalNop) /\ Step(InternalNop, r, at) = r
    BY NewInstructions, StepFacts
  <1>7. f[at + 1] = [r EXCEPT !.stack = cut]
    <2>1. f[at] = [r EXCEPT !.stack = t]
      BY <1>3, <1>4, StepFacts
    <2>2. f[at].stack = t
      BY <1>4, <2>1 DEF Runs
    <2>3. f[at + 1] = [f[at] EXCEPT !.stack = SubSeq(f[at].stack, 1, Len(f[at].stack) - n)]
      BY <1>3, <1>4, StepFacts
    <2>4. s \in Seq(Int)
      BY <1>4 DEF Runs
    <2>5. SubSeq(t, 1, Len(t) - n) = cut
      BY <1>5, <2>4, CutTwice
    <2> HIDE DEF t, n, cut
    <2>6. f[at + 1] = [f[at] EXCEPT !.stack = cut]
      BY <2>2, <2>3, <2>5
    <2> QED
      BY <1>4, <2>1, <2>6 DEF Runs
  <1>8. WellFormed(Pop(l)) /\ Step(Pop(l), r, at + 1) = f[at + 1]
    <2>1. l \in Nat /\ l > 0
      BY <1>5
    <2>2. cut = SubSeq(s, 1, Len(s) - l)
      OBVIOUS
    <2> HIDE DEF l, cut
    <2>3. WellFormed(Pop(l)) /\ IsPop(Pop(l)) /\ Pop(l).args[1] = l
      BY <2>1, NewInstructions
    <2>4. Step(Pop(l), r, at + 1) = [r EXCEPT !.stack = SubSeq(r.stack, 1, Len(r.stack) - Pop(l).args[1])]
      BY <2>3, StepFacts
    <2> QED
      BY <1>7, <2>2, <2>3, <2>4
  <1> HIDE DEF l
  <1> QED
    BY <1>1, <1>2, <1>3, <1>6, <1>8, PeepholeEdit

LEMMA LeaveInstructionKeeps ==
    ASSUME PeepholeInv, LeaveInstruction
    PROVE  PeepholeInv'
  <1>1. assembly' = [assembly EXCEPT ![at] = assembly[at], ![at + 1] = assembly[at + 1]]
    BY DEF LeaveInstruction, Edit
  <1>2. assembly \in Seq([class : Classes, args : Seq(Int)])
    BY DEF PeepholeInv, Assemblies
  <1>3. assembly = [k \in DOMAIN assembly |-> assembly[k]]
    <2> DEFINE I == [class : Classes, args : Seq(Int)]
    <2> HIDE DEF I
    <2>1. assembly \in Seq(I) => assembly = [k \in DOMAIN assembly |-> assembly[k]]
      OBVIOUS
    <2> QED
      BY <1>2, <2>1 DEF I
  <1>4. assembly' = assembly
    BY <1>1, <1>3
  <1> QED
    BY <1>4 DEF PeepholeInv, LeaveInstruction, Edit

\* Every step keeps what is seen.
LEMMA PeepholeNext ==
    ASSUME PeepholeInv, [Next]_vars
    PROVE  PeepholeInv'
  <1>1. CASE RemovePush
    BY <1>1, RemovePushKeeps
  <1>2. CASE MergePops
    BY <1>2, MergePopsKeeps
  <1>3. CASE LeaveInstruction
    BY <1>3, LeaveInstructionKeeps
  <1>4. CASE EndPeephole
    BY <1>4 DEF PeepholeInv, EndPeephole
  <1>5. CASE SkipNop \/ EncodeInstruction \/ PlaceLabel \/ EncodeJump
    <2>1. phase' = phase /\ program' = program /\ assembly' = assembly /\ at' = at + 1 /\ phase = "encode"
      BY <1>5, Zenon DEF SkipNop, EncodeInstruction, PlaceLabel, EncodeJump, Advance, Encoding_
    <2>2. at \in Nat \ {0}
      BY <2>1 DEF PeepholeInv
    <2>3. at' \in Nat \ {0}
      BY <2>1, <2>2
    <2> QED
      BY <2>1, <2>3 DEF PeepholeInv
  <1>6. CASE LinkLabels
    BY <1>6 DEF PeepholeInv, LinkLabels
  <1>7. CASE SizePass
    BY <1>7, Zenon DEF PeepholeInv, SizePass
  <1>8. CASE InsertDisplacement \/ EndAssembly
    BY <1>8, Zenon DEF PeepholeInv, InsertDisplacement, EndAssembly
  <1>9. CASE RunStraight \/ RunJump
    BY <1>9 DEF PeepholeInv, RunStraight, RunJump, GoTo, InTheCode
  <1>10. CASE UNCHANGED vars
    BY <1>10 DEF PeepholeInv, vars
  <1> QED
    BY <1>1, <1>2, <1>3, <1>4, <1>5, <1>6, <1>7, <1>8, <1>9, <1>10 DEF Next

LEMMA InitPeephole == Init => PeepholeInv
  BY ProgramsAssumption DEF Init, PeepholeInv

\* Each edit of the push-pop peephole optimization (duckLisp_assemble) leaves every instruction
\* that is not a plain push or pop, every label included, the stack that the compiler meant.
THEOREM PeepholeInvariant == Spec => []PeepholeInv
  <1>1. Init => PeepholeInv
    BY InitPeephole
  <1>2. PeepholeInv /\ [Next]_vars => PeepholeInv'
    BY PeepholeNext
  <1> QED
    BY <1>1, <1>2, PTL DEF Spec

\* When the peephole pass is over, every other instruction finds the stack that the compiler
\* meant, whatever the assembly.
THEOREM StacksAreKept == Spec => []PeepholeKeepsStacks
  <1>1. PeepholeInv => PeepholeKeepsStacks
    BY DEF PeepholeInv, PeepholeKeepsStacks
  <1> QED
    BY <1>1, PeepholeInvariant, PTL

-----------------------------------------------------------------------------
(* Sequences of any values. *)

Sequence(s) == s \in Seq(Range(s))

\* A sequence over a set is one over any larger set.
LEMMA SeqMonotone ==
    ASSUME NEW S, NEW T, S \subseteq T, NEW s \in Seq(S)
    PROVE  s \in Seq(T)
  BY SeqDef

\* A sequence over some set is one over the set of its own elements.
LEMMA SequenceOf ==
    ASSUME NEW S, NEW s \in Seq(S)
    PROVE  Sequence(s)
  <1>1. Len(s) \in Nat /\ DOMAIN s = 1 .. Len(s) /\ \A i \in 1 .. Len(s) : s[i] \in Range(s)
    BY SeqFacts, RangeFacts
  <1>2. s = [i \in 1 .. Len(s) |-> s[i]]
    BY <1>1
  <1>3. s \in [1 .. Len(s) -> Range(s)]
    BY <1>1, <1>2
  <1> QED
    BY <1>1, <1>3, SeqDef DEF Sequence

\* A function on 1 .. n is a sequence.
LEMMA FunctionIsSequence ==
    ASSUME NEW n \in Nat, NEW s, DOMAIN s = 1 .. n, s = [i \in 1 .. n |-> s[i]]
    PROVE  Sequence(s) /\ Len(s) = n
  <1>1. s \in [1 .. n -> Range(s)]
    BY DEF Range
  <1>2. s \in Seq(Range(s))
    BY <1>1, SeqDef
  <1>3. Len(s) \in Nat /\ DOMAIN s = 1 .. Len(s)
    BY <1>2, SeqFacts
  <1>4. Len(s) = n
    <2> DEFINE l == Len(s)
    <2>1. l \in Nat /\ 1 .. l = 1 .. n
      BY <1>3
    <2> HIDE DEF l
    <2>2. l = n
      <3>1. CASE l < n
        <4>1. n \in 1 .. n /\ n \notin 1 .. l
          BY <2>1, <3>1
        <4> QED
          BY <2>1, <4>1
      <3>2. CASE l > n
        <4>1. l \in 1 .. l /\ l \notin 1 .. n
          BY <2>1, <3>2
        <4> QED
          BY <2>1, <4>1
      <3> QED
        BY <2>1, <3>1, <3>2
    <2> QED
      BY <2>2 DEF l
  <1> QED
    BY <1>2, <1>4 DEF Sequence

\* Concatenation.
LEMMA ConcatFacts ==
    ASSUME NEW s, Sequence(s), NEW t, Sequence(t)
    PROVE  /\ Sequence(s \o t)
           /\ Len(s \o t) = Len(s) + Len(t)
           /\ Len(s) \in Nat /\ Len(t) \in Nat
  <1> DEFINE T == Range(s) \cup Range(t)
  <1>1. s \in Seq(T) /\ t \in Seq(T)
    BY SeqMonotone DEF Sequence
  <1> HIDE DEF T
  <1>2. s \o t \in Seq(T) /\ Len(s \o t) = Len(s) + Len(t)
    BY <1>1, ConcatProperties
  <1> QED
    BY <1>1, <1>2, SequenceOf, SeqFacts

\* The flat sequence grows by one of the sequences at a time.
Flattens(f, T, n, ss) ==
    /\ f \in [0 .. n -> Seq(T)]
    /\ f[0] = <<>>
    /\ \A k \in 1 .. n : f[k] = f[k - 1] \o ss[k]
    /\ FlattenSeq(ss) = f[n]

\* What FlattenSeq computes, prefix by prefix.
LEMMA FlattenFacts ==
    ASSUME NEW T, NEW n \in Nat, NEW ss, ss \in [1 .. n -> Seq(T)]
    PROVE  \E f : Flattens(f, T, n, ss)
  <1>0. \A a, b : a[0] = b[0] /\ (\A k \in 1 .. n : a[k - 1] = b[k - 1] => a[k] = b[k])
                  => \A k \in 0 .. n : a[k] = b[k]
    BY ONLY n \in Nat, IntervalAgreement
  <1> DEFINE X == Seq(T)
             G == [k \in 1 .. n |-> [s \in X |-> s \o ss[k]]]
  <1>1. Len(ss) = n
    <2>1. DOMAIN ss = 1 .. n /\ ss = [i \in 1 .. n |-> ss[i]]
      OBVIOUS
    <2> QED
      BY <2>1, FunctionIsSequence
  <1>2. <<>> \in X
    BY EmptySeq
  <1>3. G \in [1 .. n -> [X -> X]]
    <2> SUFFICES ASSUME NEW k \in 1 .. n, NEW s \in X PROVE s \o ss[k] \in X
      OBVIOUS
    <2>1. ss[k] \in Seq(T)
      OBVIOUS
    <2> QED
      BY <2>1, ConcatProperties
  <1>4. \E f : DefinedBy(f, n, X, <<>>, G)
    <2> DEFINE x == <<>>
    <2>1. x \in X
      BY <1>2
    <2> HIDE DEF G, X, x
    <2>2. \E f : DefinedBy(f, n, X, x, G)
      BY <1>3, <2>1, IntervalRecursion
    <2> QED
      BY <2>2 DEF x
  <1>5. PICK f : DefinedBy(f, n, X, <<>>, G)
    BY <1>4
  <1>6. f \in [0 .. n -> Seq(T)] /\ f[0] = <<>>
    BY <1>5 DEF DefinedBy
  <1>7. ASSUME NEW k \in 1 .. n PROVE f[k] = f[k - 1] \o ss[k]
    <2>1. k - 1 \in 0 .. n
      OBVIOUS
    <2>2. f[k - 1] \in X /\ f[k] = G[k][f[k - 1]]
      BY <1>5, <1>6, <2>1 DEF DefinedBy
    <2> QED
      BY <2>2
  <1>8. FlattenSeq(ss) = f[n]
    <2>1. CASE n = 0
      <3>1. FlattenSeq(ss) = ss
        BY <1>1, <2>1 DEF FlattenSeq
      <3>2. ss = <<>>
        BY <2>1
      <3> QED
        BY <1>6, <2>1, <3>1, <3>2
    <2>2. CASE n # 0
      <3> DEFINE F(h) == [i \in 1 .. n |-> IF i = 1 THEN ss[i] ELSE h[i - 1] \o ss[i]]
                 g == [i \in 1 .. n |-> f[i]]
                 h == CHOOSE h : h = F(h)
      <3>1. FlattenSeq(ss) = h[n]
        BY <1>1, <2>2 DEF FlattenSeq
      <3>2. g = F(g)
        <4> SUFFICES ASSUME NEW i \in 1 .. n
                     PROVE  g[i] = IF i = 1 THEN ss[i] ELSE g[i - 1] \o ss[i]
          OBVIOUS
        <4>1. f[i] = f[i - 1] \o ss[i]
          BY <1>7
        <4>2. CASE i = 1
          <5>0. i - 1 = 0
            BY <4>2
          <5>1. ss[i] \in Seq(T) /\ f[i] = <<>> \o ss[i]
            BY <1>6, <4>1, <5>0
          <5>2. f[i] = ss[i]
            BY <5>1, ConcatEmptySeq
          <5> QED
            BY <4>2, <5>2
        <4>3. CASE i # 1
          <5>1. i - 1 \in 1 .. n
            BY <4>3
          <5>2. g[i] = f[i] /\ g[i - 1] = f[i - 1]
            BY <5>1
          <5> HIDE DEF g
          <5> QED
            BY <4>1, <4>3, <5>2
        <4> QED
          BY <4>2, <4>3
      <3>3. h = F(h)
        <4> HIDE DEF g
        <4> QED
          BY <3>2, Zenon
      <3> HIDE DEF h
      <3>4. \A i \in 1 .. n : h[i] = IF i = 1 THEN ss[i] ELSE h[i - 1] \o ss[i]
        BY <3>3
      <3> DEFINE H == [k \in 0 .. n |-> IF k = 0 THEN <<>> ELSE h[k]]
      <3>5. H[0] = f[0]
        BY <1>6
      <3>6. ASSUME NEW k \in 1 .. n, H[k - 1] = f[k - 1] PROVE H[k] = f[k]
        <4>0. k \in 0 .. n /\ k # 0
          OBVIOUS
        <4>1. f[k] = f[k - 1] \o ss[k] /\ H[k] = h[k]
          <5>1. H[k] = h[k]
            BY <4>0
          <5> QED
            BY <1>7, <5>1
        <4>2. CASE k = 1
          <5>0. k - 1 = 0 /\ ss[k] \in Seq(T) /\ h[k] = ss[k]
            BY <3>4, <4>2
          <5>1. ss[k] \in Seq(T) /\ f[k] = <<>> \o ss[k] /\ h[k] = ss[k]
            <6> HIDE DEF H
            <6> QED
              BY <1>6, <4>1, <5>0
          <5>2. f[k] = ss[k]
            BY <5>1, ConcatEmptySeq
          <5> QED
            BY <4>1, <5>1, <5>2
        <4>3. CASE k # 1
          <5>1. k - 1 \in 1 .. n /\ k - 1 # 0
            BY <4>3
          <5>2. H[k - 1] = h[k - 1]
            BY <5>1
          <5>3. h[k] = h[k - 1] \o ss[k]
            BY <3>4, <4>3
          <5> HIDE DEF H
          <5> QED
            BY <3>6, <4>1, <5>2, <5>3
        <4> QED
          BY <4>2, <4>3
      <3>7. \A k \in 0 .. n : H[k] = f[k]
        <4> HIDE DEF H
        <4>1. \A k \in 1 .. n : H[k - 1] = f[k - 1] => H[k] = f[k]
          BY <3>6
        <4> QED
          BY <1>0, <3>5, <4>1
      <3>8. H[n] = h[n] /\ n \in 0 .. n
        BY <2>2
      <3> HIDE DEF H
      <3> QED
        BY <3>1, <3>7, <3>8
    <2> QED
      BY <2>1, <2>2
  <1> QED
    BY <1>6, <1>7, <1>8 DEF Flattens

\* When the elements are told apart by their places and by what F says of them, so are those
\* of the flat sequence.
AllDiffer(F, n, ss) ==
    \A a, b \in 1 .. n : \A i \in 1 .. Len(ss[a]), j \in 1 .. Len(ss[b]) :
        F[ss[a][i]] = F[ss[b][j]] => a = b /\ i = j
Differ(F, s) == \A k, m \in 1 .. Len(s) : F[s[k]] = F[s[m]] => k = m

\* Sequences whose elements all differ by F, within each and between any two, are flattened
\* into one whose elements differ by F.
LEMMA FlattenInjective ==
    ASSUME NEW T, NEW n \in Nat, NEW ss, ss \in [1 .. n -> Seq(T)], NEW F, AllDiffer(F, n, ss)
    PROVE  FlattenSeq(ss) \in Seq(T) /\ Differ(F, FlattenSeq(ss))
  <1>0. PICK f : Flattens(f, T, n, ss)
    BY FlattenFacts
  <1>1. /\ f \in [0 .. n -> Seq(T)]
        /\ f[0] = <<>>
        /\ \A k \in 1 .. n : f[k] = f[k - 1] \o ss[k]
        /\ FlattenSeq(ss) = f[n]
    BY <1>0 DEF Flattens
  <1> DEFINE From(p) == \A k \in 1 .. Len(f[p]) :
                            \E a \in 1 .. p : \E i \in 1 .. Len(ss[a]) : f[p][k] = ss[a][i]
             Unlike(p) == \A k, m \in 1 .. Len(f[p]) : F[f[p][k]] = F[f[p][m]] => k = m
             P == {p \in 0 .. n : From(p) /\ Unlike(p)}
  <1>2. 0 \in P
    <2>1. Len(f[0]) = 0
      BY <1>1, EmptySeq
    <2> QED
      BY <2>1
  <1>3. ASSUME NEW p \in P, p < n PROVE p + 1 \in P
    <2> DEFINE q == p + 1
               s == f[p]
               t == ss[q]
               u == f[q]
    <2>1. p \in 0 .. n /\ q \in 1 .. n /\ q \in 0 .. n /\ q - 1 = p /\ p \in Nat
      BY <1>3
    <2>2. s \in Seq(T) /\ t \in Seq(T) /\ u = s \o t
      <3> HIDE DEF q
      <3> QED
        BY <1>1, <2>1
    <2>3. /\ Len(u) = Len(s) + Len(t) /\ Len(s) \in Nat /\ Len(t) \in Nat
          /\ \A k \in 1 .. Len(u) : u[k] = IF k <= Len(s) THEN s[k] ELSE t[k - Len(s)]
      <3> HIDE DEF s, t, u
      <3> QED
        BY <2>2, ConcatProperties, SeqFacts
    <2>4. From(p) /\ Unlike(p)
      OBVIOUS
    <2> DEFINE l == Len(s)
    <2> HIDE DEF From, Unlike, P
    <2>5. ASSUME NEW k \in 1 .. Len(u)
          PROVE  \/ /\ k <= l /\ k \in 1 .. l /\ u[k] = s[k]
                    /\ \E a \in 1 .. p : \E i \in 1 .. Len(ss[a]) : u[k] = ss[a][i]
                 \/ k > l /\ k - l \in 1 .. Len(t) /\ u[k] = ss[q][k - l]
      <3>1. CASE k <= l
        <4>0. k \in Nat /\ 1 <= k /\ l \in Nat
          BY <2>3
        <4>1. k \in 1 .. l /\ u[k] = s[k]
          <5> HIDE DEF s, t, u
          <5> QED
            BY <2>3, <3>1, <4>0
        <4>2. \E a \in 1 .. p : \E i \in 1 .. Len(ss[a]) : s[k] = ss[a][i]
          BY <2>4, <4>1 DEF From
        <4> HIDE DEF l, u, s
        <4> QED
          BY <3>1, <4>1, <4>2
      <3>2. CASE k > l
        <4> HIDE DEF s, t, u
        <4>0. k \in Nat /\ k <= l + Len(t) /\ l \in Nat /\ Len(t) \in Nat
          BY <2>3
        <4>1. k - l \in 1 .. Len(t) /\ ~(k <= l)
          <5> HIDE DEF l
          <5> QED
            BY <3>2, <4>0
        <4>2. u[k] = t[k - l]
          BY <2>3, <3>2, <4>1
        <4> QED
          BY <3>2, <4>1, <4>2 DEF t
      <3>3. k \in Int /\ l \in Int
        BY <2>3
      <3> QED
        BY <3>1, <3>2, <3>3
    <2> HIDE DEF l
    <2>6. From(q)
      <3> USE DEF From
      <3> SUFFICES ASSUME NEW k \in 1 .. Len(u)
                   PROVE  \E a \in 1 .. q : \E i \in 1 .. Len(ss[a]) : u[k] = ss[a][i]
        OBVIOUS
      <3>1. q \in 1 .. q /\ \A a \in 1 .. p : a \in 1 .. q
        BY <2>1
      <3> HIDE DEF q, u
      <3> QED
        BY <2>5, <3>1
    <2>7. Unlike(q)
      <3> USE DEF Unlike
      <3> SUFFICES ASSUME NEW k \in 1 .. Len(u), NEW m \in 1 .. Len(u), F[u[k]] = F[u[m]]
                   PROVE  k = m
        OBVIOUS
      <3>0. l \in Nat /\ \A a \in 1 .. p : a \in 1 .. n /\ a # q
        BY <2>1, <2>3 DEF l
      <3>1. CASE k <= l /\ m <= l
        <4>1. k \in 1 .. l /\ m \in 1 .. l /\ u[k] = s[k] /\ u[m] = s[m]
          BY <2>5, <3>0, <3>1
        <4>2. \A x, y \in 1 .. l : F[s[x]] = F[s[y]] => x = y
          BY <2>4 DEF l
        <4> HIDE DEF u, s
        <4> QED
          BY <4>1, <4>2
      <3>2. CASE k > l /\ m > l
        <4>0. k \in Nat /\ m \in Nat /\ ~(k <= l) /\ ~(m <= l)
          BY <3>0, <3>2
        <4>1. /\ k - l \in 1 .. Len(ss[q]) /\ u[k] = ss[q][k - l]
              /\ m - l \in 1 .. Len(ss[q]) /\ u[m] = ss[q][m - l]
          <5> HIDE DEF u, q
          <5> QED
            BY <2>5, <4>0 DEF t
        <4> DEFINE x == k - l
                   y == m - l
        <4>2. x = y
          <5> HIDE DEF u, q, x, y
          <5>1. /\ x \in 1 .. Len(ss[q]) /\ u[k] = ss[q][x]
                /\ y \in 1 .. Len(ss[q]) /\ u[m] = ss[q][y]
            BY <4>1 DEF x, y
          <5>2. F[ss[q][x]] = F[ss[q][y]] /\ q \in 1 .. n
            BY <2>1, <5>1
          <5>3. x = y
            <6> HIDE DEF q
            <6> QED
              BY <5>1, <5>2 DEF AllDiffer
          <5> QED
            BY <5>3
        <4>3. k \in Int /\ m \in Int /\ l \in Int /\ k - l = m - l
          BY <3>0, <4>0, <4>2
        <4> QED
          BY ONLY <4>3
      <3>3. ASSUME NEW x \in 1 .. Len(u), NEW y \in 1 .. Len(u), x <= l, y > l
            PROVE  F[u[x]] # F[u[y]]
        <4>0. x \in Nat /\ y \in Nat /\ ~(x > l) /\ ~(y <= l)
          BY <3>0, <3>3
        <4>1. PICK a \in 1 .. p : \E i \in 1 .. Len(ss[a]) : u[x] = ss[a][i]
          BY <2>5, <4>0
        <4>6. PICK i \in 1 .. Len(ss[a]) : u[x] = ss[a][i]
          BY <4>1
        <4>2. y - l \in 1 .. Len(ss[q]) /\ u[y] = ss[q][y - l]
          BY <2>5, <4>0 DEF t
        <4> DEFINE z == y - l
        <4> HIDE DEF q, u, z
        <4>3. z \in 1 .. Len(ss[q]) /\ u[y] = ss[q][z]
          BY <4>2 DEF z
        <4>4. a \in 1 .. n /\ a # q /\ q \in 1 .. n
          BY <2>1, <3>0
        <4>5. F[ss[a][i]] = F[ss[q][z]] => a = q
          BY <4>3, <4>4 DEF AllDiffer
        <4> QED
          BY <4>3, <4>4, <4>5, <4>6
      <3>4. (k <= l /\ m <= l) \/ (k > l /\ m > l) \/ (k <= l /\ m > l) \/ (m <= l /\ k > l)
        BY <3>0
      <3> HIDE DEF u
      <3> QED
        BY <3>1, <3>2, <3>3, <3>4
    <2> QED
      BY <2>1, <2>6, <2>7 DEF P
  <1>4. P \in SUBSET (0 .. n)
    OBVIOUS
  <1>5. n \in P
    <2> HIDE DEF P
    <2> QED
      BY <1>2, <1>3, <1>4, IntervalInduction
  <1>6. n \in 0 .. n /\ Unlike(n)
    BY <1>5
  <1> HIDE DEF P
  <1> QED
    BY <1>1, <1>6 DEF Differ

-----------------------------------------------------------------------------
(* Whatever is written is bytes, in the sizes that its class has opcodes for. *)

Byte == 0 .. 255
Bytes(s) == s \in Seq(Byte)

LEMMA BytesAreSequence == \A s : Bytes(s) => Sequence(s)
  BY SequenceOf DEF Bytes

\* Operands have one of three widths.
LEMMA WidthFacts ==
    ASSUME NEW v
    PROVE  Width(v) \in {1, 2, 4} /\ SignedWidth(v) \in {1, 2, 4}
  <1>1. Width(v) \in {1, 2, 4}
    <2> DEFINE P == 0 .. 255
               Q == 256 .. 65535
    <2>1. Width(v) = CASE v \in P -> 1 [] v \in Q -> 2 [] OTHER -> 4
      BY DEF Width
    <2> HIDE DEF P, Q
    <2> QED
      BY <2>1
  <1>2. SignedWidth(v) \in {1, 2, 4}
    <2> DEFINE P == -127 .. 127
               Q == -32767 .. 32767
    <2>1. SignedWidth(v) = CASE v \in P -> 1 [] v \in Q -> 2 [] OTHER -> 4
      BY DEF SignedWidth
    <2> HIDE DEF P, Q
    <2> QED
      BY <2>1
  <1> QED
    BY <1>1, <1>2

LEMMA WidestFacts ==
    ASSUME NEW V, V # {}
    PROVE  WidestOf(V) \in {1, 2, 4}
  <1> DEFINE W == {Width(v) : v \in V}
  <1>1. W # {} /\ \A w \in W : w \in {1, 2, 4}
    BY WidthFacts
  <1> HIDE DEF W
  <1>2. \E x \in W : \A y \in W : x >= y
    <2>1. CASE 4 \in W
      BY <1>1, <2>1
    <2>2. CASE 4 \notin W /\ 2 \in W
      BY <1>1, <2>2
    <2>3. CASE 4 \notin W /\ 2 \notin W
      BY <1>1, <2>3
    <2> QED
      BY <2>1, <2>2, <2>3
  <1>3. Max(W) \in W
    BY <1>2 DEF Max
  <1> QED
    BY <1>1, <1>3 DEF WidestOf, W

LEMMA FirstPower == 256 ^ 0 \in Nat \ {0}
  BY SMT

LEMMA SecondPower == 256 ^ 1 \in Nat \ {0}
  BY SMT

LEMMA ThirdPower == 256 ^ 2 \in Nat \ {0}
  BY SMT

LEMMA FourthPower == 256 ^ 3 \in Nat \ {0}
  BY SMT

LEMMA Powers ==
    ASSUME NEW m \in 0 .. 3
    PROVE  256 ^ m \in Nat \ {0}
  <1>1. m = 0 \/ m = 1 \/ m = 2 \/ m = 3
    OBVIOUS
  <1> QED
    BY <1>1, FirstPower, SecondPower, ThirdPower, FourthPower, Zenon

LEMMA WrittenFacts ==
    ASSUME NEW v \in Int, NEW w \in 0 .. 4
    PROVE  Bytes(Written(v, w)) /\ Len(Written(v, w)) = w
  <1> DEFINE s == Written(v, w)
  <1>1. DOMAIN s = 1 .. w /\ s = [n \in 1 .. w |-> s[n]]
    BY DEF Written
  <1>2. ASSUME NEW n \in 1 .. w PROVE s[n] \in Byte
    <2> DEFINE m == w - n
               d == 256 ^ m
    <2>1. m \in 0 .. 3
      OBVIOUS
    <2>2. d \in Nat \ {0}
      <3> HIDE DEF m
      <3> QED
        BY <2>1, Powers
    <2>3. s[n] = (v \div d) % 256
      BY DEF Written
    <2> HIDE DEF s, d
    <2>4. v \div d \in Int
      BY <2>2
    <2> DEFINE q == v \div d
    <2>5. q \in Int /\ s[n] = q % 256
      BY <2>3, <2>4
    <2> HIDE DEF q
    <2> QED
      BY <2>5 DEF Byte
  <1> HIDE DEF s
  <1>3. s \in [1 .. w -> Byte] /\ w \in Nat
    BY <1>1, <1>2
  <1>4. Bytes(s) /\ Len(s) = w
    <2>1. Bytes(s)
      BY <1>3, SeqDef DEF Bytes
    <2> QED
      BY <1>1, <1>3, <2>1, FunctionIsSequence
  <1> QED
    BY <1>4 DEF s

LEMMA WrittenAllFacts ==
    ASSUME NEW vs \in Seq(Int), NEW w \in {1, 2, 4}
    PROVE  Bytes(WrittenAll(vs, w))
  <1> DEFINE n == Len(vs)
             ss == [k \in DOMAIN vs |-> Written(vs[k], w)]
  <1>1. n \in Nat /\ DOMAIN vs = 1 .. n /\ \A k \in 1 .. n : vs[k] \in Int
    BY SeqFacts
  <1>2. ASSUME NEW k \in 1 .. n PROVE ss[k] \in Seq(Byte)
    <2>1. w \in 0 .. 4
      OBVIOUS
    <2>2. Bytes(Written(vs[k], w))
      BY <1>1, <2>1, WrittenFacts
    <2> QED
      BY <1>1, <2>2 DEF Bytes
  <1>3. ss \in [1 .. n -> Seq(Byte)]
    <2>1. ss = [k \in 1 .. n |-> ss[k]]
      BY <1>1
    <2> HIDE DEF ss
    <2> QED
      BY <1>2, <2>1
  <1> HIDE DEF ss, n
  <1>4. PICK f : Flattens(f, Byte, n, ss)
    BY <1>1, <1>3, FlattenFacts
  <1>5. FlattenSeq(ss) \in Seq(Byte)
    <2>1. n \in 0 .. n
      BY <1>1
    <2> QED
      BY <1>4, <2>1 DEF Flattens
  <1> QED
    BY <1>5 DEF WrittenAll, ss, Bytes

LEMMA TextFacts ==
    ASSUME NEW m \in Int
    PROVE  Bytes(Text(m))
  <1> DEFINE n == IF m < 0 THEN 0 ELSE m
  <1>1. n \in Nat /\ 1 .. m = 1 .. n /\ 116 \in Byte
    BY DEF Byte
  <1> HIDE DEF n
  <1>2. [k \in 1 .. n |-> 116] \in Seq(Byte)
    BY <1>1, ConstantSeq
  <1> QED
    BY <1>1, <1>2 DEF Text, Bytes

LEMMA BytesConcat ==
    ASSUME NEW s, Bytes(s), NEW t, Bytes(t)
    PROVE  Bytes(s \o t) /\ Len(s \o t) = Len(s) + Len(t)
  BY ConcatProperties DEF Bytes

\* The encodings whose size one operand, or all of them, choose.
IsChosen(e) == e.size \in {1, 2, 4} /\ Bytes(e.operands)

LEMMA ChosenFacts ==
    ASSUME NEW args \in Seq(Int), NEW choosing, choosing # {}
    PROVE  IsChosen(ChosenBy(args, choosing))
  <1> DEFINE V == {args[k] : k \in choosing}
             width == WidestOf(V)
  <1>1. V # {}
    OBVIOUS
  <1> HIDE DEF V
  <1>2. width \in {1, 2, 4}
    BY <1>1, WidestFacts
  <1>3. Bytes(WrittenAll(args, width))
    <2> HIDE DEF width
    <2> QED
      BY <1>2, WrittenAllFacts
  <1>4. ChosenBy(args, choosing) = [size |-> width, operands |-> WrittenAll(args, width)]
    BY DEF ChosenBy, Encoding, V
  <1> HIDE DEF width
  <1> QED
    BY <1>2, <1>3, <1>4 DEF IsChosen

LEMMA EmptyIsSequence == Sequence(<<>>) /\ \A x : Sequence(<<x>>)
  <1>1. <<>> \in Seq({}) /\ \A x : <<x>> \in Seq({x})
    OBVIOUS
  <1>2. Sequence(<<>>)
    <2> DEFINE s == <<>>
               S == {}
    <2>1. s \in Seq(S)
      BY <1>1
    <2> HIDE DEF s, S
    <2>2. Sequence(s)
      BY <2>1, SequenceOf
    <2> QED
      BY <2>2 DEF s
  <1>3. ASSUME NEW x PROVE Sequence(<<x>>)
    <2> DEFINE s == <<x>>
               S == {x}
    <2>1. s \in Seq(S)
      BY <1>1
    <2> HIDE DEF s, S
    <2>2. Sequence(s)
      BY <2>1, SequenceOf
    <2> QED
      BY <2>2 DEF s
  <1> QED
    BY <1>2, <1>3

\* An instruction of a well-formed assembly has the operands that its encoding reads.
LEMMA OperandFacts ==
    ASSUME NEW i, WellFormed(i)
    PROVE  /\ i.args \in Seq(Int)
           /\ Len(i.args) \in Nat /\ DOMAIN i.args = 1 .. Len(i.args)
           /\ Len(i.args) >= LeastOperands(i.class)
           /\ LeastOperands(i.class) = 1 => i.args[1] \in Int
           /\ LeastOperands(i.class) = 2 => i.args[1] \in Int /\ i.args[2] \in Int
  <1> DEFINE args == i.args
             least == LeastOperands(i.class)
  <1>1. args \in Seq(Int) /\ Len(args) >= least
    BY DEF WellFormed
  <1> HIDE DEF args, least
  <1>2. /\ Len(args) \in Nat /\ DOMAIN args = 1 .. Len(args)
        /\ \A k \in 1 .. Len(args) : args[k] \in Int
    BY <1>1, SeqFacts
  <1>3. /\ least = 1 => args[1] \in Int
        /\ least = 2 => args[1] \in Int /\ args[2] \in Int
    BY <1>1, <1>2
  <1> QED
    BY <1>1, <1>2, <1>3 DEF args, least

LEMMA ChosenByAllFacts ==
    ASSUME NEW i, WellFormed(i), LeastOperands(i.class) \in {1, 2}
    PROVE  IsChosen(ChosenByAll(i.args))
  <1> DEFINE args == i.args
             all == DOMAIN args
  <1>1. args \in Seq(Int) /\ Len(args) >= 1 /\ Len(args) \in Nat /\ all = 1 .. Len(args)
    BY OperandFacts
  <1>2. 1 \in all
    BY <1>1
  <1>3. ChosenByAll(args) = ChosenBy(args, all)
    BY DEF ChosenByAll
  <1> HIDE DEF args, all
  <1>4. IsChosen(ChosenByAll(args))
    BY <1>1, <1>2, <1>3, ChosenFacts
  <1> QED
    BY <1>4 DEF args

LEMMA EncodingFacts ==
    \A n, s : Encoding(n, s).operands = s /\ Encoding(n, s).size = n
  BY DEF Encoding

LEMMA EmptyBytes == Bytes(<<>>)
  BY EmptySeq DEF Bytes

\* The sizes that a class has opcodes for.
SizesOf(class) ==
  CASE class \in {"nop", "makeType", "halt", "nil"} -> {0}
    [] class = "pushBoolean" -> {0, 1}
    [] class = "pushDoubleFloat" -> {8}
    [] class = "return" -> {0, 1, 2, 4}
    [] OTHER -> {1, 2, 4}
IsEncoded(i) == Encode(i).size \in SizesOf(i.class) /\ Bytes(Encode(i).operands)
Special == {"nop", "makeType", "halt", "nil", "pushBoolean", "pushDoubleFloat", "return"}

LEMMA ChosenIsEncoded ==
    ASSUME NEW i, i.class \notin Special, IsChosen(Encode(i))
    PROVE  IsEncoded(i)
  <1>1. SizesOf(i.class) = {1, 2, 4}
    BY DEF SizesOf, Special
  <1> QED
    BY <1>1 DEF IsEncoded, IsChosen

Plain == {"pushIndex", "pushUpvalue", "pushGlobal", "setGlobal", "move", "pop", "not", "mul", "div",
          "add", "sub", "equal", "greater", "less", "cons", "makeVector", "car", "cdr", "setCar",
          "setCdr", "nullp", "typeof", "makeInstance", "compositeValue", "compositeFunction",
          "setCompositeValue", "setCompositeFunction", "length", "symbolString", "symbolId",
          "makeString", "ccall"}

\* The classes whose operands are written one after the other in one size.
LEMMA EncodePlain ==
    ASSUME NEW i, WellFormed(i), i.class \in Plain
    PROVE  IsEncoded(i)
  <1>1. LeastOperands(i.class) = 1
    BY DEF LeastOperands, Plain, ClosurePushes
  <1>2. Encode(i) = ChosenByAll(i.args)
    <2>1. CASE i.class = "pushIndex"
      BY <2>1 DEF Encode, Labelled, Branches, ClosurePushes, EncodePush
    <2>6. CASE i.class \in {"pushUpvalue", "pushGlobal", "setGlobal", "move", "pop", "not"}
      BY <2>6 DEF Encode, Labelled, Branches, ClosurePushes, EncodeVariable, EncodeStack
    <2>2. CASE i.class \in {"mul", "div", "add", "sub", "equal", "greater", "less", "cons", "makeVector"}
      BY <2>2 DEF Encode, Labelled, Branches, ClosurePushes,
                  EncodeArithmetic, EncodeComparison, EncodeConstruction
    <2>3. CASE i.class \in {"car", "cdr", "setCar", "setCdr", "nullp", "typeof", "makeInstance"}
      BY <2>3 DEF Encode, Labelled, Branches, ClosurePushes, EncodeList, EncodeType
    <2>4. CASE i.class \in {"compositeValue", "compositeFunction", "setCompositeValue", "setCompositeFunction"}
      BY <2>4 DEF Encode, Labelled, Branches, ClosurePushes, EncodeComposite
    <2>5. CASE i.class \in {"length", "symbolString", "symbolId", "makeString", "ccall"}
      BY <2>5 DEF Encode, Labelled, Branches, ClosurePushes, EncodeString, EncodeCall
    <2> QED
      BY <2>1, <2>2, <2>3, <2>4, <2>5, <2>6 DEF Plain
  <1>3. IsChosen(Encode(i)) /\ i.class \notin Special
    <2>1. IsChosen(Encode(i))
      BY <1>1, <1>2, ChosenByAllFacts
    <2>2. i.class \notin Special
      BY DEF Plain, Special
    <2> QED
      BY <2>1, <2>2
  <1> QED
    BY <1>3, ChosenIsEncoded

\* The classes that have an encoding of their own.
LEMMA EncodeSpecial ==
    ASSUME NEW i, WellFormed(i), i.class \in Special
    PROVE  IsEncoded(i)
  <1>1. CASE i.class \in {"nop", "nil", "makeType", "halt"}
    <2>1. Encode(i) = Encoding(0, <<>>)
      BY <1>1 DEF Encode, Labelled, Branches, ClosurePushes, EncodePush, EncodeRelease, EncodeType,
                  EncodeReturn, Bare
    <2>2. SizesOf(i.class) = {0}
      BY <1>1 DEF SizesOf
    <2> QED
      BY <2>1, <2>2, EncodingFacts, EmptyBytes DEF IsEncoded
  <1>2. CASE i.class = "pushBoolean"
    <2>1. Encode(i) = Encoding(IF i.args[1] # 0 THEN 1 ELSE 0, <<>>)
      BY <1>2 DEF Encode, Labelled, Branches, ClosurePushes, EncodePush
    <2>2. SizesOf(i.class) = {0, 1}
      BY <1>2 DEF SizesOf
    <2>3. Encode(i).operands = <<>> /\ Encode(i).size \in {0, 1}
      BY <2>1, EncodingFacts
    <2> QED
      BY <2>2, <2>3, EmptyBytes DEF IsEncoded
  <1>3. CASE i.class = "pushDoubleFloat"
    <2>1. Encode(i) = Encoding(8, WrittenAll(i.args, 4))
      BY <1>3 DEF Encode, Labelled, Branches, ClosurePushes, EncodePush
    <2>2. SizesOf(i.class) = {8}
      BY <1>3 DEF SizesOf
    <2>3. Bytes(WrittenAll(i.args, 4))
      BY WrittenAllFacts, OperandFacts
    <2> QED
      BY <2>1, <2>2, <2>3, EncodingFacts DEF IsEncoded
  <1>4. CASE i.class = "return"
    <2>1. Encode(i) = IF i.args[1] = 0 THEN Encoding(0, <<>>) ELSE ChosenByAll(i.args)
      BY <1>4 DEF Encode, Labelled, Branches, ClosurePushes, EncodeReturn, Bare
    <2>2. LeastOperands(i.class) = 1 /\ SizesOf(i.class) = {0, 1, 2, 4}
      BY <1>4 DEF LeastOperands, SizesOf, ClosurePushes
    <2>3. IsChosen(ChosenByAll(i.args))
      BY <2>2, ChosenByAllFacts
    <2>4. CASE i.args[1] = 0
      BY <2>1, <2>2, <2>4, EncodingFacts, EmptyBytes DEF IsEncoded
    <2>5. CASE i.args[1] # 0
      BY <2>1, <2>2, <2>3, <2>5 DEF IsEncoded, IsChosen
    <2> QED
      BY <2>4, <2>5
  <1> QED
    BY <1>1, <1>2, <1>3, <1>4 DEF Special

\* Classes of which some operands, or one that is computed, choose the size.
LEMMA EncodeOther ==
    ASSUME NEW i, WellFormed(i),
           i.class \in {"pushInteger", "vector", "getVecElt", "setVecElt", "concatenate",
                        "substring", "releaseUpvalues"}
    PROVE  IsEncoded(i)
  <1>0. LeastOperands(i.class) = 1 /\ i.class \notin Special
    BY DEF LeastOperands, ClosurePushes, Special
  <1>1. CASE i.class = "pushInteger"
    <2> DEFINE v == i.args[1]
               w == SignedWidth(v)
    <2>1. Encode(i) = Encoding(w, Written(v, w))
      BY <1>1 DEF Encode, Labelled, Branches, ClosurePushes, EncodePush
    <2>2. w \in {1, 2, 4} /\ w \in 0 .. 4
      <3>1. w \in {1, 2, 4}
        BY WidthFacts
      <3> HIDE DEF w
      <3> QED
        BY <3>1
    <2>3. v \in Int
      BY <1>0, OperandFacts
    <2> HIDE DEF v, w
    <2>4. Bytes(Written(v, w))
      BY <2>2, <2>3, WrittenFacts
    <2>5. IsChosen(Encode(i))
      BY <2>1, <2>2, <2>4, EncodingFacts DEF IsChosen
    <2> QED
      BY <1>0, <2>5, ChosenIsEncoded
  <1>2. CASE i.class \in {"vector", "getVecElt", "setVecElt", "concatenate", "substring"}
    <2>1. Encode(i) \in {ChosenBy(i.args, {1}), ChosenBy(i.args, {1, 2})}
      BY <1>2 DEF Encode, Labelled, Branches, ClosurePushes, EncodeConstruction, EncodeElement, EncodeSlice
    <2>2. \A C : C # {} => IsChosen(ChosenBy(i.args, C))
      BY OperandFacts, ChosenFacts
    <2>3. {1} # {} /\ {1, 2} # {}
      OBVIOUS
    <2>4. IsChosen(Encode(i))
      BY <2>1, <2>2, <2>3
    <2> QED
      BY <1>0, <2>4, ChosenIsEncoded
  <1>3. CASE i.class = "releaseUpvalues"
    <2> DEFINE t == i.args
               s == <<Len(t)>>
               C == {Len(t) + 1}
               u == s \o t
    <2>1. Encode(i) = ChosenBy(u, C)
      BY <1>3 DEF Encode, Labelled, Branches, ClosurePushes, EncodeRelease
    <2>2. t \in Seq(Int) /\ C # {}
      BY OperandFacts
    <2>3. s \in Seq(Int)
      <3>1. Len(t) \in Int
        BY <2>2, SeqFacts
      <3> HIDE DEF t
      <3> QED
        BY <3>1
    <2> HIDE DEF s, t, C
    <2>4. u \in Seq(Int)
      BY <2>2, <2>3, ConcatProperties
    <2> HIDE DEF u
    <2>5. IsChosen(Encode(i))
      BY <2>1, <2>2, <2>4, ChosenFacts
    <2> QED
      BY <1>0, <2>5, ChosenIsEncoded
  <1> QED
    BY <1>1, <1>2, <1>3

LEMMA EncodeTextFacts ==
    ASSUME NEW i, WellFormed(i), i.class \in {"pushString", "pushSymbol", "pushStrippedSymbol"}
    PROVE  IsEncoded(i)
  <1> DEFINE chosen == ChosenByAll(i.args)
  <1>1. LeastOperands(i.class) = (IF i.class = "pushSymbol" THEN 2 ELSE 1) /\ i.class \notin Special
    BY DEF LeastOperands, ClosurePushes, Special
  <1>2. chosen.size \in {1, 2, 4} /\ Bytes(chosen.operands)
    <2>1. LeastOperands(i.class) \in {1, 2}
      BY <1>1
    <2>2. IsChosen(chosen)
      BY <2>1, ChosenByAllFacts
    <2> HIDE DEF chosen
    <2> QED
      BY <2>2 DEF IsChosen
  <1>3. chosen = [size |-> chosen.size, operands |-> chosen.operands]
    BY DEF ChosenByAll, ChosenBy, Encoding
  <1>4. Encode(i) = EncodeText(i)
    BY DEF Encode, Labelled, Branches, ClosurePushes
  <1>5. i.args[1] \in Int /\ (i.class = "pushSymbol" => i.args[2] \in Int)
    BY <1>1, OperandFacts
  <1>6. ASSUME NEW b, Bytes(b), Encode(i) = [chosen EXCEPT !.operands = b]
        PROVE  IsEncoded(i)
    <2> HIDE DEF chosen
    <2>1. Encode(i).size = chosen.size /\ Encode(i).operands = b
      BY <1>3, <1>6
    <2>2. IsChosen(Encode(i))
      BY <1>2, <1>6, <2>1 DEF IsChosen
    <2> QED
      BY <1>1, <2>2, ChosenIsEncoded
  <1>7. ASSUME NEW m \in Int, Encode(i) = [chosen EXCEPT !.operands = chosen.operands \o Text(m)]
        PROVE  IsEncoded(i)
    <2> DEFINE s == chosen.operands
               t == Text(m)
               b == s \o t
    <2>1. Bytes(s) /\ Bytes(t)
      BY <1>2, TextFacts
    <2> HIDE DEF chosen, s, t
    <2>2. Bytes(b)
      BY <2>1, BytesConcat
    <2>3. Encode(i) = [chosen EXCEPT !.operands = b]
      BY <1>7 DEF s, t
    <2> HIDE DEF b
    <2> QED
      BY <1>6, <2>2, <2>3
  <1>8. CASE i.class = "pushString"
    <2>1. Encode(i) = [chosen EXCEPT !.operands = chosen.operands \o Text(i.args[1])]
      BY <1>4, <1>8 DEF EncodeText
    <2> HIDE DEF chosen
    <2> QED
      BY <1>5, <1>7, <2>1
  <1>9. CASE i.class = "pushSymbol"
    <2>1. Encode(i) = [chosen EXCEPT !.operands = chosen.operands \o Text(i.args[2])]
      BY <1>4, <1>9 DEF EncodeText
    <2> HIDE DEF chosen
    <2> QED
      BY <1>5, <1>7, <1>9, <2>1
  <1>10. CASE i.class = "pushStrippedSymbol"
    <2> DEFINE b == Written(i.args[1], chosen.size)
    <2>1. Encode(i) = [chosen EXCEPT !.operands = b]
      BY <1>4, <1>10 DEF EncodeText
    <2> HIDE DEF chosen
    <2>2. Bytes(b)
      <3>1. chosen.size \in 0 .. 4
        BY <1>2
      <3> QED
        BY <1>5, <3>1, WrittenFacts
    <2> HIDE DEF b
    <2> QED
      BY <1>6, <2>1, <2>2
  <1> QED
    BY <1>8, <1>9, <1>10

LEMMA WrittenTwice ==
    ASSUME NEW a \in Int, NEW v \in 0 .. 4, NEW b \in Int, NEW w \in 0 .. 4
    PROVE  Bytes(Written(a, v) \o Written(b, w))
  BY WrittenFacts, BytesConcat

LEMMA EncodeCallFacts ==
    ASSUME NEW i, WellFormed(i), i.class \in {"setUpvalue", "funcall", "apply", "acall"}
    PROVE  IsEncoded(i)
  <1> DEFINE width == Width(i.args[1])
             ops == Encode(i).operands
  <1>1. width \in {1, 2, 4} /\ width \in 0 .. 4 /\ 1 \in 0 .. 4
    <2>1. width \in {1, 2, 4}
      BY WidthFacts
    <2> HIDE DEF width
    <2> QED
      BY <2>1
  <1>2. LeastOperands(i.class) = 2 /\ i.class \notin Special
    BY DEF LeastOperands, ClosurePushes, Special
  <1>3. i.args[1] \in Int /\ i.args[2] \in Int
    BY <1>2, OperandFacts
  <1>4. ASSUME Bytes(ops), Encode(i).size = width PROVE IsEncoded(i)
    <2> HIDE DEF width
    <2>1. IsChosen(Encode(i))
      BY <1>1, <1>4 DEF IsChosen
    <2> QED
      BY <1>2, <2>1, ChosenIsEncoded
  <1>5. CASE i.class = "setUpvalue"
    <2>1. ops = Written(i.args[1], 1) \o Written(i.args[2], width) /\ Encode(i).size = width
      BY <1>5, EncodingFacts, Zenon DEF Encode, EncodeVariable, Labelled, Branches, ClosurePushes
    <2> HIDE DEF width
    <2>2. Bytes(Written(i.args[1], 1) \o Written(i.args[2], width))
      BY <1>1, <1>3, WrittenTwice
    <2> QED
      BY <1>4, <2>1, <2>2
  <1>6. CASE i.class \in {"funcall", "apply"}
    <2>1. ops = Written(i.args[1], width) \o Written(i.args[2], 1) /\ Encode(i).size = width
      BY <1>6, EncodingFacts, Zenon DEF Encode, EncodeCall, Labelled, Branches, ClosurePushes
    <2> HIDE DEF width
    <2>2. Bytes(Written(i.args[1], width) \o Written(i.args[2], 1))
      BY <1>1, <1>3, WrittenTwice
    <2> QED
      BY <1>4, <2>1, <2>2
  <1>7. CASE i.class = "acall"
    <2> DEFINE s == Written(i.args[1], width)
               t == <<0>>
               e == i.args[2] % 256
               n == 2
               u == s \o t
    <2>1. ops = [u EXCEPT ![n] = e] /\ Encode(i).size = width
      BY <1>7, EncodingFacts DEF Encode, EncodeCall, Labelled, Branches, ClosurePushes
    <2>2. Bytes(s) /\ Len(s) = width /\ Bytes(t) /\ Len(t) = 1 /\ e \in Byte
      <3>1. Bytes(s) /\ Len(s) = width
        <4> HIDE DEF width
        <4> QED
          BY <1>1, <1>3, WrittenFacts
      <3>2. 0 \in Byte /\ e \in Byte
        BY <1>3 DEF Byte
      <3> QED
        BY <3>1, <3>2 DEF Bytes
    <2> HIDE DEF width, s, t, e
    <2>3. Bytes(u) /\ Len(u) = width + 1
      BY <2>2, BytesConcat
    <2> HIDE DEF u
    <2>4. n \in 1 .. Len(u)
      BY <1>1, <2>3
    <2> HIDE DEF n
    <2>5. Bytes([u EXCEPT ![n] = e])
      BY <2>2, <2>3, <2>4, ExceptFacts DEF Bytes
    <2> QED
      BY <1>4, <2>1, <2>5 DEF width
  <1> QED
    BY <1>5, <1>6, <1>7

LEMMA EncodeBranchFacts ==
    ASSUME NEW i, WellFormed(i), i.class \in Labelled
    PROVE  IsEncoded(i) /\ Encode(i).size = 1
  <1> DEFINE ops == Encode(i).operands
  <1>1. Encode(i) = EncodeBranch(i) /\ i.class \notin Special
    BY DEF Encode, Labelled, Branches, ClosurePushes, Special
  <1>2. Encode(i).size = 1
    BY <1>1, EncodingFacts DEF EncodeBranch, Labelled, Branches
  <1>3. ASSUME Bytes(ops) PROVE IsEncoded(i)
    <2>1. IsChosen(Encode(i))
      BY <1>2, <1>3 DEF IsChosen
    <2> QED
      BY <1>1, <2>1, ChosenIsEncoded
  <1>4. CASE i.class \in {"brnz", "call"}
    <2>1. ops = Written(i.args[2], 1)
      BY <1>1, <1>4, EncodingFacts DEF EncodeBranch, ClosurePushes
    <2>2. LeastOperands(i.class) = 2 /\ 1 \in 0 .. 4
      BY <1>4 DEF LeastOperands
    <2>3. Bytes(Written(i.args[2], 1))
      BY <2>2, OperandFacts, WrittenFacts
    <2> QED
      BY <1>2, <1>3, <2>1, <2>3
  <1>5. CASE i.class = "jump"
    <2>1. ops = <<>>
      BY <1>1, <1>5, EncodingFacts DEF EncodeBranch, ClosurePushes
    <2> QED
      BY <1>2, <1>3, <2>1, EmptyBytes
  <1>6. CASE i.class \in ClosurePushes
    <2> DEFINE args == i.args
               m == Len(args) - 2
               v == SubSeq(args, 3, Len(args))
               a == Written(args[2], 1) \o Written(m, 4)
               b == WrittenAll(v, 4)
    <2>1. ops = a \o b
      BY <1>1, <1>6, EncodingFacts DEF EncodeBranch, ClosurePushes
    <2>2. LeastOperands(i.class) = 2 /\ 1 \in 0 .. 4 /\ 4 \in 0 .. 4 /\ 4 \in {1, 2, 4}
      BY <1>6 DEF LeastOperands
    <2>3. args \in Seq(Int) /\ args[2] \in Int /\ m \in Int
      BY <2>2, OperandFacts
    <2> HIDE DEF m, args
    <2>4. Bytes(a)
      BY <2>2, <2>3, WrittenTwice
    <2>5. v \in Seq(Int)
      <3>1. SubSeq(args, 2 + 1, Len(args)) \in Seq(Int)
        BY <2>3, SuffixFacts
      <3> QED
        BY <3>1
    <2> HIDE DEF v
    <2>6. Bytes(b)
      BY <2>2, <2>5, WrittenAllFacts
    <2> HIDE DEF a, b
    <2>7. Bytes(a \o b)
      BY <2>4, <2>6, BytesConcat
    <2> QED
      BY <1>2, <1>3, <2>1, <2>7
  <1> QED
    BY <1>4, <1>5, <1>6 DEF Labelled, Branches

\* Every instruction that is encoded has bytes for operands, and a size that its class has.
LEMMA EncodeFacts ==
    ASSUME NEW i, WellFormed(i), i.class \notin {"label", "internalNop"}
    PROVE  IsEncoded(i) /\ Sequence(Encode(i).operands)
  <1>1. i.class \in Classes
    BY DEF WellFormed
  <1>2. \/ i.class \in Plain
        \/ i.class \in Special
        \/ i.class \in {"pushInteger", "vector", "getVecElt", "setVecElt", "concatenate",
                        "substring", "releaseUpvalues"}
        \/ i.class \in {"pushString", "pushSymbol", "pushStrippedSymbol"}
        \/ i.class \in {"setUpvalue", "funcall", "apply", "acall"}
        \/ i.class \in Labelled
    BY <1>1 DEF Classes, Plain, Special, Labelled, Branches, ClosurePushes
  <1>3. IsEncoded(i)
    BY <1>2, EncodePlain, EncodeSpecial, EncodeOther, EncodeTextFacts, EncodeCallFacts, EncodeBranchFacts
  <1> QED
    BY <1>3, BytesAreSequence DEF IsEncoded

-----------------------------------------------------------------------------
(* Labels and the sources that refer to them. *)

Apart(f) ==
    \A l, m \in DOMAIN f : \A i \in DOMAIN f[l].sources, j \in DOMAIN f[m].sources :
        f[l].sources[i] = f[m].sources[j] => l = m /\ i = j
Placed(p, L) ==
    \A k \in DOMAIN p : p[k].class \in Labelled \cup {"label"} => p[k].args[1] \in L
Below(f, n) ==
    \A l \in DOMAIN f : \A i \in DOMAIN f[l].sources : f[l].sources[i] <= n
Label == [target : Int, sources : Seq(Nat)]

\* The parts of the invariant about the labels.
LEMMA LabelsParts ==
    LabelsInv <=>
      /\ Cardinality(DOMAIN labels) \in Nat
      /\ DOMAIN labels = 1 .. Cardinality(DOMAIN labels)
      /\ labels \in [DOMAIN labels -> Label]
      /\ Placed(assembly, DOMAIN labels)
      /\ Apart(labels)
      /\ phase \in {"peephole", "encode"} => Sequence(code) /\ Below(labels, Len(code))
  BY DEF LabelsInv, Apart, Placed, Below, Label, Sequence

\* At first no label has a source.
LEMMA InitLabels == Init => LabelsInv
  <1> SUFFICES ASSUME Init PROVE LabelsInv
    OBVIOUS
  <1>1. /\ program \in Programs /\ assembly = program /\ code = <<>>
        /\ labels = [l \in LabelsOf(program) |-> [target |-> -1, sources |-> <<>>]]
    BY DEF Init
  <1>2. DOMAIN labels = LabelsOf(program) /\ DOMAIN labels = 1 .. Cardinality(DOMAIN labels)
    BY <1>1, ProgramsAssumption
  <1>3. \A l \in DOMAIN labels :
          labels[l] \in Label /\ labels[l].sources = <<>> /\ DOMAIN labels[l].sources = {}
    BY <1>1 DEF Label
  <1>4. labels \in [DOMAIN labels -> Label]
    BY <1>1, <1>3
  <1>5. Placed(assembly, DOMAIN labels)
    <2> SUFFICES ASSUME NEW k \in DOMAIN assembly, assembly[k].class \in Labelled \cup {"label"}
                 PROVE  assembly[k].args[1] \in DOMAIN labels
      BY DEF Placed
    <2>1. CASE assembly[k].class = "label"
      BY <1>1, <1>2, <2>1 DEF LabelsOf
    <2>2. CASE assembly[k].class \in Labelled
      BY <1>1, <1>2, <2>2, ProgramsAssumption
    <2> QED
      BY <2>1, <2>2
  <1>6. Apart(labels) /\ Below(labels, Len(code))
    BY <1>3 DEF Apart, Below
  <1>7. Sequence(code)
    BY <1>1, EmptyIsSequence
  <1>8. Cardinality(DOMAIN labels) \in Nat
    <2> DEFINE p == program
               J == {j \in DOMAIN p : p[j].class = "label"}
               L == LabelsOf(p)
               f == [k \in J |-> p[k].args[1]]
    <2>1. Len(p) \in Nat /\ DOMAIN p = 1 .. Len(p)
      BY <1>1, ProgramsAssumption, AssemblyFacts
    <2>2. IsFiniteSet(DOMAIN p) /\ J \in SUBSET DOMAIN p
      <3> DEFINE l == Len(p)
      <3>1. l \in Int /\ DOMAIN p = 1 .. l
        BY <2>1
      <3> HIDE DEF l
      <3> QED
        BY <3>1, FS_Interval
    <2>3. L = {f[k] : k \in J}
      BY DEF LabelsOf
    <2>4. f \in Surjection(J, L)
      <3>1. f \in [J -> L] /\ \A t \in L : \E k \in J : f[k] = t
        <4>1. f = [k \in J |-> f[k]]
          OBVIOUS
        <4> HIDE DEF f, J, L
        <4> QED
          BY <2>3, <4>1
      <3> HIDE DEF f, J, L
      <3> QED
        BY <3>1 DEF Surjection
    <2>5. IsFiniteSet(L)
      <3>1. IsFiniteSet(J)
        <4> DEFINE D == DOMAIN p
        <4>1. IsFiniteSet(D) /\ J \in SUBSET D
          BY <2>2
        <4> HIDE DEF J, D
        <4> QED
          BY <4>1, FS_Subset
      <3> HIDE DEF f, J, L
      <3> QED
        BY <2>4, <3>1, FS_Surjection
    <2>6. Cardinality(L) \in Nat
      <3> HIDE DEF L
      <3> QED
        BY <2>5, FS_CardinalityType
    <2> QED
      BY <1>2, <2>6
  <1> QED
    BY <1>2, <1>4, <1>5, <1>6, <1>7, <1>8, LabelsParts

\* An edit of the peephole pass touches no label and no jump.
LEMMA PlacedEdit ==
    ASSUME NEW p, NEW L, Placed(p, L), NEW n, NEW this, NEW next,
           this.class \notin Labelled \cup {"label"}, next.class \notin Labelled \cup {"label"}
    PROVE  Placed([p EXCEPT ![n] = this, ![n + 1] = next], L)
  <1> DEFINE q == [p EXCEPT ![n] = this, ![n + 1] = next]
  <1>1. DOMAIN q = DOMAIN p /\ \A k \in DOMAIN p : q[k] = this \/ q[k] = next \/ q[k] = p[k]
    OBVIOUS
  <1> HIDE DEF q
  <1>2. Placed(q, L)
    BY <1>1 DEF Placed
  <1> QED
    BY <1>2 DEF q

LEMMA EditLabels ==
    ASSUME LabelsInv, NEW this, NEW next, Edit(this, next),
           this.class \notin Labelled \cup {"label"}, next.class \notin Labelled \cup {"label"}
    PROVE  LabelsInv'
  <1>1. assembly' = [assembly EXCEPT ![at] = this, ![at + 1] = next]
    BY DEF Edit
  <1>2. Placed(assembly, DOMAIN labels)
    BY LabelsParts
  <1> DEFINE L == DOMAIN labels
  <1>3. Placed(assembly', L)
    <2> DEFINE n == at
    <2>1. Placed(assembly, L) /\ assembly' = [assembly EXCEPT ![n] = this, ![n + 1] = next]
      BY <1>1, <1>2
    <2> HIDE DEF L, n
    <2> QED
      BY <2>1, PlacedEdit
  <1>4. UNCHANGED <<labels, code, phase>>
    BY DEF Edit
  <1>5. \A k \in DOMAIN assembly' :
          assembly'[k].class \in Labelled \cup {"label"} => assembly'[k].args[1] \in DOMAIN labels
    BY <1>3 DEF Placed
  <1> QED
    BY <1>4, <1>5 DEF LabelsInv

LEMMA PeepholeLabels ==
    ASSUME PeepholeInv, LabelsInv, RemovePush \/ MergePops \/ LeaveInstruction \/ EndPeephole
    PROVE  LabelsInv'
  <1>1. /\ InternalNop.class \notin Labelled \cup {"label"}
        /\ \A n : Pop(n).class \notin Labelled \cup {"label"}
    BY DEF InternalNop, Pop, Instruction, Labelled, Branches, ClosurePushes
  <1>2. CASE RemovePush
    <2> DEFINE pops == assembly[at + 1].args[1] - 1
               next == IF pops = 0 THEN InternalNop ELSE Pop(pops)
    <2>1. Edit(InternalNop, next)
      BY <1>2 DEF RemovePush
    <2>2. next.class \notin Labelled \cup {"label"}
      BY <1>1
    <2> HIDE DEF next
    <2> QED
      BY <1>1, <2>1, <2>2, EditLabels
  <1>3. CASE MergePops
    <2> DEFINE next == Pop(assembly[at].args[1] + assembly[at + 1].args[1])
    <2>1. Edit(InternalNop, next)
      BY <1>3 DEF MergePops
    <2>2. next.class \notin Labelled \cup {"label"}
      BY <1>1
    <2> HIDE DEF next
    <2> QED
      BY <1>1, <2>1, <2>2, EditLabels
  <1>4. CASE LeaveInstruction
    <2>1. assembly' = [assembly EXCEPT ![at] = assembly[at], ![at + 1] = assembly[at + 1]]
      BY <1>4 DEF LeaveInstruction, Edit
    <2>2. assembly = [k \in DOMAIN assembly |-> assembly[k]]
      <3> DEFINE I == [class : Classes, args : Seq(Int)]
      <3>1. assembly \in Seq(I)
        BY DEF PeepholeInv, Assemblies
      <3> HIDE DEF I
      <3> QED
        BY <3>1
    <2>3. assembly' = assembly
      BY <2>1, <2>2
    <2> QED
      BY <1>4, <2>3 DEF LeaveInstruction, Edit, LabelsInv
  <1>5. CASE EndPeephole
    BY <1>5 DEF EndPeephole, LabelsInv
  <1> QED
    BY <1>2, <1>3, <1>4, <1>5

\* The code grows by at least its opcode.
LEMMA EmitFacts ==
    ASSUME Sequence(code), NEW i, WellFormed(i), i.class \notin {"label", "internalNop"}, Emit(i)
    PROVE  Sequence(code') /\ Len(code) \in Nat /\ Len(code') \in Nat /\ Len(code') >= Len(code) + 1
  <1> DEFINE e == Encode(i).operands
             o == Opcode(i.class, Encode(i).size)
             s == code
             t == <<o>>
             u == s \o t
             v == u \o e
  <1>1. code' = v
    BY DEF Emit
  <1>2. Sequence(s) /\ Sequence(t) /\ Sequence(e) /\ Len(t) = 1
    BY EmptyIsSequence, EncodeFacts
  <1> HIDE DEF e, o, s, t
  <1>3. Sequence(u) /\ Len(u) = Len(s) + 1 /\ Len(s) \in Nat
    BY <1>2, ConcatFacts
  <1> HIDE DEF u
  <1>4. Sequence(v) /\ Len(v) = Len(u) + Len(e) /\ Len(e) \in Nat
    BY <1>2, <1>3, ConcatFacts
  <1> HIDE DEF v
  <1>5. Sequence(v) /\ Len(v) \in Nat /\ Len(v) >= Len(s) + 1
    BY <1>3, <1>4
  <1> QED
    BY <1>1, <1>3, <1>5 DEF s

\* The instruction that is encoded.
LEMMA AtOne ==
    ASSUME PeepholeInv, Encoding_
    PROVE  at \in DOMAIN assembly /\ WellFormed(assembly[at])
  <1>1. at \in Nat /\ at > 0 /\ assembly \in Assemblies /\ at <= Len(assembly)
    BY DEF PeepholeInv, Encoding_
  <1>2. at \in 1 .. Len(assembly)
    BY <1>1, AssemblyFacts
  <1> QED
    BY <1>1, <1>2, AssemblyFacts

LEMMA SkipNopLabels ==
    ASSUME LabelsInv, SkipNop
    PROVE  LabelsInv'
  BY DEF SkipNop, Advance, LabelsInv

\* Sources below the end of the code stay below it when the code grows.
LEMMA BelowMonotone ==
    ASSUME NEW f, f \in [DOMAIN f -> Label], NEW m \in Nat, NEW n \in Nat, m <= n, Below(f, m)
    PROVE  Below(f, n)
  <1> SUFFICES ASSUME NEW l \in DOMAIN f, NEW i \in DOMAIN f[l].sources
               PROVE  f[l].sources[i] <= n
    BY DEF Below
  <1> DEFINE s == f[l].sources
  <1>1. s \in Seq(Nat)
    BY DEF Label
  <1>2. s[i] <= m
    BY DEF Below
  <1> HIDE DEF s
  <1>3. i \in DOMAIN s
    BY DEF s
  <1>4. s[i] \in Nat
    BY <1>1, <1>3, SeqFacts
  <1>5. s[i] <= n
    BY <1>2, <1>4
  <1> QED
    BY <1>5 DEF s

LEMMA EncodeInstructionLabels ==
    ASSUME PeepholeInv, LabelsInv, EncodeInstruction
    PROVE  LabelsInv'
  <1>1. /\ Encoding_ /\ phase = "encode" /\ assembly[at].class \notin {"label", "internalNop"}
        /\ Emit(assembly[at]) /\ UNCHANGED <<phase, assembly, labels>>
    BY DEF EncodeInstruction, Encoding_, Advance
  <1>2. WellFormed(assembly[at])
    BY <1>1, AtOne
  <1>3. /\ Cardinality(DOMAIN labels) \in Nat /\ DOMAIN labels = 1 .. Cardinality(DOMAIN labels)
        /\ labels \in [DOMAIN labels -> Label]
        /\ Placed(assembly, DOMAIN labels)
        /\ Apart(labels) /\ Sequence(code) /\ Below(labels, Len(code))
    BY <1>1, LabelsParts
  <1>4. Sequence(code') /\ Len(code) \in Nat /\ Len(code') \in Nat /\ Len(code') >= Len(code) + 1
    BY <1>1, <1>2, <1>3, EmitFacts
  <1>5. Below(labels, Len(code'))
    <2> DEFINE m == Len(code)
               n == Len(code')
    <2>1. m \in Nat /\ n \in Nat /\ m <= n /\ Below(labels, m)
      BY <1>3, <1>4
    <2> HIDE DEF m, n
    <2>2. Below(labels, n)
      BY <1>3, <2>1, BelowMonotone
    <2> QED
      BY <2>2 DEF n
  <1> QED
    BY <1>1, <1>4, <1>5 DEF LabelsInv, Sequence, Below

\* A label is placed: its sources stay.
LEMMA PlaceLabelLabels ==
    ASSUME PeepholeInv, LabelsInv, PlaceLabel
    PROVE  LabelsInv'
  <1> DEFINE l == assembly[at].args[1]
             n == Len(code)
             f == labels
             g == [f EXCEPT ![l].target = n]
  <1>1. /\ Encoding_ /\ phase = "encode" /\ assembly[at].class = "label"
        /\ labels' = g /\ UNCHANGED <<phase, assembly, code>>
    BY DEF PlaceLabel, Encoding_, Advance
  <1>3. /\ Cardinality(DOMAIN labels) \in Nat /\ DOMAIN labels = 1 .. Cardinality(DOMAIN labels)
        /\ f \in [DOMAIN f -> Label]
        /\ Placed(assembly, DOMAIN labels)
        /\ Apart(f) /\ Sequence(code) /\ Below(f, n)
    BY <1>1, LabelsParts
  <1>4. n \in Int
    BY <1>3, SeqFacts DEF Sequence
  <1> HIDE DEF l, n, f
  <1>5. DOMAIN g = DOMAIN f /\ \A m \in DOMAIN f : g[m] \in Label /\ g[m].sources = f[m].sources
    <2>1. DOMAIN g = DOMAIN f
      OBVIOUS
    <2>2. ASSUME NEW m \in DOMAIN f PROVE g[m] \in Label /\ g[m].sources = f[m].sources
      <3>1. f[m] \in Label
        BY <1>3
      <3>2. CASE m = l
        <4>1. g[m] = [f[m] EXCEPT !.target = n]
          BY <3>2
        <4> QED
          BY <1>4, <3>1, <4>1 DEF Label
      <3>3. CASE m # l
        <4>1. g[m] = f[m]
          BY <3>3
        <4> QED
          BY <3>1, <4>1
      <3> QED
        BY <3>2, <3>3
    <2> QED
      BY <2>1, <2>2
  <1>6. g \in [DOMAIN g -> Label]
    <2>1. g = [m \in DOMAIN g |-> g[m]]
      OBVIOUS
    <2> HIDE DEF g
    <2> QED
      BY <1>5, <2>1
  <1> HIDE DEF g
  <1>7. Apart(g) /\ Below(g, n)
    BY <1>3, <1>5 DEF Apart, Below
  <1>8. /\ Cardinality(DOMAIN g) \in Nat /\ DOMAIN g = 1 .. Cardinality(DOMAIN g)
        /\ g \in [DOMAIN g -> [target : Int, sources : Seq(Nat)]]
        /\ Placed(assembly, DOMAIN g)
        /\ Apart(g) /\ Sequence(code) /\ Below(g, Len(code))
    BY <1>3, <1>5, <1>6, <1>7 DEF f, n, Label
  <1> QED
    BY <1>1, <1>8 DEF LabelsInv, Sequence, Below, Apart, Placed

\* A source after all others keeps the sources apart.
LEMMA NewSource ==
    ASSUME NEW f, f \in [DOMAIN f -> Label], Apart(f), NEW n \in Nat, Below(f, n), NEW l \in DOMAIN f,
           NEW g, g = [f EXCEPT ![l].sources = Append(f[l].sources, n + 1)]
    PROVE  DOMAIN g = DOMAIN f /\ g \in [DOMAIN g -> Label] /\ Apart(g) /\ Below(g, n + 1)
  <1> DEFINE N == n + 1
             old == f[l].sources
             new == Append(old, N)
  <1>1. N \in Nat /\ N > n
    OBVIOUS
  <1>2. old \in Seq(Nat) /\ f[l] \in Label
    BY DEF Label
  <1> HIDE DEF old, N
  <1>3. /\ new \in Seq(Nat) /\ Len(old) \in Nat /\ DOMAIN old = 1 .. Len(old)
        /\ DOMAIN new = 1 .. Len(old) + 1
        /\ \A i \in 1 .. Len(old) : new[i] = old[i]
        /\ new[Len(old) + 1] = N
    BY <1>1, <1>2, AppendFacts, SeqFacts
  <1> HIDE DEF new
  <1>4. g = [f EXCEPT ![l].sources = new]
    BY DEF new, old, N
  <1>5. DOMAIN g = DOMAIN f /\ g = [m \in DOMAIN g |-> g[m]]
    BY <1>4
  <1>6. \A m \in DOMAIN f : m # l => g[m] = f[m]
    BY <1>4
  <1>7. g[l] = [f[l] EXCEPT !.sources = new]
    BY <1>4
  <1>8. g[l] \in Label /\ g[l].sources = new
    BY <1>2, <1>3, <1>7 DEF Label
  <1>9. \A m \in DOMAIN f : g[m] \in Label
    BY <1>6, <1>8
  <1>10. g \in [DOMAIN g -> Label]
    BY <1>5, <1>9
  \* Every source is an old one or the new one.
  <1>11. ASSUME NEW m \in DOMAIN f, NEW i \in DOMAIN g[m].sources
         PROVE  \/ i \in DOMAIN f[m].sources /\ g[m].sources[i] = f[m].sources[i]
                \/ m = l /\ i = Len(old) + 1 /\ g[m].sources[i] = N
    <2>1. CASE m # l
      BY <1>6, <2>1
    <2>2. CASE m = l
      <3>1. i \in 1 .. Len(old) + 1
        BY <1>3, <1>8, <2>2
      <3>2. CASE i = Len(old) + 1
        BY <1>3, <1>8, <2>2, <3>2
      <3>3. CASE i # Len(old) + 1
        <4>1. i \in 1 .. Len(old)
          BY <1>3, <3>1, <3>3
        <4>2. i \in DOMAIN old /\ new[i] = old[i]
          BY <1>3, <4>1
        <4> QED
          BY <1>8, <2>2, <4>2 DEF old
      <3> QED
        BY <3>2, <3>3
    <2> QED
      BY <2>1, <2>2
  <1>12. ASSUME NEW m \in DOMAIN f, NEW i \in DOMAIN f[m].sources
         PROVE  f[m].sources[i] \in Nat /\ f[m].sources[i] <= n
    <2> DEFINE s == f[m].sources
    <2>1. s \in Seq(Nat)
      BY DEF Label
    <2> HIDE DEF s
    <2>2. i \in DOMAIN s
      BY DEF s
    <2>3. s[i] \in Nat
      BY <2>1, <2>2, SeqFacts
    <2> QED
      BY <2>3 DEF s, Below
  <1>13. ASSUME NEW m \in DOMAIN f, NEW i \in DOMAIN f[m].sources
         PROVE  f[m].sources[i] < N
    BY <1>1, <1>12
  <1>14. Below(g, N)
    <2> SUFFICES ASSUME NEW m \in DOMAIN f, NEW i \in DOMAIN g[m].sources
                 PROVE  g[m].sources[i] <= N
      BY <1>5 DEF Below
    <2>1. CASE i \in DOMAIN f[m].sources /\ g[m].sources[i] = f[m].sources[i]
      <3>1. f[m].sources[i] \in Nat /\ f[m].sources[i] < N
        BY <1>12, <1>13, <2>1
      <3> DEFINE x == f[m].sources[i]
      <3>2. x \in Nat /\ x < N /\ g[m].sources[i] = x
        BY <2>1, <3>1
      <3> HIDE DEF x
      <3> QED
        BY <1>1, <3>2
    <2>2. CASE g[m].sources[i] = N
      BY <1>1, <2>2
    <2> QED
      BY <1>11, <2>1, <2>2
  <1>15. Apart(g)
    <2> SUFFICES ASSUME NEW a \in DOMAIN f, NEW b \in DOMAIN f,
                        NEW i \in DOMAIN g[a].sources, NEW j \in DOMAIN g[b].sources,
                        g[a].sources[i] = g[b].sources[j]
                 PROVE  a = b /\ i = j
      BY <1>5 DEF Apart
    <2>1. CASE /\ i \in DOMAIN f[a].sources /\ g[a].sources[i] = f[a].sources[i]
               /\ j \in DOMAIN f[b].sources /\ g[b].sources[j] = f[b].sources[j]
      BY <2>1 DEF Apart
    <2>2. CASE /\ i \in DOMAIN f[a].sources /\ g[a].sources[i] = f[a].sources[i]
               /\ g[b].sources[j] = N
      <3>1. f[a].sources[i] \in Nat /\ f[a].sources[i] < N
        BY <1>12, <1>13, <2>2
      <3> DEFINE x == f[a].sources[i]
      <3>2. x \in Nat /\ x < N /\ x = N
        BY <2>2, <3>1
      <3> HIDE DEF x
      <3> QED
        BY <1>1, <3>2
    <2>3. CASE /\ j \in DOMAIN f[b].sources /\ g[b].sources[j] = f[b].sources[j]
               /\ g[a].sources[i] = N
      <3>1. f[b].sources[j] \in Nat /\ f[b].sources[j] < N
        BY <1>12, <1>13, <2>3
      <3> DEFINE x == f[b].sources[j]
      <3>2. x \in Nat /\ x < N /\ x = N
        BY <2>3, <3>1
      <3> HIDE DEF x
      <3> QED
        BY <1>1, <3>2
    <2>4. CASE a = l /\ i = Len(old) + 1 /\ b = l /\ j = Len(old) + 1
      BY <2>4
    <2> QED
      BY <1>11, <2>1, <2>2, <2>3, <2>4
  <1> QED
    BY <1>5, <1>10, <1>14, <1>15 DEF N

\* A jump is encoded: its source lies after all that were there.
LEMMA EncodeJumpLabels ==
    ASSUME PeepholeInv, LabelsInv, EncodeJump
    PROVE  LabelsInv'
  <1> DEFINE l == assembly[at].args[1]
             n == Len(code)
             f == labels
             g == [f EXCEPT ![l].sources = Append(f[l].sources, n + 1)]
  <1>1. /\ Encoding_ /\ phase = "encode" /\ assembly[at].class \in Labelled
        /\ labels' = g /\ UNCHANGED <<phase, assembly>>
        /\ Emit(assembly[at])
    BY DEF EncodeJump, Encoding_, Advance
  <1>2. WellFormed(assembly[at]) /\ at \in DOMAIN assembly
    BY <1>1, AtOne
  <1>3. /\ Cardinality(DOMAIN labels) \in Nat /\ DOMAIN labels = 1 .. Cardinality(DOMAIN labels)
        /\ f \in [DOMAIN f -> Label]
        /\ Placed(assembly, DOMAIN labels)
        /\ Apart(f) /\ Sequence(code) /\ Below(f, n)
    BY <1>1, LabelsParts
  <1>4. Sequence(code') /\ n \in Nat /\ Len(code') \in Nat /\ Len(code') >= n + 1
    <2>1. assembly[at].class \notin {"label", "internalNop"}
      BY <1>1 DEF Labelled, Branches, ClosurePushes
    <2> QED
      BY <1>1, <1>2, <1>3, <2>1, EmitFacts
  <1>5. l \in DOMAIN f
    BY <1>1, <1>2, <1>3 DEF Placed
  <1> HIDE DEF l, n, f
  <1>6. DOMAIN g = DOMAIN f /\ g \in [DOMAIN g -> Label] /\ Apart(g) /\ Below(g, n + 1)
    <2> DEFINE h == g
    <2>1. h = [f EXCEPT ![l].sources = Append(f[l].sources, n + 1)]
      OBVIOUS
    <2> HIDE DEF h
    <2>2. DOMAIN h = DOMAIN f /\ h \in [DOMAIN h -> Label] /\ Apart(h) /\ Below(h, n + 1)
      BY <1>3, <1>4, <1>5, <2>1, NewSource
    <2> QED
      BY <2>2 DEF h
  <1> HIDE DEF g
  <1>7. Below(g, Len(code'))
    <2> DEFINE a == n + 1
               b == Len(code')
    <2>1. a \in Nat /\ b \in Nat /\ a <= b /\ Below(g, a)
      BY <1>4, <1>6
    <2> HIDE DEF a, b
    <2>2. Below(g, b)
      BY <1>6, <2>1, BelowMonotone
    <2> QED
      BY <2>2 DEF b
  <1>8. /\ Cardinality(DOMAIN g) \in Nat /\ DOMAIN g = 1 .. Cardinality(DOMAIN g)
        /\ g \in [DOMAIN g -> [target : Int, sources : Seq(Nat)]]
        /\ Placed(assembly, DOMAIN g)
        /\ Apart(g) /\ Sequence(code') /\ Below(g, Len(code'))
    BY <1>3, <1>4, <1>6, <1>7 DEF f, Label
  <1> QED
    BY <1>1, <1>8 DEF LabelsInv, Sequence, Below, Apart, Placed

LEMMA SameLabels ==
    ASSUME LabelsInv, UNCHANGED <<assembly, labels>>, phase' \notin {"peephole", "encode"}
    PROVE  LabelsInv'
  BY DEF LabelsInv

\* Every step keeps the sources apart.
LEMMA LabelsNext ==
    ASSUME PeepholeInv, LabelsInv, [Next]_vars
    PROVE  LabelsInv'
  <1>1. CASE RemovePush \/ MergePops \/ LeaveInstruction \/ EndPeephole
    BY <1>1, PeepholeLabels
  <1>2. CASE SkipNop
    BY <1>2, SkipNopLabels
  <1>3. CASE EncodeInstruction
    BY <1>3, EncodeInstructionLabels
  <1>4. CASE PlaceLabel
    BY <1>4, PlaceLabelLabels
  <1>5. CASE EncodeJump
    BY <1>5, EncodeJumpLabels
  <1>6. CASE LinkLabels
    BY <1>6, SameLabels DEF LinkLabels
  <1>7. CASE SizePass
    BY <1>7, SameLabels, Zenon DEF SizePass
  <1>8. CASE InsertDisplacement \/ EndAssembly
    BY <1>8, SameLabels, Zenon DEF InsertDisplacement, EndAssembly
  <1>9. CASE RunStraight \/ RunJump
    BY <1>9, SameLabels DEF RunStraight, RunJump, GoTo, InTheCode
  <1>10. CASE UNCHANGED vars
    BY <1>10 DEF vars, LabelsInv
  <1> QED
    BY <1>1, <1>2, <1>3, <1>4, <1>5, <1>6, <1>7, <1>8, <1>9, <1>10 DEF Next

-----------------------------------------------------------------------------
(* Totals. *)

Sums(f, n, w) ==
    /\ f \in [0 .. n -> Int]
    /\ f[0] = 0
    /\ \A k \in 1 .. n : f[k] = f[k - 1] + w[k]
    /\ Total(w) = f[n]

\* The recursive function that Total chooses.
LEMMA SumsExist ==
    ASSUME NEW n \in Nat, NEW w, w \in [1 .. n -> Int]
    PROVE  \E f : Sums(f, n, w)
  <1>0. \A a, b : a[0] = b[0] /\ (\A k \in 1 .. n : a[k - 1] = b[k - 1] => a[k] = b[k])
                  => \A k \in 0 .. n : a[k] = b[k]
    BY ONLY n \in Nat, IntervalAgreement
  <1> DEFINE G == [k \in 1 .. n |-> [s \in Int |-> s + w[k]]]
  <1>1. Len(w) = n
    <2>1. DOMAIN w = 1 .. n /\ w = [i \in 1 .. n |-> w[i]]
      OBVIOUS
    <2> QED
      BY <2>1, FunctionIsSequence
  <1>2. \E f : DefinedBy(f, n, Int, 0, G)
    <2>1. G \in [1 .. n -> [Int -> Int]]
      OBVIOUS
    <2> DEFINE X == Int
               x == 0
    <2>2. x \in X /\ G \in [1 .. n -> [X -> X]]
      BY <2>1
    <2> HIDE DEF G, X, x
    <2>3. \E f : DefinedBy(f, n, X, x, G)
      BY ONLY n \in Nat, <2>2, IntervalRecursion
    <2> QED
      BY <2>3 DEF x, X
  <1>3. PICK f : DefinedBy(f, n, Int, 0, G)
    BY <1>2
  <1>4. f \in [0 .. n -> Int] /\ f[0] = 0
    BY <1>3 DEF DefinedBy
  <1>5. ASSUME NEW k \in 1 .. n PROVE f[k] = f[k - 1] + w[k]
    <2>1. k - 1 \in 0 .. n
      OBVIOUS
    <2>2. f[k - 1] \in Int /\ f[k] = G[k][f[k - 1]]
      BY <1>3, <1>4, <2>1 DEF DefinedBy
    <2> QED
      BY <2>2
  <1>6. Total(w) = f[n]
    <2> DEFINE F(h) == [k \in 0 .. n |-> IF k = 0 THEN 0 ELSE h[k - 1] + w[k]]
               h == CHOOSE h : h = F(h)
    <2>1. Total(w) = h[n]
      BY <1>1 DEF Total
    <2>2. f = F(f)
      <3>1. \A k \in 0 .. n : k # 0 => k \in 1 .. n
        OBVIOUS
      <3>2. \A k \in 0 .. n : f[k] = F(f)[k]
        BY <1>4, <1>5, <3>1
      <3>3. f = [k \in 0 .. n |-> f[k]]
        BY <1>4
      <3> QED
        BY <3>2, <3>3
    <2>3. h = F(h)
      BY <2>2
    <2> HIDE DEF h
    <2>4. \A k \in 0 .. n : h[k] = IF k = 0 THEN 0 ELSE h[k - 1] + w[k]
      BY <2>3
    <2>5. h[0] = f[0]
      BY <1>4, <2>4
    <2>6. ASSUME NEW k \in 1 .. n, h[k - 1] = f[k - 1] PROVE h[k] = f[k]
      <3>1. k \in 0 .. n /\ k # 0
        OBVIOUS
      <3>2. h[k] = h[k - 1] + w[k]
        BY <2>4, <3>1
      <3> QED
        BY <1>5, <2>6, <3>2
    <2>7. \A k \in 0 .. n : h[k] = f[k]
      BY <1>0, <2>5, <2>6
    <2> QED
      BY <2>1, <2>7
  <1> QED
    BY <1>4, <1>5, <1>6 DEF Sums

LEMMA TotalType ==
    ASSUME NEW n \in Nat, NEW w, w \in [1 .. n -> Int]
    PROVE  Total(w) \in Int
  <1>1. PICK f : Sums(f, n, w)
    BY SumsExist
  <1> QED
    BY <1>1 DEF Sums

AddUp(n, a, b, c) ==
    /\ a \in [1 .. n -> Int] /\ b \in [1 .. n -> Int] /\ c \in [1 .. n -> Int]
    /\ \A k \in 1 .. n : c[k] = a[k] + b[k]

\* Totals of sums.
LEMMA TotalPlus ==
    ASSUME NEW n \in Nat, NEW a, NEW b, NEW c, AddUp(n, a, b, c)
    PROVE  Total(c) = Total(a) + Total(b)
  <1>0. /\ a \in [1 .. n -> Int] /\ b \in [1 .. n -> Int] /\ c \in [1 .. n -> Int]
        /\ \A k \in 1 .. n : c[k] = a[k] + b[k]
    BY DEF AddUp
  <1>1. PICK f : Sums(f, n, a)
    BY <1>0, SumsExist
  <1>2. PICK g : Sums(g, n, b)
    BY <1>0, SumsExist
  <1>3. PICK h : Sums(h, n, c)
    BY <1>0, SumsExist
  <1> DEFINE P == {k \in 0 .. n : h[k] = f[k] + g[k]}
  <1>4. 0 \in P
    BY <1>1, <1>2, <1>3 DEF Sums
  <1>5. ASSUME NEW k \in P, k < n PROVE k + 1 \in P
    <2>1. k + 1 \in 1 .. n /\ k + 1 \in 0 .. n /\ (k + 1) - 1 = k /\ k \in 0 .. n
      BY <1>5
    <2> DEFINE m == k + 1
    <2>2. /\ m \in 1 .. n /\ m - 1 = k /\ m \in 0 .. n
      BY <2>1
    <2> HIDE DEF m
    <2>3. f[m] = f[k] + a[m] /\ g[m] = g[k] + b[m] /\ h[m] = h[k] + c[m] /\ c[m] = a[m] + b[m]
      BY <1>0, <1>1, <1>2, <1>3, <2>2 DEF Sums
    <2>4. f[k] \in Int /\ g[k] \in Int /\ h[k] \in Int /\ a[m] \in Int /\ b[m] \in Int
      BY <1>0, <1>1, <1>2, <1>3, <2>1, <2>2 DEF Sums
    <2>5. h[k] = f[k] + g[k]
      OBVIOUS
    <2>6. h[m] = f[m] + g[m]
      BY <2>3, <2>4, <2>5
    <2>7. m \in P
      BY <2>2, <2>6
    <2> QED
      BY <2>7 DEF m
  <1>6. P \in SUBSET (0 .. n)
    OBVIOUS
  <1>7. n \in P
    <2> HIDE DEF P
    <2> QED
      BY ONLY n \in Nat, <1>4, <1>5, <1>6, IntervalInduction
  <1> QED
    BY <1>1, <1>2, <1>3, <1>7 DEF Sums

\* All of a total may come from one place.
LEMMA TotalOne ==
    ASSUME NEW n \in Nat, NEW w, w \in [1 .. n -> Int], NEW m \in 1 .. n,
           \A k \in 1 .. n : k # m => w[k] = 0
    PROVE  Total(w) = w[m]
  <1>1. PICK f : Sums(f, n, w)
    BY SumsExist
  <1> DEFINE P == {k \in 0 .. n : f[k] = IF k < m THEN 0 ELSE w[m]}
  <1>2. 0 \in P
    BY <1>1 DEF Sums
  <1>3. ASSUME NEW k \in P, k < n PROVE k + 1 \in P
    <2> DEFINE l == k + 1
    <2>1. l \in 1 .. n /\ l - 1 = k /\ l \in 0 .. n /\ k \in 0 .. n /\ l = k + 1
      BY <1>3
    <2> HIDE DEF l
    <2>2. f[l] = f[k] + w[l] /\ f[k] \in Int /\ w[l] \in Int /\ w[m] \in Int
      BY <1>1, <2>1 DEF Sums
    <2>3. f[k] = IF k < m THEN 0 ELSE w[m]
      OBVIOUS
    <2>4. l # m => w[l] = 0
      BY <2>1
    <2>5. f[l] = IF l < m THEN 0 ELSE w[m]
      <3>1. CASE l < m
        BY <2>1, <2>2, <2>3, <2>4, <3>1
      <3>2. CASE l = m
        BY <2>1, <2>2, <2>3, <3>2
      <3>3. CASE l > m
        BY <2>1, <2>2, <2>3, <2>4, <3>3
      <3> QED
        BY <2>1, <3>1, <3>2, <3>3
    <2>6. l \in P
      BY <2>1, <2>5
    <2> QED
      BY <2>6 DEF l
  <1>4. P \in SUBSET (0 .. n)
    OBVIOUS
  <1>5. n \in P
    <2> HIDE DEF P
    <2> QED
      BY ONLY n \in Nat, <1>2, <1>3, <1>4, IntervalInduction
  <1> QED
    BY <1>1, <1>5 DEF Sums

LEMMA TotalZero ==
    ASSUME NEW n \in Nat, NEW w, w \in [1 .. n -> Int], \A k \in 1 .. n : w[k] = 0
    PROVE  Total(w) = 0
  <1>1. PICK f : Sums(f, n, w)
    BY SumsExist
  <1>2. CASE n = 0
    BY <1>1, <1>2 DEF Sums
  <1>3. CASE n # 0
    <2>1. 1 \in 1 .. n
      BY <1>3
    <2> DEFINE m == 1
    <2>2. m \in 1 .. n /\ \A k \in 1 .. n : k # m => w[k] = 0
      BY <2>1
    <2> HIDE DEF m
    <2>3. Total(w) = w[m]
      BY <2>2, TotalOne
    <2> QED
      BY <2>2, <2>3
  <1> QED
    BY <1>2, <1>3

-----------------------------------------------------------------------------
(* A finite set in order: an element's rank is how many come before it. *)

Ranked(S, K) ==
    /\ \A e \in S : K[e] \subseteq S /\ e \notin K[e]
    /\ \A d, e \in S : d \in K[e] => K[d] \subseteq K[e]
    /\ \A d, e \in S : d # e => d \in K[e] \/ e \in K[d]

\* An element before another has fewer elements before it.
LEMMA RankGrows ==
    ASSUME NEW S, IsFiniteSet(S), NEW K, Ranked(S, K),
           NEW d \in S, NEW e \in S, d \in K[e]
    PROVE  Cardinality(K[d]) < Cardinality(K[e])
  <1> DEFINE A == K[d]
             B == K[e]
             C == K[d] \cup {d}
  <1>1. A \in SUBSET S /\ B \in SUBSET S /\ C \in SUBSET B /\ d \notin A
    BY DEF Ranked
  <1>2. IsFiniteSet(A) /\ IsFiniteSet(B)
    <2> HIDE DEF A, B
    <2> QED
      BY <1>1, FS_Subset
  <1>3. Cardinality(A) \in Nat /\ Cardinality(B) \in Nat
    <2> HIDE DEF A, B
    <2> QED
      BY <1>2, FS_CardinalityType
  <1>4. C = A \cup {d}
    OBVIOUS
  <1> HIDE DEF A, B, C
  <1>5. Cardinality(C) = Cardinality(A) + 1
    BY <1>1, <1>2, <1>4, FS_AddElement
  <1>6. Cardinality(C) <= Cardinality(B)
    BY <1>1, <1>2, FS_Subset
  <1>7. Cardinality(A) < Cardinality(B)
    BY <1>3, <1>5, <1>6
  <1> QED
    BY <1>7 DEF A, B

\* Every rank below the size of the set belongs to exactly one element.
LEMMA Ranks ==
    ASSUME NEW S, IsFiniteSet(S), NEW K, Ranked(S, K)
    PROVE  /\ Cardinality(S) \in Nat
           /\ \A e \in S : Cardinality(K[e]) \in 0 .. Cardinality(S) - 1
           /\ \A d, e \in S : Cardinality(K[d]) = Cardinality(K[e]) => d = e
           /\ \A d, e \in S : Cardinality(K[d]) < Cardinality(K[e]) <=> d \in K[e]
           /\ \A n \in 1 .. Cardinality(S) : \E e \in S : Cardinality(K[e]) = n - 1
  <1> DEFINE N == Cardinality(S)
             r == [e \in S |-> Cardinality(K[e])]
             T == 0 .. N - 1
  <1>1. N \in Nat
    BY FS_CardinalityType
  <1>2. ASSUME NEW e \in S PROVE r[e] \in T
    <2> DEFINE A == K[e]
               B == S \ {e}
    <2>1. A \in SUBSET B /\ B \in SUBSET S
      BY DEF Ranked
    <2>2. IsFiniteSet(B) /\ Cardinality(B) = N - 1
      BY FS_RemoveElement
    <2> HIDE DEF A, B, N
    <2>3. IsFiniteSet(A) /\ Cardinality(A) <= Cardinality(B)
      BY <2>1, <2>2, FS_Subset
    <2>4. Cardinality(A) \in Nat
      BY <2>3, FS_CardinalityType
    <2>5. Cardinality(A) \in T
      BY <1>1, <2>2, <2>3, <2>4
    <2> QED
      BY <2>5 DEF A
  <1>3. ASSUME NEW d \in S, NEW e \in S, d \in K[e] PROVE r[d] < r[e]
    BY <1>3, RankGrows
  <1>4. \A d, e \in S : d # e => d \in K[e] \/ e \in K[d]
    BY DEF Ranked
  <1>5. ASSUME NEW d \in S, NEW e \in S, r[d] = r[e] PROVE d = e
    <2>1. r[d] \in Int /\ r[e] \in Int
      BY <1>1, <1>2
    <2> HIDE DEF r
    <2> QED
      BY <1>3, <1>4, <1>5, <2>1
  <1>6. ASSUME NEW d \in S, NEW e \in S, r[d] < r[e] PROVE d \in K[e]
    <2>1. r[d] \in Int /\ r[e] \in Int
      BY <1>1, <1>2
    <2> HIDE DEF r
    <2> QED
      BY <1>3, <1>4, <1>6, <2>1
  <1>7. r \in Injection(S, T)
    <2>1. r \in [S -> T]
      <3>1. \A e \in S : r[e] \in T
        BY <1>2
      <3> QED
        BY <3>1
    <2>2. \A d, e \in S : r[d] = r[e] => d = e
      BY <1>5
    <2> HIDE DEF r, T
    <2> QED
      BY <2>1, <2>2 DEF Injection, IsInjective
  <1>8. IsFiniteSet(T) /\ Cardinality(T) = N
    <2>1. 0 \in Int /\ N - 1 \in Int
      BY <1>1
    <2> DEFINE b == N - 1
    <2> HIDE DEF N
    <2>2. IsFiniteSet(0 .. b) /\ Cardinality(0 .. b) = IF 0 > b THEN 0 ELSE b - 0 + 1
      <3>1. b \in Int
        BY <2>1
      <3> HIDE DEF b
      <3> QED
        BY <3>1, FS_Interval
    <2>3. (IF 0 > b THEN 0 ELSE b - 0 + 1) = N
      BY <1>1
    <2> QED
      BY <2>2, <2>3
  <1>9. r \in Surjection(S, T)
    <2> HIDE DEF r, T
    <2> QED
      BY <1>7, <1>8, FS_Injection DEF N
  <1>10. ASSUME NEW n \in 1 .. N PROVE \E e \in S : r[e] = n - 1
    <2>1. n - 1 \in T
      BY <1>1
    <2> HIDE DEF r, T
    <2> QED
      BY <1>9, <2>1 DEF Surjection
  <1>11. \A e \in S : r[e] = Cardinality(K[e])
    OBVIOUS
  <1> HIDE DEF r
  <1> QED
    BY <1>1, <1>2, <1>3, <1>5, <1>6, <1>10, <1>11

-----------------------------------------------------------------------------
(* The links before they have sizes. *)

Link == [source : Int, target : Int, size : Int]

\* The links are a finite sequence, each with a source of its own.
LEMMA LinksFacts ==
    ASSUME LabelsInv
    PROVE  /\ Links \in Seq(Link)
           /\ Len(Links) \in Nat /\ DOMAIN Links = 1 .. Len(Links)
           /\ \A k \in DOMAIN Links : Links[k] \in Link /\ Links[k].size = 0
           /\ \A k, m \in DOMAIN Links : Links[k].source = Links[m].source => k = m
  <1> DEFINE T == [source : Int, target : Int, size : {0}]
             n == Cardinality(DOMAIN labels)
             ss == [l \in 1 .. n |-> [i \in DOMAIN labels[l].sources |->
                      [source |-> labels[l].sources[i], target |-> labels[l].target, size |-> 0]]]
             F == [x \in T |-> x.source]
  <1>1. /\ DOMAIN labels = 1 .. n
        /\ labels \in [1 .. n -> Label]
        /\ Apart(labels)
    BY LabelsParts
  <1>2. n \in Nat
    BY LabelsParts
  <1>3. ASSUME NEW l \in 1 .. n
        PROVE  /\ DOMAIN ss[l] = 1 .. Len(labels[l].sources)
               /\ Len(labels[l].sources) \in Nat
               /\ ss[l] \in [1 .. Len(labels[l].sources) -> T]
               /\ \A i \in DOMAIN ss[l] : /\ i \in DOMAIN labels[l].sources
                                          /\ ss[l][i].source = labels[l].sources[i]
    <2> DEFINE s == labels[l].sources
    <2>1. s \in Seq(Nat) /\ labels[l].target \in Int
      BY <1>1 DEF Label
    <2>2. Len(s) \in Nat /\ DOMAIN s = 1 .. Len(s) /\ \A i \in DOMAIN s : s[i] \in Int
      <3> HIDE DEF s
      <3> QED
        BY <2>1, SeqFacts
    <2>3. ss[l] = [i \in DOMAIN s |-> [source |-> s[i], target |-> labels[l].target, size |-> 0]]
      OBVIOUS
    <2> HIDE DEF s, ss
    <2>4. \A i \in DOMAIN s : ss[l][i] \in T /\ ss[l][i].source = s[i]
      BY <2>1, <2>2, <2>3
    <2> QED
      BY <2>2, <2>3, <2>4 DEF s
  <1>4. ASSUME NEW l \in 1 .. n
        PROVE  /\ ss[l] \in Seq(T) /\ Len(ss[l]) \in Nat /\ DOMAIN ss[l] = 1 .. Len(ss[l])
               /\ \A i \in 1 .. Len(ss[l]) : ss[l][i] \in T
    <2> DEFINE s == ss[l]
               m == Len(labels[l].sources)
    <2>1. m \in Nat /\ s \in [1 .. m -> T]
      BY <1>3
    <2> HIDE DEF s, m, T
    <2>2. s \in Seq(T)
      BY <2>1, SeqDef
    <2>3. Len(s) \in Nat /\ DOMAIN s = 1 .. Len(s) /\ \A i \in 1 .. Len(s) : s[i] \in T
      BY <2>2, SeqFacts
    <2> QED
      BY <2>2, <2>3 DEF s
  <1>5. ss \in [1 .. n -> Seq(T)]
    <2>1. ss = [l \in 1 .. n |-> ss[l]]
      OBVIOUS
    <2> HIDE DEF ss
    <2> QED
      BY <1>4, <2>1
  <1>6. ASSUME NEW a \in 1 .. n, NEW b \in 1 .. n, NEW i \in 1 .. Len(ss[a]), NEW j \in 1 .. Len(ss[b]),
               F[ss[a][i]] = F[ss[b][j]]
        PROVE  a = b /\ i = j
    <2>1. /\ i \in DOMAIN ss[a] /\ j \in DOMAIN ss[b]
          /\ ss[a][i] \in T /\ ss[b][j] \in T
      BY <1>4
    <2>2. ss[a][i].source = ss[b][j].source
      <3> HIDE DEF ss
      <3> QED
        BY <1>6, <2>1
    <2>3. /\ i \in DOMAIN labels[a].sources /\ j \in DOMAIN labels[b].sources
          /\ labels[a].sources[i] = labels[b].sources[j]
      <3> HIDE DEF ss
      <3> QED
        BY <1>3, <2>1, <2>2
    <2> QED
      BY <1>1, <2>3 DEF Apart
  <1>7. Links = FlattenSeq(ss)
    BY DEF Links
  <1> HIDE DEF ss, n
  <1> DEFINE flat == FlattenSeq(ss)
  <1>8. /\ flat \in Seq(T)
        /\ \A k, m \in 1 .. Len(flat) : F[flat[k]] = F[flat[m]] => k = m
    <2>1. AllDiffer(F, n, ss)
      BY <1>6 DEF AllDiffer
    <2> HIDE DEF F, T
    <2>2. flat \in Seq(T) /\ Differ(F, flat)
      BY <1>2, <1>5, <2>1, FlattenInjective
    <2> QED
      BY <2>2 DEF Differ
  <1> HIDE DEF flat
  <1>9. /\ Len(flat) \in Nat /\ DOMAIN flat = 1 .. Len(flat)
        /\ \A k \in DOMAIN flat : flat[k] \in T
    <2> HIDE DEF T
    <2> QED
      BY <1>8, SeqFacts
  <1>10. flat \in Seq(Link)
    <2>1. T \subseteq Link
      BY DEF Link
    <2> HIDE DEF T
    <2> QED
      BY <1>8, <2>1, SeqMonotone
  <1>11. \A k \in DOMAIN flat : flat[k] \in Link /\ flat[k].size = 0
    BY <1>9 DEF Link
  <1>12. \A k, m \in DOMAIN flat : flat[k].source = flat[m].source => k = m
    BY <1>8, <1>9
  <1> QED
    BY <1>7, <1>9, <1>10, <1>11, <1>12 DEF flat

-----------------------------------------------------------------------------
(* The ends of the links in the order of addresses. *)

EndsOf(U) == (DOMAIN U) \X {"source", "target"}
KeyIn(U, e) == EndKey(U[e[1]], e[2])
IsBefore(U, d, e) == KeyIn(U, d) < KeyIn(U, e) \/ (KeyIn(U, d) = KeyIn(U, e) /\ d[1] < e[1])
SourceKey(U, j) == EndKey(U[j], "source")

LinkSequence(U) ==
    /\ U \in Seq(Link)
    /\ Len(U) \in Nat /\ DOMAIN U = 1 .. Len(U)
    /\ \A k \in DOMAIN U : U[k] \in Link
    /\ \A k, m \in DOMAIN U : U[k].source = U[m].source => k = m

Ordered(U, E) ==
    /\ Len(E) \in Nat
    /\ \A i \in 1 .. Len(E) : E[i] \in EndsOf(U)
    /\ \A i, j \in 1 .. Len(E) : E[i] = E[j] => i = j
    /\ \A e \in EndsOf(U) : \E i \in 1 .. Len(E) : E[i] = e
    /\ \A j \in DOMAIN U, i \in 1 .. Len(E) :
         SourceKey(U, j) < KeyIn(U, E[i]) <=> \E p \in 1 .. i - 1 : E[p] = <<j, "source">>

\* Where an end is in the order.
LEMMA KeyFacts ==
    ASSUME NEW U, LinkSequence(U), NEW e \in EndsOf(U)
    PROVE  /\ e[1] \in DOMAIN U /\ e[1] \in Int /\ e[2] \in {"source", "target"} /\ e = <<e[1], e[2]>>
           /\ U[e[1]].source \in Int /\ U[e[1]].target \in Int
           /\ KeyIn(U, e) \in Int
           /\ e[2] = "source" => KeyIn(U, e) = 2 * U[e[1]].source
           /\ e[2] = "target" => KeyIn(U, e) = 2 * U[e[1]].target + 1
  <1>1. e[1] \in DOMAIN U /\ e[2] \in {"source", "target"} /\ e = <<e[1], e[2]>>
    BY DEF EndsOf
  <1>2. e[1] \in Int /\ U[e[1]] \in Link
    BY <1>1 DEF LinkSequence
  <1>3. U[e[1]].source \in Int /\ U[e[1]].target \in Int
    BY <1>2 DEF Link
  <1>4. /\ e[2] = "source" => KeyIn(U, e) = 2 * U[e[1]].source
        /\ e[2] = "target" => KeyIn(U, e) = 2 * U[e[1]].target + 1
    BY DEF KeyIn, EndKey
  <1>5. KeyIn(U, e) \in Int
    <2> DEFINE a == U[e[1]].source
               b == U[e[1]].target
               x == KeyIn(U, e)
    <2>1. a \in Int /\ b \in Int /\ (x = 2 * a \/ x = 2 * b + 1)
      BY <1>1, <1>3, <1>4
    <2> HIDE DEF a, b, x
    <2>2. x \in Int
      BY <2>1
    <2> QED
      BY <2>2 DEF x
  <1> QED
    BY <1>1, <1>2, <1>3, <1>4, <1>5

\* No two ends are at the same place in the order.
LEMMA KeysDiffer ==
    ASSUME NEW U, LinkSequence(U), NEW d \in EndsOf(U), NEW e \in EndsOf(U),
           KeyIn(U, d) = KeyIn(U, e), d[1] = e[1] \/ d[2] # "target" \/ e[2] # "target"
    PROVE  d = e
  <1>1. /\ d = <<d[1], d[2]>> /\ e = <<e[1], e[2]>>
        /\ d[2] \in {"source", "target"} /\ e[2] \in {"source", "target"}
        /\ d[1] \in DOMAIN U /\ e[1] \in DOMAIN U
    BY KeyFacts
  <1> DEFINE a == U[d[1]].source
             b == U[d[1]].target
             x == U[e[1]].source
             y == U[e[1]].target
  <1>2. a \in Int /\ b \in Int /\ x \in Int /\ y \in Int
    BY KeyFacts
  <1>3. /\ d[2] = "source" => KeyIn(U, d) = 2 * a
        /\ d[2] = "target" => KeyIn(U, d) = 2 * b + 1
        /\ e[2] = "source" => KeyIn(U, e) = 2 * x
        /\ e[2] = "target" => KeyIn(U, e) = 2 * y + 1
    BY KeyFacts
  <1> HIDE DEF a, b, x, y
  <1>4. CASE d[2] = "source" /\ e[2] = "source"
    <2>1. a = x
      BY <1>2, <1>3, <1>4
    <2>2. d[1] = e[1]
      BY <1>1, <2>1 DEF LinkSequence, a, x
    <2> QED
      BY <1>1, <1>4, <2>2
  <1>5. CASE d[2] = "source" /\ e[2] = "target"
    BY <1>2, <1>3, <1>5
  <1>6. CASE d[2] = "target" /\ e[2] = "source"
    BY <1>2, <1>3, <1>6
  <1>7. CASE d[2] = "target" /\ e[2] = "target"
    BY <1>1, <1>7
  <1> QED
    BY <1>1, <1>4, <1>5, <1>6, <1>7

\* The order of the ends is total.
LEMMA EndsAreRanked ==
    ASSUME NEW U, LinkSequence(U),
           NEW K, K = [e \in EndsOf(U) |-> {d \in EndsOf(U) : IsBefore(U, d, e)}]
    PROVE  Ranked(EndsOf(U), K) /\ IsFiniteSet(EndsOf(U))
  <1> DEFINE S == EndsOf(U)
  <1>1. \A e \in S : K[e] = {d \in S : IsBefore(U, d, e)}
    OBVIOUS
  <1>2. \A e \in S : KeyIn(U, e) \in Int /\ e[1] \in Int
    BY KeyFacts
  <1> HIDE DEF S
  <1>3. \A e \in S : K[e] \subseteq S /\ e \notin K[e]
    BY <1>1, <1>2 DEF IsBefore
  <1>4. ASSUME NEW d \in S, NEW e \in S, d \in K[e] PROVE K[d] \subseteq K[e]
    <2> SUFFICES ASSUME NEW c \in S, IsBefore(U, c, d), IsBefore(U, d, e) PROVE IsBefore(U, c, e)
      BY <1>1, <1>4
    <2> DEFINE x == KeyIn(U, c)
               y == KeyIn(U, d)
               z == KeyIn(U, e)
               i == c[1]
               j == d[1]
               k == e[1]
    <2>1. x \in Int /\ y \in Int /\ z \in Int /\ i \in Int /\ j \in Int /\ k \in Int
      BY <1>2
    <2>2. (x < y \/ (x = y /\ i < j)) /\ (y < z \/ (y = z /\ j < k))
      BY DEF IsBefore
    <2> HIDE DEF x, y, z, i, j, k
    <2>3. x < z \/ (x = z /\ i < k)
      BY <2>1, <2>2
    <2> QED
      BY <2>3 DEF IsBefore, x, z, i, k
  <1>5. ASSUME NEW d \in S, NEW e \in S, d # e PROVE d \in K[e] \/ e \in K[d]
    <2> DEFINE x == KeyIn(U, d)
               y == KeyIn(U, e)
               i == d[1]
               j == e[1]
    <2>1. x \in Int /\ y \in Int /\ i \in Int /\ j \in Int
      BY <1>2
    <2>2. x = y => i # j
      BY <1>5, KeysDiffer DEF S
    <2> HIDE DEF x, y, i, j
    <2>3. (x < y \/ (x = y /\ i < j)) \/ (y < x \/ (y = x /\ j < i))
      BY <2>1, <2>2
    <2>4. IsBefore(U, d, e) \/ IsBefore(U, e, d)
      BY <2>3 DEF IsBefore, x, y, i, j
    <2> QED
      BY <1>1, <2>4
  <1>6. Ranked(S, K)
    BY <1>3, <1>4, <1>5 DEF Ranked
  <1>7. IsFiniteSet(S)
    <2> DEFINE n == Len(U)
               I == 1 .. n
               T == {"source", "target"}
    <2>1. n \in Nat /\ S = I \X T
      BY DEF LinkSequence, EndsOf, S
    <2>2. IsFiniteSet(I)
      <3> HIDE DEF n
      <3>1. 1 \in Int /\ n \in Int
        BY <2>1
      <3> QED
        BY <3>1, FS_Interval
    <2>3. IsFiniteSet(T)
      <3>1. IsFiniteSet({}) /\ {} \cup {"source"} = {"source"} /\ {"source"} \cup {"target"} = T
        BY FS_EmptySet
      <3>2. IsFiniteSet({"source"})
        BY <3>1, FS_AddElement
      <3> DEFINE A == {"source"}
                 x == "target"
      <3>3. IsFiniteSet(A) /\ T = A \cup {x}
        BY <3>2
      <3> HIDE DEF A, x, T
      <3> QED
        BY <3>3, FS_AddElement
    <2> HIDE DEF I, T
    <2> QED
      BY <2>1, <2>2, <2>3, FS_Product
  <1> QED
    BY <1>6, <1>7 DEF S

\* The sequence of ends holds each once, every source before whatever has a larger key.
LEMMA EndsAreOrdered ==
    ASSUME LinkSequence(Links)
    PROVE  Ordered(Links, Ends)
  <1> DEFINE U == Links
             S == EndsOf(U)
             K == [e \in S |-> {d \in S : IsBefore(U, d, e)}]
             N == Cardinality(S)
             E == Ends
  <1>1. Ranked(S, K) /\ IsFiniteSet(S)
    <2> DEFINE k == K
    <2>1. k = [e \in EndsOf(U) |-> {d \in EndsOf(U) : IsBefore(U, d, e)}]
      OBVIOUS
    <2> HIDE DEF k, U
    <2>2. Ranked(EndsOf(U), k) /\ IsFiniteSet(EndsOf(U))
      BY <2>1, EndsAreRanked DEF U
    <2> QED
      BY <2>2 DEF k
  <1>2. \A e \in S : K[e] = {d \in S : IsBefore(U, d, e)}
    OBVIOUS
  <1>3. E = [n \in 1 .. N |-> CHOOSE e \in S : Cardinality({d \in S : IsBefore(U, d, e)}) = n - 1]
    BY DEF Ends, EndsOf, IsBefore, KeyIn
  <1> HIDE DEF K, S, U, E
  <1>4. /\ N \in Nat
        /\ \A e \in S : Cardinality(K[e]) \in 0 .. N - 1
        /\ \A d, e \in S : Cardinality(K[d]) = Cardinality(K[e]) => d = e
        /\ \A d, e \in S : Cardinality(K[d]) < Cardinality(K[e]) <=> d \in K[e]
        /\ \A n \in 1 .. N : \E e \in S : Cardinality(K[e]) = n - 1
    BY <1>1, Ranks
  <1>5. Len(E) = N /\ DOMAIN E = 1 .. N
    <2> HIDE DEF N
    <2> DEFINE End(n) == CHOOSE e \in S : Cardinality({d \in S : IsBefore(U, d, e)}) = n - 1
    <2>2. E = [n \in 1 .. N |-> End(n)]
      BY <1>3
    <2> HIDE DEF End
    <2>1. DOMAIN E = 1 .. N /\ E = [i \in 1 .. N |-> E[i]]
      BY <2>2
    <2> QED
      BY <1>4, <2>1, FunctionIsSequence
  <1>6. ASSUME NEW n \in 1 .. N PROVE E[n] \in S /\ Cardinality(K[E[n]]) = n - 1
    <2>1. \E e \in S : Cardinality({d \in S : IsBefore(U, d, e)}) = n - 1
      BY <1>2, <1>4
    <2>2. E[n] = CHOOSE e \in S : Cardinality({d \in S : IsBefore(U, d, e)}) = n - 1
      BY <1>3
    <2>3. E[n] \in S /\ Cardinality({d \in S : IsBefore(U, d, E[n])}) = n - 1
      BY <2>1, <2>2
    <2> QED
      BY <1>2, <2>3
  <1> HIDE DEF N
  <1>7. ASSUME NEW i \in 1 .. N, NEW j \in 1 .. N, E[i] = E[j] PROVE i = j
    <2>1. i - 1 = j - 1 /\ i \in Int /\ j \in Int
      BY <1>6, <1>7
    <2> QED
      BY <2>1
  <1>8. ASSUME NEW e \in S PROVE \E i \in 1 .. N : E[i] = e
    <2> DEFINE i == Cardinality(K[e]) + 1
    <2>1. Cardinality(K[e]) \in 0 .. N - 1
      BY <1>4
    <2> DEFINE c == Cardinality(K[e])
    <2>2. i \in 1 .. N /\ i - 1 = c
      <3> HIDE DEF c
      <3>1. c \in 0 .. N - 1
        BY <2>1 DEF c
      <3>2. i = c + 1
        BY DEF c
      <3> HIDE DEF i
      <3> QED
        BY <1>4, <3>1, <3>2
    <2> HIDE DEF i
    <2>3. E[i] \in S /\ Cardinality(K[E[i]]) = Cardinality(K[e])
      BY <1>6, <2>2
    <2>4. E[i] = e
      BY <1>4, <2>3
    <2> QED
      BY <2>2, <2>4
  <1>9. ASSUME NEW p \in 1 .. N, NEW i \in 1 .. N PROVE IsBefore(U, E[p], E[i]) <=> p < i
    <2>1. /\ E[p] \in S /\ E[i] \in S /\ Cardinality(K[E[p]]) = p - 1 /\ Cardinality(K[E[i]]) = i - 1
      BY <1>6
    <2>2. E[p] \in K[E[i]] <=> p - 1 < i - 1
      BY <1>4, <2>1
    <2>3. E[p] \in K[E[i]] <=> IsBefore(U, E[p], E[i])
      BY <1>2, <2>1
    <2>4. p - 1 < i - 1 <=> p < i
      OBVIOUS
    <2> QED
      BY <2>2, <2>3, <2>4
  <1>10. ASSUME NEW j \in DOMAIN U, NEW i \in 1 .. N
         PROVE  SourceKey(U, j) < KeyIn(U, E[i]) <=> \E p \in 1 .. i - 1 : E[p] = <<j, "source">>
    <2> DEFINE s == <<j, "source">>
    <2>1. s \in S /\ SourceKey(U, j) = KeyIn(U, s) /\ E[i] \in S /\ s[1] = j /\ s[2] = "source"
      BY <1>6 DEF SourceKey, KeyIn, S, EndsOf
    <2>2. PICK p \in 1 .. N : E[p] = s
      BY <1>8, <2>1
    <2>3. LinkSequence(U)
      BY DEF U
    <2> HIDE DEF s
    <2>4. IsBefore(U, s, E[i]) <=> KeyIn(U, s) < KeyIn(U, E[i])
      <3>1. KeyIn(U, s) \in Int /\ KeyIn(U, E[i]) \in Int /\ s[1] \in Int
        BY <2>1, <2>3, KeyFacts DEF S
      <3>2. KeyIn(U, s) = KeyIn(U, E[i]) => s = E[i]
        <4> DEFINE e == E[i]
        <4>1. e \in EndsOf(U) /\ s \in EndsOf(U) /\ s[2] # "target"
          BY <2>1 DEF S
        <4> HIDE DEF e
        <4>2. KeyIn(U, s) = KeyIn(U, e) => s = e
          BY <2>3, <4>1, KeysDiffer
        <4> QED
          BY <4>2 DEF e
      <3>3. s = E[i] => ~(s[1] < E[i][1])
        BY <3>1
      <3> QED
        BY <3>1, <3>2, <3>3 DEF IsBefore
    <2>5. IsBefore(U, s, E[i]) <=> p < i
      BY <1>9, <2>2
    <2>6. p < i <=> \E q \in 1 .. i - 1 : E[q] = s
      <3>1. ASSUME p < i PROVE \E q \in 1 .. i - 1 : E[q] = s
        <4>1. p \in 1 .. i - 1
          BY <3>1
        <4> QED
          BY <2>2, <4>1
      <3>2. ASSUME NEW q \in 1 .. i - 1, E[q] = s PROVE p < i
        <4>1. q \in 1 .. N /\ q < i
          BY <1>4
        <4>2. q = p
          BY <1>7, <2>2, <3>2, <4>1
        <4> QED
          BY <4>1, <4>2
      <3> QED
        BY <3>1, <3>2
    <2> QED
      BY <2>1, <2>4, <2>5, <2>6 DEF s
  <1>11. Ordered(U, E)
    BY <1>4, <1>5, <1>6, <1>7, <1>8, <1>10 DEF Ordered, S
  <1> QED
    BY <1>11 DEF U, E

-----------------------------------------------------------------------------
(* A pass over the ends keeps the addresses exact for the sizes it chooses. *)

Address(link, end) == IF end = "target" THEN link.target ELSE link.source
Weights(U, ls, key) == [j \in DOMAIN ls |-> IF SourceKey(U, j) < key THEN ls[j].size ELSE 0]
ExactAt(U, ls, e) ==
    Address(ls[e[1]], e[2]) = Address(U[e[1]], e[2]) + Total(Weights(U, ls, KeyIn(U, e)))
Exact(U, ls) == ls \in [DOMAIN U -> Link] /\ \A e \in EndsOf(U) : ExactAt(U, ls, e)

PassStates(U) == [links : [DOMAIN U -> Link], offset : Int]
Growth(old, ls) == [j \in DOMAIN ls |-> ls[j].size - old[j].size]

\* What the pass has done after m ends.
After(U, E, old, m, s) ==
    /\ s \in PassStates(U)
    /\ \A i \in 1 .. m : ExactAt(U, s.links, E[i])
    /\ \A i \in 1 .. Len(E) : i > m =>
         Address(s.links[E[i][1]], E[i][2]) = Address(old[E[i][1]], E[i][2])
    /\ \A j \in DOMAIN U : (\A i \in 1 .. m : E[i] # <<j, "source">>) => s.links[j].size = old[j].size
    /\ s.offset = Total(Growth(old, s.links))

\* What handling one end does.
Moved(U, s, t, e) ==
    /\ t \in PassStates(U)
    /\ \A j \in DOMAIN U : j # e[1] => t.links[j] = s.links[j]
    /\ Address(t.links[e[1]], e[2]) = Address(s.links[e[1]], e[2]) + s.offset
    /\ \A side \in {"source", "target"} :
         side # e[2] => Address(t.links[e[1]], side) = Address(s.links[e[1]], side)
    /\ e[2] = "target" => t.links[e[1]].size = s.links[e[1]].size
    /\ t.offset = s.offset + (t.links[e[1]].size - s.links[e[1]].size)

\* One step of a pass is such a move.
LEMMA ShiftEndFacts ==
    ASSUME NEW U, NEW s \in PassStates(U), NEW e \in EndsOf(U)
    PROVE  Moved(U, s, ShiftEnd(s, e), e)
  <1> DEFINE k == e[1]
             link == s.links[k]
             d == s.offset
             t == ShiftEnd(s, e)
             D == DOMAIN U
  <1>1. /\ k \in D /\ e[2] \in {"source", "target"}
        /\ s.links \in [D -> Link] /\ d \in Int /\ s = [links |-> s.links, offset |-> d]
    BY DEF EndsOf, PassStates
  <1>2. link \in Link
    BY <1>1
  <1>3. CASE e[2] = "target"
    <2> DEFINE new == [link EXCEPT !.target = link.target + d]
               ls == [s.links EXCEPT ![k] = new]
    <2>1. new \in Link /\ new.target = link.target + d /\ new.source = link.source /\ new.size = link.size
      <3> HIDE DEF link, d
      <3> QED
        BY <1>1, <1>2 DEF Link
    <2>2. t = [s EXCEPT !.links = ls]
      BY <1>3 DEF ShiftEnd
    <2> HIDE DEF new, link
    <2>3. ls \in [D -> Link] /\ ls[k] = new /\ \A j \in D : j # k => ls[j] = s.links[j]
      <3> HIDE DEF k, D
      <3> QED
        BY <1>1, <2>1
    <2> HIDE DEF ls
    <2>4. t.links = ls /\ t.offset = d /\ t \in PassStates(U)
      <3> HIDE DEF t
      <3> QED
        BY <1>1, <2>2, <2>3 DEF PassStates
    <2>5. link.size \in Int /\ d + (link.size - link.size) = d
      BY <1>1, <1>2 DEF Link
    <2> HIDE DEF t
    <2>6. /\ Address(t.links[k], e[2]) = Address(link, e[2]) + d
          /\ Address(t.links[k], "source") = Address(link, "source")
      BY <1>3, <2>1, <2>3, <2>4 DEF Address
    <2>7. t.links[k].size = link.size /\ t.offset = d + (t.links[k].size - link.size)
      BY <2>1, <2>3, <2>4, <2>5
    <2> QED
      BY <1>3, <2>3, <2>4, <2>6, <2>7 DEF Moved, t, link
  <1>4. CASE e[2] = "source"
    <2> DEFINE moved == [link EXCEPT !.source = link.source + d]
               size == SizeFor(Displacement(moved))
               new == [moved EXCEPT !.size = size]
               ls == [s.links EXCEPT ![k] = new]
    <2>1. size \in Int
      BY DEF SizeFor
    <2>2. moved \in Link /\ moved.source = link.source + d /\ moved.target = link.target
      <3> HIDE DEF link, d
      <3> QED
        BY <1>1, <1>2 DEF Link
    <2>3. t = [links |-> ls, offset |-> d + (size - link.size)]
      BY <1>4 DEF ShiftEnd
    <2> HIDE DEF size, moved
    <2>4. new \in Link /\ new.source = link.source + d /\ new.target = link.target /\ new.size = size
      <3> HIDE DEF link, d
      <3> QED
        BY <2>1, <2>2 DEF Link
    <2> HIDE DEF new, link
    <2>5. ls \in [D -> Link] /\ ls[k] = new /\ \A j \in D : j # k => ls[j] = s.links[j]
      <3> HIDE DEF k, D
      <3> QED
        BY <1>1, <2>4
    <2> HIDE DEF ls
    <2>6. link.size \in Int
      BY <1>2 DEF Link
    <2>7. t.links = ls /\ t.offset = d + (size - link.size) /\ t \in PassStates(U)
      <3>1. d + (size - link.size) \in Int
        BY <1>1, <2>1, <2>6
      <3> HIDE DEF t, d
      <3> QED
        BY <2>3, <2>5, <3>1 DEF PassStates
    <2> HIDE DEF t
    <2>8. /\ Address(t.links[k], e[2]) = Address(link, e[2]) + d
          /\ Address(t.links[k], "target") = Address(link, "target")
      BY <1>4, <2>4, <2>5, <2>7 DEF Address
    <2>9. t.offset = d + (t.links[k].size - link.size)
      BY <2>4, <2>5, <2>7
    <2> QED
      BY <1>4, <2>5, <2>7, <2>8, <2>9 DEF Moved, t, link
  <1> QED
    BY <1>1, <1>3, <1>4

LEMMA WeightFacts ==
    ASSUME NEW U, LinkSequence(U), NEW ls \in [DOMAIN U -> Link], NEW key
    PROVE  /\ Len(U) \in Nat /\ DOMAIN U = 1 .. Len(U)
           /\ Weights(U, ls, key) \in [1 .. Len(U) -> Int]
           /\ \A j \in DOMAIN U : Weights(U, ls, key)[j] = IF SourceKey(U, j) < key THEN ls[j].size ELSE 0
           /\ \A j \in DOMAIN U : ls[j] \in Link /\ ls[j].size \in Int
  <1>1. Len(U) \in Nat /\ DOMAIN U = 1 .. Len(U) /\ DOMAIN ls = DOMAIN U
    BY DEF LinkSequence
  <1>2. \A j \in DOMAIN U : ls[j] \in Link /\ ls[j].size \in Int
    BY DEF Link
  <1>3. Weights(U, ls, key) \in [1 .. Len(U) -> Int]
    BY <1>1, <1>2 DEF Weights
  <1> QED
    BY <1>1, <1>2, <1>3 DEF Weights

LEMMA GrowthFacts ==
    ASSUME NEW U, LinkSequence(U), NEW ls \in [DOMAIN U -> Link], NEW old \in [DOMAIN U -> Link]
    PROVE  /\ Growth(old, ls) \in [1 .. Len(U) -> Int]
           /\ \A j \in DOMAIN U : Growth(old, ls)[j] = ls[j].size - old[j].size
  <1>1. Len(U) \in Nat /\ DOMAIN U = 1 .. Len(U) /\ DOMAIN ls = DOMAIN U
    BY DEF LinkSequence
  <1>2. \A j \in DOMAIN U : ls[j].size \in Int /\ old[j].size \in Int
    BY DEF Link
  <1> QED
    BY <1>1, <1>2 DEF Growth

\* An end other than the one that is handled keeps its address.
LEMMA MovedOther ==
    ASSUME NEW U, NEW s, NEW t, NEW e \in EndsOf(U), Moved(U, s, t, e), NEW d \in EndsOf(U), d # e
    PROVE  Address(t.links[d[1]], d[2]) = Address(s.links[d[1]], d[2])
  <1>1. /\ d[1] \in DOMAIN U /\ d[2] \in {"source", "target"} /\ d = <<d[1], d[2]>>
        /\ e = <<e[1], e[2]>>
    BY DEF EndsOf
  <1>2. CASE d[1] # e[1]
    BY <1>1, <1>2 DEF Moved
  <1>3. CASE d[1] = e[1]
    <2>1. d[2] # e[2]
      BY <1>1, <1>3
    <2> QED
      BY <1>1, <1>3, <2>1 DEF Moved
  <1> QED
    BY <1>2, <1>3

\* Only the size of the jump whose source is handled changes.
LEMMA MovedSize ==
    ASSUME NEW U, NEW s, NEW t, NEW e \in EndsOf(U), Moved(U, s, t, e), NEW j \in DOMAIN U,
           e # <<j, "source">>
    PROVE  t.links[j].size = s.links[j].size
  <1>1. e[2] \in {"source", "target"} /\ e = <<e[1], e[2]>>
    BY DEF EndsOf
  <1>2. CASE j # e[1]
    BY <1>2 DEF Moved
  <1>3. CASE j = e[1]
    <2>1. e[2] = "target"
      BY <1>1, <1>3
    <2> QED
      BY <1>3, <2>1 DEF Moved
  <1> QED
    BY <1>2, <1>3

\* What was handled before stays exact.
LEMMA HandledStays ==
    ASSUME NEW U, LinkSequence(U), NEW E, Ordered(U, E), NEW s \in PassStates(U), NEW t,
           NEW n \in 1 .. Len(E), Moved(U, s, t, E[n]),
           NEW i \in 1 .. Len(E), i < n, ExactAt(U, s.links, E[i])
    PROVE  ExactAt(U, t.links, E[i])
  <1> DEFINE e == E[n]
             d == E[i]
             key == KeyIn(U, d)
             a == Weights(U, s.links, key)
             b == Weights(U, t.links, key)
  <1>1. e \in EndsOf(U) /\ d \in EndsOf(U)
    BY DEF Ordered
  <1>2. d # e
    <2>1. i # n
      OBVIOUS
    <2> QED
      BY <2>1 DEF Ordered
  <1>3. t \in PassStates(U) /\ s.links \in [DOMAIN U -> Link] /\ t.links \in [DOMAIN U -> Link]
    BY DEF Moved, PassStates
  <1>4. Address(t.links[d[1]], d[2]) = Address(s.links[d[1]], d[2])
    <2> HIDE DEF d, e
    <2>1. Moved(U, s, t, e)
      BY DEF e
    <2> QED
      BY <1>1, <1>2, <2>1, MovedOther
  <1>5. ASSUME NEW j \in DOMAIN U, SourceKey(U, j) < key PROVE t.links[j].size = s.links[j].size
    <2>1. PICK p \in 1 .. i - 1 : E[p] = <<j, "source">>
      BY <1>5 DEF Ordered
    <2>2. p \in 1 .. Len(E) /\ p # n
      BY DEF Ordered
    <2>3. e # <<j, "source">>
      BY <2>1, <2>2 DEF Ordered
    <2> HIDE DEF e
    <2>4. Moved(U, s, t, e)
      BY DEF e
    <2> QED
      BY <1>1, <2>3, <2>4, MovedSize
  <1>6. /\ a \in [1 .. Len(U) -> Int] /\ b \in [1 .. Len(U) -> Int] /\ DOMAIN U = 1 .. Len(U)
        /\ \A j \in DOMAIN U : a[j] = IF SourceKey(U, j) < key THEN s.links[j].size ELSE 0
        /\ \A j \in DOMAIN U : b[j] = IF SourceKey(U, j) < key THEN t.links[j].size ELSE 0
    <2> HIDE DEF key
    <2> DEFINE x == s.links
               y == t.links
    <2>1. x \in [DOMAIN U -> Link] /\ y \in [DOMAIN U -> Link]
      BY <1>3
    <2> HIDE DEF x, y
    <2>2. /\ Weights(U, x, key) \in [1 .. Len(U) -> Int] /\ DOMAIN U = 1 .. Len(U)
          /\ \A j \in DOMAIN U : Weights(U, x, key)[j] = IF SourceKey(U, j) < key THEN x[j].size ELSE 0
      BY <2>1, WeightFacts
    <2>3. /\ Weights(U, y, key) \in [1 .. Len(U) -> Int]
          /\ \A j \in DOMAIN U : Weights(U, y, key)[j] = IF SourceKey(U, j) < key THEN y[j].size ELSE 0
      BY <2>1, WeightFacts
    <2> QED
      BY <2>2, <2>3 DEF x, y
  <1> HIDE DEF a, b
  <1>7. a = b
    <2>1. \A j \in 1 .. Len(U) : a[j] = b[j]
      BY <1>5, <1>6
    <2> HIDE DEF key
    <2> QED
      BY <1>6, <2>1
  <1>8. Total(a) = Total(b)
    BY <1>7
  <1> QED
    BY <1>4, <1>8 DEF ExactAt, a, b

\* What is handled now becomes exact: it moves by the growth of the jumps before it.
LEMMA HandledNow ==
    ASSUME NEW U, LinkSequence(U), NEW E, Ordered(U, E), NEW old, Exact(U, old),
           NEW m \in Nat, m < Len(E), NEW s, After(U, E, old, m, s), NEW t, Moved(U, s, t, E[m + 1])
    PROVE  ExactAt(U, t.links, E[m + 1])
  <1> DEFINE n == m + 1
             e == E[n]
             key == KeyIn(U, e)
             N == Len(U)
             a == Weights(U, old, key)
             b == Growth(old, s.links)
             c == Weights(U, t.links, key)
  <1>1. n \in 1 .. Len(E) /\ n > m /\ n - 1 = m
    BY DEF Ordered
  <1>2. e \in EndsOf(U)
    BY <1>1 DEF Ordered
  <1>3. s.links \in [DOMAIN U -> Link] /\ t.links \in [DOMAIN U -> Link] /\ old \in [DOMAIN U -> Link]
    BY DEF After, Moved, PassStates, Exact
  <1>4. /\ a \in [1 .. N -> Int] /\ b \in [1 .. N -> Int] /\ c \in [1 .. N -> Int]
        /\ N \in Nat /\ DOMAIN U = 1 .. N
        /\ \A j \in DOMAIN U : a[j] = IF SourceKey(U, j) < key THEN old[j].size ELSE 0
        /\ \A j \in DOMAIN U : b[j] = s.links[j].size - old[j].size
        /\ \A j \in DOMAIN U : c[j] = IF SourceKey(U, j) < key THEN t.links[j].size ELSE 0
        /\ \A j \in DOMAIN U : old[j].size \in Int /\ s.links[j].size \in Int /\ t.links[j].size \in Int
    <2> HIDE DEF key
    <2> DEFINE x == s.links
               y == t.links
    <2>1. x \in [DOMAIN U -> Link] /\ y \in [DOMAIN U -> Link]
      BY <1>3
    <2> HIDE DEF x, y
    <2>2. /\ Weights(U, old, key) \in [1 .. N -> Int] /\ DOMAIN U = 1 .. N /\ N \in Nat
          /\ \A j \in DOMAIN U : Weights(U, old, key)[j] = IF SourceKey(U, j) < key THEN old[j].size ELSE 0
          /\ \A j \in DOMAIN U : old[j].size \in Int
      BY <1>3, WeightFacts
    <2>3. /\ Weights(U, y, key) \in [1 .. N -> Int]
          /\ \A j \in DOMAIN U : Weights(U, y, key)[j] = IF SourceKey(U, j) < key THEN y[j].size ELSE 0
          /\ \A j \in DOMAIN U : y[j].size \in Int
      BY <2>1, WeightFacts
    <2>4. /\ Growth(old, x) \in [1 .. N -> Int]
          /\ \A j \in DOMAIN U : Growth(old, x)[j] = x[j].size - old[j].size
      BY <1>3, <2>1, GrowthFacts
    <2>5. \A j \in DOMAIN U : x[j].size \in Int
      BY <2>1, WeightFacts
    <2> QED
      BY <2>2, <2>3, <2>4, <2>5 DEF x, y
  <1> HIDE DEF a, b, c, N
  <1>5. ASSUME NEW j \in DOMAIN U PROVE c[j] = a[j] + b[j]
    <2> DEFINE q == <<j, "source">>
               x == s.links[j].size
               y == t.links[j].size
               z == old[j].size
    <2>0. x \in Int /\ y \in Int /\ z \in Int
      BY <1>4
    <2>1. CASE SourceKey(U, j) < key
      <3>1. PICK p \in 1 .. n - 1 : E[p] = q
        <4>1. SourceKey(U, j) < key <=> \E p \in 1 .. n - 1 : E[p] = <<j, "source">>
          BY <1>1 DEF Ordered
        <4> QED
          BY <2>1, <4>1
      <3>2. p \in 1 .. Len(E) /\ p # n
        BY <1>1
      <3>3. e # q
        BY <1>1, <3>1, <3>2 DEF Ordered
      <3>4. y = x
        <4> HIDE DEF e
        <4>1. Moved(U, s, t, e)
          BY DEF e
        <4> QED
          BY <1>2, <3>3, <4>1, MovedSize
      <3>5. c[j] = y /\ a[j] = z /\ b[j] = x - z
        BY <1>4, <2>1
      <3> HIDE DEF x, y, z
      <3> QED
        BY <2>0, <3>4, <3>5
    <2>2. CASE ~(SourceKey(U, j) < key)
      <3>1. \A p \in 1 .. n - 1 : E[p] # q
        <4>1. SourceKey(U, j) < key <=> \E p \in 1 .. n - 1 : E[p] = <<j, "source">>
          BY <1>1 DEF Ordered
        <4> QED
          BY <2>2, <4>1
      <3>2. \A p \in 1 .. m : E[p] # <<j, "source">>
        BY <1>1, <3>1
      <3>3. x = z
        BY <3>2 DEF After
      <3>4. c[j] = 0 /\ a[j] = 0 /\ b[j] = x - z
        BY <1>4, <2>2
      <3> HIDE DEF x, y, z
      <3> QED
        BY <2>0, <3>3, <3>4
    <2> QED
      BY <2>1, <2>2
  <1>6. Total(c) = Total(a) + Total(b) /\ Total(a) \in Int /\ Total(b) \in Int
    <2>1. \A j \in 1 .. N : c[j] = a[j] + b[j]
      BY <1>4, <1>5
    <2>2. /\ N \in Nat
          /\ a \in [1 .. N -> Int] /\ b \in [1 .. N -> Int] /\ c \in [1 .. N -> Int]
      BY <1>4
    <2>6. AddUp(N, a, b, c)
      BY <2>1, <2>2 DEF AddUp
    <2>3. Total(c) = Total(a) + Total(b)
      BY <2>2, <2>6, TotalPlus
    <2>4. Total(a) \in Int
      BY ONLY <2>2, TotalType
    <2>5. Total(b) \in Int
      BY ONLY <2>2, TotalType
    <2> QED
      BY <2>3, <2>4, <2>5
  <1>7. s.offset = Total(b)
    BY DEF After, b
  <1>8. Address(t.links[e[1]], e[2]) = Address(s.links[e[1]], e[2]) + s.offset
    BY DEF Moved
  <1>9. Address(s.links[e[1]], e[2]) = Address(old[e[1]], e[2])
    BY <1>1 DEF After
  <1>10. Address(old[e[1]], e[2]) = Address(U[e[1]], e[2]) + Total(a)
    BY <1>2 DEF Exact, ExactAt, a
  <1>11. Address(U[e[1]], e[2]) \in Int
    BY <1>2, KeyFacts DEF Address
  <1>12. Address(t.links[e[1]], e[2]) = Address(U[e[1]], e[2]) + Total(c)
    <2> DEFINE u == Address(U[e[1]], e[2])
               v == Address(t.links[e[1]], e[2])
               x == Total(a)
               y == Total(b)
               z == Total(c)
    <2>1. v = (u + x) + y /\ z = x + y /\ u \in Int /\ x \in Int /\ y \in Int
      BY <1>6, <1>7, <1>8, <1>9, <1>10, <1>11
    <2> HIDE DEF u, v, x, y, z
    <2>2. v = u + z
      BY <2>1
    <2> QED
      BY <2>2 DEF u, v, z
  <1> QED
    BY <1>12 DEF ExactAt, c

\* Handling one more end keeps what the pass has done so far.
LEMMA AfterStep ==
    ASSUME NEW U, LinkSequence(U), NEW E, Ordered(U, E), NEW old, Exact(U, old),
           NEW m \in Nat, m < Len(E), NEW s, After(U, E, old, m, s), NEW t, Moved(U, s, t, E[m + 1])
    PROVE  After(U, E, old, m + 1, t)
  <1> DEFINE n == m + 1
             e == E[n]
             N == Len(U)
             k == e[1]
  <1>1. n \in 1 .. Len(E) /\ n > m /\ Len(E) \in Nat
    BY DEF Ordered
  <1>2. e \in EndsOf(U) /\ k \in DOMAIN U
    BY <1>1 DEF Ordered, EndsOf
  <1>3. /\ s \in PassStates(U) /\ t \in PassStates(U)
        /\ s.links \in [DOMAIN U -> Link] /\ t.links \in [DOMAIN U -> Link] /\ old \in [DOMAIN U -> Link]
    BY DEF After, Moved, PassStates, Exact
  <1>4. Moved(U, s, t, e)
    OBVIOUS
  <1>5. \A i \in 1 .. n : ExactAt(U, t.links, E[i])
    <2> SUFFICES ASSUME NEW i \in 1 .. n PROVE ExactAt(U, t.links, E[i])
      OBVIOUS
    <2>1. CASE i = n
      BY <2>1, HandledNow
    <2>2. CASE i # n
      <3>1. i \in 1 .. m /\ i \in 1 .. Len(E) /\ i < n
        BY <1>1, <2>2
      <3>2. ExactAt(U, s.links, E[i])
        BY <3>1 DEF After
      <3> HIDE DEF n
      <3> QED
        BY <1>1, <1>3, <1>4, <3>1, <3>2, HandledStays
    <2> QED
      BY <2>1, <2>2
  <1>6. ASSUME NEW i \in 1 .. Len(E), i > n
        PROVE  Address(t.links[E[i][1]], E[i][2]) = Address(old[E[i][1]], E[i][2])
    <2> DEFINE d == E[i]
    <2>1. i > m /\ i # n
      BY <1>1, <1>6
    <2>2. d \in EndsOf(U) /\ d # e
      BY <1>1, <2>1 DEF Ordered
    <2>3. Address(s.links[d[1]], d[2]) = Address(old[d[1]], d[2])
      BY <2>1 DEF After
    <2> HIDE DEF d, e
    <2>4. Address(t.links[d[1]], d[2]) = Address(s.links[d[1]], d[2])
      BY <1>2, <1>4, <2>2, MovedOther
    <2>5. Address(t.links[d[1]], d[2]) = Address(old[d[1]], d[2])
      BY <2>3, <2>4
    <2> QED
      BY <2>5 DEF d
  <1>7. ASSUME NEW j \in DOMAIN U, \A i \in 1 .. n : E[i] # <<j, "source">>
        PROVE  t.links[j].size = old[j].size
    <2>1. (\A i \in 1 .. m : E[i] # <<j, "source">>) /\ e # <<j, "source">>
      BY <1>1, <1>7
    <2>2. s.links[j].size = old[j].size
      BY <2>1 DEF After
    <2> HIDE DEF e
    <2>3. t.links[j].size = s.links[j].size
      BY <1>2, <1>4, <2>1, MovedSize
    <2> QED
      BY <2>2, <2>3
  <1>8. t.offset = Total(Growth(old, t.links))
    <2> DEFINE a == Growth(old, s.links)
               c == Growth(old, t.links)
               dx == t.links[k].size - s.links[k].size
               b == [j \in 1 .. N |-> IF j = k THEN dx ELSE 0]
    <2>1. N \in Nat /\ DOMAIN U = 1 .. N
      BY DEF LinkSequence
    <2>2. /\ a \in [1 .. N -> Int] /\ c \in [1 .. N -> Int]
          /\ \A j \in DOMAIN U : a[j] = s.links[j].size - old[j].size
          /\ \A j \in DOMAIN U : c[j] = t.links[j].size - old[j].size
      <3> DEFINE x == s.links
                 y == t.links
      <3>1. x \in [DOMAIN U -> Link] /\ y \in [DOMAIN U -> Link]
        BY <1>3
      <3> HIDE DEF x, y, N
      <3>2. /\ Growth(old, x) \in [1 .. Len(U) -> Int]
            /\ \A j \in DOMAIN U : Growth(old, x)[j] = x[j].size - old[j].size
        BY <1>3, <3>1, GrowthFacts
      <3>3. /\ Growth(old, y) \in [1 .. Len(U) -> Int]
            /\ \A j \in DOMAIN U : Growth(old, y)[j] = y[j].size - old[j].size
        BY <1>3, <3>1, GrowthFacts
      <3> QED
        BY <3>2, <3>3 DEF x, y, N
    <2>3. \A j \in DOMAIN U : s.links[j].size \in Int /\ t.links[j].size \in Int /\ old[j].size \in Int
      BY <1>3 DEF Link
    <2>4. dx \in Int /\ k \in 1 .. N
      BY <1>2, <2>1, <2>3
    <2> HIDE DEF a, c, N
    <2>5. b \in [1 .. N -> Int] /\ b[k] = dx /\ \A j \in 1 .. N : j # k => b[j] = 0
      <3> HIDE DEF dx, k
      <3> QED
        BY <2>4
    <2> HIDE DEF b
    <2>6. ASSUME NEW j \in 1 .. N PROVE c[j] = a[j] + b[j]
      <3> DEFINE x == s.links[j].size
                 y == t.links[j].size
                 z == old[j].size
      <3>1. x \in Int /\ y \in Int /\ z \in Int /\ a[j] = x - z /\ c[j] = y - z
        BY <2>1, <2>2, <2>3
      <3>2. b[j] = y - x
        <4>1. CASE j = k
          BY <2>5, <4>1
        <4>2. CASE j # k
          <5>1. y = x
            BY <2>1, <4>2 DEF Moved
          <5>2. b[j] = 0
            BY <2>5, <4>2
          <5> HIDE DEF x, y
          <5> QED
            BY <3>1, <5>1, <5>2
        <4> QED
          BY <4>1, <4>2
      <3> HIDE DEF x, y, z
      <3> QED
        BY <3>1, <3>2
    <2> HIDE DEF k
    <2>7. /\ N \in Nat /\ a \in [1 .. N -> Int] /\ b \in [1 .. N -> Int] /\ c \in [1 .. N -> Int]
          /\ \A j \in 1 .. N : c[j] = a[j] + b[j]
      BY <2>1, <2>2, <2>5, <2>6
    <2>12. AddUp(N, a, b, c)
      BY <2>7 DEF AddUp
    <2>8. Total(c) = Total(a) + Total(b)
      BY <2>1, <2>12, TotalPlus
    <2>9. Total(b) = dx
      <3>1. b \in [1 .. N -> Int] /\ N \in Nat /\ k \in 1 .. N /\ (\A j \in 1 .. N : j # k => b[j] = 0)
        BY <2>1, <2>4, <2>5
      <3>2. Total(b) = b[k]
        BY ONLY <3>1, TotalOne
      <3> QED
        BY <2>5, <3>2
    <2>10. s.offset = Total(a)
      BY DEF After, a
    <2>11. t.offset = s.offset + dx
      BY DEF Moved, k
    <2> QED
      BY <2>8, <2>9, <2>10, <2>11 DEF c
  <1> HIDE DEF n
  <1>9. After(U, E, old, n, t)
    BY <1>3, <1>5, <1>6, <1>7, <1>8 DEF After
  <1> QED
    BY <1>9 DEF n

\* A pass starts with nothing done.
LEMMA AfterNone ==
    ASSUME NEW U, LinkSequence(U), NEW E, Ordered(U, E), NEW old, Exact(U, old)
    PROVE  After(U, E, old, 0, [links |-> old, offset |-> 0])
  <1> DEFINE s == [links |-> old, offset |-> 0]
             g == Growth(old, old)
             N == Len(U)
  <1>1. old \in [DOMAIN U -> Link]
    BY DEF Exact
  <1>2. s \in PassStates(U) /\ s.links = old /\ s.offset = 0
    BY <1>1 DEF PassStates
  <1>3. Total(g) = 0
    <2>1. /\ g \in [1 .. N -> Int] /\ N \in Nat /\ DOMAIN U = 1 .. N
          /\ \A j \in DOMAIN U : g[j] = old[j].size - old[j].size /\ old[j].size \in Int
      <3>1. N \in Nat /\ DOMAIN U = 1 .. N
        BY DEF LinkSequence
      <3>2. \A j \in DOMAIN U : old[j].size \in Int
        BY <1>1 DEF Link
      <3> QED
        BY <1>1, <3>1, <3>2, GrowthFacts
    <2> HIDE DEF g, N
    <2>2. \A j \in 1 .. N : g[j] = 0
      BY <2>1
    <2>3. g \in [1 .. N -> Int] /\ N \in Nat
      BY <2>1
    <2> QED
      BY ONLY <2>2, <2>3, TotalZero
  <1>4. \A i \in 1 .. 0 : FALSE
    OBVIOUS
  <1> HIDE DEF s
  <1>5. After(U, E, old, 0, s)
    BY <1>2, <1>3, <1>4 DEF After, g
  <1> QED
    BY <1>5 DEF s

\* When all ends are handled every address is exact.
LEMMA AfterAll ==
    ASSUME NEW U, LinkSequence(U), NEW E, Ordered(U, E), NEW old, NEW s, After(U, E, old, Len(E), s)
    PROVE  Exact(U, s.links) /\ s.offset \in Int
  <1>1. s \in PassStates(U)
    BY DEF After
  <1>2. ASSUME NEW e \in EndsOf(U) PROVE ExactAt(U, s.links, e)
    <2>1. PICK i \in 1 .. Len(E) : E[i] = e
      BY DEF Ordered
    <2> QED
      BY <2>1 DEF After
  <1> QED
    BY <1>1, <1>2 DEF Exact, PassStates

-----------------------------------------------------------------------------
(* The whole pass. *)

\* The states of a pass, one for each end and one before.
Passing(h, U, E, old) ==
    /\ h \in [0 .. Len(E) -> PassStates(U)]
    /\ h[0] = [links |-> old, offset |-> 0]
    /\ \A m \in 1 .. Len(E) : h[m] = ShiftEnd(h[m - 1], E[m])

\* Each state of a pass is one that the next step can take.
LEMMA PassingExists ==
    ASSUME NEW U, LinkSequence(U), NEW E, Ordered(U, E), NEW old, Exact(U, old)
    PROVE  \E h : Passing(h, U, E, old)
  <1> DEFINE n == Len(E)
             X == PassStates(U)
             x == [links |-> old, offset |-> 0]
             G == [m \in 1 .. n |-> [s \in X |-> ShiftEnd(s, E[m])]]
  <1>1. n \in Nat /\ \A m \in 1 .. n : E[m] \in EndsOf(U)
    BY DEF Ordered
  <1>2. x \in X
    BY AfterNone DEF After
  <1>3. G \in [1 .. n -> [X -> X]]
    <2> SUFFICES ASSUME NEW m \in 1 .. n, NEW s \in X PROVE ShiftEnd(s, E[m]) \in X
      OBVIOUS
    <2>1. E[m] \in EndsOf(U)
      BY <1>1
    <2>2. Moved(U, s, ShiftEnd(s, E[m]), E[m])
      BY <2>1, ShiftEndFacts
    <2> QED
      BY <2>2 DEF Moved
  <1>4. \A m \in 1 .. n : \A s \in X : G[m][s] = ShiftEnd(s, E[m])
    OBVIOUS
  <1> HIDE DEF G, X, x, n
  <1>5. PICK h : DefinedBy(h, n, X, x, G)
    BY ONLY <1>1, <1>2, <1>3, IntervalRecursion
  <1>6. h \in [0 .. n -> X] /\ h[0] = x
    BY <1>5 DEF DefinedBy
  <1>7. ASSUME NEW m \in 1 .. n PROVE h[m] = ShiftEnd(h[m - 1], E[m])
    <2>1. m - 1 \in 0 .. n
      BY <1>1
    <2>2. h[m - 1] \in X /\ h[m] = G[m][h[m - 1]]
      BY <1>5, <1>6, <2>1 DEF DefinedBy
    <2> QED
      BY <1>4, <2>2
  <1> QED
    BY <1>6, <1>7 DEF Passing, n, X, x

\* The recursive function that Pass chooses.
LEMMA PassIsPassing ==
    ASSUME LinkSequence(Links), Ordered(Links, Ends), Exact(Links, links)
    PROVE  \E h : Passing(h, Links, Ends, links) /\ Pass = h[Len(Ends)]
  <1> DEFINE E == Ends
             n == Len(E)
             x == [links |-> links, offset |-> 0]
             F(h) == [m \in 0 .. n |-> IF m = 0 THEN x ELSE ShiftEnd(h[m - 1], E[m])]
             g == CHOOSE h : h = F(h)
  <1>1. n \in Nat
    BY DEF Ordered
  <1>2. Pass = g[n]
    BY DEF Pass
  <1>3. PICK f : Passing(f, Links, E, links)
    BY PassingExists
  <1>4. f = F(f)
    <2>1. \A m \in 0 .. n : m # 0 => m \in 1 .. n
      BY <1>1
    <2>2. \A m \in 0 .. n : f[m] = F(f)[m]
      BY <1>3, <2>1 DEF Passing
    <2>3. f = [m \in 0 .. n |-> f[m]]
      BY <1>3 DEF Passing
    <2> QED
      BY <2>2, <2>3
  <1>5. g = F(g)
    BY <1>4
  <1> HIDE DEF g, x
  <1>6. \A m \in 0 .. n : g[m] = IF m = 0 THEN x ELSE ShiftEnd(g[m - 1], E[m])
    BY <1>5
  <1> HIDE DEF F, E
  <1>7. g[0] = f[0]
    <2>1. 0 \in 0 .. n
      BY <1>1
    <2> QED
      BY <1>3, <1>6, <2>1 DEF Passing, x, E
  <1>8. ASSUME NEW m \in 1 .. n, g[m - 1] = f[m - 1] PROVE g[m] = f[m]
    <2>1. m \in 0 .. n /\ m # 0
      OBVIOUS
    <2>2. g[m] = ShiftEnd(g[m - 1], E[m])
      BY <1>6, <2>1
    <2>3. f[m] = ShiftEnd(f[m - 1], E[m])
      BY <1>3 DEF Passing
    <2> QED
      BY <1>8, <2>2, <2>3
  <1>9. \A m \in 0 .. n : g[m] = f[m]
    <2> HIDE DEF n
    <2> QED
      BY ONLY <1>1, <1>7, <1>8, IntervalAgreement
  <1> QED
    BY <1>1, <1>2, <1>3, <1>9 DEF E

\* A pass turns addresses that are exact for the old sizes into addresses that are exact for
\* the sizes it chooses.
LEMMA PassIsExact ==
    ASSUME LabelsInv, Exact(Links, links)
    PROVE  Exact(Links, Pass.links) /\ Pass.offset \in Int
  <1> DEFINE U == Links
             E == Ends
             n == Len(E)
  <1>1. LinkSequence(U)
    BY LinksFacts DEF LinkSequence
  <1>2. Ordered(U, E)
    BY <1>1, EndsAreOrdered
  <1>3. PICK h : Passing(h, U, E, links) /\ Pass = h[n]
    BY <1>1, <1>2, PassIsPassing
  <1> DEFINE P == {m \in 0 .. n : After(U, E, links, m, h[m])}
  <1>4. n \in Nat
    BY <1>2 DEF Ordered
  <1>5. Exact(U, links)
    OBVIOUS
  <1> HIDE DEF U, E
  <1>6. 0 \in P
    <2>1. After(U, E, links, 0, [links |-> links, offset |-> 0])
      BY <1>1, <1>2, <1>5, AfterNone
    <2> QED
      BY <1>3, <1>4, <2>1 DEF Passing
  <1>7. ASSUME NEW m \in P, m < n PROVE m + 1 \in P
    <2> DEFINE s == h[m]
               t == h[m + 1]
    <2>1. m \in Nat /\ m + 1 \in 1 .. n /\ m + 1 \in 0 .. n /\ (m + 1) - 1 = m
      BY <1>4, <1>7
    <2>2. After(U, E, links, m, s)
      OBVIOUS
    <2>3. t = ShiftEnd(s, E[m + 1])
      BY <1>3, <2>1 DEF Passing
    <2>4. s \in PassStates(U)
      BY <2>2 DEF After
    <2>5. E[m + 1] \in EndsOf(U)
      BY <1>2, <2>1 DEF Ordered
    <2>6. Moved(U, s, t, E[m + 1])
      BY <2>3, <2>4, <2>5, ShiftEndFacts
    <2> HIDE DEF s
    <2>7. After(U, E, links, m + 1, t)
      BY <1>1, <1>2, <1>5, <1>7, <2>1, <2>2, <2>6, AfterStep
    <2> QED
      BY <2>1, <2>7
  <1>8. n \in P
    <2>1. P \in SUBSET (0 .. n)
      OBVIOUS
    <2> HIDE DEF P, n
    <2> QED
      BY ONLY <1>4, <1>6, <1>7, <2>1, IntervalInduction
  <1>9. After(U, E, links, n, h[n])
    BY <1>8
  <1>10. Exact(U, h[n].links) /\ h[n].offset \in Int
    BY <1>1, <1>2, <1>9, AfterAll
  <1> QED
    BY <1>3, <1>10 DEF U

-----------------------------------------------------------------------------
(* The addresses through the whole function. *)

ExactLinks(U, ls) ==
    /\ ls \in [DOMAIN U -> Link]
    /\ \A k \in DOMAIN ls :
         /\ ls[k].source = U[k].source + Total(Weights(U, ls, EndKey(U[k], "source")))
         /\ ls[k].target = U[k].target + Total(Weights(U, ls, EndKey(U[k], "target")))

\* The same written for each link.
LEMMA ExactLinksFacts ==
    ASSUME NEW U, NEW ls
    PROVE  ExactLinks(U, ls) <=> Exact(U, ls)
  <1>1. ASSUME NEW k \in DOMAIN U, NEW side \in {"source", "target"}
        PROVE  /\ <<k, side>> \in EndsOf(U)
               /\ ExactAt(U, ls, <<k, side>>) <=>
                    Address(ls[k], side) = Address(U[k], side) + Total(Weights(U, ls, EndKey(U[k], side)))
    <2>1. <<k, side>>[1] = k /\ <<k, side>>[2] = side
      OBVIOUS
    <2> QED
      BY <2>1 DEF EndsOf, ExactAt, KeyIn
  <1>2. \A e \in EndsOf(U) : \E k \in DOMAIN U, side \in {"source", "target"} : e = <<k, side>>
    BY DEF EndsOf
  <1>3. \A link : Address(link, "source") = link.source /\ Address(link, "target") = link.target
    BY DEF Address
  <1>4. ASSUME NEW k \in DOMAIN U
        PROVE  /\ ExactAt(U, ls, <<k, "source">>) <=>
                    ls[k].source = U[k].source + Total(Weights(U, ls, EndKey(U[k], "source")))
               /\ ExactAt(U, ls, <<k, "target">>) <=>
                    ls[k].target = U[k].target + Total(Weights(U, ls, EndKey(U[k], "target")))
    <2>1. ExactAt(U, ls, <<k, "source">>) <=>
            ls[k].source = U[k].source + Total(Weights(U, ls, EndKey(U[k], "source")))
      BY <1>1, <1>3
    <2>2. ExactAt(U, ls, <<k, "target">>) <=>
            ls[k].target = U[k].target + Total(Weights(U, ls, EndKey(U[k], "target")))
      BY <1>1, <1>3
    <2> QED
      BY <2>1, <2>2
  <1>5. ASSUME ExactLinks(U, ls) PROVE Exact(U, ls)
    <2>1. ls \in [DOMAIN U -> Link] /\ DOMAIN ls = DOMAIN U
      BY <1>5 DEF ExactLinks
    <2>2. ASSUME NEW k \in DOMAIN U
          PROVE  ExactAt(U, ls, <<k, "source">>) /\ ExactAt(U, ls, <<k, "target">>)
      <3>1. /\ ls[k].source = U[k].source + Total(Weights(U, ls, EndKey(U[k], "source")))
            /\ ls[k].target = U[k].target + Total(Weights(U, ls, EndKey(U[k], "target")))
        BY <1>5, <2>1 DEF ExactLinks
      <3> QED
        BY <1>4, <3>1
    <2>3. ASSUME NEW e \in EndsOf(U) PROVE ExactAt(U, ls, e)
      <3>1. PICK k \in DOMAIN U, side \in {"source", "target"} : e = <<k, side>>
        BY <1>2
      <3>2. CASE side = "source"
        BY <2>2, <3>1, <3>2
      <3>3. CASE side = "target"
        BY <2>2, <3>1, <3>3
      <3> QED
        BY <3>2, <3>3
    <2> QED
      BY <2>1, <2>3 DEF Exact
  <1>6. ASSUME Exact(U, ls) PROVE ExactLinks(U, ls)
    <2>1. ls \in [DOMAIN U -> Link] /\ DOMAIN ls = DOMAIN U
      BY <1>6 DEF Exact
    <2>2. \A k \in DOMAIN U : ExactAt(U, ls, <<k, "source">>) /\ ExactAt(U, ls, <<k, "target">>)
      BY <1>1, <1>6 DEF Exact
    <2> QED
      BY <1>4, <2>1, <2>2 DEF ExactLinks
  <1> QED
    BY <1>5, <1>6

LEMMA InsertedNow == \A key : InsertedBefore(key) = Total(Weights(Links, links, key))
  BY DEF InsertedBefore, Weights, SourceKey

LEMMA LinksInvNow == LinksInv <=> (phase \in {"size", "insert"} => ExactLinks(Links, links))
  BY InsertedNow DEF LinksInv, ExactLinks, Link

LEMMA LinksInvNext == LinksInv' <=> (phase' \in {"size", "insert"} => ExactLinks(Links', links'))
  BY DEF LinksInv, ExactLinks, Link, InsertedBefore, Weights, SourceKey

\* Without sizes nothing is inserted.
LEMMA UnsizedIsExact ==
    ASSUME LabelsInv
    PROVE  Exact(Links, Links)
  <1> DEFINE U == Links
             n == Len(U)
  <1>1. /\ n \in Nat /\ DOMAIN U = 1 .. n /\ U \in [DOMAIN U -> Link]
        /\ \A k \in DOMAIN U : U[k] \in Link /\ U[k].size = 0
    <2>1. U \in Seq(Link) /\ n \in Nat /\ DOMAIN U = 1 .. n
      BY LinksFacts
    <2>2. U \in [1 .. n -> Link]
      <3> HIDE DEF U
      <3> QED
        BY <2>1, LenProperties
    <2> QED
      BY <2>1, <2>2, LinksFacts
  <1> HIDE DEF U, n
  <1>2. ASSUME NEW e \in EndsOf(U) PROVE ExactAt(U, U, e)
    <2> DEFINE w == Weights(U, U, KeyIn(U, e))
               a == Address(U[e[1]], e[2])
    <2>1. w \in [1 .. n -> Int] /\ \A j \in 1 .. n : w[j] = 0
      BY <1>1 DEF Weights
    <2>2. a \in Int
      <3>1. e[1] \in DOMAIN U
        BY DEF EndsOf
      <3>2. U[e[1]] \in Link
        BY <1>1, <3>1
      <3> QED
        BY <3>2 DEF Address, Link
    <2> HIDE DEF w, a
    <2>3. Total(w) = 0
      BY ONLY <1>1, <2>1, TotalZero
    <2>4. a = a + Total(w)
      BY <2>2, <2>3
    <2> QED
      BY <2>4 DEF ExactAt, w, a
  <1>3. Exact(U, U)
    BY <1>1, <1>2 DEF Exact
  <1> QED
    BY <1>3 DEF U

LEMMA SameLinks == ASSUME labels' = labels PROVE Links' = Links
  BY DEF Links

LEMMA InitLinks == Init => LinksInv
  BY DEF Init, LinksInv

\* Every step keeps the addresses exact.
LEMMA LinksNext ==
    ASSUME LabelsInv, LinksInv, [Next]_vars
    PROVE  LinksInv'
  <1>1. CASE LinkLabels
    <2>1. links' = Links /\ Links' = Links
      BY <1>1, SameLinks DEF LinkLabels
    <2>2. ExactLinks(Links', links')
      BY <2>1, UnsizedIsExact, ExactLinksFacts
    <2> QED
      BY <2>2, LinksInvNext
  <1>2. CASE SizePass
    <2>1. links' = Pass.links /\ Links' = Links /\ phase = "size"
      BY <1>2, SameLinks DEF SizePass
    <2>2. Exact(Links, links)
      BY <2>1, LinksInvNow, ExactLinksFacts
    <2>3. ExactLinks(Links', links')
      BY <2>1, <2>2, PassIsExact, ExactLinksFacts
    <2> QED
      BY <2>3, LinksInvNext
  <1>3. CASE links' = links /\ labels' = labels /\ (phase' \in {"size", "insert"} => phase = phase')
    <2>1. Links' = Links
      BY <1>3, SameLinks
    <2>2. phase' \in {"size", "insert"} => ExactLinks(Links', links')
      BY <1>3, <2>1, LinksInvNow
    <2> QED
      BY <2>2, LinksInvNext
  <1>4. CASE phase' \notin {"size", "insert"}
    BY <1>4, LinksInvNext
  <1>5. CASE UNCHANGED vars
    BY <1>3, <1>5 DEF vars
  <1>6. CASE RemovePush \/ MergePops \/ LeaveInstruction
    BY <1>4, <1>6, Zenon DEF RemovePush, MergePops, LeaveInstruction, Edit
  <1>7. CASE EndPeephole
    BY <1>4, <1>7 DEF EndPeephole
  <1>8. CASE SkipNop \/ EncodeInstruction \/ PlaceLabel \/ EncodeJump
    BY <1>4, <1>8, Zenon DEF SkipNop, EncodeInstruction, PlaceLabel, EncodeJump, Advance, Encoding_
  <1>9. CASE InsertDisplacement
    BY <1>3, <1>9, Zenon DEF InsertDisplacement
  <1>10. CASE EndAssembly
    BY <1>4, <1>10 DEF EndAssembly
  <1>11. CASE RunStraight \/ RunJump
    BY <1>4, <1>11 DEF RunStraight, RunJump, GoTo, InTheCode
  <1> QED
    BY <1>1, <1>2, <1>5, <1>6, <1>7, <1>8, <1>9, <1>10, <1>11 DEF Next

LEMMA InsertIsExact == LinksInv => LinksAreExact
  BY DEF LinksInv, LinksAreExact

\* The three invariants together: before, between and after the passes that choose the sizes of
\* the displacements (duckLisp_assemble), every address in the links is the one in the code
\* without displacements plus the sizes chosen so far of all jumps before it.
THEOREM LinksInvariant == Spec => [](PeepholeInv /\ LabelsInv /\ LinksInv)
  <1> DEFINE IInv == PeepholeInv /\ LabelsInv /\ LinksInv
  <1>1. Init => IInv
    BY InitPeephole, InitLabels, InitLinks
  <1>2. IInv /\ [Next]_vars => IInv'
    BY PeepholeNext, LabelsNext, LinksNext
  <1> QED
    BY <1>1, <1>2, PTL DEF Spec

\* When the displacements are inserted, every link's source and target are the addresses in the
\* finished bytecode, whatever the assembly: no pass loses or repeats a shift.
THEOREM AddressesAreExact == Spec => []LinksAreExact
  BY LinksInvariant, InsertIsExact, PTL

-----------------------------------------------------------------------------
(* The opcodes are bytes. *)

\* The table of the opcodes, row by row.
Is(f, class, sizes) == Families[f][1] = class /\ Families[f][2] = sizes

LEMMA FamiliesAt ==
    /\ Is(1, "nop", <<0>>) /\ Is(2, "pushString", Sized) /\ Is(3, "pushBoolean", <<0, 1>>)
    /\ Is(4, "pushInteger", Sized) /\ Is(5, "pushDoubleFloat", <<8>>) /\ Is(6, "pushIndex", Sized)
    /\ Is(7, "pushSymbol", Sized) /\ Is(8, "pushStrippedSymbol", Sized)
    /\ Is(9, "pushUpvalue", Sized) /\ Is(10, "pushClosure", Sized)
    /\ Is(11, "pushVaClosure", Sized) /\ Is(12, "pushGlobal", Sized)
    /\ Is(13, "setUpvalue", Sized) /\ Is(14, "setGlobal", Sized)
    /\ Is(15, "releaseUpvalues", Sized) /\ Is(16, "funcall", Sized) /\ Is(17, "apply", Sized)
    /\ Is(18, "call", Sized) /\ Is(19, "ccall", Sized) /\ Is(20, "acall", Sized)
    /\ Is(21, "jump", Sized) /\ Is(22, "brz", Sized) /\ Is(23, "brnz", Sized)
    /\ Is(24, "move", Sized) /\ Is(25, "not", Sized) /\ Is(26, "mul", Sized)
    /\ Is(27, "div", Sized) /\ Is(28, "add", Sized) /\ Is(29, "sub", Sized)
    /\ Is(30, "equal", Sized) /\ Is(31, "greater", Sized) /\ Is(32, "less", Sized)
    /\ Is(33, "cons", Sized) /\ Is(34, "vector", Sized) /\ Is(35, "makeVector", Sized)
    /\ Is(36, "getVecElt", Sized) /\ Is(37, "setVecElt", Sized) /\ Is(38, "car", Sized)
    /\ Is(39, "cdr", Sized) /\ Is(40, "setCar", Sized) /\ Is(41, "setCdr", Sized)
    /\ Is(42, "nullp", Sized) /\ Is(43, "typeof", Sized) /\ Is(44, "makeType", <<0>>)
    /\ Is(45, "makeInstance", Sized) /\ Is(46, "compositeValue", Sized)
    /\ Is(47, "compositeFunction", Sized) /\ Is(48, "setCompositeValue", Sized)
    /\ Is(49, "setCompositeFunction", Sized) /\ Is(50, "makeString", Sized)
    /\ Is(51, "concatenate", Sized) /\ Is(52, "substring", Sized) /\ Is(53, "length", Sized)
    /\ Is(54, "symbolString", Sized) /\ Is(55, "symbolId", Sized) /\ Is(56, "pop", Sized)
    /\ Is(57, "return", <<0, 1, 2, 4>>) /\ Is(58, "halt", <<0>>) /\ Is(59, "nil", <<0>>)
  BY DEF Families, Is

LEMMA FamiliesFacts ==
    /\ DOMAIN Families = 1 .. 59
    /\ Families = [f \in 1 .. 59 |-> Families[f]]
  BY DEF Families

Few(s) == s \in Seq(Nat) /\ Len(s) <= 4

LEMMA FewSizes ==
    /\ Few(Sized) /\ Few(<<0>>) /\ Few(<<0, 1>>) /\ Few(<<8>>) /\ Few(<<0, 1, 2, 4>>)
  <1>1. Few(Sized)
    BY DEF Few, Sized
  <1>2. Few(<<0>>)
    BY DEF Few
  <1>3. Few(<<0, 1>>)
    BY DEF Few
  <1>4. Few(<<8>>)
    BY DEF Few
  <1>5. Few(<<0, 1, 2, 4>>)
    BY DEF Few
  <1> QED
    BY <1>1, <1>2, <1>3, <1>4, <1>5

LEMMA SizesOfFamilies ==
    ASSUME NEW f \in 1 .. 59
    PROVE  Few(Families[f][2])
  <1>1. CASE f \in 1 .. 10
    <2>1. f = 1 \/ f = 2 \/ f = 3 \/ f = 4 \/ f = 5 \/ f = 6 \/ f = 7 \/ f = 8 \/ f = 9 \/ f = 10
      BY <1>1
    <2>2. Few(Families[1][2])
      <3>1. Is(1, "nop", <<0>>)
        BY FamiliesAt
      <3> QED
        BY <3>1, FewSizes, Zenon DEF Is
    <2>3. Few(Families[3][2])
      <3>1. Is(3, "pushBoolean", <<0, 1>>)
        BY FamiliesAt
      <3> QED
        BY <3>1, FewSizes, Zenon DEF Is
    <2>4. Few(Families[5][2])
      <3>1. Is(5, "pushDoubleFloat", <<8>>)
        BY FamiliesAt
      <3> QED
        BY <3>1, FewSizes, Zenon DEF Is
    <2> QED
      BY <2>1, <2>2, <2>3, <2>4, FewSizes, FamiliesAt DEF Is
  <1>2. CASE f \in 11 .. 20
    <2>1. f = 11 \/ f = 12 \/ f = 13 \/ f = 14 \/ f = 15 \/ f = 16 \/ f = 17 \/ f = 18 \/ f = 19 \/ f = 20
      BY <1>2
    <2> QED
      BY <2>1, FewSizes, FamiliesAt DEF Is
  <1>3. CASE f \in 21 .. 30
    <2>1. f = 21 \/ f = 22 \/ f = 23 \/ f = 24 \/ f = 25 \/ f = 26 \/ f = 27 \/ f = 28 \/ f = 29 \/ f = 30
      BY <1>3
    <2> QED
      BY <2>1, FewSizes, FamiliesAt DEF Is
  <1>4. CASE f \in 31 .. 40
    <2>1. f = 31 \/ f = 32 \/ f = 33 \/ f = 34 \/ f = 35 \/ f = 36 \/ f = 37 \/ f = 38 \/ f = 39 \/ f = 40
      BY <1>4
    <2> QED
      BY <2>1, FewSizes, FamiliesAt DEF Is
  <1>5. CASE f \in 41 .. 50
    <2>1. f = 41 \/ f = 42 \/ f = 43 \/ f = 44 \/ f = 45 \/ f = 46 \/ f = 47 \/ f = 48 \/ f = 49 \/ f = 50
      BY <1>5
    <2>2. Few(Families[44][2])
      <3>1. Is(44, "makeType", <<0>>)
        BY FamiliesAt
      <3> QED
        BY <3>1, FewSizes, Zenon DEF Is
    <2> QED
      BY <2>1, <2>2, FewSizes, FamiliesAt DEF Is
  <1>6. CASE f \in 51 .. 59
    <2>1. f = 51 \/ f = 52 \/ f = 53 \/ f = 54 \/ f = 55 \/ f = 56 \/ f = 57 \/ f = 58 \/ f = 59
      BY <1>6
    <2>2. Few(Families[57][2])
      <3>1. Is(57, "return", <<0, 1, 2, 4>>)
        BY FamiliesAt
      <3> QED
        BY <3>1, FewSizes, Zenon DEF Is
    <2>3. Few(Families[58][2])
      <3>1. Is(58, "halt", <<0>>)
        BY FamiliesAt
      <3> QED
        BY <3>1, FewSizes, Zenon DEF Is
    <2>4. Few(Families[59][2])
      <3>1. Is(59, "nil", <<0>>)
        BY FamiliesAt
      <3> QED
        BY <3>1, FewSizes, Zenon DEF Is
    <2> QED
      BY <2>1, <2>2, <2>3, <2>4, FewSizes, FamiliesAt DEF Is
  <1> QED
    BY <1>1, <1>2, <1>3, <1>4, <1>5, <1>6

\* A flat sequence has every element of the sequences, and at most four for each that has four.
LEMMA FlattenBound ==
    ASSUME NEW T, NEW n \in Nat, NEW ss \in [1 .. n -> Seq(T)],
           \A k \in 1 .. n : Len(ss[k]) <= 4
    PROVE  /\ FlattenSeq(ss) \in Seq(T)
           /\ Len(FlattenSeq(ss)) <= 4 * n
           /\ \A k \in 1 .. n : \A i \in 1 .. Len(ss[k]) : ss[k][i] \in Range(FlattenSeq(ss))
  <1>1. PICK f : Flattens(f, T, n, ss)
    BY FlattenFacts
  <1>2. /\ f \in [0 .. n -> Seq(T)] /\ f[0] = <<>> /\ FlattenSeq(ss) = f[n]
        /\ \A k \in 1 .. n : f[k] = f[k - 1] \o ss[k]
    BY <1>1 DEF Flattens
  <1> DEFINE Has(m) == /\ Len(f[m]) <= 4 * m
                       /\ \A k \in 1 .. m : \A i \in 1 .. Len(ss[k]) : ss[k][i] \in Range(f[m])
             P == {m \in 0 .. n : Has(m)}
  <1>3. 0 \in P
    <2>1. Len(f[0]) = 0
      BY <1>2, EmptySeq
    <2>2. 1 .. 0 = {}
      OBVIOUS
    <2> QED
      BY <2>1, <2>2
  <1>4. ASSUME NEW m \in P, m < n PROVE m + 1 \in P
    <2> DEFINE j == m + 1
    <2>1. m \in 0 .. n /\ j \in 1 .. n /\ j \in 0 .. n /\ j - 1 = m /\ m = j - 1 /\ j = m + 1
      BY <1>4
    <2>2. Has(m)
      OBVIOUS
    <2> HIDE DEF j
    <2> DEFINE u == f[m]
               v == ss[j]
               w == u \o v
    <2>3. u \in Seq(T) /\ v \in Seq(T) /\ f[j] = w /\ Len(v) <= 4 /\ Len(u) <= 4 * m
      BY <1>2, <2>1, <2>2
    <2> HIDE DEF u, v
    <2>4. /\ w \in Seq(T) /\ Len(w) = Len(u) + Len(v) /\ Len(u) \in Nat /\ Len(v) \in Nat
          /\ \A i \in 1 .. Len(u) : w[i] = u[i]
          /\ \A i \in 1 .. Len(v) : w[Len(u) + i] = v[i]
      BY <2>3, ConcatProperties, SeqFacts
    <2> HIDE DEF w
    <2>5. Len(w) <= 4 * j
      BY <2>1, <2>3, <2>4
    <2>6. \A i \in 1 .. Len(v) : v[i] \in Range(w)
      <3> SUFFICES ASSUME NEW i \in 1 .. Len(v) PROVE v[i] \in Range(w)
        OBVIOUS
      <3> DEFINE x == Len(u) + i
      <3>1. x \in 1 .. Len(w) /\ w[x] = v[i]
        BY <2>4
      <3> HIDE DEF x
      <3> QED
        BY <2>4, <3>1, RangeFacts
    <2>7. \A e \in Range(u) : e \in Range(w)
      <3> SUFFICES ASSUME NEW e \in Range(u) PROVE e \in Range(w)
        OBVIOUS
      <3>1. PICK i \in 1 .. Len(u) : u[i] = e
        BY <2>3, RangeFacts
      <3>2. i \in 1 .. Len(w) /\ w[i] = e
        BY <2>4, <3>1
      <3> QED
        BY <2>4, <3>2, RangeFacts
    <2>8. ASSUME NEW k \in 1 .. j, NEW i \in 1 .. Len(ss[k]) PROVE ss[k][i] \in Range(w)
      <3>1. CASE k = j
        BY <2>6, <3>1 DEF v
      <3>2. CASE k # j
        <4>1. k \in 1 .. m
          BY <2>1, <3>2
        <4>2. ss[k][i] \in Range(u)
          BY <2>2, <4>1 DEF u
        <4> QED
          BY <2>7, <4>2
      <3> QED
        BY <3>1, <3>2
    <2>9. Has(j)
      BY <2>3, <2>5, <2>8
    <2>10. j \in P
      BY <2>1, <2>9
    <2> QED
      BY <2>10 DEF j
  <1>5. P \in SUBSET (0 .. n)
    OBVIOUS
  <1>6. n \in P
    <2> HIDE DEF P
    <2> QED
      BY ONLY n \in Nat, <1>3, <1>4, <1>5, IntervalInduction
  <1>7. Has(n) /\ n \in 0 .. n
    BY <1>6
  <1> HIDE DEF P
  <1> QED
    BY <1>2, <1>7

\* The opcodes.
LEMMA OpcodesFacts ==
    /\ Opcodes \in Seq(Range(Opcodes)) /\ Len(Opcodes) <= 236
    /\ \A f \in 1 .. 59 : \A k \in 1 .. Len(Families[f][2]) :
         <<Families[f][1], Families[f][2][k]>> \in Range(Opcodes)
  <1> DEFINE C == {Families[f][1] : f \in 1 .. 59}
             T == C \X Nat
             ss == [f \in DOMAIN Families |->
                      [k \in DOMAIN Families[f][2] |-> <<Families[f][1], Families[f][2][k]>>]]
  <1>1. \A f \in 1 .. 59 : Families[f][2] \in Seq(Nat) /\ Len(Families[f][2]) <= 4
    BY SizesOfFamilies DEF Few
  <1>3. ASSUME NEW f \in 1 .. 59
        PROVE  /\ ss[f] \in Seq(T) /\ Len(ss[f]) <= 4 /\ Len(ss[f]) = Len(Families[f][2])
               /\ \A k \in 1 .. Len(Families[f][2]) : ss[f][k] = <<Families[f][1], Families[f][2][k]>>
    <2> DEFINE s == Families[f][2]
               c == Families[f][1]
               l == Len(s)
               t == ss[f]
    <2>1. s \in Seq(Nat) /\ l <= 4
      BY <1>1
    <2>2. t = [k \in DOMAIN s |-> <<c, s[k]>>]
      BY FamiliesFacts
    <2> HIDE DEF ss, s, t
    <2>3. l \in Nat /\ DOMAIN s = 1 .. l /\ \A k \in 1 .. l : s[k] \in Nat
      BY <2>1, SeqFacts
    <2>4. t = [k \in 1 .. l |-> t[k]] /\ \A k \in 1 .. l : t[k] = <<c, s[k]>>
      BY <2>2, <2>3
    <2>5. \A k \in 1 .. l : t[k] \in T
      <3>1. c \in C
        OBVIOUS
      <3> HIDE DEF c, l, C
      <3> SUFFICES ASSUME NEW k \in 1 .. l PROVE t[k] \in T
        OBVIOUS
      <3> DEFINE x == s[k]
      <3>2. x \in Nat /\ t[k] = <<c, x>>
        BY <2>3, <2>4
      <3> HIDE DEF x
      <3>3. <<c, x>> \in T
        BY <3>1, <3>2
      <3> HIDE DEF T
      <3> QED
        BY <3>2, <3>3
    <2> HIDE DEF T, c, l
    <2>6. t \in Seq(T)
      BY <2>3, <2>4, <2>5, SeqDef
    <2>7. Len(t) = l
      <3>1. DOMAIN t = 1 .. l
        BY <2>4
      <3> QED
        BY <2>3, <2>4, <3>1, FunctionIsSequence
    <2> QED
      BY <2>1, <2>4, <2>6, <2>7 DEF s, t, c, l
  <1> HIDE DEF T
  <1>4. ss \in [1 .. 59 -> Seq(T)]
    <2>1. ss = [f \in 1 .. 59 |-> ss[f]]
      BY FamiliesFacts
    <2> HIDE DEF ss
    <2> QED
      BY <1>3, <2>1
  <1> HIDE DEF ss
  <1> DEFINE n == 59
             flat == FlattenSeq(ss)
  <1>5. /\ flat \in Seq(T) /\ Len(flat) <= 4 * n
        /\ \A k \in 1 .. n : \A i \in 1 .. Len(ss[k]) : ss[k][i] \in Range(flat)
    <2>1. n \in Nat /\ ss \in [1 .. n -> Seq(T)] /\ \A k \in 1 .. n : Len(ss[k]) <= 4
      BY <1>3, <1>4
    <2> HIDE DEF n, flat
    <2> QED
      BY <2>1, FlattenBound DEF flat
  <1>6. Opcodes = flat
    BY DEF Opcodes, ss
  <1> HIDE DEF flat
  <1>7. flat \in Seq(Range(flat))
    BY <1>5, SequenceOf DEF Sequence
  <1>8. Len(flat) <= 236
    BY <1>5
  <1>9. ASSUME NEW f \in 1 .. 59, NEW k \in 1 .. Len(Families[f][2])
        PROVE  <<Families[f][1], Families[f][2][k]>> \in Range(flat)
    <2>1. ss[f][k] = <<Families[f][1], Families[f][2][k]>> /\ Len(ss[f]) = Len(Families[f][2])
      BY <1>3
    <2>2. ss[f][k] \in Range(flat)
      BY <1>5, <2>1
    <2> QED
      BY <2>1, <2>2
  <1> QED
    BY <1>6, <1>7, <1>8, <1>9

Has(f, c, x) == Families[f][1] = c /\ \E k \in 1 .. Len(Families[f][2]) : Families[f][2][k] = x

\* Every class that is encoded has a family with all of its sizes.
LEMMA FamilyOf ==
    ASSUME NEW c \in Classes \ {"label", "internalNop"}, NEW x \in SizesOf(c)
    PROVE  \E f \in 1 .. 59 : Has(f, c, x)
  <1>1. CASE c \in Special
    <2>1. CASE c = "nop"
      <3>1. x = 0
        BY <2>1 DEF SizesOf
      <3>2. Is(1, "nop", <<0>>)
        BY FamiliesAt
      <3>3. Has(1, c, x)
        BY <2>1, <3>1, <3>2 DEF Is, Has
      <3> QED
        BY <3>3
    <2>2. CASE c = "pushBoolean"
      <3>1. x = 0 \/ x = 1
        BY <2>2 DEF SizesOf
      <3>2. Is(3, "pushBoolean", <<0, 1>>)
        BY FamiliesAt
      <3>3. Has(3, c, x)
        BY <2>2, <3>1, <3>2 DEF Is, Has
      <3> QED
        BY <3>3
    <2>3. CASE c = "pushDoubleFloat"
      <3>1. x = 8
        BY <2>3 DEF SizesOf
      <3>2. Is(5, "pushDoubleFloat", <<8>>)
        BY FamiliesAt
      <3>3. Has(5, c, x)
        BY <2>3, <3>1, <3>2 DEF Is, Has
      <3> QED
        BY <3>3
    <2>4. CASE c = "makeType"
      <3>1. x = 0
        BY <2>4 DEF SizesOf
      <3>2. Is(44, "makeType", <<0>>)
        BY FamiliesAt
      <3>3. Has(44, c, x)
        BY <2>4, <3>1, <3>2 DEF Is, Has
      <3> QED
        BY <3>3
    <2>5. CASE c = "return"
      <3>1. x = 0 \/ x = 1 \/ x = 2 \/ x = 4
        BY <2>5 DEF SizesOf
      <3>2. Is(57, "return", <<0, 1, 2, 4>>)
        BY FamiliesAt
      <3>3. Has(57, c, x)
        BY <2>5, <3>1, <3>2 DEF Is, Has
      <3> QED
        BY <3>3
    <2>6. CASE c = "halt"
      <3>1. x = 0
        BY <2>6 DEF SizesOf
      <3>2. Is(58, "halt", <<0>>)
        BY FamiliesAt
      <3>3. Has(58, c, x)
        BY <2>6, <3>1, <3>2 DEF Is, Has
      <3> QED
        BY <3>3
    <2>7. CASE c = "nil"
      <3>1. x = 0
        BY <2>7 DEF SizesOf
      <3>2. Is(59, "nil", <<0>>)
        BY FamiliesAt
      <3>3. Has(59, c, x)
        BY <2>7, <3>1, <3>2 DEF Is, Has
      <3> QED
        BY <3>3
    <2> QED
      BY <1>1, <2>1, <2>2, <2>3, <2>4, <2>5, <2>6, <2>7 DEF Special
  <1>2. CASE c \notin Special
    <2>1. \E f \in 1 .. 59 : Is(f, c, Sized)
      <3>1. CASE c \in {"pushString", "pushInteger", "pushIndex", "pushSymbol", "pushStrippedSymbol",
                             "pushUpvalue", "pushClosure", "pushVaClosure", "pushGlobal"}
        BY <3>1, FamiliesAt
      <3>2. CASE c \in {"setUpvalue", "setGlobal", "releaseUpvalues", "funcall", "apply", "call",
                             "ccall", "acall", "jump"}
        BY <3>2, FamiliesAt
      <3>3. CASE c \in {"brnz", "move", "not", "mul", "div", "add", "sub", "equal", "greater"}
        BY <3>3, FamiliesAt
      <3>4. CASE c \in {"less", "cons", "vector", "makeVector", "getVecElt", "setVecElt", "car",
                             "cdr", "setCar"}
        BY <3>4, FamiliesAt
      <3>5. CASE c \in {"setCdr", "nullp", "typeof", "makeInstance", "compositeValue",
                             "compositeFunction", "setCompositeValue", "setCompositeFunction",
                             "makeString"}
        BY <3>5, FamiliesAt
      <3>6. CASE c \in {"concatenate", "substring", "length", "symbolString", "symbolId", "pop"}
        BY <3>6, FamiliesAt
      <3> QED
        BY <1>2, <3>1, <3>2, <3>3, <3>4, <3>5, <3>6 DEF Classes, Special
    <2>2. x \in {1, 2, 4}
      BY <1>2 DEF SizesOf, Special
    <2>3. \E k \in 1 .. Len(Sized) : Sized[k] = x
      <3>1. Len(Sized) = 3 /\ Sized[1] = 1 /\ Sized[2] = 2 /\ Sized[3] = 4
        BY DEF Sized
      <3> QED
        BY <2>2, <3>1
    <2> QED
      BY <2>1, <2>3 DEF Is, Has
  <1> QED
    BY <1>1, <1>2

\* An opcode is a byte, with room for two more sizes.
LEMMA OpcodeFacts ==
    ASSUME NEW c \in Classes \ {"label", "internalNop"}, NEW x \in SizesOf(c)
    PROVE  Opcode(c, x) \in 0 .. 235
  <1>1. PICK f \in 1 .. 59 : Families[f][1] = c /\ \E k \in 1 .. Len(Families[f][2]) : Families[f][2][k] = x
    BY FamilyOf DEF Has
  <1> DEFINE o == <<c, x>>
  <1>2. o \in Range(Opcodes)
    BY <1>1, OpcodesFacts
  <1> HIDE DEF o
  <1> DEFINE P(n) == n \in DOMAIN Opcodes /\ Opcodes[n] = o
             m == CHOOSE n \in DOMAIN Opcodes : Opcodes[n] = o
  <1>3. m \in DOMAIN Opcodes
    <2>1. \E n \in DOMAIN Opcodes : Opcodes[n] = o
      BY <1>2 DEF Range
    <2> QED
      BY <2>1
  <1>4. m \in 1 .. Len(Opcodes) /\ Len(Opcodes) \in Nat /\ Len(Opcodes) <= 236
    BY <1>3, OpcodesFacts, SeqFacts
  <1>5. OpcodeNumbers[o] = m - 1
    BY <1>2 DEF OpcodeNumbers
  <1> HIDE DEF m
  <1>6. OpcodeNumbers[o] \in 0 .. 235
    BY <1>4, <1>5
  <1> QED
    BY <1>6 DEF o, Opcode

-----------------------------------------------------------------------------
(* Inserting bytes behind a byte that is replaced. *)

\* One sequence, and then another.
Joined(T, a, b, d) ==
    /\ d \in Seq(T)
    /\ Len(d) = Len(a) + Len(b)
    /\ \A n \in 1 .. Len(a) : d[n] = a[n]
    /\ \A n \in 1 .. Len(b) : d[Len(a) + n] = b[n]

LEMMA JoinFacts ==
    ASSUME NEW T, NEW a, a \in Seq(T), NEW b, b \in Seq(T)
    PROVE  Joined(T, a, b, a \o b)
  <1> DEFINE d == a \o b
             m == Len(a)
             n == Len(b)
  <1>1. m \in Nat /\ n \in Nat
    BY SeqFacts
  <1>2. /\ d \in Seq(T) /\ Len(d) = m + n
        /\ \A i \in 1 .. m + n : d[i] = IF i <= m THEN a[i] ELSE b[i - m]
    BY ConcatProperties
  <1> HIDE DEF d, m, n
  <1>3. ASSUME NEW i \in 1 .. m PROVE d[i] = a[i]
    <2>1. i \in 1 .. m + n /\ i <= m
      BY <1>1
    <2> QED
      BY <1>2, <2>1
  <1>4. ASSUME NEW i \in 1 .. n PROVE d[m + i] = b[i]
    <2> DEFINE j == m + i
    <2>1. j \in 1 .. m + n /\ ~(j <= m) /\ j - m = i
      BY <1>1
    <2> HIDE DEF j
    <2>2. d[j] = b[i]
      BY <1>2, <2>1
    <2> QED
      BY <2>2 DEF j
  <1> QED
    BY <1>2, <1>3, <1>4 DEF Joined, d, m, n

Splice(c, s, o, w) == SubSeq(c, 1, s - 1) \o <<o>> \o w \o SubSeq(c, s + 1, Len(c))

\* What was before and behind the byte, and where it is now.
Spliced(T, c, s, m, d) ==
    /\ d \in Seq(T)
    /\ \A n \in 1 .. s - 1 : n \in DOMAIN d /\ d[n] = c[n]
    /\ \A n \in s + 1 .. Len(c) : n + m \in DOMAIN d /\ d[n + m] = c[n]

LEMMA SpliceFacts ==
    ASSUME NEW T, NEW c, c \in Seq(T), NEW s, s \in 1 .. Len(c), NEW o, o \in T, NEW w, w \in Seq(T)
    PROVE  Spliced(T, c, s, Len(w), Splice(c, s, o, w))
  <1> DEFINE l == Len(c)
             m == Len(w)
             a == SubSeq(c, 1, s - 1)
             b == <<o>>
             e == SubSeq(c, s + 1, l)
             ab == a \o b
             abw == ab \o w
             d == abw \o e
  <1>1. l \in Nat /\ s \in Nat /\ 1 <= s /\ s <= l
    BY SeqFacts
  <1>2. m \in Nat
    BY SeqFacts
  <1>3. a \in Seq(T) /\ Len(a) = s - 1 /\ \A n \in 1 .. s - 1 : a[n] = c[n]
    <2> DEFINE j == s - 1
    <2>1. j \in Nat /\ j <= Len(c)
      BY <1>1
    <2> HIDE DEF j
    <2>2. /\ SubSeq(c, 1, j) \in Seq(T) /\ (Len(SubSeq(c, 1, j)) = IF 1 <= j THEN j ELSE 0)
          /\ \A n \in 1 .. j : SubSeq(c, 1, j)[n] = c[n]
      BY <2>1, PrefixFacts
    <2>3. Len(SubSeq(c, 1, j)) = j
      BY <2>1, <2>2
    <2> QED
      BY <2>2, <2>3 DEF j
  <1>4. b \in Seq(T) /\ Len(b) = 1
    OBVIOUS
  <1>5. e \in Seq(T) /\ Len(e) = l - s /\ \A n \in 1 .. l - s : e[n] = c[s + n]
    <2>1. /\ e \in Seq(T) /\ (Len(e) = IF s < l THEN l - s ELSE 0)
          /\ \A n \in 1 .. l - s : e[n] = c[s + n]
      BY <1>1, SuffixFacts
    <2>2. Len(e) = l - s
      BY <1>1, <2>1
    <2> QED
      BY <2>1, <2>2
  <1> HIDE DEF a, b, e, l, m
  <1>6. ab \in Seq(T) /\ Len(ab) = s /\ \A n \in 1 .. s - 1 : ab[n] = c[n]
    <2>1. ab \in Seq(T) /\ Len(ab) = Len(a) + Len(b) /\ \A n \in 1 .. Len(a) : ab[n] = a[n]
      <3>1. Joined(T, a, b, ab)
        BY <1>3, <1>4, JoinFacts
      <3> HIDE DEF ab
      <3> QED
        BY <3>1 DEF Joined
    <2>2. Len(ab) = s
      BY <1>1, <1>3, <1>4, <2>1
    <2>3. ASSUME NEW n \in 1 .. s - 1 PROVE ab[n] = c[n]
      <3>1. n \in 1 .. Len(a)
        BY <1>3
      <3> QED
        BY <1>3, <2>1, <3>1
    <2> QED
      BY <2>1, <2>2, <2>3
  <1> HIDE DEF ab
  <1>7. abw \in Seq(T) /\ Len(abw) = s + m /\ \A n \in 1 .. s - 1 : abw[n] = c[n]
    <2>1. abw \in Seq(T) /\ Len(abw) = Len(ab) + Len(w) /\ \A n \in 1 .. Len(ab) : abw[n] = ab[n]
      <3>1. Joined(T, ab, w, abw)
        BY <1>6, JoinFacts
      <3> HIDE DEF abw
      <3> QED
        BY <3>1 DEF Joined
    <2>2. Len(abw) = s + m
      BY <1>6, <2>1 DEF m
    <2>3. ASSUME NEW n \in 1 .. s - 1 PROVE abw[n] = c[n]
      <3>1. n \in 1 .. Len(ab)
        BY <1>1, <1>6
      <3> QED
        BY <1>6, <2>1, <3>1
    <2> QED
      BY <2>1, <2>2, <2>3
  <1> HIDE DEF abw
  <1>8. /\ d \in Seq(T) /\ Len(d) = l + m
        /\ \A n \in 1 .. s + m : d[n] = abw[n]
        /\ \A n \in 1 .. l - s : d[s + m + n] = e[n]
    <2>1. /\ d \in Seq(T) /\ Len(d) = Len(abw) + Len(e)
          /\ \A n \in 1 .. Len(abw) : d[n] = abw[n]
          /\ \A n \in 1 .. Len(e) : d[Len(abw) + n] = e[n]
      <3>1. Joined(T, abw, e, d)
        BY <1>5, <1>7, JoinFacts
      <3> HIDE DEF d
      <3> QED
        BY <3>1 DEF Joined
    <2>2. Len(d) = l + m
      BY <1>1, <1>2, <1>5, <1>7, <2>1
    <2>3. ASSUME NEW n \in 1 .. s + m PROVE d[n] = abw[n]
      BY <1>7, <2>1
    <2>4. ASSUME NEW n \in 1 .. l - s PROVE d[s + m + n] = e[n]
      <3>1. n \in 1 .. Len(e)
        BY <1>5
      <3> QED
        BY <1>7, <2>1, <3>1
    <2> QED
      BY <2>1, <2>2, <2>3, <2>4
  <1> HIDE DEF d
  <1>9. DOMAIN d = 1 .. l + m
    BY <1>8, SeqFacts
  <1>10. \A n \in 1 .. s - 1 : n \in DOMAIN d /\ d[n] = c[n]
    <2> SUFFICES ASSUME NEW n \in 1 .. s - 1 PROVE n \in DOMAIN d /\ d[n] = c[n]
      OBVIOUS
    <2>1. n \in 1 .. s + m /\ n \in 1 .. l + m
      BY <1>1, <1>2
    <2> QED
      BY <1>7, <1>8, <1>9, <2>1
  <1>11. \A n \in s + 1 .. l : n + m \in DOMAIN d /\ d[n + m] = c[n]
    <2> SUFFICES ASSUME NEW n \in s + 1 .. l PROVE n + m \in DOMAIN d /\ d[n + m] = c[n]
      OBVIOUS
    <2> DEFINE k == n - s
    <2>1. k \in 1 .. l - s /\ n = s + k /\ n + m \in 1 .. l + m /\ s + m + k = n + m
      BY <1>1, <1>2
    <2> HIDE DEF k
    <2>2. d[s + m + k] = e[k] /\ e[k] = c[s + k]
      BY <1>5, <1>8, <2>1
    <2> QED
      BY <1>9, <2>1, <2>2
  <1>12. Splice(c, s, o, w) = d
    BY DEF Splice, d, abw, ab, a, b, e, l
  <1> QED
    BY <1>8, <1>10, <1>11, <1>12 DEF Spliced, l, m

-----------------------------------------------------------------------------
(* What is inserted before an opcode. *)

LEMMA TotalNat ==
    ASSUME NEW n \in Nat, NEW w, w \in [1 .. n -> Nat]
    PROVE  Total(w) \in Nat
  <1>0. w \in [1 .. n -> Int]
    OBVIOUS
  <1>1. PICK f : Sums(f, n, w)
    BY <1>0, SumsExist
  <1> DEFINE P == {k \in 0 .. n : f[k] \in Nat}
  <1>2. 0 \in P
    BY <1>1 DEF Sums
  <1>3. ASSUME NEW k \in P, k < n PROVE k + 1 \in P
    <2> DEFINE j == k + 1
    <2>1. j \in 1 .. n /\ j \in 0 .. n /\ j - 1 = k /\ f[k] \in Nat
      BY <1>3
    <2> HIDE DEF j
    <2>2. f[j] = f[k] + w[j] /\ w[j] \in Nat
      BY <1>1, <2>1 DEF Sums
    <2>3. j \in P
      BY <2>1, <2>2
    <2> QED
      BY <2>3 DEF j
  <1>4. P \in SUBSET (0 .. n)
    OBVIOUS
  <1>5. n \in P
    <2> HIDE DEF P
    <2> QED
      BY ONLY n \in Nat, <1>2, <1>3, <1>4, IntervalInduction
  <1> QED
    BY <1>1, <1>5 DEF Sums

LEMMA TotalMonotone ==
    ASSUME NEW n \in Nat, NEW a, a \in [1 .. n -> Int], NEW b, b \in [1 .. n -> Int],
           \A j \in 1 .. n : a[j] <= b[j]
    PROVE  Total(a) \in Int /\ Total(b) \in Int /\ Total(a) <= Total(b)
  <1> DEFINE c == [j \in 1 .. n |-> b[j] - a[j]]
  <1>1. c \in [1 .. n -> Nat] /\ c \in [1 .. n -> Int] /\ \A j \in 1 .. n : b[j] = a[j] + c[j]
    OBVIOUS
  <1> HIDE DEF c
  <1>2. Total(a) \in Int /\ Total(b) \in Int /\ Total(c) \in Nat
    BY <1>1, TotalType, TotalNat
  <1>3. AddUp(n, a, c, b)
    BY <1>1 DEF AddUp
  <1>4. Total(b) = Total(a) + Total(c)
    BY <1>3, TotalPlus
  <1> QED
    BY <1>2, <1>4

Widths(U, L, k, n) ==
    [j \in DOMAIN L |-> IF j < n /\ U[j].source < U[k].source THEN L[j].size ELSE 0]
Position(U, L, k, n) == U[k].source + Total(Widths(U, L, k, n))

Waits(c, n) == n \in DOMAIN c /\ c[n] \in Awaiting

\* Links with sizes.
SizedLinks(U, L) ==
    /\ LinkSequence(U)
    /\ DOMAIN L = DOMAIN U
    /\ \A j \in DOMAIN L : L[j].size \in Nat

\* What w says of the links before the n-th: which of them insert something before the k-th.
Measured(U, L, k, n, N, w) ==
    /\ w \in [1 .. N -> Nat]
    /\ w \in [1 .. N -> Int]
    /\ \A j \in 1 .. N : w[j] = IF j < n /\ U[j].source < U[k].source THEN L[j].size ELSE 0

\* The numbers that links hold.
Numbered(U, L, N) ==
    /\ N \in Nat
    /\ \A j \in 1 .. N : j \in Int /\ U[j].source \in Int /\ L[j].size \in Nat

LEMMA NumberedFacts ==
    ASSUME NEW U, NEW L, SizedLinks(U, L)
    PROVE  Numbered(U, L, Len(U)) /\ DOMAIN U = 1 .. Len(U) /\ DOMAIN L = 1 .. Len(U)
  <1> DEFINE N == Len(U)
  <1>1. N \in Nat /\ DOMAIN U = 1 .. N /\ DOMAIN L = 1 .. N /\ \A j \in 1 .. N : U[j] \in Link
    BY DEF SizedLinks, LinkSequence
  <1>2. \A j \in 1 .. N : U[j].source \in Int /\ L[j].size \in Nat
    BY <1>1 DEF Link, SizedLinks
  <1>3. \A j \in 1 .. N : j \in Int
    BY <1>1
  <1> HIDE DEF N
  <1>4. Numbered(U, L, N) /\ DOMAIN U = 1 .. N /\ DOMAIN L = 1 .. N
    BY <1>1, <1>2, <1>3 DEF Numbered
  <1> QED
    BY <1>4 DEF N

LEMMA WidthsFacts ==
    ASSUME NEW U, NEW L, SizedLinks(U, L), NEW k, k \in DOMAIN U, NEW n, n \in Int
    PROVE  /\ Measured(U, L, k, n, Len(U), Widths(U, L, k, n))
           /\ Position(U, L, k, n) \in Int
  <1> DEFINE N == Len(U)
             w == Widths(U, L, k, n)
  <1>1. Numbered(U, L, N) /\ DOMAIN U = 1 .. N /\ DOMAIN L = 1 .. N
    BY NumberedFacts
  <1>2. w = [j \in 1 .. N |-> IF j < n /\ U[j].source < U[k].source THEN L[j].size ELSE 0]
    BY <1>1 DEF Widths
  <1> HIDE DEF N, w
  <1>3. Measured(U, L, k, n, N, w)
    BY <1>1, <1>2 DEF Measured, Numbered
  <1>4. Total(w) \in Int
    BY <1>1, <1>3, TotalType DEF Measured, Numbered
  <1>5. U[k].source + Total(w) \in Int
    BY <1>1, <1>4 DEF Numbered
  <1> QED
    BY <1>3, <1>5 DEF N, w, Position

\* One more displacement moves the opcodes behind it, and no other.
LEMMA PositionMoves ==
    ASSUME NEW U, NEW L, SizedLinks(U, L), NEW k \in DOMAIN U, NEW a \in DOMAIN U
    PROVE  Position(U, L, k, a + 1) =
             Position(U, L, k, a) + IF U[a].source < U[k].source THEN L[a].size ELSE 0
  <1> DEFINE N == Len(U)
             b == a + 1
             v == Widths(U, L, k, a)
             w == Widths(U, L, k, b)
             x == IF U[a].source < U[k].source THEN L[a].size ELSE 0
             d == [j \in 1 .. N |-> IF j = a THEN x ELSE 0]
  <1>0. Numbered(U, L, N) /\ DOMAIN U = 1 .. N
    BY NumberedFacts
  <1>1. a \in Int /\ b \in Int /\ b = a + 1 /\ a \in 1 .. N /\ N \in Nat /\ k \in 1 .. N
    BY <1>0 DEF Numbered
  <1> HIDE DEF b
  <1>2. Measured(U, L, k, a, N, v)
    BY <1>1, WidthsFacts
  <1>3. Measured(U, L, k, b, N, w)
    BY <1>1, WidthsFacts
  <1>4. x \in Int
    BY <1>0, <1>1 DEF Numbered
  <1> HIDE DEF v, w, N
  <1>5. d \in [1 .. N -> Int] /\ d[a] = x /\ \A j \in 1 .. N : j # a => d[j] = 0
    BY <1>1, <1>4
  <1> HIDE DEF d
  <1>6. ASSUME NEW j \in 1 .. N PROVE w[j] = v[j] + d[j]
    <2>1. /\ v[j] = IF j < a /\ U[j].source < U[k].source THEN L[j].size ELSE 0
          /\ w[j] = IF j < b /\ U[j].source < U[k].source THEN L[j].size ELSE 0
          /\ L[j].size \in Int /\ j \in Int
      BY <1>0, <1>2, <1>3 DEF Measured, Numbered
    <2>2. CASE j = a
      <3>1. v[j] = 0 /\ d[j] = x
        BY <1>1, <1>5, <2>1, <2>2
      <3>2. w[j] = x
        BY <1>1, <2>1, <2>2
      <3> QED
        BY <1>4, <3>1, <3>2
    <2>3. CASE j # a
      <3>1. d[j] = 0
        BY <1>5, <2>3
      <3>2. j < b <=> j < a
        BY <1>1, <2>1, <2>3
      <3>3. w[j] = v[j] /\ v[j] \in Int
        BY <2>1, <3>2
      <3> QED
        BY <3>1, <3>3
    <2> QED
      BY <2>2, <2>3
  <1> HIDE DEF x
  <1>7. v \in [1 .. N -> Int] /\ w \in [1 .. N -> Int]
    BY <1>2, <1>3 DEF Measured
  <1>8. AddUp(N, v, d, w)
    BY <1>5, <1>6, <1>7 DEF AddUp
  <1>9. Total(w) = Total(v) + Total(d) /\ Total(v) \in Int
    BY <1>1, <1>7, <1>8, TotalPlus, TotalType
  <1>10. Total(d) = x
    BY <1>1, <1>5, TotalOne
  <1>11. U[k].source + Total(w) = (U[k].source + Total(v)) + x
    <2>1. U[k].source \in Int
      BY <1>0, <1>1 DEF Numbered
    <2> QED
      BY <1>4, <1>9, <1>10, <2>1
  <1> QED
    BY <1>11 DEF Position, v, w, b, x

\* The opcodes stay in the order of their sources.
LEMMA PositionsInOrder ==
    ASSUME NEW U, NEW L, SizedLinks(U, L), NEW k \in DOMAIN U, NEW m \in DOMAIN U, NEW n \in Int,
           U[k].source < U[m].source
    PROVE  Position(U, L, k, n) < Position(U, L, m, n)
  <1> DEFINE N == Len(U)
             v == Widths(U, L, k, n)
             w == Widths(U, L, m, n)
  <1>1. Numbered(U, L, N) /\ k \in 1 .. N /\ m \in 1 .. N
    BY NumberedFacts
  <1>2. Measured(U, L, k, n, N, v)
    BY WidthsFacts
  <1>3. Measured(U, L, m, n, N, w)
    BY WidthsFacts
  <1> HIDE DEF v, w, N
  <1>4. U[k].source \in Int /\ U[m].source \in Int
    BY <1>1 DEF Numbered
  <1>5. ASSUME NEW j \in 1 .. N PROVE v[j] <= w[j]
    <2>1. /\ v[j] = IF j < n /\ U[j].source < U[k].source THEN L[j].size ELSE 0
          /\ w[j] = IF j < n /\ U[j].source < U[m].source THEN L[j].size ELSE 0
          /\ L[j].size \in Nat /\ U[j].source \in Int
      BY <1>1, <1>2, <1>3 DEF Measured, Numbered
    <2>2. U[j].source < U[k].source => U[j].source < U[m].source
      BY <1>4, <2>1
    <2>3. CASE j < n /\ U[j].source < U[k].source
      <3>1. v[j] = L[j].size /\ w[j] = L[j].size
        BY <2>1, <2>2, <2>3
      <3> QED
        BY <2>1, <3>1
    <2>4. CASE ~(j < n /\ U[j].source < U[k].source)
      <3>1. v[j] = 0 /\ w[j] \in Nat
        BY <2>1, <2>4
      <3> QED
        BY <3>1
    <2> QED
      BY <2>3, <2>4
  <1>6. Total(v) \in Int /\ Total(w) \in Int /\ Total(v) <= Total(w)
    BY <1>1, <1>2, <1>3, <1>5, TotalMonotone DEF Measured, Numbered
  <1>7. U[k].source + Total(v) < U[m].source + Total(w)
    BY <1>4, <1>6
  <1> QED
    BY <1>7 DEF Position, v, w

\* An insertion leaves every opcode that still waits where its link expects it.
LEMMA InsertionKeeps ==
    ASSUME NEW U, NEW L, SizedLinks(U, L), NEW c \in Seq(Byte), NEW a \in DOMAIN U,
           \A k \in a .. Len(U) : Waits(c, Position(U, L, k, a)),
           NEW o \in Byte, NEW w \in Seq(Byte), Len(w) = L[a].size
    PROVE  /\ Splice(c, Position(U, L, a, a), o, w) \in Seq(Byte)
           /\ \A k \in a + 1 .. Len(U) :
                Waits(Splice(c, Position(U, L, a, a), o, w), Position(U, L, k, a + 1))
  <1> DEFINE N == Len(U)
             s == Position(U, L, a, a)
             d == Splice(c, s, o, w)
  <1>0. Numbered(U, L, N) /\ DOMAIN U = 1 .. N
    BY NumberedFacts
  <1>1. N \in Nat /\ DOMAIN U = 1 .. N /\ a \in 1 .. N /\ a \in Int
    BY <1>0 DEF Numbered
  <1>2. \A k \in 1 .. N : Position(U, L, k, a) \in Int /\ U[k].source \in Int /\ L[k].size \in Nat
    BY <1>0, <1>1, WidthsFacts DEF Numbered
  <1>3. DOMAIN c = 1 .. Len(c) /\ Len(c) \in Nat
    BY SeqFacts
  <1>4. s \in 1 .. Len(c)
    <2>1. a \in a .. N
      BY <1>1
    <2> QED
      BY <1>3, <2>1 DEF Waits
  <1> HIDE DEF s
  <1>5. /\ d \in Seq(Byte)
        /\ \A n \in 1 .. s - 1 : n \in DOMAIN d /\ d[n] = c[n]
        /\ \A n \in s + 1 .. Len(c) : n + Len(w) \in DOMAIN d /\ d[n + Len(w)] = c[n]
    <2> DEFINE l == Len(w)
    <2>1. Spliced(Byte, c, s, l, d)
      BY <1>4, SpliceFacts
    <2> HIDE DEF d, l
    <2>2. /\ d \in Seq(Byte)
          /\ \A n \in 1 .. s - 1 : n \in DOMAIN d /\ d[n] = c[n]
          /\ \A n \in s + 1 .. Len(c) : n + l \in DOMAIN d /\ d[n + l] = c[n]
      BY <2>1 DEF Spliced
    <2> QED
      BY <2>2 DEF l
  <1> HIDE DEF d
  <1>6. ASSUME NEW k \in a + 1 .. N PROVE Waits(d, Position(U, L, k, a + 1))
    <2> DEFINE p == Position(U, L, k, a)
               q == Position(U, L, k, a + 1)
    <2>1. k \in 1 .. N /\ k \in a .. N /\ k # a
      BY <1>1
    <2>2. p \in Int /\ p \in 1 .. Len(c) /\ c[p] \in Awaiting
      BY <1>2, <1>3, <2>1 DEF Waits
    <2>3. q = p + IF U[a].source < U[k].source THEN L[a].size ELSE 0
      BY <1>1, <2>1, PositionMoves
    <2>4. U[a].source # U[k].source
      BY <1>1, <2>1 DEF SizedLinks, LinkSequence
    <2>5. CASE U[a].source < U[k].source
      <3>1. s < p
        BY <1>1, <2>1, <2>5, PositionsInOrder DEF s
      <3> HIDE DEF p, q
      <3>2. q = p + Len(w) /\ p \in s + 1 .. Len(c)
        BY <1>4, <2>2, <2>3, <2>5, <3>1
      <3>3. q \in DOMAIN d /\ d[q] = c[p]
        BY <1>5, <3>2
      <3>4. Waits(d, q)
        BY <2>2, <3>3 DEF Waits
      <3> QED
        BY <3>4 DEF q
    <2>6. CASE U[k].source < U[a].source
      <3>1. p < s
        BY <1>1, <2>1, <2>6, PositionsInOrder DEF s
      <3>2. ~(U[a].source < U[k].source)
        BY <1>1, <1>2, <2>1, <2>6
      <3> HIDE DEF p, q
      <3>3. q = p /\ p \in 1 .. s - 1
        BY <1>4, <2>2, <2>3, <3>1, <3>2
      <3>4. Waits(d, q)
        BY <1>5, <2>2, <3>3 DEF Waits
      <3> QED
        BY <3>4 DEF q
    <2> QED
      BY <1>1, <1>2, <2>1, <2>4, <2>5, <2>6
  <1> QED
    BY <1>5, <1>6 DEF s, d

-----------------------------------------------------------------------------
(* Every displacement goes behind the opcode of a jump that waits for one. *)

\* Every source of every label is such an opcode.
SourcesWait(f, c) ==
    \A l \in DOMAIN f : \A i \in DOMAIN f[l].sources : Waits(c, f[l].sources[i])

\* The opcodes of the links from the a-th on.
RestWaits(U, L, c, a) == \A k \in a .. Len(L) : Waits(c, Position(U, L, k, a))

\* What was there is still there.
Kept(c, d) == \A n \in DOMAIN c : n \in DOMAIN d /\ d[n] = c[n]

LEMMA OpcodesParts ==
    OpcodesInv <=>
      /\ code \in Seq(Byte)
      /\ phase \in {"peephole", "encode"} => SourcesWait(labels, code)
      /\ phase \in {"size", "insert"} => RestWaits(Links, links, code, at)
  <1>1. \A n : AwaitsAt(n) <=> Waits(code, n)
    BY DEF AwaitsAt, Waits
  <1>2. \A k, n : OpcodeOf(k, n) = Position(Links, links, k, n)
    BY DEF OpcodeOf, Inserted, Position, Widths
  <1> QED
    BY <1>1, <1>2 DEF OpcodesInv, SourcesWait, RestWaits, Byte

LEMMA OpcodesPartsNext ==
    OpcodesInv' <=>
      /\ code' \in Seq(Byte)
      /\ phase' \in {"peephole", "encode"} => SourcesWait(labels', code')
      /\ phase' \in {"size", "insert"} => RestWaits(Links', links', code', at')
  <1>1. \A n : AwaitsAt(n)' <=> Waits(code', n)
    BY DEF AwaitsAt, Waits, Awaiting
  <1>2. \A k, n : OpcodeOf(k, n)' = Position(Links', links', k, n)
    BY DEF OpcodeOf, Inserted, Position, Widths
  <1> QED
    BY <1>1, <1>2 DEF OpcodesInv, SourcesWait, RestWaits, Byte

\* The opcodes of jumps without displacements.
LEMMA AwaitingFacts ==
    /\ \A o \in Awaiting : o \in 0 .. 235
    /\ \A c \in Labelled : Opcode(c, 1) \in Awaiting
  <1>1. ASSUME NEW c \in Labelled PROVE Opcode(c, 1) \in 0 .. 235
    <2>1. c \in Classes \ {"label", "internalNop"}
      BY DEF Labelled, Branches, ClosurePushes, Classes
    <2>2. 1 \in SizesOf(c)
      BY DEF Labelled, Branches, ClosurePushes, SizesOf
    <2> QED
      BY <2>1, <2>2, OpcodeFacts
  <1> QED
    BY <1>1 DEF Awaiting

LEMMA SourcesKept ==
    ASSUME NEW f, NEW c, NEW d, SourcesWait(f, c), Kept(c, d)
    PROVE  SourcesWait(f, d)
  BY DEF SourcesWait, Kept, Waits

\* What is emitted.
LEMMA EmitBytes ==
    ASSUME code \in Seq(Byte), NEW i, WellFormed(i), i.class \notin {"label", "internalNop"}, Emit(i)
    PROVE  /\ code' \in Seq(Byte) /\ Len(code) \in Nat /\ Kept(code, code')
           /\ Len(code) + 1 \in DOMAIN code'
           /\ code'[Len(code) + 1] = Opcode(i.class, Encode(i).size)
  <1> DEFINE e == Encode(i).operands
             o == Opcode(i.class, Encode(i).size)
             s == code
             t == <<o>>
             u == s \o t
             v == u \o e
             n == Len(s)
  <1>1. code' = v
    BY DEF Emit
  <1>2. i.class \in Classes \ {"label", "internalNop"}
    BY DEF WellFormed
  <1>3. e \in Seq(Byte) /\ Encode(i).size \in SizesOf(i.class)
    BY EncodeFacts DEF IsEncoded, Bytes
  <1>4. o \in Byte
    <2>1. o \in 0 .. 235
      BY <1>2, <1>3, OpcodeFacts
    <2> HIDE DEF o
    <2> QED
      BY <2>1 DEF Byte
  <1> HIDE DEF e, o
  <1>5. t \in Seq(Byte) /\ Len(t) = 1 /\ t[1] = o
    BY <1>4
  <1>6. n \in Nat /\ DOMAIN s = 1 .. n /\ s \in Seq(Byte)
    BY SeqFacts
  <1> HIDE DEF s, t, n
  <1>7. Joined(Byte, s, t, u)
    BY <1>5, <1>6, JoinFacts
  <1> HIDE DEF u
  <1>8. u \in Seq(Byte) /\ Len(u) = n + 1 /\ (\A k \in 1 .. n : u[k] = s[k]) /\ u[n + 1] = o
    <2>1. 1 \in 1 .. Len(t)
      BY <1>5
    <2>2. u[Len(s) + 1] = t[1]
      BY <1>7, <2>1 DEF Joined
    <2> QED
      BY <1>5, <1>7, <2>2 DEF Joined, n
  <1>9. Joined(Byte, u, e, v)
    BY <1>3, <1>8, JoinFacts
  <1>10. Len(e) \in Nat
    BY <1>3, SeqFacts
  <1> HIDE DEF v
  <1>11. v \in Seq(Byte) /\ Len(v) = (n + 1) + Len(e) /\ \A k \in 1 .. n + 1 : v[k] = u[k]
    BY <1>8, <1>9 DEF Joined
  <1>12. DOMAIN v = 1 .. Len(v)
    BY <1>11, SeqFacts
  <1>13. \A k \in 1 .. n : k \in DOMAIN v /\ v[k] = s[k]
    <2> SUFFICES ASSUME NEW k \in 1 .. n PROVE k \in DOMAIN v /\ v[k] = s[k]
      OBVIOUS
    <2>1. k \in 1 .. n + 1 /\ k \in 1 .. (n + 1) + Len(e)
      BY <1>6, <1>10
    <2> QED
      BY <1>8, <1>11, <1>12, <2>1
  <1>14. n + 1 \in DOMAIN v /\ v[n + 1] = o
    <2>1. n + 1 \in 1 .. n + 1 /\ n + 1 \in 1 .. (n + 1) + Len(e)
      BY <1>6, <1>10
    <2> QED
      BY <1>8, <1>11, <1>12, <2>1
  <1>15. Kept(s, v)
    BY <1>6, <1>13 DEF Kept
  <1> QED
    BY <1>1, <1>6, <1>11, <1>14, <1>15 DEF s, n, o

LEMMA InitOpcodes == Init => OpcodesInv
  <1> SUFFICES ASSUME Init PROVE OpcodesInv
    OBVIOUS
  <1>1. code = <<>> /\ phase = "peephole"
    BY DEF Init
  <1>2. code \in Seq(Byte)
    <2>1. <<>> \in Seq(Byte)
      BY EmptySeq
    <2> QED
      BY <1>1, <2>1
  <1>3. \A l \in DOMAIN labels : labels[l].sources = <<>>
    BY DEF Init
  <1>4. DOMAIN <<>> = {}
    OBVIOUS
  <1>5. SourcesWait(labels, code)
    BY <1>3, <1>4 DEF SourcesWait
  <1> QED
    BY <1>1, <1>2, <1>5, OpcodesParts

LEMMA EncodeInstructionOpcodes ==
    ASSUME PeepholeInv, OpcodesInv, EncodeInstruction
    PROVE  OpcodesInv'
  <1>1. /\ Encoding_ /\ phase = "encode" /\ assembly[at].class \notin {"label", "internalNop"}
        /\ Emit(assembly[at]) /\ UNCHANGED <<phase, labels>>
    BY DEF EncodeInstruction, Encoding_, Advance
  <1>2. WellFormed(assembly[at])
    BY <1>1, AtOne
  <1>3. code \in Seq(Byte) /\ SourcesWait(labels, code)
    BY <1>1, OpcodesParts
  <1>4. code' \in Seq(Byte) /\ Kept(code, code')
    BY <1>1, <1>2, <1>3, EmitBytes
  <1>5. SourcesWait(labels, code')
    BY <1>3, <1>4, SourcesKept
  <1> QED
    BY <1>1, <1>4, <1>5, OpcodesPartsNext

\* The new source of a label.
LEMMA SourceAdded ==
    ASSUME NEW f, f \in [DOMAIN f -> Label], NEW c, SourcesWait(f, c), NEW l \in DOMAIN f,
           NEW n \in Nat, Waits(c, n)
    PROVE  SourcesWait([f EXCEPT ![l].sources = Append(f[l].sources, n)], c)
  <1> DEFINE old == f[l].sources
             new == Append(old, n)
             g == [f EXCEPT ![l].sources = new]
  <1>1. old \in Seq(Nat)
    BY DEF Label
  <1>2. \A i \in DOMAIN old : Waits(c, old[i])
    BY DEF SourcesWait
  <1>3. DOMAIN g = DOMAIN f /\ (\A m \in DOMAIN f : m # l => g[m] = f[m]) /\ g[l].sources = new
    <2>1. f[l] \in Label
      OBVIOUS
    <2>2. g[l] = [f[l] EXCEPT !.sources = new]
      OBVIOUS
    <2> HIDE DEF new
    <2> QED
      BY <2>1, <2>2 DEF Label
  <1> HIDE DEF old, g
  <1>4. \A i \in DOMAIN new : Waits(c, new[i])
    <2>1. /\ Len(old) \in Nat /\ DOMAIN old = 1 .. Len(old)
          /\ DOMAIN new = 1 .. Len(old) + 1
          /\ \A i \in 1 .. Len(old) : new[i] = old[i]
          /\ new[Len(old) + 1] = n
      BY <1>1, AppendFacts, SeqFacts
    <2> HIDE DEF new
    <2> SUFFICES ASSUME NEW i \in DOMAIN new PROVE Waits(c, new[i])
      OBVIOUS
    <2>2. i \in 1 .. Len(old) \/ i = Len(old) + 1
      BY <2>1
    <2> QED
      BY <1>2, <2>1, <2>2
  <1> HIDE DEF new
  <1>5. SourcesWait(g, c)
    BY <1>3, <1>4 DEF SourcesWait
  <1> QED
    BY <1>5 DEF g, new, old

LEMMA EncodeJumpOpcodes ==
    ASSUME PeepholeInv, LabelsInv, OpcodesInv, EncodeJump
    PROVE  OpcodesInv'
  <1> DEFINE l == assembly[at].args[1]
             n == Len(code) + 1
             f == labels
             g == [f EXCEPT ![l].sources = Append(f[l].sources, n)]
  <1>1. /\ Encoding_ /\ phase = "encode" /\ assembly[at].class \in Labelled
        /\ labels' = g /\ UNCHANGED <<phase, assembly>>
        /\ Emit(assembly[at])
    BY DEF EncodeJump, Encoding_, Advance
  <1>2. WellFormed(assembly[at]) /\ at \in DOMAIN assembly
    BY <1>1, AtOne
  <1>3. f \in [DOMAIN f -> Label] /\ l \in DOMAIN f
    BY <1>1, <1>2, LabelsParts DEF Placed
  <1>4. code \in Seq(Byte) /\ SourcesWait(f, code)
    BY <1>1, OpcodesParts
  <1>5. /\ code' \in Seq(Byte) /\ n \in Nat /\ Kept(code, code')
        /\ n \in DOMAIN code' /\ code'[n] = Opcode(assembly[at].class, Encode(assembly[at]).size)
    <2>1. assembly[at].class \notin {"label", "internalNop"}
      BY <1>1 DEF Labelled, Branches, ClosurePushes
    <2> QED
      BY <1>1, <1>2, <1>4, <2>1, EmitBytes
  <1>6. Waits(code', n)
    <2>1. Encode(assembly[at]).size = 1
      BY <1>1, <1>2, EncodeBranchFacts
    <2> QED
      BY <1>1, <1>5, <2>1, AwaitingFacts DEF Waits
  <1> HIDE DEF l, n, f
  <1>7. SourcesWait(f, code')
    BY <1>4, <1>5, SourcesKept
  <1>8. SourcesWait(g, code')
    BY <1>3, <1>5, <1>6, <1>7, SourceAdded
  <1> QED
    BY <1>1, <1>5, <1>8, OpcodesPartsNext

\* Every link's source is the source of a label.
LEMMA LinksWait ==
    ASSUME LabelsInv, NEW c, SourcesWait(labels, c)
    PROVE  \A k \in DOMAIN Links : Waits(c, Links[k].source)
  <1> DEFINE T == {x \in Link : Waits(c, x.source)}
             n == Cardinality(DOMAIN labels)
             ss == [l \in 1 .. n |-> [i \in DOMAIN labels[l].sources |->
                      [source |-> labels[l].sources[i], target |-> labels[l].target, size |-> 0]]]
  <1>1. n \in Nat /\ DOMAIN labels = 1 .. n /\ labels \in [1 .. n -> Label]
    BY LabelsParts
  <1>2. ASSUME NEW l \in 1 .. n PROVE ss[l] \in Seq(T)
    <2> DEFINE s == labels[l].sources
               m == Len(s)
               t == ss[l]
    <2>1. s \in Seq(Nat) /\ labels[l].target \in Int
      BY <1>1 DEF Label
    <2>2. \A i \in DOMAIN s : Waits(c, s[i])
      BY <1>1 DEF SourcesWait
    <2>3. t = [i \in DOMAIN s |-> [source |-> s[i], target |-> labels[l].target, size |-> 0]]
      OBVIOUS
    <2> HIDE DEF s, t
    <2>4. m \in Nat /\ DOMAIN s = 1 .. m /\ \A i \in 1 .. m : s[i] \in Nat
      BY <2>1, SeqFacts
    <2>5. \A i \in 1 .. m : t[i] \in T
      BY <2>1, <2>2, <2>3, <2>4 DEF Link
    <2>6. t \in [1 .. m -> T]
      BY <2>3, <2>4, <2>5
    <2> HIDE DEF m, T
    <2>7. t \in Seq(T)
      BY <2>4, <2>6, SeqDef
    <2> QED
      BY <2>7 DEF t
  <1>3. ss \in [1 .. n -> Seq(T)]
    <2>1. ss = [l \in 1 .. n |-> ss[l]]
      OBVIOUS
    <2> HIDE DEF ss, T
    <2> QED
      BY <1>2, <2>1
  <1>4. Links = FlattenSeq(ss)
    BY DEF Links
  <1> HIDE DEF ss, n, T
  <1>5. PICK f : Flattens(f, T, n, ss)
    BY <1>1, <1>3, FlattenFacts
  <1>6. Links \in Seq(T)
    <2>1. n \in 0 .. n
      BY <1>1
    <2> QED
      BY <1>4, <1>5, <2>1 DEF Flattens
  <1>7. \A k \in DOMAIN Links : Links[k] \in T
    BY <1>6, SeqFacts
  <1> QED
    BY <1>7 DEF T

\* Nothing is inserted before the first insertion.
LEMMA FirstPosition ==
    ASSUME NEW U, LinkSequence(U), NEW L, DOMAIN L = DOMAIN U, NEW k \in DOMAIN U
    PROVE  Position(U, L, k, 1) = U[k].source
  <1> DEFINE w == Widths(U, L, k, 1)
             N == Len(U)
  <1>1. N \in Nat /\ DOMAIN U = 1 .. N /\ U[k] \in Link
    BY DEF LinkSequence
  <1>2. w = [j \in 1 .. N |-> IF j < 1 /\ U[j].source < U[k].source THEN L[j].size ELSE 0]
    BY <1>1 DEF Widths
  <1> HIDE DEF w, N
  <1>3. \A j \in 1 .. N : w[j] = 0
    BY <1>2
  <1>4. w \in [1 .. N -> Int]
    BY <1>2, <1>3
  <1>5. Total(w) = 0
    BY <1>1, <1>3, <1>4, TotalZero
  <1>6. U[k].source + Total(w) = U[k].source
    BY <1>1, <1>5 DEF Link
  <1> QED
    BY <1>6 DEF Position, w

\* Links of the same length as U.
LEMMA LengthOfLinks ==
    ASSUME NEW U, LinkSequence(U), NEW L, L \in [DOMAIN U -> Link]
    PROVE  L \in Seq(Link) /\ Len(L) = Len(U) /\ DOMAIN L = DOMAIN U
  <1> DEFINE n == Len(U)
  <1>1. n \in Nat /\ L \in [1 .. n -> Link]
    BY DEF LinkSequence
  <1> HIDE DEF n
  <1>2. L \in Seq(Link) /\ DOMAIN L = 1 .. n
    BY <1>1, SeqDef
  <1>3. Len(L) = n
    <2>1. DOMAIN L = 1 .. Len(L) /\ Len(L) \in Nat
      BY <1>2, SeqFacts
    <2> QED
      BY <1>1, <1>2, <2>1
  <1> QED
    BY <1>2, <1>3 DEF n, LinkSequence

LEMMA LinkLabelsOpcodes ==
    ASSUME LabelsInv, OpcodesInv, LinkLabels
    PROVE  OpcodesInv'
  <1> DEFINE U == Links
             N == Len(U)
  <1>1. /\ phase = "encode" /\ links' = U /\ at' = 1 /\ UNCHANGED <<labels, code>> /\ Links' = U
        /\ phase' \in {"running", "size"}
    BY SameLinks DEF LinkLabels
  <1>2. code \in Seq(Byte) /\ SourcesWait(labels, code)
    BY <1>1, OpcodesParts
  <1>3. LinkSequence(U)
    BY LinksFacts DEF LinkSequence
  <1>4. \A k \in DOMAIN U : Waits(code, U[k].source)
    BY <1>2, LinksWait
  <1> HIDE DEF U
  <1>5. ASSUME NEW k \in 1 .. N PROVE Waits(code, Position(U, U, k, 1))
    <2>1. k \in DOMAIN U
      BY <1>3 DEF LinkSequence
    <2>2. Position(U, U, k, 1) = U[k].source
      BY <1>3, <2>1, FirstPosition
    <2> QED
      BY <1>4, <2>1, <2>2
  <1>6. RestWaits(U, U, code, 1)
    BY <1>5 DEF RestWaits
  <1>7. RestWaits(Links', links', code', at')
    BY <1>1, <1>6
  <1> QED
    BY <1>1, <1>2, <1>7, OpcodesPartsNext

\* What is known of the links while they have sizes.
LEMMA LinksNow ==
    ASSUME LabelsInv, LinksInv, phase \in {"size", "insert"}
    PROVE  /\ LinkSequence(Links) /\ links \in [DOMAIN Links -> Link]
           /\ Len(links) = Len(Links) /\ DOMAIN links = DOMAIN Links /\ DOMAIN Links = 1 .. Len(Links)
           /\ Len(Links) \in Nat
  <1>1. LinkSequence(Links)
    BY LinksFacts DEF LinkSequence
  <1>2. links \in [DOMAIN Links -> Link]
    BY LinksInvNow DEF ExactLinks
  <1> QED
    BY <1>1, <1>2, LengthOfLinks DEF LinkSequence

LEMMA SizePassOpcodes ==
    ASSUME LabelsInv, LinksInv, PhasesInv, OpcodesInv, SizePass
    PROVE  OpcodesInv'
  <1> DEFINE U == Links
             N == Len(U)
             L == links
             M == Pass.links
  <1>1. /\ phase = "size" /\ links' = M /\ UNCHANGED <<labels, code, at>> /\ Links' = U
        /\ phase' \in {"insert", "size"}
    BY SameLinks, Zenon DEF SizePass
  <1>2. at = 1
    BY <1>1 DEF PhasesInv
  <1>3. LinkSequence(U) /\ Len(L) = N /\ DOMAIN L = DOMAIN U /\ DOMAIN U = 1 .. N
    BY <1>1, LinksNow
  <1>4. Exact(U, L)
    BY <1>1, LinksInvNow, ExactLinksFacts
  <1>5. M \in [DOMAIN U -> Link]
    BY <1>4, PassIsExact DEF Exact
  <1>6. code \in Seq(Byte) /\ RestWaits(U, L, code, 1)
    BY <1>1, <1>2, OpcodesParts
  <1> HIDE DEF U, M, L
  <1>7. Len(M) = N /\ DOMAIN M = DOMAIN U
    BY <1>3, <1>5, LengthOfLinks
  <1>8. ASSUME NEW k \in 1 .. N PROVE Waits(code, Position(U, M, k, 1))
    <2>1. Position(U, L, k, 1) = U[k].source /\ Position(U, M, k, 1) = U[k].source
      BY <1>3, <1>7, FirstPosition
    <2>2. Waits(code, Position(U, L, k, 1))
      BY <1>3, <1>6 DEF RestWaits
    <2> QED
      BY <2>1, <2>2
  <1>9. RestWaits(U, M, code, 1)
    BY <1>7, <1>8 DEF RestWaits
  <1>10. RestWaits(Links', links', code', at')
    BY <1>1, <1>2, <1>9
  <1> QED
    BY <1>1, <1>6, <1>10, OpcodesPartsNext

LEMMA InsertOpcodes ==
    ASSUME LabelsInv, LinksInv, PhasesInv, OpcodesInv, InsertDisplacement
    PROVE  OpcodesInv'
  <1> DEFINE U == Links
             N == Len(U)
             L == links
             a == at
             s == Position(U, L, a, a)
             size == L[a].size
             o == code[s] + (CASE size = 1 -> 0 [] size = 2 -> 1 [] OTHER -> 2)
             w == Written(Displacement(L[a]), size)
  <1>1. /\ phase = "insert" /\ phase' = phase /\ at <= Len(L) /\ at' = a + 1
        /\ UNCHANGED <<labels, links>> /\ Links' = U
        /\ code' = Splice(code, s, o, w)
    <2>1. OpcodeOf(at, at) = s
      BY DEF OpcodeOf, Inserted, Position, Widths
    <2>2. /\ phase = "insert" /\ phase' = phase /\ at <= Len(L) /\ at' = a + 1
          /\ UNCHANGED <<labels, links>>
      BY Zenon DEF InsertDisplacement
    <2>3. code' = Splice(code, OpcodeOf(at, at),
                         code[OpcodeOf(at, at)] + (CASE size = 1 -> 0 [] size = 2 -> 1 [] OTHER -> 2), w)
      BY Zenon DEF InsertDisplacement, Splice
    <2> QED
      BY <2>1, <2>2, <2>3, SameLinks, Zenon
  <1>2. /\ LinkSequence(U) /\ L \in [DOMAIN U -> Link]
        /\ Len(L) = N /\ DOMAIN L = DOMAIN U /\ DOMAIN U = 1 .. N /\ N \in Nat
    BY <1>1, LinksNow
  <1>3. a \in 1 .. N /\ a \in DOMAIN U /\ a \in Int
    <2>1. at \in 1 .. Len(links) + 1
      BY <1>1 DEF PhasesInv
    <2> QED
      BY <1>1, <1>2, <2>1
  <1>4. \A j \in DOMAIN L : L[j].size \in {0, 1, 2, 4}
    <2> DEFINE T == [source : Int, target : Int, size : {0, 1, 2, 4}]
    <2>1. L \in Seq(T)
      BY DEF PhasesInv
    <2>2. \A j \in DOMAIN L : L[j] \in T
      <3> HIDE DEF T
      <3> QED
        BY <2>1, SeqFacts
    <2> QED
      BY <2>2
  <1>5. code \in Seq(Byte) /\ RestWaits(U, L, code, a)
    BY <1>1, OpcodesParts
  <1>6. SizedLinks(U, L)
    BY <1>2, <1>4 DEF SizedLinks
  <1>7. \A k \in a .. N : Waits(code, Position(U, L, k, a))
    BY <1>2, <1>5 DEF RestWaits
  <1>8. w \in Seq(Byte) /\ Len(w) = L[a].size
    <2>1. L[a] \in Link /\ size \in 0 .. 4
      BY <1>2, <1>3, <1>4
    <2>2. Displacement(L[a]) \in Int
      BY <2>1 DEF Displacement, Link
    <2> QED
      BY <2>1, <2>2, WrittenFacts DEF Bytes
  <1>9. o \in Byte
    <2>1. a \in a .. N
      BY <1>2, <1>3
    <2>2. code[s] \in Awaiting
      BY <1>7, <2>1 DEF Waits
    <2> DEFINE x == code[s]
               y == CASE size = 1 -> 0 [] size = 2 -> 1 [] OTHER -> 2
    <2>3. x \in 0 .. 235
      BY <2>2, AwaitingFacts
    <2>4. y \in {0, 1, 2}
      <3> HIDE DEF size
      <3> QED
        OBVIOUS
    <2> HIDE DEF x, y
    <2>5. x + y \in Byte
      BY <2>3, <2>4 DEF Byte
    <2> QED
      BY <2>5 DEF x, y
  <1> HIDE DEF U, L, o, w, a, s
  <1>10. /\ Splice(code, Position(U, L, a, a), o, w) \in Seq(Byte)
         /\ \A k \in a + 1 .. Len(U) :
              Waits(Splice(code, Position(U, L, a, a), o, w), Position(U, L, k, a + 1))
    BY <1>3, <1>5, <1>6, <1>7, <1>8, <1>9, InsertionKeeps
  <1>11. code' \in Seq(Byte) /\ \A k \in a + 1 .. N : Waits(code', Position(U, L, k, a + 1))
    BY <1>1, <1>10 DEF s
  <1>12. RestWaits(U, L, code', a + 1)
    BY <1>2, <1>11 DEF RestWaits
  <1>13. RestWaits(Links', links', code', at')
    BY <1>1, <1>12 DEF L
  <1> QED
    BY <1>1, <1>11, <1>13, OpcodesPartsNext

\* A label is placed: its sources stay.
LEMMA PlaceLabelOpcodes ==
    ASSUME LabelsInv, OpcodesInv, PlaceLabel
    PROVE  OpcodesInv'
  <1> DEFINE l == assembly[at].args[1]
             n == Len(code)
             f == labels
             g == [f EXCEPT ![l].target = n]
  <1>1. phase = "encode" /\ labels' = g /\ UNCHANGED <<phase, code>>
    BY DEF PlaceLabel, Encoding_, Advance
  <1>2. f \in [DOMAIN f -> Label]
    BY LabelsParts
  <1> HIDE DEF l, n, f
  <1>3. DOMAIN g = DOMAIN f /\ \A m \in DOMAIN f : g[m].sources = f[m].sources
    <2>1. ASSUME NEW m \in DOMAIN f PROVE g[m].sources = f[m].sources
      <3>1. f[m] \in Label
        BY <1>2
      <3>2. CASE m = l
        <4>1. g[m] = [f[m] EXCEPT !.target = n]
          BY <3>2
        <4> QED
          BY <3>1, <4>1 DEF Label
      <3>3. CASE m # l
        BY <3>3
      <3> QED
        BY <3>2, <3>3
    <2> QED
      BY <2>1
  <1>4. code \in Seq(Byte) /\ SourcesWait(f, code)
    BY <1>1, OpcodesParts DEF f
  <1> HIDE DEF g
  <1>5. SourcesWait(g, code)
    BY <1>3, <1>4 DEF SourcesWait
  <1> QED
    BY <1>1, <1>4, <1>5, OpcodesPartsNext

\* Every step keeps the opcodes that wait.
LEMMA OpcodesNext ==
    ASSUME PeepholeInv, LabelsInv, LinksInv, PhasesInv, OpcodesInv, [Next]_vars
    PROVE  OpcodesInv'
  <1>1. CASE /\ UNCHANGED <<code, labels>> /\ phase \in {"peephole", "encode"}
             /\ phase' \in {"peephole", "encode"}
    BY <1>1, OpcodesParts, OpcodesPartsNext
  <1>2. CASE UNCHANGED code /\ phase' = "running"
    BY <1>2, OpcodesParts, OpcodesPartsNext
  <1>3. CASE UNCHANGED vars
    BY <1>3, OpcodesParts, OpcodesPartsNext, SameLinks DEF vars
  <1>4. CASE RemovePush \/ MergePops \/ LeaveInstruction
    BY <1>1, <1>4, Zenon DEF RemovePush, MergePops, LeaveInstruction, Edit
  <1>5. CASE EndPeephole
    BY <1>1, <1>5 DEF EndPeephole
  <1>6. CASE SkipNop
    BY <1>1, <1>6 DEF SkipNop, Encoding_, Advance
  <1>7. CASE EncodeInstruction
    BY <1>7, EncodeInstructionOpcodes
  <1>8. CASE PlaceLabel
    BY <1>8, PlaceLabelOpcodes
  <1>9. CASE EncodeJump
    BY <1>9, EncodeJumpOpcodes
  <1>10. CASE LinkLabels
    BY <1>10, LinkLabelsOpcodes
  <1>11. CASE SizePass
    BY <1>11, SizePassOpcodes
  <1>12. CASE InsertDisplacement
    BY <1>12, InsertOpcodes
  <1>13. CASE EndAssembly
    BY <1>2, <1>13 DEF EndAssembly
  <1>14. CASE RunStraight \/ RunJump
    BY <1>2, <1>14 DEF RunStraight, RunJump, GoTo, InTheCode
  <1> QED
    BY <1>3, <1>4, <1>5, <1>6, <1>7, <1>8, <1>9, <1>10, <1>11, <1>12, <1>13, <1>14 DEF Next

-----------------------------------------------------------------------------
(* The types of the variables. *)

SizedLink == [source : Int, target : Int, size : {0, 1, 2, 4}]

LEMMA LinksAreSized == \A x : x \in SizedLink <=> x \in Link /\ x.size \in {0, 1, 2, 4}
  BY DEF SizedLink, Link

\* One end of a link leaves the sizes among those that a displacement may have.
LEMMA ShiftEndSizes ==
    ASSUME NEW U, NEW s \in PassStates(U), NEW e \in EndsOf(U),
           \A j \in DOMAIN U : s.links[j].size \in {0, 1, 2, 4}
    PROVE  \A j \in DOMAIN U : ShiftEnd(s, e).links[j].size \in {0, 1, 2, 4}
  <1> DEFINE k == e[1]
             t == ShiftEnd(s, e)
             moved == [s.links[k] EXCEPT !.source = s.links[k].source + s.offset]
             size == SizeFor(Displacement(moved))
  <1>1. k \in DOMAIN U /\ e[2] \in {"source", "target"}
    BY DEF EndsOf
  <1>2. Moved(U, s, t, e)
    BY ShiftEndFacts
  <1>3. s.links \in [DOMAIN U -> Link]
    BY DEF PassStates
  <1>4. size \in {1, 2, 4}
    <2> HIDE DEF moved
    <2> QED
      BY DEF SizeFor
  <1>5. t.links[k].size \in {0, 1, 2, 4}
    <2>1. CASE e[2] = "target"
      BY <1>1, <1>2, <2>1 DEF Moved
    <2>2. CASE e[2] = "source"
      <3>1. t.links = [s.links EXCEPT ![k] = [moved EXCEPT !.size = size]]
        BY <2>2 DEF ShiftEnd
      <3>2. t.links[k] = [moved EXCEPT !.size = size]
        BY <1>1, <1>3, <3>1
      <3>3. s.links[k] \in Link
        BY <1>1, <1>3
      <3>4. t.links[k].size = size
        <4> HIDE DEF size
        <4> QED
          BY <3>2, <3>3 DEF Link
      <3> QED
        BY <1>4, <3>4
    <2> QED
      BY <1>1, <2>1, <2>2
  <1>6. \A j \in DOMAIN U : j # k => t.links[j] = s.links[j]
    BY <1>2 DEF Moved
  <1> HIDE DEF t, k
  <1>7. \A j \in DOMAIN U : t.links[j].size \in {0, 1, 2, 4}
    BY <1>5, <1>6
  <1> QED
    BY <1>7 DEF t

\* So does a pass.
LEMMA PassSizes ==
    ASSUME LabelsInv, Exact(Links, links), \A j \in DOMAIN Links : links[j].size \in {0, 1, 2, 4}
    PROVE  \A j \in DOMAIN Links : Pass.links[j].size \in {0, 1, 2, 4}
  <1> DEFINE U == Links
             E == Ends
             n == Len(E)
             AllSized(s) == \A j \in DOMAIN U : s.links[j].size \in {0, 1, 2, 4}
  <1>1. LinkSequence(U)
    BY LinksFacts DEF LinkSequence
  <1>2. Ordered(U, E)
    BY <1>1, EndsAreOrdered
  <1>3. PICK h : Passing(h, U, E, links) /\ Pass = h[n]
    BY <1>1, <1>2, PassIsPassing
  <1>4. n \in Nat
    BY <1>2 DEF Ordered
  <1>5. \A j \in DOMAIN U : links[j].size \in {0, 1, 2, 4}
    OBVIOUS
  <1> DEFINE P == {m \in 0 .. n : AllSized(h[m])}
  <1> HIDE DEF U, E
  <1>6. 0 \in P
    <2>1. h[0].links = links
      BY <1>3 DEF Passing
    <2>2. AllSized(h[0])
      BY <1>5, <2>1
    <2> QED
      BY <1>4, <2>2
  <1>7. ASSUME NEW m \in P, m < n PROVE m + 1 \in P
    <2> DEFINE s == h[m]
    <2>1. m \in 0 .. n /\ m + 1 \in 1 .. n /\ m + 1 \in 0 .. n /\ (m + 1) - 1 = m
      BY <1>4, <1>7
    <2>2. h[m + 1] = ShiftEnd(s, E[m + 1])
      BY <1>3, <2>1 DEF Passing
    <2>3. s \in PassStates(U) /\ E[m + 1] \in EndsOf(U)
      BY <1>2, <1>3, <2>1 DEF Passing, Ordered
    <2>4. \A j \in DOMAIN U : s.links[j].size \in {0, 1, 2, 4}
      OBVIOUS
    <2> HIDE DEF s
    <2>5. AllSized(ShiftEnd(s, E[m + 1]))
      BY <2>3, <2>4, ShiftEndSizes
    <2>6. AllSized(h[m + 1])
      BY <2>2, <2>5
    <2> HIDE DEF AllSized
    <2> QED
      BY <2>1, <2>6
  <1>8. n \in P
    <2>1. P \in SUBSET (0 .. n)
      OBVIOUS
    <2> HIDE DEF P, n
    <2> QED
      BY ONLY <1>4, <1>6, <1>7, <2>1, IntervalInduction
  <1>9. AllSized(h[n])
    BY <1>8
  <1> QED
    BY <1>3, <1>9 DEF U

\* Every label has its place, whatever the peephole pass edits.
Marked(p, L) == \A l \in L : \E k \in DOMAIN p : p[k] = Instruction("label", <<l>>)

LEMMA PhasesParts ==
    PhasesInv <=>
      /\ phase \in {"peephole", "encode", "size", "insert", "running"}
      /\ phase \in {"peephole", "encode", "running"} => at \in 1 .. Len(assembly) + 1
      /\ phase \in {"peephole", "encode"} => passes = 0
      /\ phase = "size" => at = 1 /\ passes < MaxPasses
      /\ phase = "insert" => at \in 1 .. Len(links) + 1
      /\ passes \in 0 .. MaxPasses
      /\ links \in Seq(SizedLink)
      /\ Marked(assembly, DOMAIN labels)
  BY DEF PhasesInv, Marked, SizedLink

LEMMA PhasesPartsNext ==
    PhasesInv' <=>
      /\ phase' \in {"peephole", "encode", "size", "insert", "running"}
      /\ phase' \in {"peephole", "encode", "running"} => at' \in 1 .. Len(assembly') + 1
      /\ phase' \in {"peephole", "encode"} => passes' = 0
      /\ phase' = "size" => at' = 1 /\ passes' < MaxPasses
      /\ phase' = "insert" => at' \in 1 .. Len(links') + 1
      /\ passes' \in 0 .. MaxPasses
      /\ links' \in Seq(SizedLink)
      /\ Marked(assembly', DOMAIN labels')
  BY DEF PhasesInv, Marked, SizedLink, MaxPasses

LEMMA InitPhases == Init => PhasesInv
  <1> SUFFICES ASSUME Init PROVE PhasesInv
    OBVIOUS
  <1>1. /\ phase = "peephole" /\ at = 1 /\ links = <<>> /\ passes = 0 /\ assembly = program
        /\ program \in Programs /\ DOMAIN labels = LabelsOf(program)
    BY DEF Init
  <1>2. program \in Assemblies
    BY <1>1, ProgramsAssumption
  <1>3. Len(program) \in Nat /\ DOMAIN program = 1 .. Len(program)
    BY <1>2, AssemblyFacts
  <1>4. 1 \in 1 .. Len(program) + 1
    BY <1>3
  <1>5. links \in Seq(SizedLink)
    <2>1. <<>> \in Seq(SizedLink)
      BY EmptySeq
    <2> QED
      BY <1>1, <2>1
  <1>6. Marked(program, LabelsOf(program))
    <2> SUFFICES ASSUME NEW l \in LabelsOf(program)
                 PROVE  \E k \in DOMAIN program : program[k] = Instruction("label", <<l>>)
      BY DEF Marked
    <2>1. PICK k \in DOMAIN program : program[k].class = "label" /\ l = program[k].args[1]
      BY DEF LabelsOf
    <2>2. WellFormed(program[k])
      BY <1>2, <1>3, AssemblyFacts
    <2>3. program[k] = Instruction("label", <<l>>)
      BY <2>1, <2>2 DEF WellFormed
    <2> QED
      BY <2>3
  <1>7. 0 \in 0 .. MaxPasses
    BY DEF MaxPasses
  <1> QED
    BY <1>1, <1>4, <1>5, <1>6, <1>7, PhasesParts

\* An edit that replaces no label.
LEMMA MarkedEdit ==
    ASSUME NEW p, NEW L, Marked(p, L), NEW n, NEW this, NEW next,
           p[n].class # "label", p[n + 1].class # "label"
    PROVE  Marked([p EXCEPT ![n] = this, ![n + 1] = next], L)
  <1> DEFINE m == n + 1
             q == [p EXCEPT ![n] = this, ![m] = next]
  <1>1. DOMAIN q = DOMAIN p /\ \A k \in DOMAIN p : k # n /\ k # m => q[k] = p[k]
    OBVIOUS
  <1> HIDE DEF q
  <1> SUFFICES ASSUME NEW l \in L PROVE \E k \in DOMAIN q : q[k] = Instruction("label", <<l>>)
    BY DEF Marked, q
  <1>2. PICK k \in DOMAIN p : p[k] = Instruction("label", <<l>>)
    BY DEF Marked
  <1>3. p[k].class = "label"
    BY <1>2 DEF Instruction
  <1>4. k # n /\ k # m
    BY <1>3
  <1> QED
    BY <1>1, <1>2, <1>4

\* A step of the peephole pass.
LEMMA EditPhases ==
    ASSUME PeepholeInv, PhasesInv, phase = "peephole", at < Len(assembly),
           NEW this, NEW next, Edit(this, next), Marked(assembly', DOMAIN labels)
    PROVE  PhasesInv'
  <1>1. /\ UNCHANGED <<phase, labels, links, passes>> /\ at' = at + 1
        /\ assembly' = [assembly EXCEPT ![at] = this, ![at + 1] = next]
    BY DEF Edit
  <1> DEFINE n == Len(assembly)
  <1>2. n \in Nat /\ assembly \in Assemblies
    BY AssemblyFacts DEF PeepholeInv
  <1>3. Len(assembly') = n
    <2> DEFINE m == at + 1
               T == {this, next} \cup Range(assembly)
    <2>1. assembly' = [assembly EXCEPT ![at] = this, ![m] = next]
      BY <1>1
    <2>2. DOMAIN assembly' = DOMAIN assembly /\ DOMAIN assembly = 1 .. n
      BY <1>2, <2>1, AssemblyFacts
    <2>3. assembly' = [k \in 1 .. n |-> assembly'[k]]
      BY <2>1, <2>2
    <2> HIDE DEF n
    <2> QED
      BY <1>2, <2>2, <2>3, FunctionIsSequence
  <1>4. at \in 1 .. n + 1
    BY PhasesParts
  <1> HIDE DEF n
  <1>5. at' \in 1 .. Len(assembly') + 1
    BY <1>1, <1>2, <1>3, <1>4 DEF n
  <1> QED
    BY <1>1, <1>5, PhasesParts, PhasesPartsNext

LEMMA PeepholePhases ==
    ASSUME PeepholeInv, PhasesInv, RemovePush \/ MergePops \/ LeaveInstruction \/ EndPeephole
    PROVE  PhasesInv'
  <1>0. Marked(assembly, DOMAIN labels)
    BY PhasesParts
  <1>1. ASSUME NEW this, NEW next, Edit(this, next),
               assembly[at].class # "label", assembly[at + 1].class # "label"
        PROVE  Marked(assembly', DOMAIN labels)
    BY <1>0, <1>1, MarkedEdit DEF Edit
  <1>2. CASE RemovePush
    <2> DEFINE pops == assembly[at + 1].args[1] - 1
               next == IF pops = 0 THEN InternalNop ELSE Pop(pops)
    <2>1. Edit(InternalNop, next) /\ phase = "peephole" /\ at < Len(assembly)
      BY <1>2 DEF RemovePush
    <2>2. assembly[at].class # "label" /\ assembly[at + 1].class # "label"
      BY <1>2 DEF RemovePush, IsPop, Pushes
    <2> HIDE DEF next
    <2> QED
      BY <1>1, <2>1, <2>2, EditPhases
  <1>3. CASE MergePops
    <2> DEFINE next == Pop(assembly[at].args[1] + assembly[at + 1].args[1])
    <2>1. Edit(InternalNop, next) /\ phase = "peephole" /\ at < Len(assembly)
      BY <1>3 DEF MergePops
    <2>2. assembly[at].class # "label" /\ assembly[at + 1].class # "label"
      BY <1>3 DEF MergePops, IsPop
    <2> HIDE DEF next
    <2> QED
      BY <1>1, <2>1, <2>2, EditPhases
  <1>4. CASE LeaveInstruction
    <2>1. Edit(assembly[at], assembly[at + 1]) /\ phase = "peephole" /\ at < Len(assembly)
      BY <1>4 DEF LeaveInstruction
    <2>2. assembly' = [assembly EXCEPT ![at] = assembly[at], ![at + 1] = assembly[at + 1]]
      BY <2>1 DEF Edit
    <2>3. assembly = [k \in DOMAIN assembly |-> assembly[k]]
      <3> DEFINE I == [class : Classes, args : Seq(Int)]
      <3>1. assembly \in Seq(I)
        BY DEF PeepholeInv, Assemblies
      <3> HIDE DEF I
      <3> QED
        BY <3>1
    <2>4. assembly' = assembly
      BY <2>2, <2>3
    <2> QED
      BY <1>0, <2>1, <2>4, EditPhases
  <1>5. CASE EndPeephole
    <2>1. /\ phase = "peephole" /\ phase' = "encode" /\ at' = 1 /\ UNCHANGED <<assembly, labels, links, passes>>
      BY <1>5 DEF EndPeephole
    <2>2. Len(assembly) \in Nat
      BY AssemblyFacts DEF PeepholeInv
    <2>3. at' \in 1 .. Len(assembly') + 1
      BY <2>1, <2>2
    <2> QED
      BY <2>1, <2>3, PhasesParts, PhasesPartsNext
  <1> QED
    BY <1>2, <1>3, <1>4, <1>5

\* The steps that encode an instruction.
LEMMA EncodePhases ==
    ASSUME PeepholeInv, LabelsInv, PhasesInv, SkipNop \/ EncodeInstruction \/ PlaceLabel \/ EncodeJump
    PROVE  PhasesInv'
  <1>1. /\ phase = "encode" /\ at <= Len(assembly) /\ at' = at + 1
        /\ UNCHANGED <<phase, assembly, links, passes>>
    BY Zenon DEF SkipNop, EncodeInstruction, PlaceLabel, EncodeJump, Advance, Encoding_
  <1>2. DOMAIN labels' = DOMAIN labels
    <2>1. CASE SkipNop \/ EncodeInstruction
      BY <2>1, Zenon DEF SkipNop, EncodeInstruction
    <2>2. CASE PlaceLabel
      BY <2>2 DEF PlaceLabel
    <2>3. CASE EncodeJump
      BY <2>3 DEF EncodeJump
    <2> QED
      BY <2>1, <2>2, <2>3
  <1> DEFINE n == Len(assembly)
  <1>3. n \in Nat
    BY AssemblyFacts DEF PeepholeInv
  <1>4. at \in 1 .. n + 1 /\ at <= n
    BY <1>1, PhasesParts
  <1> HIDE DEF n
  <1>5. at + 1 \in 1 .. n + 1
    BY <1>3, <1>4
  <1>6. at' \in 1 .. Len(assembly') + 1
    BY <1>1, <1>5 DEF n
  <1> QED
    BY <1>1, <1>2, <1>6, PhasesParts, PhasesPartsNext

LEMMA LinkLabelsPhases ==
    ASSUME PeepholeInv, LabelsInv, PhasesInv, LinkLabels
    PROVE  PhasesInv'
  <1>1. /\ phase = "encode" /\ links' = Links /\ at' = 1 /\ phase' \in {"running", "size"}
        /\ UNCHANGED <<assembly, labels, passes>>
    BY DEF LinkLabels
  <1>2. Len(assembly) \in Nat
    BY AssemblyFacts DEF PeepholeInv
  <1>3. at' \in 1 .. Len(assembly') + 1
    BY <1>1, <1>2
  <1>4. Links \in Seq(SizedLink)
    <2> DEFINE n == Len(Links)
    <2>1. /\ Links \in Seq(Link) /\ n \in Nat /\ DOMAIN Links = 1 .. n
          /\ \A k \in 1 .. n : Links[k] \in SizedLink
      BY LinksFacts, LinksAreSized
    <2>2. Links = [k \in 1 .. n |-> Links[k]]
      <3> DEFINE U == Links
      <3>1. U \in Seq(Link) /\ DOMAIN U = 1 .. n
        BY <2>1
      <3> HIDE DEF U, n
      <3>2. U = [k \in 1 .. n |-> U[k]]
        BY <3>1
      <3> QED
        BY <3>2 DEF U
    <2>3. Links \in [1 .. n -> SizedLink]
      BY <2>1, <2>2
    <2> QED
      BY <2>1, <2>3, SeqDef
  <1>5. passes = 0 /\ 0 < MaxPasses /\ passes \in 0 .. MaxPasses /\ Marked(assembly, DOMAIN labels)
    BY <1>1, PhasesParts DEF MaxPasses
  <1> QED
    BY <1>1, <1>3, <1>4, <1>5, PhasesPartsNext

LEMMA SizePassPhases ==
    ASSUME LabelsInv, LinksInv, PhasesInv, SizePass
    PROVE  PhasesInv'
  <1> DEFINE U == Links
             N == Len(U)
             M == Pass.links
  <1>1. /\ phase = "size" /\ links' = M /\ passes' = passes + 1 /\ UNCHANGED <<assembly, labels, at>>
        /\ phase' = IF Pass.offset = 0 \/ passes + 1 = MaxPasses THEN "insert" ELSE "size"
    BY Zenon DEF SizePass
  <1>2. at = 1 /\ passes < MaxPasses /\ passes \in 0 .. MaxPasses /\ Marked(assembly, DOMAIN labels)
        /\ links \in Seq(SizedLink)
    BY <1>1, PhasesParts
  <1>3. LinkSequence(U) /\ DOMAIN links = DOMAIN U /\ DOMAIN U = 1 .. N /\ N \in Nat
    BY <1>1, LinksNow
  <1>4. Exact(U, links)
    BY <1>1, LinksInvNow, ExactLinksFacts
  <1>5. \A j \in DOMAIN U : links[j].size \in {0, 1, 2, 4}
    <2>1. \A j \in DOMAIN links : links[j] \in SizedLink
      BY <1>2, SeqFacts
    <2> QED
      BY <1>3, <2>1, LinksAreSized
  <1>6. \A j \in DOMAIN U : M[j].size \in {0, 1, 2, 4}
    BY <1>4, <1>5, PassSizes
  <1>7. M \in [DOMAIN U -> Link]
    BY <1>4, PassIsExact DEF Exact
  <1> HIDE DEF M, U, N
  <1>8. M \in [1 .. N -> SizedLink]
    BY <1>3, <1>6, <1>7, LinksAreSized
  <1>9. M \in Seq(SizedLink)
    BY <1>3, <1>8, SeqDef
  <1>10. Len(M) \in Nat
    BY <1>9, SeqFacts
  <1>11. at' = 1 /\ at' \in 1 .. Len(links') + 1
    BY <1>1, <1>2, <1>10
  <1>12. passes' \in 0 .. MaxPasses /\ (phase' = "size" => passes' < MaxPasses)
    BY <1>1, <1>2 DEF MaxPasses
  <1>13. phase' \in {"insert", "size"}
    BY <1>1
  <1> QED
    BY <1>1, <1>2, <1>9, <1>11, <1>12, <1>13, PhasesPartsNext

LEMMA InsertPhases ==
    ASSUME PeepholeInv, PhasesInv, InsertDisplacement \/ EndAssembly
    PROVE  PhasesInv'
  <1>1. /\ phase = "insert" /\ UNCHANGED <<assembly, labels, links, passes>>
    BY Zenon DEF InsertDisplacement, EndAssembly
  <1>2. CASE InsertDisplacement
    <2>1. at <= Len(links) /\ at' = at + 1 /\ phase' = "insert"
      BY <1>1, <1>2, Zenon DEF InsertDisplacement
    <2>2. Len(links) \in Nat /\ at \in 1 .. Len(links) + 1
      BY <1>1, PhasesParts, SeqFacts
    <2>3. at' \in 1 .. Len(links') + 1
      BY <1>1, <2>1, <2>2
    <2> QED
      BY <1>1, <2>1, <2>3, PhasesParts, PhasesPartsNext
  <1>3. CASE EndAssembly
    <2>1. at' = 1 /\ phase' = "running"
      BY <1>3 DEF EndAssembly
    <2>2. Len(assembly) \in Nat
      BY AssemblyFacts DEF PeepholeInv
    <2>3. at' \in 1 .. Len(assembly') + 1
      BY <1>1, <2>1, <2>2
    <2> QED
      BY <1>1, <2>1, <2>3, PhasesParts, PhasesPartsNext
  <1> QED
    BY <1>2, <1>3

\* The instruction that the virtual machine runs.
LEMMA ExpectedFacts ==
    ASSUME PeepholeInv, PhasesInv, InTheCode
    PROVE  Expected \in DOMAIN assembly
  <1> DEFINE n == Len(assembly)
             rest == {j \in Instructions(assembly) : j >= at}
  <1>1. n \in Nat /\ DOMAIN assembly = 1 .. n
    BY AssemblyFacts DEF PeepholeInv
  <1>2. Expected = (IF rest = {} THEN n + 1 ELSE Min(rest)) /\ Expected <= n
    BY DEF Expected, NextInstruction, InTheCode
  <1>3. rest \in SUBSET (1 .. n)
    BY <1>1 DEF Instructions
  <1> HIDE DEF rest, n
  <1>4. rest # {}
    BY <1>1, <1>2
  <1>5. rest \in SUBSET Nat
    BY <1>3
  <1>6. Min(rest) \in rest
    BY <1>4, <1>5, NaturalMinimum DEF Min
  <1> QED
    BY <1>1, <1>2, <1>3, <1>4, <1>6

LEMMA RunPhases ==
    ASSUME PeepholeInv, LabelsInv, PhasesInv, RunStraight \/ RunJump
    PROVE  PhasesInv'
  <1>1. /\ phase = "running" /\ InTheCode /\ UNCHANGED <<phase, assembly, labels, links, passes>>
    BY Zenon DEF RunStraight, RunJump, GoTo, InTheCode
  <1>2. Expected \in DOMAIN assembly
    BY <1>1, ExpectedFacts
  <1>3. Len(assembly) \in Nat /\ DOMAIN assembly = 1 .. Len(assembly)
    BY AssemblyFacts DEF PeepholeInv
  <1>4. at' \in 1 .. Len(assembly) + 1
    <2>1. CASE RunStraight
      <3>1. at' = Expected + 1
        BY <2>1, Zenon DEF RunStraight, GoTo
      <3> QED
        BY <1>2, <1>3, <3>1
    <2>2. CASE RunJump
      <3> DEFINE l == assembly[Expected].args[1]
      <3>1. at' = LabelAt(l) /\ assembly[Expected].class \in Labelled
        BY <2>2, Zenon DEF RunJump, GoTo
      <3>2. l \in DOMAIN labels
        BY <1>2, <3>1, LabelsParts DEF Placed
      <3> HIDE DEF l
      <3>3. LabelAt(l) \in DOMAIN assembly
        BY <3>2, PhasesParts DEF Marked, LabelAt
      <3> QED
        BY <1>3, <3>1, <3>3
    <2> QED
      BY <2>1, <2>2
  <1> QED
    BY <1>1, <1>4, PhasesParts, PhasesPartsNext

\* Every step keeps the types.
LEMMA PhasesNext ==
    ASSUME PeepholeInv, LabelsInv, LinksInv, PhasesInv, [Next]_vars
    PROVE  PhasesInv'
  <1>1. CASE UNCHANGED vars
    BY <1>1, PhasesParts, PhasesPartsNext DEF vars
  <1>2. CASE RemovePush \/ MergePops \/ LeaveInstruction \/ EndPeephole
    BY <1>2, PeepholePhases
  <1>3. CASE SkipNop \/ EncodeInstruction \/ PlaceLabel \/ EncodeJump
    BY <1>3, EncodePhases
  <1>4. CASE LinkLabels
    BY <1>4, LinkLabelsPhases
  <1>5. CASE SizePass
    BY <1>5, SizePassPhases
  <1>6. CASE InsertDisplacement \/ EndAssembly
    BY <1>6, InsertPhases
  <1>7. CASE RunStraight \/ RunJump
    BY <1>7, RunPhases
  <1> QED
    BY <1>1, <1>2, <1>3, <1>4, <1>5, <1>6, <1>7 DEF Next

-----------------------------------------------------------------------------
(* The invariants together. *)

\* Every displacement (duckLisp_assemble, the loop that inserts them) is
\* inserted behind the opcode of a jump that has none yet, wherever the insertions before it
\* moved that opcode, and only bytes are written.
THEOREM OpcodesInvariant ==
    Spec => [](PeepholeInv /\ LabelsInv /\ LinksInv /\ PhasesInv /\ OpcodesInv)
  <1> DEFINE IInv == PeepholeInv /\ LabelsInv /\ LinksInv /\ PhasesInv /\ OpcodesInv
  <1>1. Init => IInv
    BY InitPeephole, InitLabels, InitLinks, InitPhases, InitOpcodes
  <1>2. IInv /\ [Next]_vars => IInv'
    BY PeepholeNext, LabelsNext, LinksNext, PhasesNext, OpcodesNext
  <1> QED
    BY <1>1, <1>2, PTL DEF Spec

\* The parts of the type invariant.
LEMMA InvariantsImplyTypes ==
    ASSUME PeepholeInv, PhasesInv, OpcodesInv
    PROVE  TypeOK
  <1> DEFINE m == Len(assembly)
             n == Len(links)
             S == {m, n}
  <1>1. Len(assembly) = Len(program) /\ m \in Nat
    BY AssemblyFacts DEF PeepholeInv
  <1>2. links \in Seq(SizedLink) /\ n \in Nat
    BY PhasesParts, SeqFacts
  <1>3. \A k \in DOMAIN links : links[k].size \in {0, 1, 2, 4}
    BY <1>2, SeqFacts, LinksAreSized
  <1>4. \A k \in DOMAIN code : code[k] \in 0 .. 255
    BY OpcodesParts, SeqFacts DEF Byte
  <1>5. at \in 1 .. m + 1 \/ at \in 1 .. n + 1
    <2>1. phase = "size" => at \in 1 .. n + 1
      <3> HIDE DEF n
      <3> QED
        BY <1>2, PhasesParts
    <2> QED
      BY <2>1, PhasesParts
  <1> HIDE DEF m, n
  <1>6. Max(S) \in Int /\ Max(S) >= m /\ Max(S) >= n
    <2>1. \E x \in S : \A y \in S : x >= y
      BY <1>1, <1>2
    <2>2. Max(S) \in S /\ \A y \in S : Max(S) >= y
      BY <2>1 DEF Max
    <2>3. Max(S) \in Int
      BY <1>1, <1>2, <2>2
    <2>4. m \in S /\ n \in S
      OBVIOUS
    <2> QED
      BY <2>2, <2>3, <2>4
  <1> HIDE DEF S
  <1>7. at \in 1 .. Max(S) + 1
    BY <1>1, <1>2, <1>5, <1>6
  <1> QED
    BY <1>1, <1>3, <1>4, <1>7, PhasesParts DEF TypeOK, S, m, n

\* The variables of the assembler have their types, whatever the assembly: the code is bytes, and
\* the place it is at lies in the assembly or among the links.
THEOREM TypesAreKept == Spec => []TypeOK
  BY OpcodesInvariant, InvariantsImplyTypes, PTL
=============================================================================
