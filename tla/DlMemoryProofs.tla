--------------------------- MODULE DlMemoryProofs ---------------------------
(***************************************************************************)
(* Proofs about DlMemory, for any size of the memory and of an entry, any  *)
(* clients and any requests, and for the strategies that start at the head *)
(* of the list, as long as no failure is survived.                         *)
(***************************************************************************)
EXTENDS DlMemory, SequenceLemmas, FiniteSetTheorems

-----------------------------------------------------------------------------
(* The least and the greatest of a set. *)

LEMMA MinFacts ==
    ASSUME NEW S \in SUBSET Nat, S # {}
    PROVE  Min(S) \in S
  BY NaturalMinimum DEF Min

LEMMA MaxFacts ==
    ASSUME NEW n \in Nat, NEW S \in SUBSET (0 .. n), S # {}
    PROVE  Max(S) \in S
  <1> DEFINE T == {i \in 0 .. n : n - i \in S}
  <1>1. T \in SUBSET Nat /\ T # {}
    <2> PICK i \in S : TRUE
      OBVIOUS
    <2>1. n - i \in 0 .. n /\ n - (n - i) = i
      OBVIOUS
    <2>2. n - i \in T
      BY <2>1
    <2>3. T \subseteq Nat
      OBVIOUS
    <2> QED
      BY <2>2, <2>3
  <1>2. PICK i \in T : \A j \in T : i <= j
    <2> HIDE DEF T
    <2> QED
      BY <1>1, NaturalMinimum
  <1>3. n - i \in S /\ \A j \in S : n - i >= j
    <2>1. \A j \in S : n - j \in T
      <3> SUFFICES ASSUME NEW j \in S PROVE n - j \in T
        OBVIOUS
      <3>1. n - j \in 0 .. n /\ n - (n - j) = j
        OBVIOUS
      <3> QED
        BY <3>1
    <2> QED
      BY <1>2, <2>1
  <1> QED
    BY <1>3 DEF Max

-----------------------------------------------------------------------------
(* The table of entries. *)

LEMMA LengthIs ==
    ASSUME NEW a, NEW n \in Nat, Entries(a) = 0 .. n - 1
    PROVE  Length(a) = n
  <1>1. Cardinality(0 .. n - 1) = IF 0 > n - 1 THEN 0 ELSE n - 1 - 0 + 1
    BY FS_Interval
  <1> QED
    BY <1>1 DEF Length

LEMMA EntryFacts ==
    ASSUME NEW a, ListType(a)
    PROVE  /\ Length(a) \in Nat
           /\ Entries(a) = 0 .. Length(a) - 1
           /\ DOMAIN a.blockList = 0 .. Length(a) - 1
           /\ \A b \in Entries(a) : a.blockList[b] \in Block
           /\ Linked(a) \subseteq Entries(a) /\ Unlinked(a) \subseteq Entries(a)
           /\ Entries(a) \subseteq Nat
           /\ \A b \in Entries(a) : b \in Unlinked(a) <=> a.blockList[b].unlinked
           /\ \A b \in Entries(a) : b \in Linked(a) <=> ~a.blockList[b].unlinked
  BY DEF ListType, Entries, Linked, Unlinked

SetEntry(a, b, e) == [a EXCEPT !.blockList[b] = e]
SetFirst(a, b) == [a EXCEPT !.first = b]

LEMMA SetEntryFacts ==
    ASSUME NEW a, ListType(a), NEW b \in Entries(a), NEW e \in Block
    PROVE  /\ ListType(SetEntry(a, b, e)) /\ Length(SetEntry(a, b, e)) = Length(a)
           /\ Entries(SetEntry(a, b, e)) = Entries(a)
           /\ SetEntry(a, b, e).table = a.table
           /\ SetEntry(a, b, e).at = a.at
           /\ SetEntry(a, b, e).first = a.first
           /\ SetEntry(a, b, e).blockList[b] = e
           /\ \A d \in Entries(a) : d # b => SetEntry(a, b, e).blockList[d] = a.blockList[d]
  <1> DEFINE list == [a.blockList EXCEPT ![b] = e]
             a2 == SetEntry(a, b, e)
  <1>1. /\ list \in [0 .. Length(a) - 1 -> Block] /\ list[b] = e
        /\ \A d \in Entries(a) : d # b => list[d] = a.blockList[d]
    BY EntryFacts DEF ListType
  <1>2. a2 = [a EXCEPT !.blockList = list]
    BY DEF SetEntry
  <1> HIDE DEF list, a2
  <1>3. a2 = [blockList |-> list, first |-> a.first, table |-> a.table, at |-> a.at]
    BY <1>2 DEF ListType
  <1>4. Entries(a2) = 0 .. Length(a) - 1 /\ Length(a) \in Nat
    BY <1>1, <1>3 DEF Entries, ListType
  <1>5. Length(a2) = Length(a)
    BY <1>4, LengthIs
  <1>6. ListType(a2)
    BY <1>1, <1>3, <1>5 DEF ListType
  <1>7. Entries(a) = 0 .. Length(a) - 1
    BY EntryFacts
  <1> QED
    BY <1>1, <1>3, <1>4, <1>5, <1>6, <1>7 DEF a2

LEMMA SetFirstFacts ==
    ASSUME NEW a, ListType(a), NEW b \in Nat
    PROVE  /\ ListType(SetFirst(a, b)) /\ Length(SetFirst(a, b)) = Length(a)
           /\ SetFirst(a, b).table = a.table
           /\ SetFirst(a, b).at = a.at
           /\ SetFirst(a, b).first = b
           /\ SetFirst(a, b).blockList = a.blockList
  <1> DEFINE a2 == SetFirst(a, b)
  <1>1. a2 = [blockList |-> a.blockList, first |-> b, table |-> a.table, at |-> a.at]
    BY DEF ListType, SetFirst
  <1> HIDE DEF a2
  <1>2. Length(a2) = Length(a)
    BY <1>1 DEF Length, Entries
  <1> QED
    BY <1>1, <1>2 DEF ListType, a2

\* What absorbing entry n's block into entry b's does to every entry, but for the
\* links and the addresses.
Absorbed(a, a2, b, n) ==
  /\ ListType(a2) /\ Length(a2) = Length(a)
  /\ a2.table = a.table /\ a2.at = a.at
  /\ \A d \in Entries(a) :
       /\ a2.blockList[d].allocated = a.blockList[d].allocated
       /\ a2.blockList[d].unlinked = (a.blockList[d].unlinked \/ d = n)
       /\ a2.blockList[d].units = IF d = b THEN a.blockList[b].units + a.blockList[n].units
                                  ELSE a.blockList[d].units

LEMMA MergeAfterFields ==
    ASSUME NEW a, ListType(a), ListInv(a), NEW b \in Linked(a), FreeNext(a, b)
    PROVE  LET n == a.blockList[b].next
               a2 == MergeAfter(a, b)
               after == a.blockList[n].next
           IN /\ Absorbed(a, a2, b, n)
              /\ a2.first = a.first
              /\ \A d \in Entries(a) :
                   /\ a2.blockList[d].block = a.blockList[d].block
                   /\ a2.blockList[d].next = IF d = b THEN after ELSE a.blockList[d].next
                   /\ a2.blockList[d].previous = IF d = after THEN b ELSE a.blockList[d].previous
  <1> DEFINE L == a.blockList
             n == L[b].next
             after == L[n].next
             e1 == [L[b] EXCEPT !.units = @ + L[n].units]
             a1 == SetEntry(a, b, e1)
             e2 == [a1.blockList[b] EXCEPT !.next = after]
             a2 == SetEntry(a1, b, e2)
             e3 == [a2.blockList[n] EXCEPT !.unlinked = TRUE]
             a3 == SetEntry(a2, n, e3)
             e4 == [a3.blockList[after] EXCEPT !.previous = b]
             a4 == SetEntry(a3, after, e4)
  <1>1. n \in Linked(a) /\ n # b /\ n # Nil
    <2>1. n # Nil /\ n \in Linked(a) /\ L[n].block = End(L[b]) /\ L[b].units > 0
      BY DEF FreeNext, ListInv, NextInv, PlaceInv
    <2>2. L[b] \in Block
      BY EntryFacts
    <2> QED
      BY <2>1, <2>2 DEF End, Block
  <1>2. (after = Nil \/ after \in Linked(a)) /\ after # n
    <2>1. after # Nil => after \in Linked(a) /\ L[after].block = End(L[n]) /\ L[n].units > 0
      BY <1>1 DEF ListInv, NextInv, PlaceInv
    <2>2. L[n] \in Block
      BY <1>1, EntryFacts
    <2>3. after # Nil => after # n
      BY <2>1, <2>2 DEF End, Block
    <2> QED
      BY <1>1, <2>1, <2>3
  <1>3. MergeAfter(a, b) = IF after = Nil THEN a3 ELSE a4
    BY DEF MergeAfter, SetEntry
  <1>4. /\ b \in Entries(a) /\ n \in Entries(a)
        /\ after # Nil => after \in Entries(a)
        /\ \A d \in Entries(a) : L[d] \in Block
    BY <1>1, <1>2, EntryFacts
  <1> HIDE DEF L, n, after
  <1>5. /\ e1 \in Block /\ e1.units = L[b].units + L[n].units /\ e1.block = L[b].block
        /\ e1.previous = L[b].previous /\ e1.allocated = L[b].allocated
        /\ e1.unlinked = L[b].unlinked
    <2>1. L[b] \in Block /\ L[n] \in Block
      BY <1>4
    <2> QED
      BY <2>1 DEF Block, L
  <1> HIDE DEF e1
  <1>6. /\ ListType(a1) /\ Length(a1) = Length(a) /\ Entries(a1) = Entries(a)
        /\ a1.table = a.table /\ a1.at = a.at /\ a1.first = a.first
        /\ a1.blockList[b] = e1
        /\ \A d \in Entries(a) : d # b => a1.blockList[d] = L[d]
    BY <1>4, <1>5, SetEntryFacts DEF L
  <1> HIDE DEF a1
  <1>7. /\ e2 \in Block /\ e2.next = after /\ e2.units = e1.units /\ e2.block = e1.block
        /\ e2.previous = e1.previous /\ e2.allocated = e1.allocated
        /\ e2.unlinked = e1.unlinked
    <2>1. after \in Int
      BY <1>4 DEF after, Block
    <2> QED
      BY <2>1, <1>5, <1>6 DEF Block
  <1> HIDE DEF e2
  <1>8. /\ ListType(a2) /\ Length(a2) = Length(a) /\ Entries(a2) = Entries(a)
        /\ a2.table = a.table /\ a2.at = a.at /\ a2.first = a.first
        /\ a2.blockList[b] = e2
        /\ \A d \in Entries(a) : d # b => a2.blockList[d] = L[d]
    BY <1>4, <1>6, <1>7, SetEntryFacts
  <1> HIDE DEF a2
  <1>9. /\ e3 \in Block /\ e3.unlinked = TRUE /\ e3.next = L[n].next
        /\ e3.units = L[n].units /\ e3.block = L[n].block
        /\ e3.previous = L[n].previous /\ e3.allocated = L[n].allocated
    <2>1. a2.blockList[n] = L[n] /\ L[n] \in Block
      BY <1>1, <1>4, <1>8
    <2> QED
      BY <2>1 DEF Block
  <1> HIDE DEF e3
  <1>10. /\ ListType(a3) /\ Length(a3) = Length(a) /\ Entries(a3) = Entries(a)
         /\ a3.table = a.table /\ a3.at = a.at /\ a3.first = a.first
         /\ a3.blockList[n] = e3 /\ a3.blockList[b] = e2
         /\ \A d \in Entries(a) \ {b, n} : a3.blockList[d] = L[d]
    BY <1>1, <1>4, <1>8, <1>9, SetEntryFacts, SMTT(20)
  <1> HIDE DEF a3
  <1>11. \A d \in Entries(a) :
           /\ a3.blockList[d].block = L[d].block
           /\ a3.blockList[d].units = IF d = b THEN L[b].units + L[n].units ELSE L[d].units
           /\ a3.blockList[d].next = IF d = b THEN after ELSE L[d].next
           /\ a3.blockList[d].previous = L[d].previous
           /\ a3.blockList[d].allocated = L[d].allocated
           /\ a3.blockList[d].unlinked = (L[d].unlinked \/ d = n)
    <2> SUFFICES ASSUME NEW d \in Entries(a)
                 PROVE  /\ a3.blockList[d].block = L[d].block
                        /\ a3.blockList[d].units = IF d = b THEN L[b].units + L[n].units ELSE L[d].units
                        /\ a3.blockList[d].next = IF d = b THEN after ELSE L[d].next
                        /\ a3.blockList[d].previous = L[d].previous
                        /\ a3.blockList[d].allocated = L[d].allocated
                        /\ a3.blockList[d].unlinked = (L[d].unlinked \/ d = n)
      OBVIOUS
    <2>1. CASE d = b
      BY <1>1, <1>4, <1>5, <1>7, <1>10, <2>1 DEF Block
    <2>2. CASE d = n
      BY <1>1, <1>9, <1>10, <2>2
    <2>3. CASE d \notin {b, n}
      BY <1>4, <1>10, <2>3 DEF Block
    <2> QED
      BY <2>1, <2>2, <2>3
  <1>12. CASE after = Nil
    <2>1. \A d \in Entries(a) : d # after
      BY <1>12, EntryFacts DEF Nil
    <2>2. MergeAfter(a, b) = a3
      BY <1>3, <1>12
    <2> QED
      BY <1>10, <1>11, <2>1, <2>2 DEF Absorbed, L, n, after
  <1>13. CASE after # Nil
    <2>1. after \in Entries(a) /\ a3.blockList[after] \in Block
      BY <1>4, <1>10, <1>13, EntryFacts
    <2>2. /\ e4 \in Block /\ e4.previous = b /\ e4.next = a3.blockList[after].next
          /\ e4.units = a3.blockList[after].units /\ e4.block = a3.blockList[after].block
          /\ e4.unlinked = a3.blockList[after].unlinked
          /\ e4.allocated = a3.blockList[after].allocated
      <3> DEFINE x == a3.blockList[after]
      <3>1. x \in Block /\ b \in Int
        BY <2>1, <1>4, EntryFacts
      <3> HIDE DEF x
      <3>2. e4 = [x EXCEPT !.previous = b]
        BY DEF x
      <3> QED
        BY <3>1, <3>2 DEF Block, x
    <2> HIDE DEF e4
    <2>3. /\ ListType(a4) /\ Length(a4) = Length(a) /\ Entries(a4) = Entries(a)
          /\ a4.table = a.table /\ a4.at = a.at /\ a4.first = a.first
          /\ a4.blockList[after] = e4
          /\ \A d \in Entries(a) : d # after => a4.blockList[d] = a3.blockList[d]
      BY <1>10, <2>1, <2>2, SetEntryFacts
    <2> HIDE DEF a4
    <2>4. MergeAfter(a, b) = a4
      BY <1>3, <1>13
    <2>5. \A d \in Entries(a) :
            /\ a4.blockList[d].block = a3.blockList[d].block
            /\ a4.blockList[d].units = a3.blockList[d].units
            /\ a4.blockList[d].next = a3.blockList[d].next
            /\ a4.blockList[d].previous = IF d = after THEN b ELSE a3.blockList[d].previous
            /\ a4.blockList[d].allocated = a3.blockList[d].allocated
            /\ a4.blockList[d].unlinked = a3.blockList[d].unlinked
      BY <2>2, <2>3
    <2> HIDE DEF a3
    <2> QED
      BY <1>11, <2>3, <2>4, <2>5 DEF Absorbed, L, n, after
  <1> QED
    BY <1>12, <1>13

LEMMA MergeBeforeFields ==
    ASSUME NEW a, ListType(a), ListInv(a), NEW b \in Linked(a), FreePrevious(a, b)
    PROVE  LET p == a.blockList[b].previous
               a2 == MergeBefore(a, b)
               before == a.blockList[p].previous
           IN /\ Absorbed(a, a2, b, p)
              /\ a2.first = IF before = Nil THEN b ELSE a.first
              /\ \A d \in Entries(a) :
                   /\ a2.blockList[d].block =
                        IF d = b THEN a.blockList[p].block ELSE a.blockList[d].block
                   /\ a2.blockList[d].next = IF d = before THEN b ELSE a.blockList[d].next
                   /\ a2.blockList[d].previous =
                        IF d = b THEN before ELSE a.blockList[d].previous
  <1> DEFINE L == a.blockList
             p == L[b].previous
             before == L[p].previous
             e3 == [L[b] EXCEPT !.units = @ + L[p].units, !.block = @ - L[p].units,
                                !.previous = before]
             a3 == SetEntry(a, b, e3)
             e4 == [a3.blockList[p] EXCEPT !.unlinked = TRUE]
             a4 == SetEntry(a3, p, e4)
             e5 == [a4.blockList[before] EXCEPT !.next = b]
             a5 == SetEntry(a4, before, e5)
  <1>1. p \in Linked(a) /\ p # b /\ p # Nil /\ L[p].block = L[b].block - L[p].units
    <2>1. p # Nil /\ p \in Linked(a) /\ L[p].next = b
      BY DEF FreePrevious, ListInv, PreviousInv
    <2>2. b # Nil
      BY EntryFacts DEF Nil
    <2>3. L[b].block = End(L[p]) /\ L[p].units > 0
      BY <2>1, <2>2 DEF ListInv, NextInv, PlaceInv
    <2>4. L[b] \in Block /\ L[p] \in Block
      BY <2>1, EntryFacts
    <2> QED
      BY <2>1, <2>3, <2>4 DEF End, Block
  <1>2. (before = Nil \/ before \in Linked(a)) /\ before # p
    <2>1. before # Nil => before \in Linked(a) /\ L[before].next = p
      BY <1>1 DEF ListInv, PreviousInv
    <2>2. before # Nil => L[p].block = End(L[before]) /\ L[p].units > 0
      BY <1>1, <2>1 DEF ListInv, NextInv, PlaceInv
    <2>3. L[p] \in Block
      BY <1>1, EntryFacts
    <2>4. before # Nil => before # p
      <3> SUFFICES ASSUME before # Nil, before = p PROVE FALSE
        OBVIOUS
      <3> DEFINE x == L[p]
      <3>1. x.block = End(x) /\ x.units > 0 /\ x \in Block
        BY <2>2, <2>3
      <3> HIDE DEF x
      <3> QED
        BY <3>1 DEF End, Block
    <2> QED
      BY <1>1, <2>1, <2>4
  <1>3. MergeBefore(a, b) = IF before = Nil THEN SetFirst(a4, b) ELSE a5
    BY DEF MergeBefore, SetEntry, SetFirst
  <1>4. /\ b \in Entries(a) /\ p \in Entries(a) /\ b \in Nat
        /\ before # Nil => before \in Entries(a)
        /\ \A d \in Entries(a) : L[d] \in Block
    BY <1>1, <1>2, EntryFacts
  <1>0. before # b
    <2>1. before # Nil => L[before].next = p
      BY <1>1 DEF ListInv, PreviousInv
    <2>2. before # Nil => L[p].block = End(L[before]) /\ L[p].units > 0 /\ L[b].units > 0
      BY <1>1, <1>2, <2>1 DEF ListInv, NextInv, PlaceInv
    <2>3. L[b] \in Block /\ L[p] \in Block
      BY <1>4
    <2> QED
      BY <1>1, <1>4, <2>2, <2>3 DEF End, Block, Nil
  <1> HIDE DEF L, p, before
  <1>5. /\ e3 \in Block /\ e3.units = L[b].units + L[p].units /\ e3.block = L[p].block
        /\ e3.next = L[b].next /\ e3.allocated = L[b].allocated
        /\ e3.unlinked = L[b].unlinked /\ e3.previous = before
    <2> DEFINE x == L[b]
               y == L[p].units
    <2>1. x \in Block /\ y \in Nat /\ before \in Int /\ L[p].block = x.block - y
      BY <1>1, <1>4 DEF Block, before
    <2>2. e3 = [x EXCEPT !.units = x.units + y, !.block = x.block - y, !.previous = before]
      BY DEF x
    <2> HIDE DEF x, y, e3
    <2> DEFINE x1 == [x EXCEPT !.units = x.units + y]
               x2 == [x1 EXCEPT !.block = x.block - y]
    <2>4. /\ x1 \in Block /\ x1.units = x.units + y /\ x1.block = x.block
          /\ x1.next = x.next /\ x1.allocated = x.allocated /\ x1.unlinked = x.unlinked
      BY <2>1 DEF Block
    <2>5. e3 = [x2 EXCEPT !.previous = before]
      BY <2>2
    <2> HIDE DEF x1
    <2>6. /\ x2 \in Block /\ x2.units = x.units + y /\ x2.block = x.block - y
          /\ x2.next = x.next /\ x2.allocated = x.allocated /\ x2.unlinked = x.unlinked
      BY <2>1, <2>4 DEF Block
    <2> HIDE DEF x2
    <2>3. /\ e3 \in Block /\ e3.units = x.units + y /\ e3.block = x.block - y
          /\ e3.next = x.next /\ e3.allocated = x.allocated
          /\ e3.unlinked = x.unlinked /\ e3.previous = before
      BY <2>1, <2>5, <2>6 DEF Block
    <2> QED
      BY <2>1, <2>3 DEF x, y
  <1> HIDE DEF e3
  <1>10. /\ ListType(a3) /\ Length(a3) = Length(a) /\ Entries(a3) = Entries(a)
         /\ a3.table = a.table /\ a3.at = a.at /\ a3.first = a.first
         /\ a3.blockList[b] = e3
         /\ \A d \in Entries(a) : d # b => a3.blockList[d] = L[d]
    BY <1>4, <1>5, SetEntryFacts DEF L
  <1> HIDE DEF a3
  <1>11. /\ e4 \in Block /\ e4.unlinked = TRUE /\ e4.next = L[p].next
         /\ e4.units = L[p].units /\ e4.block = L[p].block
         /\ e4.previous = L[p].previous /\ e4.allocated = L[p].allocated
    <2>1. a3.blockList[p] = L[p] /\ L[p] \in Block
      BY <1>1, <1>4, <1>10
    <2> QED
      BY <2>1 DEF Block
  <1> HIDE DEF e4
  <1>12. /\ ListType(a4) /\ Length(a4) = Length(a) /\ Entries(a4) = Entries(a)
         /\ a4.table = a.table /\ a4.at = a.at /\ a4.first = a.first
         /\ a4.blockList[p] = e4 /\ a4.blockList[b] = e3
         /\ \A d \in Entries(a) \ {b, p} : a4.blockList[d] = L[d]
    <2>1. /\ ListType(a4) /\ Length(a4) = Length(a3) /\ Entries(a4) = Entries(a3)
          /\ a4.table = a3.table /\ a4.at = a3.at /\ a4.first = a3.first
          /\ a4.blockList[p] = e4
          /\ \A d \in Entries(a3) : d # p => a4.blockList[d] = a3.blockList[d]
      BY <1>4, <1>10, <1>11, SetEntryFacts
    <2> QED
      BY <1>1, <1>4, <1>10, <2>1
  <1> HIDE DEF a4
  <1>13. \A d \in Entries(a) :
           /\ a4.blockList[d].block = IF d = b THEN L[p].block ELSE L[d].block
           /\ a4.blockList[d].units = IF d = b THEN L[b].units + L[p].units ELSE L[d].units
           /\ a4.blockList[d].next = L[d].next
           /\ a4.blockList[d].previous = IF d = b THEN before ELSE L[d].previous
           /\ a4.blockList[d].allocated = L[d].allocated
           /\ a4.blockList[d].unlinked = (L[d].unlinked \/ d = p)
    <2> SUFFICES ASSUME NEW d \in Entries(a)
                 PROVE  /\ a4.blockList[d].block = IF d = b THEN L[p].block ELSE L[d].block
                        /\ a4.blockList[d].units = IF d = b THEN L[b].units + L[p].units ELSE L[d].units
                        /\ a4.blockList[d].next = L[d].next
                        /\ a4.blockList[d].previous = IF d = b THEN before ELSE L[d].previous
                        /\ a4.blockList[d].allocated = L[d].allocated
                        /\ a4.blockList[d].unlinked = (L[d].unlinked \/ d = p)
      OBVIOUS
    <2>1. CASE d = b
      BY <1>1, <1>4, <1>5, <1>12, <2>1 DEF Block
    <2>2. CASE d = p
      BY <1>1, <1>11, <1>12, <2>2
    <2>3. CASE d \notin {b, p}
      BY <1>4, <1>12, <2>3 DEF Block
    <2> QED
      BY <2>1, <2>2, <2>3
  <1>14. CASE before = Nil
    <2>1. \A d \in Entries(a) : d # before
      BY <1>14, EntryFacts DEF Nil
    <2>2. MergeBefore(a, b) = SetFirst(a4, b)
      BY <1>3, <1>14
    <2>3. /\ ListType(SetFirst(a4, b)) /\ Length(SetFirst(a4, b)) = Length(a)
          /\ SetFirst(a4, b).table = a.table /\ SetFirst(a4, b).at = a.at
          /\ SetFirst(a4, b).first = b /\ SetFirst(a4, b).blockList = a4.blockList
      BY <1>4, <1>12, SetFirstFacts
    <2> QED
      BY <1>13, <1>14, <2>1, <2>2, <2>3 DEF Absorbed, L, p, before
  <1>15. CASE before # Nil
    <2>1. before \in Entries(a) /\ a4.blockList[before] \in Block
      BY <1>4, <1>12, <1>15, EntryFacts
    <2>2. /\ e5 \in Block /\ e5.next = b /\ e5.previous = a4.blockList[before].previous
          /\ e5.units = a4.blockList[before].units /\ e5.block = a4.blockList[before].block
          /\ e5.unlinked = a4.blockList[before].unlinked
          /\ e5.allocated = a4.blockList[before].allocated
      <3> DEFINE x == a4.blockList[before]
      <3>1. x \in Block /\ b \in Int
        BY <2>1, <1>4, EntryFacts
      <3> HIDE DEF x
      <3>2. e5 = [x EXCEPT !.next = b]
        BY DEF x
      <3> QED
        BY <3>1, <3>2 DEF Block, x
    <2> HIDE DEF e5
    <2>3. /\ ListType(a5) /\ Length(a5) = Length(a) /\ Entries(a5) = Entries(a)
          /\ a5.table = a.table /\ a5.at = a.at /\ a5.first = a.first
          /\ a5.blockList[before] = e5
          /\ \A d \in Entries(a) : d # before => a5.blockList[d] = a4.blockList[d]
      BY <1>12, <2>1, <2>2, SetEntryFacts
    <2> HIDE DEF a5
    <2>4. MergeBefore(a, b) = a5
      BY <1>3, <1>15
    <2>5. \A d \in Entries(a) :
            /\ a5.blockList[d].block = a4.blockList[d].block
            /\ a5.blockList[d].units = a4.blockList[d].units
            /\ a5.blockList[d].previous = a4.blockList[d].previous
            /\ a5.blockList[d].next = IF d = before THEN b ELSE a4.blockList[d].next
            /\ a5.blockList[d].allocated = a4.blockList[d].allocated
            /\ a5.blockList[d].unlinked = a4.blockList[d].unlinked
      BY <2>2, <2>3
    <2> HIDE DEF a4
    <2>6. Absorbed(a, a5, b, p)
      BY <1>13, <2>3, <2>5, SMTT(20) DEF Absorbed, L
    <2> QED
      BY <1>13, <1>15, <2>3, <2>4, <2>5, <2>6, SMTT(20) DEF L, p, before
  <1> QED
    BY <1>14, <1>15

\* Entry e becomes the free rest of block b past its first units.
LEMMA SplitFields ==
    ASSUME NEW a, ListType(a), ListInv(a), NEW b \in Linked(a), NEW e \in Unlinked(a),
           NEW units \in Nat, units < a.blockList[b].units
    PROVE  LET a2 == SplitInto(a, b, units, e)
               n == a.blockList[b].next
           IN /\ ListType(a2) /\ Length(a2) = Length(a)
              /\ a2.table = a.table /\ a2.at = a.at /\ a2.first = a.first
              /\ \A d \in Entries(a) :
                   /\ a2.blockList[d].block =
                        IF d = e THEN a.blockList[b].block + units ELSE a.blockList[d].block
                   /\ a2.blockList[d].units =
                        IF d = e THEN a.blockList[b].units - units
                        ELSE IF d = b THEN units ELSE a.blockList[d].units
                   /\ a2.blockList[d].next =
                        IF d = e THEN n ELSE IF d = b THEN e ELSE a.blockList[d].next
                   /\ a2.blockList[d].previous =
                        IF d = e THEN b ELSE IF d = n THEN e ELSE a.blockList[d].previous
                   /\ a2.blockList[d].allocated = (d # e /\ a.blockList[d].allocated)
                   /\ a2.blockList[d].unlinked = (d # e /\ a.blockList[d].unlinked)
  <1> DEFINE L == a.blockList
             n == L[b].next
             rest == [block |-> L[b].block + units, units |-> L[b].units - units,
                      previous |-> b, next |-> n, allocated |-> FALSE, unlinked |-> FALSE]
             a1 == SetEntry(a, e, rest)
             e2 == [a1.blockList[b] EXCEPT !.units = units]
             a2 == SetEntry(a1, b, e2)
             e3 == [a2.blockList[b] EXCEPT !.next = e]
             a3 == SetEntry(a2, b, e3)
             e4 == [a3.blockList[n] EXCEPT !.previous = e]
             a4 == SetEntry(a3, n, e4)
  <1>1. /\ b \in Entries(a) /\ e \in Entries(a) /\ b \in Nat /\ e \in Nat /\ e # b
        /\ \A d \in Entries(a) : L[d] \in Block
    BY EntryFacts DEF Unlinked
  <1>2. (n = Nil \/ n \in Linked(a)) /\ n # b /\ n # e
    <2>1. n # Nil => n \in Linked(a) /\ L[n].block = End(L[b]) /\ L[b].units > 0
      BY DEF ListInv, NextInv, PlaceInv
    <2>2. L[b] \in Block
      BY <1>1
    <2>3. n # Nil => n # b /\ n # e
      BY <2>1, <2>2 DEF End, Block, Unlinked
    <2> QED
      BY <1>1, <2>1, <2>3 DEF Nil
  <1>3. SplitInto(a, b, units, e) = IF n = Nil THEN a3 ELSE a4
    BY DEF SplitInto, SetEntry
  <1>4. n # Nil => n \in Entries(a)
    BY <1>2, EntryFacts
  <1> HIDE DEF L, n
  <1>5. /\ rest \in Block /\ rest.block = L[b].block + units /\ rest.units = L[b].units - units
        /\ rest.previous = b /\ rest.next = n /\ rest.allocated = FALSE
        /\ rest.unlinked = FALSE
    <2>1. L[b] \in Block /\ n \in Int /\ units < L[b].units
      BY <1>1 DEF n, L, Block
    <2> QED
      BY <1>1, <2>1 DEF Block
  <1> HIDE DEF rest
  <1>6. /\ ListType(a1) /\ Length(a1) = Length(a) /\ Entries(a1) = Entries(a)
        /\ a1.table = a.table /\ a1.at = a.at /\ a1.first = a.first
        /\ a1.blockList[e] = rest
        /\ \A d \in Entries(a) : d # e => a1.blockList[d] = L[d]
    <2>1. /\ ListType(a1) /\ Length(a1) = Length(a) /\ Entries(a1) = Entries(a)
          /\ a1.table = a.table /\ a1.at = a.at /\ a1.first = a.first
          /\ a1.blockList[e] = rest
          /\ \A d \in Entries(a) : d # e => a1.blockList[d] = a.blockList[d]
      BY <1>1, <1>5, SetEntryFacts, SMTT(20)
    <2> QED
      BY <2>1 DEF L
  <1> HIDE DEF a1
  <1>7. /\ e2 \in Block /\ e2.units = units /\ e2.next = L[b].next /\ e2.block = L[b].block
        /\ e2.previous = L[b].previous /\ e2.allocated = L[b].allocated
        /\ e2.unlinked = L[b].unlinked
    <2>1. a1.blockList[b] = L[b] /\ L[b] \in Block
      BY <1>1, <1>6
    <2> QED
      BY <2>1 DEF Block
  <1> HIDE DEF e2
  <1>8. /\ ListType(a2) /\ Length(a2) = Length(a) /\ Entries(a2) = Entries(a)
        /\ a2.table = a.table /\ a2.at = a.at /\ a2.first = a.first
        /\ a2.blockList[e] = rest /\ a2.blockList[b] = e2
        /\ \A d \in Entries(a) \ {b, e} : a2.blockList[d] = L[d]
    BY <1>1, <1>6, <1>7, SetEntryFacts, SMTT(20)
  <1> HIDE DEF a2
  <1>9. /\ e3 \in Block /\ e3.next = e /\ e3.units = e2.units /\ e3.block = e2.block
        /\ e3.previous = e2.previous /\ e3.allocated = e2.allocated
        /\ e3.unlinked = e2.unlinked
    BY <1>1, <1>7, <1>8 DEF Block
  <1> HIDE DEF e3
  <1>10. /\ ListType(a3) /\ Length(a3) = Length(a) /\ Entries(a3) = Entries(a)
         /\ a3.table = a.table /\ a3.at = a.at /\ a3.first = a.first
         /\ a3.blockList[e] = rest /\ a3.blockList[b] = e3
         /\ \A d \in Entries(a) \ {b, e} : a3.blockList[d] = L[d]
    <2>1. /\ ListType(a3) /\ Length(a3) = Length(a2) /\ Entries(a3) = Entries(a2)
          /\ a3.table = a2.table /\ a3.at = a2.at /\ a3.first = a2.first
          /\ a3.blockList[b] = e3
          /\ \A d \in Entries(a2) : d # b => a3.blockList[d] = a2.blockList[d]
      BY <1>1, <1>8, <1>9, SetEntryFacts
    <2> QED
      BY <1>1, <1>8, <2>1
  <1> HIDE DEF a3
  <1>11. \A d \in Entries(a) :
           /\ a3.blockList[d].block = IF d = e THEN L[b].block + units ELSE L[d].block
           /\ a3.blockList[d].units =
                IF d = e THEN L[b].units - units ELSE IF d = b THEN units ELSE L[d].units
           /\ a3.blockList[d].next = IF d = e THEN n ELSE IF d = b THEN e ELSE L[d].next
           /\ a3.blockList[d].previous = IF d = e THEN b ELSE L[d].previous
           /\ a3.blockList[d].allocated = (d # e /\ L[d].allocated)
           /\ a3.blockList[d].unlinked = (d # e /\ L[d].unlinked)
    <2> SUFFICES ASSUME NEW d \in Entries(a)
                 PROVE  /\ a3.blockList[d].block = IF d = e THEN L[b].block + units ELSE L[d].block
                        /\ a3.blockList[d].units =
                             IF d = e THEN L[b].units - units ELSE IF d = b THEN units ELSE L[d].units
                        /\ a3.blockList[d].next = IF d = e THEN n ELSE IF d = b THEN e ELSE L[d].next
                        /\ a3.blockList[d].previous = IF d = e THEN b ELSE L[d].previous
                        /\ a3.blockList[d].allocated = (d # e /\ L[d].allocated)
                        /\ a3.blockList[d].unlinked = (d # e /\ L[d].unlinked)
      OBVIOUS
    <2>1. CASE d = b
      BY <1>1, <1>7, <1>9, <1>10, <2>1 DEF Block
    <2>2. CASE d = e
      BY <1>1, <1>5, <1>10, <2>2
    <2>3. CASE d \notin {b, e}
      BY <1>1, <1>10, <2>3 DEF Block
    <2> QED
      BY <2>1, <2>2, <2>3
  <1>12. CASE n = Nil
    <2>1. \A d \in Entries(a) : d # n
      BY <1>12, EntryFacts DEF Nil
    <2>2. SplitInto(a, b, units, e) = a3
      BY <1>3, <1>12
    <2> QED
      BY <1>10, <1>11, <2>1, <2>2 DEF L, n
  <1>13. CASE n # Nil
    <2>1. n \in Entries(a) /\ a3.blockList[n] \in Block
      BY <1>4, <1>10, <1>13, EntryFacts
    <2>2. /\ e4 \in Block /\ e4.previous = e /\ e4.next = a3.blockList[n].next
          /\ e4.units = a3.blockList[n].units /\ e4.block = a3.blockList[n].block
          /\ e4.unlinked = a3.blockList[n].unlinked
          /\ e4.allocated = a3.blockList[n].allocated
      <3> DEFINE x == a3.blockList[n]
      <3>1. x \in Block /\ e \in Int
        BY <2>1, <1>1
      <3> HIDE DEF x
      <3>2. e4 = [x EXCEPT !.previous = e]
        BY DEF x
      <3> QED
        BY <3>1, <3>2 DEF Block, x
    <2> HIDE DEF e4
    <2>3. /\ ListType(a4) /\ Length(a4) = Length(a) /\ Entries(a4) = Entries(a)
          /\ a4.table = a.table /\ a4.at = a.at /\ a4.first = a.first
          /\ a4.blockList[n] = e4
          /\ \A d \in Entries(a) : d # n => a4.blockList[d] = a3.blockList[d]
      BY <1>10, <2>1, <2>2, SetEntryFacts
    <2> HIDE DEF a4
    <2>4. SplitInto(a, b, units, e) = a4
      BY <1>3, <1>13
    <2>5. \A d \in Entries(a) :
            /\ a4.blockList[d].block = a3.blockList[d].block
            /\ a4.blockList[d].units = a3.blockList[d].units
            /\ a4.blockList[d].next = a3.blockList[d].next
            /\ a4.blockList[d].previous = IF d = n THEN e ELSE a3.blockList[d].previous
            /\ a4.blockList[d].allocated = a3.blockList[d].allocated
            /\ a4.blockList[d].unlinked = a3.blockList[d].unlinked
      BY <2>2, <2>3
    <2> HIDE DEF a3
    <2> QED
      BY <1>2, <1>11, <2>3, <2>4, <2>5 DEF L, n
  <1> QED
    BY <1>12, <1>13

-----------------------------------------------------------------------------
(* The operations keep the list. *)

\* The blocks in use other than b are the same before and after.
SameBlocks(a, a2, b) ==
  /\ \A d \in Linked(a) \ {b} : a.blockList[d].allocated =>
       /\ d \in Linked(a2) /\ a2.blockList[d].allocated
       /\ a2.blockList[d].block = a.blockList[d].block
       /\ a2.blockList[d].units = a.blockList[d].units
  /\ \A d \in Linked(a2) \ {b} : a2.blockList[d].allocated =>
       d \in Linked(a) /\ a.blockList[d].allocated

\* Operations keep the list, the size of the table and the blocks in use but b.
Keeps(a, a2, b) ==
  /\ ListType(a2) /\ ListInv(a2)
  /\ Length(a2) = Length(a) /\ a2.table = a.table /\ a2.at = a.at
  /\ b \in Linked(a2)
  /\ SameBlocks(a, a2, b)

LEMMA MarkKeeps ==
    ASSUME NEW a, ListType(a), ListInv(a), NEW b \in Linked(a), NEW v \in BOOLEAN
    PROVE  LET a2 == Mark(a, b, v)
           IN /\ Keeps(a, a2, b)
              /\ Unlinked(a2) = Unlinked(a) /\ Linked(a2) = Linked(a)
              /\ a2.first = a.first
              /\ \A d \in Entries(a) :
                   /\ a2.blockList[d].allocated = IF d = b THEN v ELSE a.blockList[d].allocated
                   /\ a2.blockList[d].block = a.blockList[d].block
                   /\ a2.blockList[d].units = a.blockList[d].units
                   /\ a2.blockList[d].next = a.blockList[d].next
                   /\ a2.blockList[d].previous = a.blockList[d].previous
  <1> DEFINE e == [a.blockList[b] EXCEPT !.allocated = v]
             a2 == SetEntry(a, b, e)
  <1>1. b \in Entries(a) /\ a.blockList[b] \in Block
    BY EntryFacts
  <1>2. /\ e \in Block /\ e.block = a.blockList[b].block /\ e.units = a.blockList[b].units
        /\ e.next = a.blockList[b].next /\ e.previous = a.blockList[b].previous
        /\ e.allocated = v /\ e.unlinked = a.blockList[b].unlinked
    BY <1>1 DEF Block
  <1>3. Mark(a, b, v) = a2
    BY DEF Mark, SetEntry
  <1> HIDE DEF e
  <1>4. /\ ListType(a2) /\ Length(a2) = Length(a) /\ Entries(a2) = Entries(a)
        /\ a2.table = a.table /\ a2.at = a.at /\ a2.first = a.first
        /\ a2.blockList[b] = e
        /\ \A d \in Entries(a) : d # b => a2.blockList[d] = a.blockList[d]
    BY <1>1, <1>2, SetEntryFacts
  <1> HIDE DEF a2
  <1>5. \A d \in Entries(a) :
          /\ a2.blockList[d].allocated = IF d = b THEN v ELSE a.blockList[d].allocated
          /\ a2.blockList[d].block = a.blockList[d].block
          /\ a2.blockList[d].units = a.blockList[d].units
          /\ a2.blockList[d].next = a.blockList[d].next
          /\ a2.blockList[d].previous = a.blockList[d].previous
          /\ a2.blockList[d].unlinked = a.blockList[d].unlinked
    BY <1>2, <1>4
  <1>6. Linked(a2) = Linked(a) /\ Unlinked(a2) = Unlinked(a)
    BY <1>4, <1>5 DEF Linked, Unlinked
  <1>7. ListInv(a2)
    <2>1. HeadInv(a2) /\ TailInv(a2)
      BY <1>4, <1>5, <1>6, EntryFacts DEF ListInv, HeadInv, TailInv
    <2>2. \A d \in Linked(a2) : End(a2.blockList[d]) = End(a.blockList[d])
      BY <1>5, <1>6, EntryFacts DEF End
    <2>3. PlaceInv(a2)
      BY <1>5, <1>6, <2>2, EntryFacts DEF ListInv, PlaceInv
    <2>4. NextInv(a2)
      BY <1>5, <1>6, <2>2, EntryFacts DEF ListInv, NextInv
    <2>5. PreviousInv(a2)
      BY <1>4, <1>5, <1>6, EntryFacts DEF ListInv, PreviousInv
    <2>6. DisjointInv(a2)
      BY <1>5, <1>6, <2>2, EntryFacts DEF ListInv, DisjointInv
    <2> QED
      BY <2>1, <2>3, <2>4, <2>5, <2>6 DEF ListInv
  <1>8. SameBlocks(a, a2, b)
    BY <1>5, <1>6, EntryFacts DEF SameBlocks
  <1> QED
    BY <1>1, <1>3, <1>4, <1>5, <1>6, <1>7, <1>8 DEF Keeps

LEMMA LinkFacts ==
    ASSUME NEW a, ListType(a), ListInv(a), NEW b \in Linked(a)
    PROVE  /\ b \in Nat /\ b # Nil /\ b \in Entries(a)
           /\ a.blockList[b] \in Block
           /\ a.blockList[b].block \in Nat /\ a.blockList[b].units \in Nat \ {0}
           /\ End(a.blockList[b]) = a.blockList[b].block + a.blockList[b].units
           /\ End(a.blockList[b]) \in Nat /\ End(a.blockList[b]) <= Size
           /\ LET n == a.blockList[b].next
              IN IF n = Nil THEN End(a.blockList[b]) = Size
                 ELSE /\ n \in Linked(a) /\ a.blockList[n].previous = b
                      /\ a.blockList[n].block = End(a.blockList[b])
           /\ LET p == a.blockList[b].previous
              IN IF p = Nil THEN b = a.first
                 ELSE p \in Linked(a) /\ a.blockList[p].next = b /\ b # a.first
           /\ \A d \in Linked(a) \ {b} : \/ End(a.blockList[b]) <= a.blockList[d].block
                                         \/ End(a.blockList[d]) <= a.blockList[b].block
  <1>1. b \in Nat /\ b # Nil /\ b \in Entries(a) /\ a.blockList[b] \in Block
    BY EntryFacts DEF Nil
  <1>2. /\ a.blockList[b].block \in Nat /\ a.blockList[b].units \in Nat \ {0}
        /\ End(a.blockList[b]) = a.blockList[b].block + a.blockList[b].units
        /\ End(a.blockList[b]) \in Nat /\ End(a.blockList[b]) <= Size
    BY <1>1 DEF ListInv, PlaceInv, Block, End
  <1> QED
    BY <1>1, <1>2 DEF ListInv, NextInv, PreviousInv, DisjointInv

LEMMA MergeAfterKeeps ==
    ASSUME NEW a, ListType(a), ListInv(a), NEW b \in Linked(a)
    PROVE  LET a2 == MergeAfter(a, b)
           IN /\ Keeps(a, a2, b)
              /\ ~FreeNext(a, b) => a2 = a
              /\ FreeNext(a, b) => Unlinked(a2) # {}
              /\ Unlinked(a) \subseteq Unlinked(a2)
              /\ a2.blockList[b].allocated = a.blockList[b].allocated
              /\ a2.blockList[b].block = a.blockList[b].block
              /\ a2.blockList[b].units >= a.blockList[b].units
  <1>1. CASE ~FreeNext(a, b)
    <2>1. MergeAfter(a, b) = a
      BY <1>1 DEF MergeAfter
    <2>2. a.blockList[b].units >= a.blockList[b].units
      BY LinkFacts
    <2> QED
      BY <1>1, <2>1, <2>2 DEF Keeps, SameBlocks
  <1>2. CASE FreeNext(a, b)
    <2> DEFINE L == a.blockList
               n == L[b].next
               after == L[n].next
               a2 == MergeAfter(a, b)
               M == a2.blockList
    <2>1. /\ Absorbed(a, a2, b, n)
          /\ a2.first = a.first
          /\ \A d \in Entries(a) :
               /\ M[d].block = L[d].block
               /\ M[d].next = IF d = b THEN after ELSE L[d].next
               /\ M[d].previous = IF d = after THEN b ELSE L[d].previous
      BY <1>2, MergeAfterFields
    <2>2. /\ ListType(a2) /\ Length(a2) = Length(a) /\ a2.table = a.table /\ a2.at = a.at
          /\ \A d \in Entries(a) :
               /\ M[d].allocated = L[d].allocated
               /\ M[d].unlinked = (L[d].unlinked \/ d = n)
               /\ M[d].units = IF d = b THEN L[b].units + L[n].units ELSE L[d].units
      BY <2>1 DEF Absorbed
    <2>3. n # Nil /\ n \in Linked(a) /\ L[n].block = End(L[b]) /\ L[n].previous = b
          /\ ~L[n].allocated
      BY <1>2, LinkFacts DEF FreeNext
    <2>4. n # b
      BY <2>3, LinkFacts
    <2>5. /\ after = Nil => End(L[n]) = Size
          /\ after # Nil => /\ after \in Linked(a) /\ L[after].previous = n
                            /\ L[after].block = End(L[n]) /\ after # n
      BY <2>3, LinkFacts
    <2> HIDE DEF L, n, after, a2, M
    <2>6. Entries(a2) = Entries(a)
      BY <2>2, EntryFacts
    <2>7. Linked(a2) = Linked(a) \ {n} /\ Unlinked(a2) = Unlinked(a) \cup {n}
      <3>1. \A d \in Entries(a) : d \in Linked(a2) <=> d \in Linked(a) /\ d # n
        BY <2>2, <2>6 DEF Linked, L, M
      <3>2. Linked(a2) \subseteq Entries(a) /\ Linked(a) \subseteq Entries(a)
        BY <2>6 DEF Linked
      <3> QED
        BY <3>1, <3>2, <2>3, <2>6 DEF Unlinked
    <2>8. b \in Linked(a2) /\ b \in Entries(a) /\ n \in Entries(a)
          /\ \A d \in Linked(a2) : d \in Entries(a) /\ d \in Linked(a)
      BY <2>3, <2>4, <2>7, EntryFacts
    <2>9. /\ \A d \in Linked(a2) : d # b => End(M[d]) = End(L[d])
          /\ End(M[b]) = End(L[n])
      <3>1. \A d \in Linked(a2) : d # b => End(M[d]) = End(L[d])
        BY <2>1, <2>2, <2>8 DEF End
      <3>2. End(M[b]) = L[b].block + (L[b].units + L[n].units)
        BY <2>1, <2>2, <2>8 DEF End
      <3>3. /\ L[b].block \in Nat /\ L[b].units \in Nat /\ End(L[b]) = L[b].block + L[b].units
            /\ L[n].units \in Nat /\ End(L[n]) = L[n].block + L[n].units
        BY <2>3, LinkFacts DEF L
      <3> QED
        BY <2>3, <3>1, <3>2, <3>3
    <2>10. HeadInv(a2)
      <3>1. n # a.first
        BY <2>3, LinkFacts DEF L
      <3>2. a.first \in Linked(a) /\ L[a.first].block = 0
        BY DEF ListInv, HeadInv, L
      <3> QED
        BY <2>1, <2>7, <2>8, <3>1, <3>2 DEF HeadInv, M
    <2>11. TailInv(a2)
      <3>1. PICK l \in Linked(a) : L[l].next = Nil
        BY DEF ListInv, TailInv, L
      <3>2. L[b].next = n
        BY DEF n
      <3>3. CASE l = n
        <4>1. M[b].next = Nil
          BY <2>1, <2>8, <3>1, <3>3 DEF after
        <4> QED
          BY <2>8, <4>1 DEF TailInv, M
      <3>4. CASE l # n
        <4>1. l # b /\ l \in Linked(a2)
          BY <2>3, <2>7, <3>1, <3>2, <3>4
        <4>2. M[l].next = Nil
          BY <2>1, <2>8, <3>1, <4>1
        <4> QED
          BY <4>1, <4>2 DEF TailInv, M
      <3> QED
        BY <3>3, <3>4
    <2>12. PlaceInv(a2)
      <3> SUFFICES ASSUME NEW d \in Linked(a2)
                   PROVE  M[d].block >= 0 /\ M[d].units > 0 /\ End(M[d]) <= Size
        BY DEF PlaceInv, M
      <3>1. L[d].block \in Nat /\ L[d].units \in Nat \ {0} /\ End(L[d]) <= Size
        BY <2>8, LinkFacts DEF L
      <3>2. L[n].units \in Nat \ {0} /\ End(L[n]) <= Size
        BY <2>3, LinkFacts DEF L
      <3> QED
        BY <2>1, <2>2, <2>8, <2>9, <3>1, <3>2
    <2>13. NextInv(a2)
      <3> SUFFICES ASSUME NEW d \in Linked(a2)
                   PROVE  /\ M[d].next = Nil => End(M[d]) = Size
                          /\ M[d].next # Nil => /\ M[d].next \in Linked(a2)
                                                /\ M[M[d].next].previous = d
                                                /\ M[M[d].next].block = End(M[d])
        BY DEF NextInv, M
      <3>1. CASE d = b
        <4>1. M[b].next = after
          BY <2>1, <2>8
        <4>2. after # Nil => after \in Linked(a2) /\ after \in Entries(a)
          BY <2>5, <2>7, <2>8
        <4> QED
          BY <2>1, <2>5, <2>9, <3>1, <4>1, <4>2
      <3>2. CASE d # b
        <4> DEFINE m == L[d].next
        <4>1. /\ M[d].next = m /\ m # n
              /\ m = Nil => End(L[d]) = Size
              /\ m # Nil => m \in Linked(a) /\ L[m].previous = d /\ L[m].block = End(L[d])
          BY <2>1, <2>3, <2>8, <3>2, LinkFacts DEF L
        <4> HIDE DEF m
        <4>2. m # Nil => m \in Linked(a2) /\ m \in Entries(a) /\ m # after
          BY <2>5, <2>7, <2>8, <4>1
        <4> QED
          BY <2>1, <2>9, <3>2, <4>1, <4>2
      <3> QED
        BY <3>1, <3>2
    <2>14. PreviousInv(a2)
      <3> SUFFICES ASSUME NEW d \in Linked(a2)
                   PROVE  /\ M[d].previous = Nil <=> d = a.first
                          /\ M[d].previous # Nil => /\ M[d].previous \in Linked(a2)
                                                    /\ M[M[d].previous].next = d
        BY <2>1 DEF PreviousInv, M
      <3>1. CASE d = after
        <4>1. M[d].previous = b /\ b # Nil /\ d # a.first /\ M[b].next = d
          <5>1. d \in Linked(a) /\ d \in Entries(a) /\ b # Nil
            BY <2>8, EntryFacts DEF Nil
          <5>2. d # a.first
            BY <2>3, <2>5, <3>1, <5>1, LinkFacts DEF L
          <5> QED
            BY <2>1, <2>8, <3>1, <5>1, <5>2
        <4> QED
          BY <2>8, <4>1
      <3>2. CASE d # after
        <4> DEFINE m == L[d].previous
        <4>1. /\ M[d].previous = m
              /\ m = Nil <=> d = a.first
              /\ m # Nil => m \in Linked(a) /\ L[m].next = d
          BY <2>1, <2>8, <3>2, LinkFacts DEF L
        <4>2. m # Nil => m # n /\ m # b
          BY <2>7, <3>2, <4>1 DEF n, after
        <4> HIDE DEF m
        <4>3. m # Nil => m \in Linked(a2) /\ m \in Entries(a)
          BY <2>7, <2>8, <4>1, <4>2
        <4> QED
          BY <2>1, <4>1, <4>2, <4>3
      <3> QED
        BY <3>1, <3>2
    <2>15. DisjointInv(a2)
      <3>1. \A d \in Linked(a2) : d # b =>
               \/ End(M[b]) <= M[d].block
               \/ End(M[d]) <= M[b].block
        <4> SUFFICES ASSUME NEW d \in Linked(a2), d # b
                     PROVE  End(L[n]) <= L[d].block \/ End(L[d]) <= L[b].block
          BY <2>1, <2>8, <2>9
        <4>1. /\ End(L[b]) <= L[d].block \/ End(L[d]) <= L[b].block
              /\ End(L[n]) <= L[d].block \/ End(L[d]) <= L[n].block
          BY <2>3, <2>7, <2>8, LinkFacts DEF L
        <4>2. /\ L[d].block \in Nat /\ L[d].units \in Nat \ {0}
              /\ End(L[d]) = L[d].block + L[d].units /\ End(L[b]) \in Nat
          BY <2>8, LinkFacts DEF L
        <4> QED
          BY <2>3, <4>1, <4>2
      <3>2. \A c, d \in Linked(a2) : c # d /\ c # b /\ d # b =>
               \/ End(M[c]) <= M[d].block
               \/ End(M[d]) <= M[c].block
        <4>1. \A c, d \in Linked(a) : c # d =>
                \/ End(L[c]) <= L[d].block
                \/ End(L[d]) <= L[c].block
          BY LinkFacts DEF L
        <4> QED
          BY <2>1, <2>8, <2>9, <4>1
      <3> QED
        BY <3>1, <3>2 DEF DisjointInv, M
    <2>16. ListInv(a2)
      BY <2>10, <2>11, <2>12, <2>13, <2>14, <2>15 DEF ListInv
    <2>17. SameBlocks(a, a2, b)
      BY <2>1, <2>2, <2>3, <2>7, <2>8 DEF SameBlocks, L, M
    <2>18. /\ M[b].allocated = L[b].allocated /\ M[b].block = L[b].block
           /\ M[b].units >= L[b].units
      <3>1. L[b].units \in Nat /\ L[n].units \in Nat
        BY <2>3, LinkFacts DEF L
      <3> QED
        BY <2>1, <2>2, <2>8, <3>1
    <2> QED
      BY <1>2, <2>2, <2>7, <2>8, <2>16, <2>17, <2>18 DEF Keeps, a2, L, M
  <1> QED
    BY <1>1, <1>2

LEMMA MergeBeforeKeeps ==
    ASSUME NEW a, ListType(a), ListInv(a), NEW b \in Linked(a)
    PROVE  LET a2 == MergeBefore(a, b)
           IN /\ Keeps(a, a2, b)
              /\ ~FreePrevious(a, b) => a2 = a
              /\ FreePrevious(a, b) => \E e \in Unlinked(a2) : e \notin Unlinked(a)
              /\ Unlinked(a) \subseteq Unlinked(a2)
              /\ a2.blockList[b].allocated = a.blockList[b].allocated
              /\ a2.blockList[b].block <= a.blockList[b].block
              /\ End(a2.blockList[b]) = End(a.blockList[b])
  <1>1. CASE ~FreePrevious(a, b)
    <2>1. MergeBefore(a, b) = a
      BY <1>1 DEF MergeBefore
    <2>2. a.blockList[b].block <= a.blockList[b].block
      BY LinkFacts
    <2> QED
      BY <1>1, <2>1, <2>2 DEF Keeps, SameBlocks
  <1>2. CASE FreePrevious(a, b)
    <2> DEFINE L == a.blockList
               p == L[b].previous
               before == L[p].previous
               a2 == MergeBefore(a, b)
               M == a2.blockList
    <2>1. /\ Absorbed(a, a2, b, p)
          /\ a2.first = IF before = Nil THEN b ELSE a.first
          /\ \A d \in Entries(a) :
               /\ M[d].block = IF d = b THEN L[p].block ELSE L[d].block
               /\ M[d].next = IF d = before THEN b ELSE L[d].next
               /\ M[d].previous = IF d = b THEN before ELSE L[d].previous
      BY <1>2, MergeBeforeFields
    <2>2. /\ ListType(a2) /\ Length(a2) = Length(a) /\ a2.table = a.table /\ a2.at = a.at
          /\ \A d \in Entries(a) :
               /\ M[d].allocated = L[d].allocated
               /\ M[d].unlinked = (L[d].unlinked \/ d = p)
               /\ M[d].units = IF d = b THEN L[b].units + L[p].units ELSE L[d].units
      BY <2>1 DEF Absorbed
    <2>3. p # Nil /\ p \in Linked(a) /\ L[p].next = b /\ ~L[p].allocated /\ b # a.first
      BY <1>2, LinkFacts DEF FreePrevious
    <2>4. p # b /\ L[b].block = End(L[p]) /\ b # Nil
      BY <2>3, LinkFacts
    <2>5. /\ before = Nil => p = a.first
          /\ before # Nil => /\ before \in Linked(a) /\ L[before].next = p /\ p # a.first
                             /\ before # p /\ before # b
      <3>1. /\ before = Nil => p = a.first
            /\ before # Nil => before \in Linked(a) /\ L[before].next = p /\ p # a.first
        BY <2>3, LinkFacts
      <3>2. before # Nil => before # b
        <4>1. before # Nil => L[p].block = End(L[before])
          BY <2>3, <3>1, LinkFacts
        <4>2. /\ L[b].block \in Nat /\ L[b].units \in Nat \ {0} /\ End(L[b]) = L[b].block + L[b].units
              /\ L[p].block \in Nat /\ L[p].units \in Nat \ {0} /\ End(L[p]) = L[p].block + L[p].units
          BY <2>3, LinkFacts
        <4> HIDE DEF L, p, before
        <4>3. L[p].block + L[p].units + L[b].units # L[p].block
          BY <4>2
        <4> QED
          BY <2>4, <4>1, <4>2, <4>3
      <3> QED
        BY <2>3, <2>4, <3>1, <3>2
    <2> HIDE DEF L, p, before, a2, M
    <2>6. Entries(a2) = Entries(a)
      BY <2>2, EntryFacts
    <2>7. Linked(a2) = Linked(a) \ {p} /\ Unlinked(a2) = Unlinked(a) \cup {p}
      <3>1. \A d \in Entries(a) : d \in Linked(a2) <=> d \in Linked(a) /\ d # p
        BY <2>2, <2>6 DEF Linked, L, M
      <3>2. Linked(a2) \subseteq Entries(a) /\ Linked(a) \subseteq Entries(a)
        BY <2>6 DEF Linked
      <3> QED
        BY <3>1, <3>2, <2>3, <2>6 DEF Unlinked
    <2>8. b \in Linked(a2) /\ b \in Entries(a) /\ p \in Entries(a) /\ p \notin Unlinked(a)
          /\ \A d \in Linked(a2) : d \in Entries(a) /\ d \in Linked(a)
      BY <2>3, <2>4, <2>7, EntryFacts DEF Unlinked
    <2>9. \A d \in Linked(a2) : End(M[d]) = End(L[d])
      <3>1. \A d \in Linked(a2) : d # b => End(M[d]) = End(L[d])
        BY <2>1, <2>2, <2>8 DEF End
      <3>2. End(M[b]) = L[p].block + (L[b].units + L[p].units)
        BY <2>1, <2>2, <2>8 DEF End
      <3>3. /\ L[b].block \in Nat /\ L[b].units \in Nat /\ End(L[b]) = L[b].block + L[b].units
            /\ L[p].block \in Nat /\ L[p].units \in Nat /\ End(L[p]) = L[p].block + L[p].units
        BY <2>3, LinkFacts DEF L
      <3> QED
        BY <2>4, <3>1, <3>2, <3>3
    <2>10. HeadInv(a2)
      <3>1. a.first \in Linked(a) /\ L[a.first].block = 0
        BY DEF ListInv, HeadInv, L
      <3>2. CASE before = Nil
        BY <2>1, <2>5, <2>8, <3>1, <3>2 DEF HeadInv, M
      <3>3. CASE before # Nil
        BY <2>1, <2>3, <2>5, <2>7, <2>8, <3>1, <3>3 DEF HeadInv, M
      <3> QED
        BY <3>2, <3>3
    <2>11. TailInv(a2)
      <3>1. PICK l \in Linked(a) : L[l].next = Nil
        BY DEF ListInv, TailInv, L
      <3>2. l # p /\ l # before
        BY <2>3, <2>4, <2>5, <3>1, LinkFacts DEF L
      <3>3. l \in Linked(a2) /\ M[l].next = Nil
        BY <2>1, <2>7, <2>8, <3>1, <3>2
      <3> QED
        BY <3>3 DEF TailInv, M
    <2>12. PlaceInv(a2)
      <3> SUFFICES ASSUME NEW d \in Linked(a2)
                   PROVE  M[d].block >= 0 /\ M[d].units > 0 /\ End(M[d]) <= Size
        BY DEF PlaceInv, M
      <3>1. L[d].block \in Nat /\ L[d].units \in Nat \ {0} /\ End(L[d]) <= Size
        BY <2>8, LinkFacts DEF L
      <3>2. L[p].units \in Nat \ {0} /\ L[p].block \in Nat
        BY <2>3, LinkFacts DEF L
      <3> QED
        BY <2>1, <2>2, <2>8, <2>9, <3>1, <3>2
    <2>13. NextInv(a2)
      <3> SUFFICES ASSUME NEW d \in Linked(a2)
                   PROVE  /\ M[d].next = Nil => End(M[d]) = Size
                          /\ M[d].next # Nil => /\ M[d].next \in Linked(a2)
                                                /\ M[M[d].next].previous = d
                                                /\ M[M[d].next].block = End(M[d])
        BY DEF NextInv, M
      <3>1. CASE d = before
        <4>1. M[d].next = b /\ M[b].previous = d /\ M[b].block = L[p].block
          BY <2>1, <2>8, <3>1
        <4>2. d # Nil
          BY <2>8, LinkFacts
        <4>3. L[p].block = End(L[d])
          BY <2>3, <2>5, <2>8, <3>1, <4>2, LinkFacts DEF L
        <4> QED
          BY <2>4, <2>8, <2>9, <4>1, <4>3
      <3>2. CASE d # before
        <4> DEFINE m == L[d].next
        <4>1. /\ M[d].next = m
              /\ m = Nil => End(L[d]) = Size
              /\ m # Nil => m \in Linked(a) /\ L[m].previous = d /\ L[m].block = End(L[d])
          BY <2>1, <2>8, <3>2, LinkFacts DEF L
        <4>2. m # Nil => m # p /\ m # b
          BY <2>7, <3>2, <4>1 DEF p, before
        <4> HIDE DEF m
        <4>3. m # Nil => m \in Linked(a2) /\ m \in Entries(a)
          BY <2>7, <2>8, <4>1, <4>2
        <4> QED
          BY <2>1, <2>9, <4>1, <4>2, <4>3
      <3> QED
        BY <3>1, <3>2
    <2>14. PreviousInv(a2)
      <3> SUFFICES ASSUME NEW d \in Linked(a2)
                   PROVE  /\ M[d].previous = Nil <=> d = a2.first
                          /\ M[d].previous # Nil => /\ M[d].previous \in Linked(a2)
                                                    /\ M[M[d].previous].next = d
        BY DEF PreviousInv, M
      <3>1. CASE d = b
        <4>1. M[d].previous = before
          BY <2>1, <2>8, <3>1
        <4>2. before # Nil => before \in Linked(a2) /\ before \in Entries(a)
          BY <2>5, <2>7, <2>8
        <4> QED
          BY <2>1, <2>3, <3>1, <4>1, <4>2
      <3>2. CASE d # b
        <4> DEFINE m == L[d].previous
        <4>1. /\ M[d].previous = m
              /\ m = Nil <=> d = a.first
              /\ m # Nil => m \in Linked(a) /\ L[m].next = d
          BY <2>1, <2>8, <3>2, LinkFacts DEF L
        <4> HIDE DEF m
        <4>2. d # p
          BY <2>7
        <4>3. d = a2.first <=> d = a.first
          BY <2>1, <2>5, <3>2, <4>2
        <4>4. m # Nil => m # p /\ m # before
          BY <2>3, <2>5, <3>2, <4>1, <4>2
        <4>5. m # Nil => m \in Linked(a2) /\ m \in Entries(a)
          BY <2>7, <2>8, <4>1, <4>4
        <4> QED
          BY <2>1, <4>1, <4>3, <4>4, <4>5
      <3> QED
        BY <3>1, <3>2
    <2>15. DisjointInv(a2)
      <3>1. \A d \in Linked(a2) : d # b =>
               \/ End(M[b]) <= M[d].block
               \/ End(M[d]) <= M[b].block
        <4> SUFFICES ASSUME NEW d \in Linked(a2), d # b
                     PROVE  End(L[b]) <= L[d].block \/ End(L[d]) <= L[p].block
          BY <2>1, <2>8, <2>9
        <4>1. /\ End(L[b]) <= L[d].block \/ End(L[d]) <= L[b].block
              /\ End(L[p]) <= L[d].block \/ End(L[d]) <= L[p].block
          BY <2>3, <2>7, <2>8, LinkFacts DEF L
        <4>2. /\ L[d].block \in Nat /\ L[d].units \in Nat \ {0}
              /\ End(L[d]) = L[d].block + L[d].units /\ End(L[p]) \in Nat
          BY <2>3, <2>8, LinkFacts DEF L
        <4> QED
          BY <2>4, <4>1, <4>2
      <3>2. \A c, d \in Linked(a2) : c # d /\ c # b /\ d # b =>
               \/ End(M[c]) <= M[d].block
               \/ End(M[d]) <= M[c].block
        <4>1. \A c, d \in Linked(a) : c # d =>
                \/ End(L[c]) <= L[d].block
                \/ End(L[d]) <= L[c].block
          BY LinkFacts DEF L
        <4> QED
          BY <2>1, <2>8, <2>9, <4>1
      <3> QED
        BY <3>1, <3>2 DEF DisjointInv, M
    <2>16. ListInv(a2)
      BY <2>10, <2>11, <2>12, <2>13, <2>14, <2>15 DEF ListInv
    <2>17. SameBlocks(a, a2, b)
      BY <2>1, <2>2, <2>3, <2>7, <2>8 DEF SameBlocks, L, M
    <2>18. M[b].allocated = L[b].allocated /\ M[b].block <= L[b].block
      <3>1. L[p].units \in Nat /\ L[p].block \in Nat /\ End(L[p]) = L[p].block + L[p].units
        BY <2>3, LinkFacts DEF L
      <3> QED
        BY <2>1, <2>2, <2>4, <2>8, <3>1
    <2> QED
      BY <1>2, <2>2, <2>7, <2>8, <2>9, <2>16, <2>17, <2>18 DEF Keeps, a2, L, M
  <1> QED
    BY <1>1, <1>2

LEMMA SplitKeeps ==
    ASSUME NEW a, ListType(a), ListInv(a), NEW b \in Linked(a), NEW e \in Unlinked(a),
           NEW units \in Nat \ {0}, units < a.blockList[b].units
    PROVE  LET a2 == SplitInto(a, b, units, e)
           IN /\ Keeps(a, a2, b)
              /\ Unlinked(a2) = Unlinked(a) \ {e}
              /\ a2.blockList[b].allocated = a.blockList[b].allocated
              /\ a2.blockList[b].block = a.blockList[b].block
              /\ a2.blockList[b].units = units
  <1> DEFINE L == a.blockList
             n == L[b].next
             a2 == SplitInto(a, b, units, e)
             M == a2.blockList
  <1>1. /\ ListType(a2) /\ Length(a2) = Length(a)
        /\ a2.table = a.table /\ a2.at = a.at /\ a2.first = a.first
        /\ \A d \in Entries(a) :
             /\ M[d].block = IF d = e THEN L[b].block + units ELSE L[d].block
             /\ M[d].units = IF d = e THEN L[b].units - units
                             ELSE IF d = b THEN units ELSE L[d].units
             /\ M[d].next = IF d = e THEN n ELSE IF d = b THEN e ELSE L[d].next
             /\ M[d].previous = IF d = e THEN b ELSE IF d = n THEN e ELSE L[d].previous
             /\ M[d].allocated = (d # e /\ L[d].allocated)
             /\ M[d].unlinked = (d # e /\ L[d].unlinked)
    BY SplitFields
  <1>2. /\ n = Nil => End(L[b]) = Size
        /\ n # Nil => n \in Linked(a) /\ L[n].previous = b /\ L[n].block = End(L[b])
    BY LinkFacts
  <1>3. units < L[b].units
    OBVIOUS
  <1> HIDE DEF L, n, a2, M
  <1>4. Entries(a2) = Entries(a)
    BY <1>1, EntryFacts
  <1>5. /\ e \in Entries(a) /\ e # b /\ b \in Entries(a) /\ e \notin Linked(a)
        /\ e # Nil /\ b # Nil
    BY EntryFacts DEF Unlinked, Nil
  <1>6. Linked(a2) = Linked(a) \cup {e} /\ Unlinked(a2) = Unlinked(a) \ {e}
    <2>1. \A d \in Entries(a) : d \in Linked(a2) <=> d \in Linked(a) \/ d = e
      BY <1>1, <1>4 DEF Linked, L, M
    <2>2. Linked(a2) \subseteq Entries(a) /\ Linked(a) \subseteq Entries(a)
      BY <1>4 DEF Linked
    <2> QED
      BY <2>1, <2>2, <1>4, <1>5 DEF Unlinked
  <1>7. \A d \in Linked(a) : d \in Entries(a) /\ d # e
    BY <1>5, EntryFacts
  <1>8. /\ L[b].block \in Nat /\ L[b].units \in Nat \ {0} /\ End(L[b]) = L[b].block + L[b].units
        /\ End(L[b]) \in Nat /\ End(L[b]) <= Size
    BY LinkFacts DEF L
  <1>9. /\ End(M[b]) = L[b].block + units
        /\ End(M[e]) = End(L[b])
        /\ \A d \in Linked(a) : d # b => End(M[d]) = End(L[d])
    <2>1. End(M[b]) = L[b].block + units /\ End(M[e]) = L[b].block + units + (L[b].units - units)
      BY <1>1, <1>5 DEF End
    <2>2. \A d \in Linked(a) : d # b => End(M[d]) = End(L[d])
      BY <1>1, <1>7 DEF End
    <2> QED
      BY <1>8, <2>1, <2>2
  <1>10. HeadInv(a2)
    <2>1. a.first \in Linked(a) /\ L[a.first].block = 0
      BY DEF ListInv, HeadInv, L
    <2> QED
      BY <1>1, <1>6, <1>7, <2>1 DEF HeadInv, M
  <1>11. TailInv(a2)
    <2>1. PICK l \in Linked(a) : L[l].next = Nil
      BY DEF ListInv, TailInv, L
    <2>2. CASE l = b
      <3>1. M[e].next = Nil
        BY <1>1, <1>5, <2>1, <2>2 DEF n
      <3> QED
        BY <1>6, <3>1 DEF TailInv, M
    <2>3. CASE l # b
      <3>1. M[l].next = Nil
        BY <1>1, <1>7, <2>1, <2>3
      <3> QED
        BY <1>6, <2>1, <3>1 DEF TailInv, M
    <2> QED
      BY <2>2, <2>3
  <1>12. PlaceInv(a2)
    <2>1. M[e].block >= 0 /\ M[e].units > 0 /\ End(M[e]) <= Size
      BY <1>1, <1>3, <1>5, <1>8, <1>9
    <2>2. \A d \in Linked(a) : M[d].block >= 0 /\ M[d].units > 0 /\ End(M[d]) <= Size
      <3> SUFFICES ASSUME NEW d \in Linked(a)
                   PROVE  M[d].block >= 0 /\ M[d].units > 0 /\ End(M[d]) <= Size
        OBVIOUS
      <3>1. L[d].block \in Nat /\ L[d].units \in Nat \ {0} /\ End(L[d]) <= Size
        BY LinkFacts DEF L
      <3>2. CASE d = b
        <4>1. M[b].block = L[b].block /\ M[b].units = units
          BY <1>1, <1>5
        <4> DEFINE x == L[b].block
                   y == L[b].units
                   z == End(M[b])
        <4>2. x \in Nat /\ y \in Nat /\ z = x + units /\ units < y /\ x + y <= Size
          BY <1>3, <1>8, <1>9
        <4> HIDE DEF x, y, z
        <4>3. x >= 0 /\ units > 0 /\ z <= Size
          BY <4>2, AllocatorAssumption
        <4> QED
          BY <3>2, <4>1, <4>3 DEF x, z
      <3>3. CASE d # b
        BY <1>1, <1>7, <1>9, <3>1, <3>3
      <3> QED
        BY <3>2, <3>3
    <2> QED
      BY <1>6, <2>1, <2>2 DEF PlaceInv, M
  <1>13. NextInv(a2)
    <2> DEFINE Good(d) == /\ M[d].next = Nil => End(M[d]) = Size
                          /\ M[d].next # Nil => /\ M[d].next \in Linked(a2)
                                                /\ M[M[d].next].previous = d
                                                /\ M[M[d].next].block = End(M[d])
    <2>1. Good(e)
      <3>1. n # Nil => n \in Entries(a) /\ n # e /\ n # b /\ n \in Linked(a2)
        BY <1>2, <1>6, <1>7, LinkFacts DEF L
      <3> QED
        BY <1>1, <1>2, <1>5, <1>9, <3>1
    <2>2. Good(b)
      BY <1>1, <1>5, <1>6, <1>9
    <2>3. \A d \in Linked(a) : d # b => Good(d)
      <3> SUFFICES ASSUME NEW d \in Linked(a), d # b PROVE Good(d)
        OBVIOUS
      <3> DEFINE m == L[d].next
      <3>1. /\ M[d].next = m
            /\ m = Nil => End(L[d]) = Size
            /\ m # Nil => m \in Linked(a) /\ L[m].previous = d /\ L[m].block = End(L[d])
        BY <1>1, <1>7, LinkFacts DEF L
      <3> HIDE DEF m
      <3>2. m # Nil => m \in Linked(a2) /\ m \in Entries(a) /\ m # e /\ m # n
        BY <1>2, <1>6, <1>7, <3>1
      <3> QED
        BY <1>1, <1>9, <3>1, <3>2
    <2> QED
      BY <1>6, <2>1, <2>2, <2>3 DEF NextInv, M
  <1>14. PreviousInv(a2)
    <2> DEFINE Good(d) == /\ M[d].previous = Nil <=> d = a.first
                          /\ M[d].previous # Nil => /\ M[d].previous \in Linked(a2)
                                                    /\ M[M[d].previous].next = d
    <2>0. a.first \in Linked(a)
      BY DEF ListInv, HeadInv
    <2>1. Good(e)
      BY <1>1, <1>5, <1>6, <2>0
    <2>2. \A d \in Linked(a) : Good(d)
      <3> SUFFICES ASSUME NEW d \in Linked(a) PROVE Good(d)
        OBVIOUS
      <3> DEFINE m == L[d].previous
      <3>1. /\ M[d].previous = IF d = n THEN e ELSE m
            /\ m = Nil <=> d = a.first
            /\ m # Nil => m \in Linked(a) /\ L[m].next = d
        BY <1>1, <1>7, LinkFacts DEF L
      <3>2. CASE d = n
        <4>1. m = b /\ n # Nil
          BY <1>2, <3>2, LinkFacts DEF L
        <4> QED
          BY <1>1, <1>5, <1>6, <3>1, <3>2, <4>1
      <3>3. CASE d # n
        <4>1. m # Nil => m # b
          BY <3>1, <3>3 DEF n
        <4> HIDE DEF m
        <4>2. m # Nil => m \in Linked(a2) /\ m \in Entries(a) /\ m # e
          BY <1>6, <1>7, <3>1
        <4> QED
          BY <1>1, <3>1, <3>3, <4>1, <4>2
      <3> QED
        BY <3>2, <3>3
    <2> QED
      BY <1>1, <1>6, <2>1, <2>2 DEF PreviousInv, M
  <1>15. DisjointInv(a2)
    <2> DEFINE Apart(c, d) == End(M[c]) <= M[d].block \/ End(M[d]) <= M[c].block
    <2>1. Apart(b, e) /\ Apart(e, b)
      BY <1>1, <1>5, <1>8, <1>9
    <2>2. \A d \in Linked(a) : d # b => Apart(d, e) /\ Apart(e, d) /\ Apart(d, b) /\ Apart(b, d)
      <3> SUFFICES ASSUME NEW d \in Linked(a), d # b
                   PROVE  Apart(d, e) /\ Apart(e, d) /\ Apart(d, b) /\ Apart(b, d)
        OBVIOUS
      <3>1. End(L[b]) <= L[d].block \/ End(L[d]) <= L[b].block
        BY LinkFacts DEF L
      <3>2. L[d].block \in Nat /\ End(L[d]) \in Nat
        BY LinkFacts DEF L
      <3>3. M[d].block = L[d].block /\ End(M[d]) = End(L[d])
            /\ M[b].block = L[b].block /\ M[e].block = L[b].block + units
        BY <1>1, <1>5, <1>7, <1>9
      <3> QED
        BY <1>3, <1>8, <1>9, <3>1, <3>2, <3>3
    <2>3. \A c, d \in Linked(a) : c # d /\ c # b /\ d # b => Apart(c, d)
      <3>1. \A c, d \in Linked(a) : c # d =>
              End(L[c]) <= L[d].block \/ End(L[d]) <= L[c].block
        BY LinkFacts DEF L
      <3> QED
        BY <1>1, <1>7, <1>9, <3>1
    <2>4. \A c, d \in Linked(a2) : c # d => Apart(c, d)
      <3> HIDE DEF Apart
      <3> QED
        BY <1>6, <2>1, <2>2, <2>3
    <2> QED
      BY <2>4 DEF DisjointInv, M
  <1>16. ListInv(a2)
    BY <1>10, <1>11, <1>12, <1>13, <1>14, <1>15 DEF ListInv
  <1>17. SameBlocks(a, a2, b)
    BY <1>1, <1>5, <1>6, <1>7 DEF SameBlocks, L, M
  <1>18. Keeps(a, a2, b)
    BY <1>1, <1>6, <1>16, <1>17 DEF Keeps
  <1>19. M[b].allocated = L[b].allocated /\ M[b].block = L[b].block /\ M[b].units = units
    <2>1. L[b].allocated \in BOOLEAN
      BY LinkFacts DEF Block, L
    <2> QED
      BY <1>1, <1>5, <2>1
  <1> QED
    BY <1>6, <1>18, <1>19 DEF a2, L, M

LEMMA AddEntriesKeeps ==
    ASSUME NEW a, ListType(a), ListInv(a), NEW count \in Nat
    PROVE  LET a2 == AddEntries(a, count)
           IN /\ ListType(a2) /\ ListInv(a2)
              /\ Length(a2) = Length(a) + count
              /\ a2.table = a.table /\ a2.at = a.at
              /\ Linked(a2) = Linked(a)
              /\ Unlinked(a2) = Unlinked(a) \cup Length(a) .. Length(a) + count - 1
              /\ \A d \in Linked(a) : a2.blockList[d] = a.blockList[d]
  <1> DEFINE L == a.blockList
             N == Length(a)
             list == [d \in 0 .. N + count - 1 |-> IF d \in Entries(a) THEN L[d] ELSE NewEntry]
             a2 == AddEntries(a, count)
  <1>1. N \in Nat /\ Entries(a) = 0 .. N - 1 /\ \A d \in Entries(a) : L[d] \in Block
    BY EntryFacts
  <1>2. NewEntry \in Block /\ NewEntry.unlinked = TRUE
    BY DEF NewEntry, Block, Nil
  <1>3. /\ list \in [0 .. N + count - 1 -> Block]
        /\ \A d \in Entries(a) : list[d] = L[d]
        /\ \A d \in N .. N + count - 1 : list[d] = NewEntry
    <2> HIDE DEF N, L
    <2>1. \A d \in 0 .. N + count - 1 : (IF d \in Entries(a) THEN L[d] ELSE NewEntry) \in Block
      BY <1>1, <1>2
    <2>2. \A d \in Entries(a) : d \in 0 .. N + count - 1
      BY <1>1
    <2>3. \A d \in N .. N + count - 1 : d \in 0 .. N + count - 1 /\ d \notin Entries(a)
      BY <1>1
    <2> QED
      BY <2>1, <2>2, <2>3
  <1>4. a2 = [a EXCEPT !.blockList = list]
    BY DEF AddEntries
  <1> HIDE DEF list, a2
  <1>5. a2 = [blockList |-> list, first |-> a.first, table |-> a.table, at |-> a.at]
    BY <1>4 DEF ListType
  <1>6. Entries(a2) = 0 .. N + count - 1
    BY <1>3, <1>5 DEF Entries
  <1> DEFINE m == N + count
  <1>0. m \in Nat /\ m - 1 = N + count - 1
    <2> HIDE DEF N
    <2> QED
      BY <1>1
  <1>7. Length(a2) = m
    <2> HIDE DEF m, N
    <2>1. Entries(a2) = 0 .. m - 1
      BY <1>0, <1>6
    <2> QED
      BY <1>0, <2>1, LengthIs
  <1>8. ListType(a2)
    <2>2. a.first \in Nat /\ a.table \in Nat /\ a.at \in Int
      BY DEF ListType
    <2> HIDE DEF m, N
    <2>1. list \in [0 .. m - 1 -> Block]
      BY <1>0, <1>3
    <2>3. ListType(a2) <=> a2 \in [blockList : [0 .. m - 1 -> Block], first : Nat, table : Nat,
                                     at : Int]
      BY <1>0, <1>7 DEF ListType
    <2> QED
      BY <1>5, <2>1, <2>2, <2>3
  <1> HIDE DEF N
  <1>9. Linked(a2) = Linked(a) /\ \A d \in Linked(a) : a2.blockList[d] = L[d]
    <2>1. \A d \in Entries(a) : d \in Entries(a2) /\ a2.blockList[d] = L[d]
      BY <1>1, <1>3, <1>5, <1>6
    <2>2. \A d \in Entries(a2) : d \in Entries(a) \/ a2.blockList[d].unlinked
      <3> SUFFICES ASSUME NEW d \in Entries(a2), d \notin Entries(a) PROVE a2.blockList[d].unlinked
        OBVIOUS
      <3>1. d \in N .. N + count - 1
        BY <1>1, <1>6
      <3> QED
        BY <1>2, <1>3, <1>5, <3>1
    <2> QED
      BY <2>1, <2>2 DEF Linked, L
  <1>10. Unlinked(a2) = Unlinked(a) \cup N .. N + count - 1
    <2>1. Entries(a2) = Entries(a) \cup N .. N + count - 1
      BY <1>1, <1>6
    <2>2. \A d \in N .. N + count - 1 : d \notin Entries(a)
      BY <1>1
    <2>3. Linked(a) \subseteq Entries(a)
      BY DEF Linked
    <2> QED
      BY <1>9, <2>1, <2>2, <2>3 DEF Unlinked
  <1>11. ListInv(a2)
    <2>0. a2.first = a.first
      BY <1>5
    <2>1. HeadInv(a2) /\ TailInv(a2)
      BY <1>9, <2>0 DEF ListInv, HeadInv, TailInv, L
    <2>2. PlaceInv(a2)
      BY <1>9 DEF ListInv, PlaceInv, L
    <2>3. NextInv(a2)
      BY <1>9 DEF ListInv, NextInv, L
    <2>4. PreviousInv(a2)
      BY <1>9, <2>0 DEF ListInv, PreviousInv, L
    <2>5. DisjointInv(a2)
      BY <1>9 DEF ListInv, DisjointInv, L
    <2> QED
      BY <2>1, <2>2, <2>3, <2>4, <2>5 DEF ListInv
  <1> QED
    BY <1>5, <1>7, <1>8, <1>9, <1>10, <1>11 DEF a2, N, L

-----------------------------------------------------------------------------
(* The search: the walk along the list goes over linked entries only, unless   *)
(* it starts at an entry that is none of them.                                 *)

Follow(a, v) == IF v = Nil THEN Nil ELSE a.blockList[v].next
Walk(a, visit) == visit = [n \in 0 .. Length(a) |-> IF n = 0 THEN a.first ELSE Follow(a, visit[n - 1])]

LEMMA WalkExists ==
    ASSUME NEW a, ListType(a), ListInv(a)
    PROVE  \E visit : Walk(a, visit)
  <1> DEFINE N == Length(a)
             V == Linked(a) \cup {Nil}
             Path(n, f) == f[0] = a.first /\ \A i \in 1 .. n : f[i] = Follow(a, f[i - 1])
             P == {n \in 0 .. N : \E f \in [0 .. n -> V] : Path(n, f)}
  <1>1. N \in Nat /\ a.first \in V /\ \A v \in V : Follow(a, v) \in V
    BY EntryFacts, LinkFacts DEF ListInv, HeadInv, Follow
  <1> HIDE DEF V, N
  <1>2. 0 \in P
    <2> DEFINE f == [i \in 0 .. 0 |-> a.first]
    <2>1. f \in [0 .. 0 -> V] /\ Path(0, f)
      BY <1>1
    <2> HIDE DEF f
    <2> QED
      BY <1>1, <2>1
  <1>3. \A n \in P : n < N => n + 1 \in P
    <2> SUFFICES ASSUME NEW n \in P, n < N PROVE n + 1 \in P
      OBVIOUS
    <2>1. PICK f \in [0 .. n -> V] : Path(n, f)
      OBVIOUS
    <2> DEFINE g == [i \in 0 .. n + 1 |-> IF i = n + 1 THEN Follow(a, f[n]) ELSE f[i]]
    <2>2. n \in Nat /\ n \in 0 .. n /\ n + 1 \in 0 .. N /\ f[n] \in V
      BY <1>1
    <2>3. \A i \in 0 .. n : i \in 0 .. n + 1 /\ g[i] = f[i]
      BY <2>2
    <2>4. g[n + 1] = Follow(a, f[n])
      BY <2>2
    <2>5. g \in [0 .. n + 1 -> V]
      BY <1>1, <2>2
    <2> HIDE DEF g
    <2>6. Path(n + 1, g)
      <3>1. 0 \in 0 .. n
        BY <2>2
      <3>2. \A i \in 1 .. n : g[i] = Follow(a, g[i - 1])
        <4> SUFFICES ASSUME NEW i \in 1 .. n PROVE g[i] = Follow(a, g[i - 1])
          OBVIOUS
        <4>1. i \in 0 .. n /\ i - 1 \in 0 .. n
          BY <2>2
        <4> QED
          BY <2>1, <2>3, <4>1
      <3>3. g[n + 1] = Follow(a, g[n + 1 - 1])
        <4>1. n + 1 - 1 = n
          BY <2>2
        <4> QED
          BY <2>2, <2>3, <2>4, <4>1
      <3>4. \A i \in 1 .. n + 1 : i \in 1 .. n \/ i = n + 1
        BY <2>2
      <3> QED
        BY <2>1, <2>3, <3>1, <3>2, <3>3, <3>4
    <2> HIDE DEF Path
    <2> QED
      BY <2>2, <2>5, <2>6
  <1>4. P \in SUBSET (0 .. N)
    OBVIOUS
  <1>5. N \in P
    <2> HIDE DEF P
    <2> QED
      BY <1>1, <1>2, <1>3, <1>4, IntervalInduction
  <1>6. PICK f \in [0 .. N -> V] : Path(N, f)
    BY <1>5
  <1>7. \A n \in 0 .. N : f[n] = IF n = 0 THEN a.first ELSE Follow(a, f[n - 1])
    <2> SUFFICES ASSUME NEW n \in 0 .. N, n # 0 PROVE f[n] = Follow(a, f[n - 1])
      BY <1>6
    <2>1. n \in 1 .. N
      BY <1>1
    <2> QED
      BY <1>6, <2>1
  <1>8. f = [n \in 0 .. N |-> IF n = 0 THEN a.first ELSE Follow(a, f[n - 1])]
    BY <1>7
  <1> QED
    BY <1>8 DEF Walk, N

LEMMA VisitedFacts ==
    ASSUME NEW a, ListType(a), ListInv(a), Fit # "next"
    PROVE  /\ DOMAIN Visited(a) = 0 .. Length(a)
           /\ \A m \in 0 .. Length(a) : Visited(a)[m] \in Linked(a) \cup {Nil}
  <1> DEFINE N == Length(a)
             V == Linked(a) \cup {Nil}
             visit == Visited(a)
  <1>1. Visited(a) = CHOOSE f : Walk(a, f)
    BY DEF Visited, Walk, Follow
  <1>2. Walk(a, visit)
    BY <1>1, WalkExists
  <1>3. N \in Nat /\ a.first \in V /\ \A v \in V : Follow(a, v) \in V
    BY EntryFacts, LinkFacts DEF ListInv, HeadInv, Follow
  <1>4. /\ DOMAIN visit = 0 .. N
        /\ \A n \in 0 .. N : visit[n] = IF n = 0 THEN a.first ELSE Follow(a, visit[n - 1])
    BY <1>2, Zenon DEF Walk
  <1> HIDE DEF N, V, visit
  <1>5. ASSUME NEW m \in 0 .. N PROVE visit[m] \in V
    <2> DEFINE P == {i \in 0 .. m : visit[i] \in V}
    <2>1. m \in Nat /\ 0 \in P
      BY <1>3, <1>4
    <2>2. \A i \in P : i < m => i + 1 \in P
      <3> SUFFICES ASSUME NEW i \in P, i < m PROVE i + 1 \in P
        OBVIOUS
      <3>1. i + 1 \in 0 .. m /\ i + 1 \in 0 .. N /\ i + 1 # 0 /\ i + 1 - 1 = i
        BY <1>3, <2>1
      <3> QED
        BY <1>3, <1>4, <3>1
    <2>3. P \in SUBSET (0 .. m)
      OBVIOUS
    <2>4. m \in P
      <3> HIDE DEF P
      <3> QED
        BY <2>1, <2>2, <2>3, IntervalInduction
    <2> QED
      BY <2>4
  <1> QED
    BY <1>4, <1>5 DEF N, V, visit

LEMMA FindBlockFacts ==
    ASSUME NEW a, ListType(a), ListInv(a), Fit # "next", NEW units, FindBlock(a, units) # Nil
    PROVE  /\ FindBlock(a, units) \in Linked(a)
           /\ ~a.blockList[FindBlock(a, units)].allocated
           /\ a.blockList[FindBlock(a, units)].units >= units
  <1> DEFINE Fits(b) == b # Nil /\ ~a.blockList[b].allocated /\ a.blockList[b].units >= units
             visit == Visited(a)
             found == {visit[n] : n \in {m \in DOMAIN visit :
                         Fits(visit[m]) /\ \A k \in 0 .. m - 1 : ~Fits(visit[k])}}
  <1>1. FindBlock(a, units) = IF found = {} THEN Nil ELSE CHOOSE b \in found : TRUE
    BY DEF FindBlock
  <1>2. \A b \in found : b \in Linked(a) /\ Fits(b)
    BY VisitedFacts
  <1> HIDE DEF found, Fits
  <1>3. FindBlock(a, units) \in found
    BY <1>1
  <1> QED
    BY <1>2, <1>3 DEF Fits

-----------------------------------------------------------------------------
(* What the steps have in common. *)

Trusted == Survived = {} /\ Fit # "next"

\* The blocks in use that are not a client's to keep.
Kept == {allocation.table} \cup (IF call.function = "realloc" THEN {call.block} ELSE {})

LEMMA KeepsTransitive ==
    ASSUME NEW a, NEW a1, NEW a2, NEW b, Keeps(a, a1, b), Keeps(a1, a2, b)
    PROVE  Keeps(a, a2, b)
  <1>1. SameBlocks(a, a1, b) /\ SameBlocks(a1, a2, b)
    BY DEF Keeps
  <1>2. SameBlocks(a, a2, b)
    BY <1>1 DEF SameBlocks
  <1> QED
    BY <1>2 DEF Keeps

\* Blocks in use are in use afterwards when only one of the others changes.
LEMMA OwnersStay ==
    ASSUME OwnersInv, NEW b \in Kept, SameBlocks(allocation, allocation', b),
           Kept' = Kept, Owners' = Owners, held' = held
    PROVE  OwnersInv'
  <1>1. InUse = {d \in Linked(allocation) : allocation.blockList[d].allocated} \ Kept
    BY DEF InUse, Kept
  <1>2. InUse' = {d \in Linked(allocation') : allocation'.blockList[d].allocated} \ Kept
    BY DEF InUse, Kept
  <1>3. /\ InUse' = InUse
        /\ \A d \in InUse : /\ allocation'.blockList[d].block = allocation.blockList[d].block
                            /\ allocation'.blockList[d].units = allocation.blockList[d].units
    BY <1>1, <1>2 DEF SameBlocks
  <1> QED
    BY <1>3 DEF OwnersInv

\* Each client's units lie in a linked block that is not the table's, in one of
\* its own unless a realloc is moving them.
HolderIn(c, b) ==
  LET e == allocation.blockList[b]
  IN /\ b \in Linked(allocation) /\ b # allocation.table
     /\ e.block <= held[c].pointer /\ held[c].pointer + held[c].units <= End(e)
     /\ IF c \in Owners THEN b \in InUse /\ e.block = held[c].pointer
        ELSE call.function = "realloc" /\ c = call.client /\ b = call.block

LEMMA HolderHasBlock ==
    ASSUME AllocatorInv, Intact, NEW c \in Clients, held[c] # NotHeld
    PROVE  \E b : HolderIn(c, b)
  <1>1. ListType(allocation) /\ ListInv(allocation) /\ OwnersInv /\ CallInv /\ HeldInv
    BY DEF AllocatorInv
  <1>2. CASE c \in Owners
    <2>1. PICK b \in InUse : /\ allocation.blockList[b].block = held[c].pointer
                             /\ allocation.blockList[b].units >= held[c].units
      BY <1>1, <1>2 DEF OwnersInv
    <2>2. b \in Linked(allocation) /\ b # allocation.table
      BY DEF InUse
    <2>3. allocation.blockList[b].units \in Nat /\ held[c].units \in Nat /\ held[c].pointer \in Int
          /\ End(allocation.blockList[b]) =
               allocation.blockList[b].block + allocation.blockList[b].units
      BY <1>1, <2>2, LinkFacts DEF HeldInv
    <2>4. HolderIn(c, b)
      BY <1>2, <2>1, <2>2, <2>3 DEF HolderIn
    <2> QED
      BY <2>4
  <1>3. CASE c \notin Owners
    <2>1. call.function = "realloc" /\ c = call.client
      BY <1>3 DEF Owners
    <2>2. HolderIn(c, call.block)
      BY <1>1, <1>3, <2>1 DEF HolderIn, CallInv
    <2> QED
      BY <2>2
  <1> QED
    BY <1>2, <1>3

\* Two clients' units lie apart, and apart from a linked block that is neither's.
LEMMA HoldersApart ==
    ASSUME AllocatorInv, Intact,
           NEW c \in Clients, held[c] # NotHeld, NEW b, HolderIn(c, b)
    PROVE  /\ \A e \in Linked(allocation) \ {b} :
                \A u \in allocation.blockList[e].block .. End(allocation.blockList[e]) - 1 :
                  u < held[c].pointer \/ held[c].pointer + held[c].units <= u
           /\ \A d \in Clients : \A e : d # c /\ held[d] # NotHeld /\ HolderIn(d, e) => e # b
  <1>1. ListType(allocation) /\ ListInv(allocation) /\ OwnersInv /\ CallInv /\ HeldInv
    BY DEF AllocatorInv
  <1>2. b \in Linked(allocation)
    BY DEF HolderIn
  <1>3. ASSUME NEW e \in Linked(allocation) \ {b},
               NEW u \in allocation.blockList[e].block .. End(allocation.blockList[e]) - 1
        PROVE  u < held[c].pointer \/ held[c].pointer + held[c].units <= u
    <2> DEFINE be == allocation.blockList[e]
               bb == allocation.blockList[b]
               p == held[c].pointer
               k == held[c].units
    <2>1. be.block \in Nat /\ End(be) \in Nat /\ bb.block \in Nat /\ End(bb) \in Nat
          /\ (End(be) <= bb.block \/ End(bb) <= be.block)
      BY <1>1, <1>2, LinkFacts
    <2>2. p \in Int /\ k \in Nat /\ bb.block <= p /\ p + k <= End(bb)
      BY <1>1 DEF HeldInv, HolderIn
    <2>3. u \in Int /\ be.block <= u /\ u < End(be)
      BY <2>1
    <2> HIDE DEF be, bb, p, k
    <2>4. u < p \/ p + k <= u
      BY <2>1, <2>2, <2>3
    <2> QED
      BY <2>4 DEF p, k
  <1>4. ASSUME NEW d \in Clients, NEW e, d # c, held[d] # NotHeld, HolderIn(d, e) PROVE e # b
    <2>1. CASE d \in Owners /\ c \in Owners
      BY <1>1, <1>4, <2>1 DEF HolderIn, OwnersInv
    <2>2. CASE d \notin Owners \/ c \notin Owners
      BY <1>4, <2>2 DEF HolderIn, InUse
    <2> QED
      BY <2>1, <2>2
  <1> QED
    BY <1>3, <1>4

-----------------------------------------------------------------------------
(* The steps before the table's. *)

LEMMA BeginMallocKeeps ==
    ASSUME AllocatorInv, Trusted, NEW c \in Clients, NEW r \in Requests, BeginMalloc(c, r)
    PROVE  AllocatorInv'
  <1>1. /\ Intact /\ Idle /\ held[c] = NotHeld /\ Units(r) \in Nat /\ Units(r) > 0
        /\ UNCHANGED <<allocation, memory, held, outcome>>
    BY AllocatorAssumption DEF BeginMalloc, Running, Trusted, Units
  <1>2. /\ call' \in Calls /\ call'.function = "malloc" /\ call'.client = c
        /\ call'.units = Units(r) /\ ~call'.fits /\ call'.stage = "reserve"
        /\ call.function = "none" /\ call.stage = "idle"
    <2> DEFINE n == Units(r)
               idle == NoCall
               call1 == [idle EXCEPT !.function = "malloc"]
               call2 == [call1 EXCEPT !.client = c]
               call3 == [call2 EXCEPT !.units = n]
    <2>1. call' = [call3 EXCEPT !.stage = "reserve"] /\ call = idle /\ n \in Nat
      BY <1>1 DEF BeginMalloc, Idle
    <2> HIDE DEF n
    <2>2. /\ idle \in Calls /\ ~idle.fits
          /\ idle.function = "none" /\ idle.stage = "idle"
      BY DEF NoCall, Calls, Nil, Stages
    <2> HIDE DEF idle
    <2>3. call1 \in Calls /\ ~call1.fits /\ call1.function = "malloc"
      BY <2>2 DEF Calls
    <2> HIDE DEF call1
    <2>4. call2 \in Calls /\ ~call2.fits /\ call2.function = "malloc" /\ call2.client = c
      BY <2>3 DEF Calls
    <2> HIDE DEF call2
    <2>5. call3 \in Calls /\ ~call3.fits /\ call3.function = "malloc" /\ call3.client = c
          /\ call3.units = n
      BY <2>1, <2>4 DEF Calls
    <2> HIDE DEF call3
    <2>6. call' \in Calls /\ ~call'.fits /\ call'.function = "malloc" /\ call'.client = c
          /\ call'.units = n /\ call'.stage = "reserve"
      BY <2>1, <2>5 DEF Calls, Stages
    <2> QED
      BY <2>1, <2>2, <2>6 DEF n
  <1>3. ListType(allocation') /\ ListInv(allocation') /\ HeldInv' /\ ContentsKept'
    BY <1>1 DEF AllocatorInv, HeldInv, ContentsKept
  <1>4. CallInv'
    <2>2. call' # NoCall /\ Intact'
      BY <1>1, <1>2 DEF NoCall, Intact
    <2> QED
      BY <1>1, <1>2, <2>2 DEF CallInv, At, Idle
  <1>5. TableInv'
    BY <1>1, <1>2 DEF AllocatorInv, TableInv, Growing, At, Intact
  <1>6. OwnersInv'
    <2>1. InUse' = InUse /\ Owners' = Owners
      BY <1>1, <1>2 DEF InUse, Owners
    <2>2. OwnersInv
      BY <1>1 DEF AllocatorInv
    <2> QED
      BY <1>1, <2>1, <2>2 DEF OwnersInv
  <1>7. ContentsInv'
    BY <1>1, <1>2 DEF AllocatorInv, ContentsInv, Growing
  <1> QED
    BY <1>1, <1>3, <1>4, <1>5, <1>6, <1>7 DEF AllocatorInv

LEMMA HasEntryKeeps ==
    ASSUME AllocatorInv, Trusted, HasEntry
    PROVE  AllocatorInv'
  <1>1. /\ call.stage = "reserve" /\ Unlinked(allocation) # {}
        /\ UNCHANGED <<allocation, memory, held, outcome>>
    BY DEF HasEntry, At
  <1>2. /\ call' = [call EXCEPT !.stage = "find"]
        /\ CallInv
    BY DEF HasEntry, Step, AllocatorInv
  <1>3. /\ call'.function = call.function /\ call'.client = call.client
        /\ call'.units = call.units /\ call'.block = call.block /\ call'.fits = call.fits
        /\ call'.entries = call.entries /\ call'.before = call.before /\ call'.stage = "find"
        /\ call' \in Calls
    BY <1>2 DEF CallInv, Calls, Stages
  <1>4. ~Idle /\ Intact /\ call' # NoCall /\ Intact'
    BY <1>1, <1>2, <1>3 DEF CallInv, At, Idle, NoCall, Intact
  <1>5. ListType(allocation') /\ ListInv(allocation') /\ HeldInv' /\ ContentsKept'
    BY <1>1 DEF AllocatorInv, HeldInv, ContentsKept
  <1>6. CallInv'
    BY <1>1, <1>2, <1>3, <1>4 DEF CallInv, At, Idle, IsFree
  <1>7. TableInv'
    BY <1>1, <1>3, <1>4 DEF AllocatorInv, TableInv, Growing, At
  <1>8. OwnersInv'
    <2>1. InUse' = InUse /\ Owners' = Owners
      BY <1>1, <1>3 DEF InUse, Owners
    <2>2. OwnersInv
      BY <1>4 DEF AllocatorInv
    <2> QED
      BY <1>1, <2>1, <2>2 DEF OwnersInv
  <1>9. ContentsInv'
    BY <1>1, <1>3 DEF AllocatorInv, ContentsInv, Growing
  <1> QED
    BY <1>1, <1>5, <1>6, <1>7, <1>8, <1>9 DEF AllocatorInv

\* Marking the block of entry b as free or as allocated.
Marked(a, a2, b) ==
  /\ Keeps(a, a2, b)
  /\ Unlinked(a2) = Unlinked(a) /\ Linked(a2) = Linked(a)
  /\ a2.blockList[b].block = a.blockList[b].block
  /\ a2.blockList[b].units = a.blockList[b].units
  /\ a2.blockList[b].next = a.blockList[b].next

LEMMA MarkFree ==
    ASSUME NEW a, ListType(a), ListInv(a), NEW b \in Linked(a)
    PROVE  /\ Marked(a, Mark(a, b, FALSE), b)
           /\ ~Mark(a, b, FALSE).blockList[b].allocated
           /\ \A d \in Entries(a) : d # b =>
                Mark(a, b, FALSE).blockList[d].allocated = a.blockList[d].allocated
  <1> DEFINE v == FALSE
             a2 == Mark(a, b, v)
  <1>1. v \in BOOLEAN /\ b \in Entries(a)
    BY LinkFacts
  <1>2. Mark(a, b, FALSE) = a2 /\ ~v
    OBVIOUS
  <1> HIDE DEF v
  <1>3. /\ Keeps(a, a2, b)
        /\ Unlinked(a2) = Unlinked(a) /\ Linked(a2) = Linked(a)
        /\ \A d \in Entries(a) :
             /\ a2.blockList[d].allocated = IF d = b THEN v ELSE a.blockList[d].allocated
             /\ a2.blockList[d].block = a.blockList[d].block
             /\ a2.blockList[d].units = a.blockList[d].units
             /\ a2.blockList[d].next = a.blockList[d].next
    BY <1>1, MarkKeeps
  <1> HIDE DEF a2
  <1> QED
    BY <1>1, <1>2, <1>3 DEF Marked

LEMMA MarkAllocated ==
    ASSUME NEW a, ListType(a), ListInv(a), NEW b \in Linked(a)
    PROVE  /\ Marked(a, Mark(a, b, TRUE), b)
           /\ Mark(a, b, TRUE).blockList[b].allocated
  <1> DEFINE v == TRUE
             a2 == Mark(a, b, v)
  <1>1. v \in BOOLEAN /\ b \in Entries(a)
    BY LinkFacts
  <1>2. Mark(a, b, TRUE) = a2 /\ v
    OBVIOUS
  <1> HIDE DEF v
  <1>3. /\ Keeps(a, a2, b)
        /\ Unlinked(a2) = Unlinked(a) /\ Linked(a2) = Linked(a)
        /\ \A d \in Entries(a) :
             /\ a2.blockList[d].allocated = IF d = b THEN v ELSE a.blockList[d].allocated
             /\ a2.blockList[d].block = a.blockList[d].block
             /\ a2.blockList[d].units = a.blockList[d].units
             /\ a2.blockList[d].next = a.blockList[d].next
    BY <1>1, MarkKeeps
  <1> HIDE DEF a2
  <1> QED
    BY <1>1, <1>2, <1>3 DEF Marked

\* A pointer that was handed out is the address of one block.
LEMMA PointerNamesBlock ==
    ASSUME NEW a, ListType(a), ListInv(a), NEW b \in Linked(a)
    PROVE  PointerToBlock(a, a.blockList[b].block) = b
  <1> DEFINE at == {d \in Linked(a) : a.blockList[d].block = a.blockList[b].block}
  <1>1. at = {b}
    <2> SUFFICES ASSUME NEW d \in Linked(a) \ {b}
                 PROVE  a.blockList[d].block # a.blockList[b].block
      OBVIOUS
    <2> DEFINE x == a.blockList[b]
               y == a.blockList[d]
    <2>1. x.block \in Nat /\ y.block \in Nat /\ x.units \in Nat \ {0} /\ y.units \in Nat \ {0}
          /\ (x.block + x.units <= y.block \/ y.block + y.units <= x.block)
      BY LinkFacts
    <2> HIDE DEF x, y
    <2>2. x.block # y.block
      BY <2>1
    <2> QED
      BY <2>2 DEF x, y
  <1>2. Max(at) = b
    <2>1. b \in Nat /\ at \in SUBSET (0 .. b) /\ at # {}
      BY <1>1, LinkFacts
    <2>2. Max(at) \in at
      <3> HIDE DEF at
      <3> QED
        BY <2>1, MaxFacts
    <2> QED
      BY <1>1, <2>2
  <1>3. PointerToBlock(a, a.blockList[b].block) = IF at = {} THEN Nil ELSE Max(at)
    BY DEF PointerToBlock
  <1> QED
    BY <1>1, <1>2, <1>3

\* Between operations a client's pointer names its own block.
LEMMA HolderNamed ==
    ASSUME AllocatorInv, Intact, Idle, NEW c \in Clients, held[c] # NotHeld,
           NEW b, b = PointerToBlock(allocation, held[c].pointer)
    PROVE  /\ HolderIn(c, b) /\ c \in Owners /\ b \in InUse /\ IsAllocated(b)
           /\ b \in Linked(allocation) \ {allocation.table}
           /\ allocation.blockList[b].block = held[c].pointer
           /\ allocation.blockList[b].allocated
           /\ held[c].pointer + held[c].units <= End(allocation.blockList[b])
           /\ held[c].pointer \in Nat /\ held[c].units \in Nat
  <1>1. ListType(allocation) /\ ListInv(allocation) /\ HeldInv
    BY DEF AllocatorInv
  <1>2. c \in Owners
    BY DEF Owners, Idle, NoCall
  <1>3. PICK d : HolderIn(c, d)
    BY HolderHasBlock
  <1>4. d \in Linked(allocation) /\ d \in InUse /\ allocation.blockList[d].block = held[c].pointer
        /\ d # allocation.table /\ held[c].pointer + held[c].units <= End(allocation.blockList[d])
    BY <1>2, <1>3 DEF HolderIn
  <1>5. b = d
    BY <1>1, <1>4, PointerNamesBlock
  <1>6. b # Nil
    BY <1>1, <1>4, <1>5, LinkFacts
  <1>7. held[c].pointer \in Nat /\ held[c].units \in Nat
    BY <1>1 DEF HeldInv
  <1> QED
    BY <1>2, <1>3, <1>4, <1>5, <1>6, <1>7 DEF InUse, IsAllocated

\* A block that is no longer in use and the client that it belonged to.
LEMMA OwnersLess ==
    ASSUME OwnersInv, ListType(allocation), ListInv(allocation), NEW b \in InUse, NEW c \in Owners,
           allocation.blockList[b].block = held[c].pointer,
           InUse' = InUse \ {b}, Owners' = Owners \ {c},
           \A d \in InUse \ {b} :
             /\ allocation'.blockList[d].block = allocation.blockList[d].block
             /\ allocation'.blockList[d].units = allocation.blockList[d].units,
           \A d \in Owners \ {c} : held'[d] = held[d]
    PROVE  OwnersInv'
  <1>1. ASSUME NEW d \in Owners'
        PROVE  \E e \in InUse' : /\ allocation'.blockList[e].block = held'[d].pointer
                                 /\ allocation'.blockList[e].units >= held'[d].units
    <2>1. PICK e \in InUse : /\ allocation.blockList[e].block = held[d].pointer
                             /\ allocation.blockList[e].units >= held[d].units
      BY DEF OwnersInv
    <2>2. e # b
      BY <2>1 DEF OwnersInv
    <2> QED
      BY <2>1, <2>2
  <1>2. ASSUME NEW e \in InUse'
        PROVE  \E d \in Owners' : allocation'.blockList[e].block = held'[d].pointer
    <2>1. PICK d \in Owners : allocation.blockList[e].block = held[d].pointer
      BY DEF OwnersInv
    <2>2. b \in Linked(allocation) /\ e \in Linked(allocation) /\ e # b
      BY DEF InUse
    <2>3. d # c
      BY <2>1, <2>2, PointerNamesBlock
    <2> QED
      BY <2>1, <2>2, <2>3
  <1>3. \A d, e \in Owners' : held'[d].pointer = held'[e].pointer => d = e
    BY DEF OwnersInv
  <1> QED
    BY <1>1, <1>2, <1>3 DEF OwnersInv

LEMMA BeginReallocKeeps ==
    ASSUME AllocatorInv, Trusted, NEW c \in Clients, NEW r \in Requests, BeginRealloc(c, r)
    PROVE  AllocatorInv'
  <1> DEFINE b == PointerToBlock(allocation, held[c].pointer)
             a1 == Mark(allocation, b, FALSE)
             a2 == MergeAfter(a1, b)
  <1>1. /\ Intact /\ Idle /\ held[c] # NotHeld /\ Units(r) \in Nat /\ Units(r) > 0
        /\ UNCHANGED <<memory, held>>
    BY AllocatorAssumption DEF BeginRealloc, Running, Trusted, Units
  <1>2. /\ HolderIn(c, b) /\ c \in Owners /\ b \in InUse /\ IsAllocated(b)
        /\ b \in Linked(allocation) \ {allocation.table}
        /\ allocation.blockList[b].block = held[c].pointer
        /\ allocation.blockList[b].allocated
        /\ held[c].pointer + held[c].units <= End(allocation.blockList[b])
        /\ held[c].pointer \in Nat /\ held[c].units \in Nat
    <2> HIDE DEF b
    <2>1. b = PointerToBlock(allocation, held[c].pointer)
      BY DEF b
    <2> QED
      BY <1>1, <2>1, HolderNamed
  <1>3. /\ allocation' = a2
        /\ call' = [NoCall EXCEPT !.function = "realloc", !.client = c, !.units = Units(r),
                                  !.block = b, !.stage = "widen"]
        /\ outcome' = outcome
    BY <1>2 DEF BeginRealloc
  <1> HIDE DEF b
  <1>4. /\ call' \in Calls /\ call'.function = "realloc" /\ call'.client = c
        /\ call'.units = Units(r) /\ call'.block = b /\ ~call'.fits /\ call'.stage = "widen"
        /\ call.function = "none" /\ call.stage = "idle"
    <2> DEFINE n == Units(r)
               idle == NoCall
               call1 == [idle EXCEPT !.function = "realloc"]
               call2 == [call1 EXCEPT !.client = c]
               call3 == [call2 EXCEPT !.units = n]
               call4 == [call3 EXCEPT !.block = b]
    <2>1. call' = [call4 EXCEPT !.stage = "widen"] /\ call = idle /\ n \in Nat /\ b \in Int
      BY <1>1, <1>2, <1>3, LinkFacts DEF AllocatorInv, Idle
    <2> HIDE DEF n
    <2>2. /\ idle \in Calls /\ ~idle.fits
          /\ idle.function = "none" /\ idle.stage = "idle"
      BY DEF NoCall, Calls, Nil, Stages
    <2> HIDE DEF idle
    <2>3. call1 \in Calls /\ ~call1.fits /\ call1.function = "realloc"
      BY <2>2 DEF Calls
    <2> HIDE DEF call1
    <2>4. call2 \in Calls /\ ~call2.fits /\ call2.function = "realloc" /\ call2.client = c
      BY <2>3 DEF Calls
    <2> HIDE DEF call2
    <2>5. call3 \in Calls /\ ~call3.fits /\ call3.function = "realloc" /\ call3.client = c
          /\ call3.units = n
      BY <2>1, <2>4 DEF Calls
    <2> HIDE DEF call3
    <2>6. call4 \in Calls /\ ~call4.fits /\ call4.function = "realloc" /\ call4.client = c
          /\ call4.units = n /\ call4.block = b
      BY <2>1, <2>5 DEF Calls
    <2> HIDE DEF call4
    <2>7. call' \in Calls /\ ~call'.fits /\ call'.function = "realloc" /\ call'.client = c
          /\ call'.units = n /\ call'.block = b /\ call'.stage = "widen"
      BY <2>1, <2>6 DEF Calls, Stages
    <2> QED
      BY <2>1, <2>2, <2>7 DEF n
  <1>5. ListType(allocation) /\ ListInv(allocation) /\ OwnersInv /\ TableInv
    BY <1>1 DEF AllocatorInv
  <1>6. /\ Keeps(allocation, a1, b) /\ ~a1.blockList[b].allocated
        /\ a1.blockList[b].block = allocation.blockList[b].block
        /\ a1.blockList[b].units = allocation.blockList[b].units
        /\ b \in Linked(allocation)
    BY <1>2, <1>5, MarkFree DEF Marked
  <1> HIDE DEF a1
  <1>7. /\ Keeps(a1, a2, b) /\ ~a2.blockList[b].allocated
        /\ a2.blockList[b].block = held[c].pointer
        /\ a2.blockList[b].units >= allocation.blockList[b].units
    <2>1. ListType(a1) /\ ListInv(a1) /\ b \in Linked(a1)
      BY <1>6 DEF Keeps
    <2> QED
      BY <1>2, <1>6, <2>1, MergeAfterKeeps
  <1> HIDE DEF a2
  <1>8. Keeps(allocation, a2, b)
    BY <1>6, <1>7, KeepsTransitive
  <1>9. /\ ListType(a2) /\ ListInv(a2) /\ Length(a2) = Length(allocation)
        /\ a2.table = allocation.table /\ a2.at = allocation.at
        /\ b \in Linked(a2) /\ SameBlocks(allocation, a2, b)
    BY <1>8 DEF Keeps
  <1>10. held[c].pointer + held[c].units <= End(a2.blockList[b])
    <2>1. /\ End(a2.blockList[b]) = a2.blockList[b].block + a2.blockList[b].units
          /\ a2.blockList[b].units \in Nat
      BY <1>9, LinkFacts
    <2>2. /\ End(allocation.blockList[b]) = allocation.blockList[b].block + allocation.blockList[b].units
          /\ allocation.blockList[b].units \in Nat
      BY <1>2, <1>5, LinkFacts
    <2> QED
      BY <1>2, <1>7, <2>1, <2>2
  <1>11. ListType(allocation') /\ ListInv(allocation') /\ HeldInv' /\ ContentsKept'
    BY <1>1, <1>3, <1>9 DEF AllocatorInv, HeldInv, ContentsKept
  <1>12. CallInv'
    <2>1. call' # NoCall /\ Intact'
      BY <1>1, <1>3, <1>4 DEF NoCall, Intact
    <2>2. held[c].pointer <= held[c].pointer
      BY <1>2
    <2> QED
      BY <1>1, <1>2, <1>3, <1>4, <1>7, <1>9, <1>10, <2>1, <2>2 DEF CallInv, At, Idle
  <1>13. TableInv'
    <2>1. /\ allocation.table \in Linked(allocation) \ {b}
          /\ allocation.blockList[allocation.table].allocated
      BY <1>1, <1>2, <1>4, <1>5 DEF TableInv, Growing
    <2>2. /\ allocation.table \in Linked(a2) /\ a2.blockList[allocation.table].allocated
          /\ a2.blockList[allocation.table].block = allocation.blockList[allocation.table].block
          /\ a2.blockList[allocation.table].units = allocation.blockList[allocation.table].units
      BY <1>9, <2>1 DEF SameBlocks
    <2> QED
      BY <1>1, <1>3, <1>4, <1>5, <1>9, <2>2 DEF TableInv, Growing, At, Intact
  <1>14. OwnersInv'
    <2>1. InUse' = InUse \ {b}
          /\ \A d \in InUse \ {b} : /\ a2.blockList[d].block = allocation.blockList[d].block
                                    /\ a2.blockList[d].units = allocation.blockList[d].units
      BY <1>3, <1>4, <1>9 DEF InUse, SameBlocks
    <2>2. Owners' = Owners \ {c}
      BY <1>1, <1>4 DEF Owners
    <2> QED
      BY <1>1, <1>2, <1>3, <1>5, <2>1, <2>2, OwnersLess
  <1>15. ContentsInv'
    BY <1>1, <1>4 DEF AllocatorInv, ContentsInv, Growing
  <1>16. outcome' \in {"ok", "full", "growth", "realloc"} /\ Intact'
    BY <1>1, <1>3 DEF AllocatorInv, Intact
  <1> QED
    BY <1>11, <1>12, <1>13, <1>14, <1>15, <1>16 DEF AllocatorInv

LEMMA WidenKeeps ==
    ASSUME AllocatorInv, Trusted, Widen
    PROVE  AllocatorInv'
  <1> DEFINE b == call.block
             fits == allocation.blockList[b].units >= call.units
             a1 == IF fits THEN allocation ELSE MergeBefore(allocation, b)
             a2 == Mark(a1, b, TRUE)
             c == call.client
  <1>1. /\ call.stage = "widen" /\ call' = [call EXCEPT !.fits = fits, !.stage = "reserve"]
        /\ allocation' = a2
        /\ UNCHANGED <<memory, held, outcome>>
    BY DEF Widen, At
  <1>2. /\ ListType(allocation) /\ ListInv(allocation) /\ OwnersInv /\ TableInv /\ CallInv /\ HeldInv
    <2>1. Intact
      BY <1>1 DEF AllocatorInv, CallInv, Idle, NoCall
    <2> QED
      BY <2>1 DEF AllocatorInv
  <1>3. /\ Intact /\ call.function = "realloc" /\ c \in Clients /\ call.units > 0
        /\ held[c] # NotHeld
        /\ b \in Linked(allocation) \ {allocation.table}
        /\ ~allocation.blockList[b].allocated
        /\ allocation.blockList[b].block = held[c].pointer
        /\ held[c].pointer + held[c].units <= End(allocation.blockList[b])
        /\ call \in Calls
    BY <1>1, <1>2 DEF CallInv, At, Idle, NoCall, Calls
  <1>4. /\ call' \in Calls /\ call'.function = "realloc" /\ call'.client = c
        /\ call'.units = call.units /\ call'.block = b /\ (call'.fits <=> fits)
        /\ call'.stage = "reserve"
    <2> DEFINE call1 == [call EXCEPT !.fits = fits]
    <2>1. call' = [call1 EXCEPT !.stage = "reserve"] /\ fits \in BOOLEAN
      BY <1>1
    <2> HIDE DEF fits
    <2>2. call1 \in Calls /\ call1.function = "realloc" /\ call1.client = c
          /\ call1.units = call.units /\ call1.block = b /\ call1.fits = fits
      BY <1>3, <2>1 DEF Calls
    <2> HIDE DEF call1
    <2> QED
      BY <2>1, <2>2 DEF Calls, Stages
  <1>5. /\ Keeps(allocation, a1, b)
        /\ a1.blockList[b].block <= allocation.blockList[b].block
        /\ End(a1.blockList[b]) = End(allocation.blockList[b])
        /\ fits => /\ a1.blockList[b].block = allocation.blockList[b].block
                   /\ a1.blockList[b].units >= call.units
    <2>1. CASE fits
      <3>1. a1 = allocation
        BY <2>1
      <3>2. allocation.blockList[b].block <= allocation.blockList[b].block
        BY <1>2, <1>3, LinkFacts
      <3> HIDE DEF a1
      <3> QED
        BY <1>2, <1>3, <2>1, <3>1, <3>2 DEF Keeps, SameBlocks
    <2>2. CASE ~fits
      <3>1. a1 = MergeBefore(allocation, b)
        BY <2>2
      <3> HIDE DEF a1, fits, b
      <3>2. b \in Linked(allocation)
        BY <1>3
      <3> QED
        BY <1>2, <2>2, <3>1, <3>2, MergeBeforeKeeps
    <2> QED
      BY <2>1, <2>2
  <1>6. ListType(a1) /\ ListInv(a1) /\ b \in Linked(a1)
    BY <1>5 DEF Keeps
  <1> HIDE DEF a1, fits, b, c
  <1>7. Marked(a1, a2, b) /\ a2.blockList[b].allocated
    BY <1>6, MarkAllocated
  <1>8. /\ a2.blockList[b].block = a1.blockList[b].block
        /\ a2.blockList[b].units = a1.blockList[b].units
        /\ End(a2.blockList[b]) = End(a1.blockList[b])
    BY <1>7 DEF Marked, End
  <1>9. Keeps(allocation, a2, b)
    BY <1>5, <1>7, KeepsTransitive DEF Marked
  <1> HIDE DEF a2
  <1>10. /\ ListType(a2) /\ ListInv(a2) /\ Length(a2) = Length(allocation)
         /\ a2.table = allocation.table /\ a2.at = allocation.at
         /\ b \in Linked(a2) /\ SameBlocks(allocation, a2, b)
    BY <1>9 DEF Keeps
  <1>11. ListType(allocation') /\ ListInv(allocation') /\ HeldInv' /\ ContentsKept'
    BY <1>1, <1>2, <1>10 DEF AllocatorInv, HeldInv, ContentsKept
  <1>12. CallInv'
    <2>1. call' # NoCall /\ Intact'
      BY <1>1, <1>3, <1>4 DEF NoCall, Intact
    <2> QED
      BY <1>1, <1>3, <1>4, <1>5, <1>7, <1>8, <1>10, <2>1 DEF CallInv, At, Idle
  <1>13. TableInv'
    <2>1. /\ allocation.table \in Linked(allocation) \ {b}
          /\ allocation.blockList[allocation.table].allocated
      BY <1>1, <1>2, <1>3 DEF TableInv, Growing
    <2>2. /\ allocation.table \in Linked(a2) /\ a2.blockList[allocation.table].allocated
          /\ a2.blockList[allocation.table].block = allocation.blockList[allocation.table].block
          /\ a2.blockList[allocation.table].units = allocation.blockList[allocation.table].units
      BY <1>10, <2>1 DEF SameBlocks
    <2> QED
      BY <1>1, <1>2, <1>3, <1>4, <1>10, <2>2 DEF TableInv, Growing, At, Intact
  <1>14. OwnersInv'
    <2>1. b \in Kept /\ Kept' = Kept /\ Owners' = Owners
      BY <1>1, <1>3, <1>4, <1>10 DEF Kept, Owners, b, c
    <2> QED
      BY <1>1, <1>2, <1>10, <2>1, OwnersStay
  <1>15. ContentsInv'
    BY <1>1, <1>4 DEF AllocatorInv, ContentsInv, Growing
  <1> QED
    BY <1>1, <1>11, <1>12, <1>13, <1>14, <1>15 DEF AllocatorInv

-----------------------------------------------------------------------------
(* The growth of the table. *)

Midway == {"reserve", "grow", "move", "cut", "find"}

\* The table's steps touch nothing of the operation that needs an entry.
LEMMA CallStays ==
    ASSUME CallInv, ListType(allocation), ListInv(allocation),
           call' \in Calls, call'.function = call.function, call'.client = call.client,
           call'.units = call.units, call'.block = call.block, call'.fits = call.fits,
           call.stage \in Midway, call'.stage \in Midway, UNCHANGED <<held, outcome>>,
           NEW t, SameBlocks(allocation, allocation', t),
           call.function = "realloc" => call.block \notin {t, allocation'.table}
    PROVE  CallInv' /\ Intact'
  <1>1. ~Idle /\ call' # NoCall
    BY DEF Idle, NoCall, Midway
  <1>2. Intact /\ call.function # "none" /\ call.client \in Clients /\ call.units > 0
    BY <1>1 DEF CallInv
  <1>3. Intact'
    BY <1>2 DEF Intact
  <1>4. ASSUME call.function = "realloc"
        PROVE  /\ held[call.client] # NotHeld
               /\ call.block \in Linked(allocation') \ {allocation'.table}
               /\ allocation'.blockList[call.block].allocated
               /\ allocation'.blockList[call.block].block = allocation.blockList[call.block].block
               /\ allocation'.blockList[call.block].units = allocation.blockList[call.block].units
               /\ End(allocation'.blockList[call.block]) = End(allocation.blockList[call.block])
    <2>1. /\ call.block \in Linked(allocation) \ {t} /\ held[call.client] # NotHeld
          /\ allocation.blockList[call.block].allocated
      BY <1>4 DEF CallInv, Midway
    <2>2. /\ call.block \in Linked(allocation')
          /\ allocation'.blockList[call.block].allocated
          /\ allocation'.blockList[call.block].block = allocation.blockList[call.block].block
          /\ allocation'.blockList[call.block].units = allocation.blockList[call.block].units
      BY <2>1 DEF SameBlocks
    <2> QED
      BY <1>4, <2>1, <2>2 DEF End
  <1> QED
    BY <1>1, <1>2, <1>3, <1>4 DEF CallInv, At, Idle, Midway

LEMMA SizeFacts ==
    ASSUME NEW n \in Nat
    PROVE  /\ n * EntrySize \in Nat
           /\ n > 0 => n * EntrySize > 0
           /\ (n + 1) * EntrySize > n * EntrySize
  <1>1. EntrySize \in Nat /\ EntrySize > 0
    BY AllocatorAssumption
  <1>2. (n + 1) * EntrySize = n * EntrySize + EntrySize
    BY <1>1
  <1>3. n * EntrySize \in Nat
    BY <1>1
  <1> QED
    BY <1>1, <1>2, <1>3

\* What the table is before it grows.
LEMMA TableFacts ==
    ASSUME AllocatorInv, call.stage # "idle"
    PROVE  LET t == allocation.table
               e == allocation.blockList[t]
           IN /\ ListType(allocation) /\ ListInv(allocation) /\ TableInv /\ CallInv /\ HeldInv
              /\ Intact /\ ~Idle /\ OwnersInv
              /\ t \in Linked(allocation) /\ (e.allocated <=> ~Growing)
              /\ call.function = "realloc" => /\ call.block # t
                                              /\ call.block \in Linked(allocation)
              /\ call \in Calls
              /\ Length(allocation) \in Nat /\ Length(allocation) > 0
              /\ Length(allocation) * EntrySize \in Nat /\ Length(allocation) * EntrySize > 0
              /\ e.block \in Nat /\ e.units \in Nat /\ End(e) = e.block + e.units
  <1>1. ListType(allocation) /\ ListInv(allocation) /\ TableInv /\ CallInv /\ HeldInv
    BY DEF AllocatorInv
  <1>2. Intact /\ ~Idle /\ OwnersInv
    BY <1>1 DEF AllocatorInv, CallInv, At
  <1>3. allocation.table \in Linked(allocation)
    BY <1>1 DEF TableInv
  <1>4. Length(allocation) \in Nat /\ Length(allocation) > 0
    <2>1. allocation.table \in 0 .. Length(allocation) - 1 /\ Length(allocation) \in Nat
      BY <1>1, <1>3, EntryFacts
    <2> DEFINE n == Length(allocation)
    <2> HIDE DEF n
    <2>2. n > 0
      BY <2>1 DEF n
    <2> QED
      BY <2>1, <2>2 DEF n
  <1>5. Length(allocation) * EntrySize \in Nat /\ Length(allocation) * EntrySize > 0
    BY <1>4, SizeFacts
  <1>6. /\ allocation.blockList[allocation.table].allocated <=> ~Growing
        /\ call.function = "realloc" => /\ call.block # allocation.table
                                        /\ call.block \in Linked(allocation)
        /\ call \in Calls
    BY <1>1, <1>2 DEF TableInv, CallInv
  <1>7. LET e == allocation.blockList[allocation.table]
        IN e.block \in Nat /\ e.units \in Nat /\ End(e) = e.block + e.units
    BY <1>1, <1>3, LinkFacts
  <1> QED
    BY <1>1, <1>2, <1>3, <1>4, <1>5, <1>6, <1>7

LEMMA BeginGrowthKeeps ==
    ASSUME AllocatorInv, Trusted, BeginGrowth
    PROVE  AllocatorInv'
  <1> DEFINE t == allocation.table
             a1 == Mark(allocation, t, FALSE)
             a2 == MergeAfter(a1, t)
             more == IF FreeNext(allocation, t) THEN 1 ELSE 0
             span == TableSpan(allocation)
             size == Length(allocation) * EntrySize
  <1>1. /\ call.stage = "reserve" /\ allocation' = a2
        /\ call' = [call EXCEPT !.entries = more, !.before = span, !.stage = "grow"]
        /\ UNCHANGED <<memory, held, outcome>>
    BY DEF BeginGrowth, At
  <1>2. /\ ListType(allocation) /\ ListInv(allocation) /\ TableInv /\ CallInv /\ HeldInv
        /\ Intact /\ ~Idle /\ OwnersInv
        /\ t \in Linked(allocation) /\ allocation.blockList[t].allocated
        /\ call.function = "realloc" => call.block # t
        /\ call \in Calls /\ size \in Nat
    BY <1>1, TableFacts DEF Growing
  <1>3. allocation.blockList[t].block = allocation.at /\ allocation.blockList[t].units = size
    BY <1>1, <1>2 DEF TableInv, Growing
  <1>4. span = allocation.blockList[t].block .. End(allocation.blockList[t]) - 1
    <2>1. span = allocation.at .. allocation.at + size - 1
      BY DEF TableSpan, Span
    <2>2. End(allocation.blockList[t]) = allocation.at + size /\ allocation.at \in Int
      BY <1>2, <1>3 DEF End, ListType
    <2> HIDE DEF size, span
    <2>3. allocation.at + size - 1 = End(allocation.blockList[t]) - 1
      BY <1>2, <2>2
    <2> QED
      BY <1>3, <2>1, <2>3
  <1>5. more \in {0, 1} /\ span \in SUBSET Int
    <2> HIDE DEF span
    <2> QED
      BY <1>4
  <1> HIDE DEF more, span
  <1>6. /\ call' \in Calls /\ call'.function = call.function /\ call'.client = call.client
        /\ call'.units = call.units /\ call'.block = call.block /\ call'.fits = call.fits
        /\ call'.entries = more /\ call'.before = span /\ call'.stage = "grow"
    <2> DEFINE call1 == [call EXCEPT !.entries = more]
               call2 == [call1 EXCEPT !.before = span]
    <2>1. call' = [call2 EXCEPT !.stage = "grow"]
      BY <1>1
    <2>2. /\ call1 \in Calls /\ call1.function = call.function /\ call1.client = call.client
          /\ call1.units = call.units /\ call1.block = call.block /\ call1.fits = call.fits
          /\ call1.entries = more
      BY <1>2, <1>5 DEF Calls
    <2> HIDE DEF call1
    <2>3. /\ call2 \in Calls /\ call2.function = call.function /\ call2.client = call.client
          /\ call2.units = call.units /\ call2.block = call.block /\ call2.fits = call.fits
          /\ call2.entries = more /\ call2.before = span
      BY <1>5, <2>2 DEF Calls
    <2> HIDE DEF call2
    <2> QED
      BY <2>1, <2>3 DEF Calls, Stages
  <1> HIDE DEF t
  <1>7. /\ Marked(allocation, a1, t) /\ ~a1.blockList[t].allocated
        /\ \A d \in Entries(allocation) : d # t =>
             a1.blockList[d].allocated = allocation.blockList[d].allocated
    BY <1>2, MarkFree
  <1> HIDE DEF a1
  <1>8. ListType(a1) /\ ListInv(a1) /\ t \in Linked(a1) /\ Keeps(allocation, a1, t)
    BY <1>7 DEF Marked, Keeps
  <1>9. /\ Keeps(a1, a2, t)
        /\ ~FreeNext(a1, t) => a2 = a1
        /\ FreeNext(a1, t) => Unlinked(a2) # {}
        /\ ~a2.blockList[t].allocated
        /\ a2.blockList[t].block = a1.blockList[t].block
        /\ a2.blockList[t].units >= a1.blockList[t].units
    BY <1>7, <1>8, MergeAfterKeeps
  <1> HIDE DEF a2
  <1>10. FreeNext(a1, t) <=> FreeNext(allocation, t)
    <2>1. a1.blockList[t].next = allocation.blockList[t].next
      BY <1>7 DEF Marked
    <2>2. ASSUME allocation.blockList[t].next # Nil
          PROVE  /\ allocation.blockList[t].next \in Entries(allocation)
                 /\ allocation.blockList[t].next # t
      <3> DEFINE n == allocation.blockList[t].next
                 x == allocation.blockList[t]
                 y == allocation.blockList[n]
      <3>1. n \in Linked(allocation) /\ y.block = End(x)
        BY <1>2, <2>2, LinkFacts
      <3>2. End(x) = x.block + x.units /\ x.block \in Nat /\ x.units \in Nat \ {0}
        BY <1>2, LinkFacts
      <3>3. n \in Entries(allocation)
        BY <1>2, <3>1, LinkFacts
      <3>4. n = t => y = x
        OBVIOUS
      <3> HIDE DEF n, x, y
      <3>5. n # t
        BY <3>1, <3>2, <3>4
      <3> QED
        BY <3>3, <3>5 DEF n
    <2> QED
      BY <1>7, <2>1, <2>2 DEF FreeNext
  <1>11. /\ Keeps(allocation, a2, t)
         /\ a2.blockList[t].block = allocation.at /\ a2.blockList[t].units >= size
         /\ more = 1 => Unlinked(a2) # {}
         /\ more = 0 => a2.blockList[t].units = size
    <2>1. a1.blockList[t].block = allocation.at /\ a1.blockList[t].units = size
      BY <1>3, <1>7 DEF Marked
    <2>2. Keeps(allocation, a2, t)
      BY <1>8, <1>9, KeepsTransitive
    <2> HIDE DEF size
    <2> QED
      BY <1>9, <1>10, <2>1, <2>2 DEF more, t
  <1>12. /\ ListType(a2) /\ ListInv(a2) /\ Length(a2) = Length(allocation)
         /\ a2.table = t /\ a2.at = allocation.at
         /\ t \in Linked(a2) /\ SameBlocks(allocation, a2, t)
    BY <1>11 DEF Keeps, t
  <1>13. ListType(allocation') /\ ListInv(allocation') /\ HeldInv' /\ ContentsKept'
    BY <1>1, <1>2, <1>12 DEF AllocatorInv, HeldInv, ContentsKept
  <1>14. CallInv' /\ Intact'
    BY <1>1, <1>2, <1>6, <1>12, CallStays DEF Midway
  <1>15. TableInv'
    <2>1. Length(allocation') * EntrySize = size
      BY <1>1, <1>12
    <2> HIDE DEF size
    <2> QED
      BY <1>1, <1>5, <1>6, <1>9, <1>11, <1>12, <1>14, <2>1 DEF TableInv, Growing, At
  <1>16. OwnersInv'
    <2>1. t \in Kept /\ Kept' = Kept /\ Owners' = Owners
      BY <1>1, <1>6, <1>12 DEF Kept, Owners, t
    <2> QED
      BY <1>1, <1>2, <1>12, <2>1, OwnersStay
  <1>17. ContentsInv'
    <2> SUFFICES ASSUME NEW c \in Clients, NEW u \in span
                 PROVE  u < held[c].pointer \/ held[c].pointer + held[c].units <= u
      BY <1>1, <1>6 DEF AllocatorInv, ContentsInv
    <2>1. CASE held[c] = NotHeld
      <3>1. u \in Nat
        <4> DEFINE x == allocation.blockList[t]
        <4>1. x.block \in Nat /\ End(x) \in Nat
          BY <1>2, LinkFacts
        <4>2. u \in x.block .. End(x) - 1
          BY <1>4 DEF t
        <4> HIDE DEF x
        <4> QED
          BY <4>1, <4>2
      <3> QED
        BY <2>1, <3>1 DEF NotHeld, Nil
    <2>2. CASE held[c] # NotHeld
      <3>1. PICK b : HolderIn(c, b)
        BY <1>2, <2>2, HolderHasBlock
      <3>2. t \in Linked(allocation) \ {b}
        BY <1>2, <3>1 DEF HolderIn, t
      <3> QED
        BY <1>2, <1>4, <2>2, <3>1, <3>2, HoldersApart DEF t
    <2> QED
      BY <2>1, <2>2
  <1> QED
    BY <1>1, <1>13, <1>14, <1>15, <1>16, <1>17 DEF AllocatorInv

LEMMA GrowInPlaceKeeps ==
    ASSUME AllocatorInv, Trusted, GrowInPlace
    PROVE  AllocatorInv'
  <1> DEFINE t == allocation.table
             N == Length(allocation)
             one == 1
             a2 == AddEntries(allocation, one)
             e == allocation.blockList[t]
  <1>1. /\ call.stage = "grow" /\ e.units >= (N + 1) * EntrySize
        /\ allocation' = a2
        /\ call' = [call EXCEPT !.stage = "cut"]
        /\ UNCHANGED <<memory, held, outcome>>
    BY DEF GrowInPlace, At, Step, FitsInPlace
  <1>2. /\ ListType(allocation) /\ ListInv(allocation) /\ TableInv /\ CallInv /\ HeldInv
        /\ Intact /\ ~Idle /\ OwnersInv
        /\ t \in Linked(allocation) /\ ~e.allocated
        /\ call.function = "realloc" => call.block # t
        /\ call \in Calls /\ N \in Nat /\ N * EntrySize \in Nat
    BY <1>1, TableFacts DEF Growing
  <1>3. /\ call' \in Calls /\ call'.function = call.function /\ call'.client = call.client
        /\ call'.units = call.units /\ call'.block = call.block /\ call'.fits = call.fits
        /\ call'.entries = call.entries /\ call'.before = call.before /\ call'.stage = "cut"
    BY <1>1, <1>2 DEF Calls, Stages
  <1>4. /\ e.block = allocation.at /\ e.units \in Nat
        /\ Unlinked(allocation) # {}
    <2>1. /\ e.block = allocation.at /\ call.entries \in {0, 1}
          /\ call.entries = 1 => Unlinked(allocation) # {}
          /\ call.entries = 0 => e.units = N * EntrySize
      BY <1>1, <1>2 DEF TableInv, At
    <2>2. (N + 1) * EntrySize > N * EntrySize /\ (N + 1) * EntrySize \in Nat
      BY <1>2, SizeFacts
    <2>3. e.units \in Nat
      BY <1>2, LinkFacts
    <2>4. e.units # N * EntrySize
      BY <1>1, <1>2, <2>2, <2>3
    <2> QED
      BY <2>1, <2>3, <2>4
  <1>5. one \in Nat /\ one = 1
    OBVIOUS
  <1> HIDE DEF one
  <1>6. /\ ListType(a2) /\ ListInv(a2) /\ Length(a2) = N + one
        /\ a2.table = t /\ a2.at = allocation.at
        /\ Linked(a2) = Linked(allocation)
        /\ Unlinked(a2) = Unlinked(allocation) \cup N .. N + one - 1
        /\ \A d \in Linked(allocation) : a2.blockList[d] = allocation.blockList[d]
    BY <1>2, <1>5, AddEntriesKeeps
  <1>7. SameBlocks(allocation, a2, t)
    BY <1>6 DEF SameBlocks
  <1>8. TwoUnlinked(a2)
    <2>1. N \in Unlinked(a2)
      <3> HIDE DEF N, a2
      <3>1. N \in N .. N + one - 1
        BY <1>2, <1>5
      <3> QED
        BY <1>6, <3>1
    <2>2. PICK d \in Unlinked(allocation) : TRUE
      BY <1>4
    <2>3. d # N
      <3>1. d \in 0 .. N - 1
        BY <1>2, EntryFacts
      <3> HIDE DEF N
      <3> QED
        BY <1>2, <3>1
    <2>4. d \in Unlinked(a2)
      BY <1>6, <2>2
    <2> QED
      BY <2>1, <2>3, <2>4 DEF TwoUnlinked
  <1> HIDE DEF a2
  <1>9. ListType(allocation') /\ ListInv(allocation') /\ HeldInv' /\ ContentsKept'
    BY <1>1, <1>2, <1>6 DEF AllocatorInv, HeldInv, ContentsKept
  <1>10. CallInv' /\ Intact'
    BY <1>1, <1>2, <1>3, <1>6, <1>7, CallStays DEF Midway
  <1>11. TableInv'
    <2>1. /\ allocation'.blockList[t] = e /\ t \in Linked(allocation')
          /\ allocation'.table = t /\ allocation'.at = allocation.at
          /\ Length(allocation') = N + 1
      BY <1>1, <1>2, <1>5, <1>6
    <2>2. e.units >= Length(allocation') * EntrySize
      BY <1>1, <2>1
    <2> HIDE DEF e, t, N
    <2> QED
      BY <1>1, <1>2, <1>3, <1>4, <1>8, <1>10, <2>1, <2>2 DEF TableInv, Growing, At
  <1>12. OwnersInv'
    <2>1. t \in Kept /\ Kept' = Kept /\ Owners' = Owners
      BY <1>1, <1>3, <1>6 DEF Kept, Owners
    <2> QED
      BY <1>1, <1>2, <1>7, <2>1, OwnersStay
  <1>13. ContentsInv'
    BY <1>1, <1>3 DEF AllocatorInv, ContentsInv, Growing
  <1> QED
    BY <1>1, <1>9, <1>10, <1>11, <1>12, <1>13 DEF AllocatorInv

LEMMA GrowBeforeKeeps ==
    ASSUME AllocatorInv, Trusted, GrowBefore
    PROVE  AllocatorInv'
  <1> DEFINE t == allocation.table
             a2 == MergeBefore(allocation, t)
             left == EntriesToMove(call.entries = 1, FreePrevious(allocation, t))
  <1>1. /\ call.stage = "grow" /\ allocation' = a2
        /\ call' = [call EXCEPT !.entries = left, !.stage = "move"]
        /\ UNCHANGED <<memory, held, outcome>>
    BY DEF GrowBefore, At
  <1>2. /\ ListType(allocation) /\ ListInv(allocation) /\ TableInv /\ CallInv /\ HeldInv
        /\ Intact /\ ~Idle /\ OwnersInv
        /\ t \in Linked(allocation) /\ ~allocation.blockList[t].allocated
        /\ call.function = "realloc" => call.block # t
        /\ call \in Calls
    BY <1>1, TableFacts DEF Growing
  <1>3. /\ call.entries \in {0, 1}
        /\ call.entries = 1 => Unlinked(allocation) # {}
    BY <1>1, <1>2 DEF TableInv, At
  <1>4. left = IF call.entries = 1 THEN IF FreePrevious(allocation, t) THEN 0 ELSE 1
               ELSE IF FreePrevious(allocation, t) THEN 1 ELSE 2
    BY DEF EntriesToMove
  <1> HIDE DEF left
  <1>5. /\ call' \in Calls /\ call'.function = call.function /\ call'.client = call.client
        /\ call'.units = call.units /\ call'.block = call.block /\ call'.fits = call.fits
        /\ call'.entries = left /\ call'.before = call.before /\ call'.stage = "move"
    <2> DEFINE call1 == [call EXCEPT !.entries = left]
    <2>1. call' = [call1 EXCEPT !.stage = "move"]
      BY <1>1
    <2>2. /\ call1 \in Calls /\ call1.function = call.function /\ call1.client = call.client
          /\ call1.units = call.units /\ call1.block = call.block /\ call1.fits = call.fits
          /\ call1.entries = left /\ call1.before = call.before
      BY <1>2, <1>4 DEF Calls
    <2> HIDE DEF call1
    <2> QED
      BY <2>1, <2>2 DEF Calls, Stages
  <1>6. /\ Keeps(allocation, a2, t)
        /\ FreePrevious(allocation, t) => \E d \in Unlinked(a2) : d \notin Unlinked(allocation)
        /\ Unlinked(allocation) \subseteq Unlinked(a2)
        /\ (a2.blockList[t].allocated <=> allocation.blockList[t].allocated)
    BY <1>2, MergeBeforeKeeps
  <1> HIDE DEF a2
  <1>7. /\ ListType(a2) /\ ListInv(a2) /\ Length(a2) = Length(allocation)
        /\ a2.table = t /\ a2.at = allocation.at
        /\ t \in Linked(a2) /\ SameBlocks(allocation, a2, t)
    BY <1>6 DEF Keeps
  <1>8. left = 1 => Unlinked(a2) # {}
    BY <1>3, <1>4, <1>6
  <1>9. left = 0 => TwoUnlinked(a2)
    <2> SUFFICES ASSUME left = 0 PROVE TwoUnlinked(a2)
      OBVIOUS
    <2>1. FreePrevious(allocation, t) /\ Unlinked(allocation) # {}
      BY <1>3, <1>4
    <2>2. PICK d \in Unlinked(a2) : d \notin Unlinked(allocation)
      BY <1>6, <2>1
    <2>3. PICK b \in Unlinked(allocation) : TRUE
      BY <2>1
    <2> QED
      BY <1>6, <2>2, <2>3 DEF TwoUnlinked
  <1>10. ListType(allocation') /\ ListInv(allocation') /\ HeldInv' /\ ContentsKept'
    BY <1>1, <1>2, <1>7 DEF AllocatorInv, HeldInv, ContentsKept
  <1>11. CallInv' /\ Intact'
    BY <1>1, <1>2, <1>5, <1>7, CallStays DEF Midway
  <1>12. TableInv'
    <2>1. left \in {0, 1, 2} /\ ~a2.blockList[t].allocated
      BY <1>2, <1>4, <1>6
    <2> HIDE DEF t
    <2> QED
      BY <1>1, <1>5, <1>7, <1>8, <1>9, <1>11, <2>1 DEF TableInv, Growing, At
  <1>13. OwnersInv'
    <2>1. t \in Kept /\ Kept' = Kept /\ Owners' = Owners
      BY <1>1, <1>5, <1>7 DEF Kept, Owners
    <2> QED
      BY <1>1, <1>2, <1>7, <2>1, OwnersStay
  <1>14. ContentsInv'
    BY <1>1, <1>5 DEF AllocatorInv, ContentsInv, Growing
  <1> QED
    BY <1>1, <1>10, <1>11, <1>12, <1>13, <1>14 DEF AllocatorInv

SetTable(a, b, at) == [a EXCEPT !.at = at, !.table = b]

LEMMA SetTableFacts ==
    ASSUME NEW a, ListType(a), ListInv(a), NEW b \in Nat, NEW at \in Int
    PROVE  /\ ListType(SetTable(a, b, at)) /\ ListInv(SetTable(a, b, at))
           /\ Length(SetTable(a, b, at)) = Length(a)
           /\ SetTable(a, b, at).table = b /\ SetTable(a, b, at).at = at
           /\ SetTable(a, b, at).blockList = a.blockList
           /\ Linked(SetTable(a, b, at)) = Linked(a)
           /\ Unlinked(SetTable(a, b, at)) = Unlinked(a)
  <1> DEFINE a2 == SetTable(a, b, at)
  <1>1. a2 = [blockList |-> a.blockList, first |-> a.first, table |-> b, at |-> at]
    <2> DEFINE a1 == [a EXCEPT !.at = at]
    <2>1. a1 = [blockList |-> a.blockList, first |-> a.first, table |-> a.table, at |-> at]
      BY DEF ListType
    <2>2. a2 = [a1 EXCEPT !.table = b]
      BY DEF SetTable
    <2> HIDE DEF a1
    <2> QED
      BY <2>1, <2>2
  <1> HIDE DEF a2
  <1>2. Length(a2) = Length(a) /\ Entries(a2) = Entries(a)
    BY <1>1 DEF Length, Entries
  <1>3. Linked(a2) = Linked(a) /\ Unlinked(a2) = Unlinked(a)
    BY <1>1, <1>2 DEF Linked, Unlinked
  <1>4. ListType(a2)
    BY <1>1, <1>2 DEF ListType
  <1>5. ListInv(a2)
    <2>1. a2.blockList = a.blockList /\ a2.first = a.first
      BY <1>1
    <2> QED
      BY <1>3, <2>1 DEF ListInv, HeadInv, TailInv, PlaceInv, NextInv, PreviousInv, DisjointInv
  <1> QED
    BY <1>1, <1>2, <1>3, <1>4, <1>5 DEF a2

\* Nothing runs after an operation has ended.
LEMMA EndedCall ==
    ASSUME CallInv, ContentsInv, call' = NoCall, memory' = memory
    PROVE  CallInv' /\ ContentsInv' /\ ~Growing' /\ Idle'
           /\ call'.stage = "idle" /\ call'.function = "none"
  <1>1. NoCall \in Calls /\ NoCall.stage = "idle" /\ NoCall.function = "none"
    BY DEF NoCall, Calls, Nil, Stages
  <1>2. CallInv'
    BY <1>1 DEF CallInv, At, Idle
  <1>3. ContentsInv' /\ ~Growing'
    BY <1>1 DEF ContentsInv, Growing
  <1> QED
    BY <1>1, <1>2, <1>3 DEF Idle

LEMMA MoveTableKeeps ==
    ASSUME AllocatorInv, Trusted, MoveTable
    PROVE  AllocatorInv'
  <1> DEFINE t == allocation.table
             N == Length(allocation)
             k == call.entries
             b == FindBlock(allocation, (N + k) * EntrySize)
  <1>1. call.stage = "move" /\ UNCHANGED <<memory, held>>
    BY DEF MoveTable, At
  <1>2. /\ ListType(allocation) /\ ListInv(allocation) /\ TableInv /\ CallInv /\ HeldInv
        /\ Intact /\ ~Idle /\ OwnersInv
        /\ t \in Linked(allocation) /\ ~allocation.blockList[t].allocated
        /\ call.function = "realloc" => call.block # t
        /\ call \in Calls /\ N \in Nat
    BY <1>1, TableFacts DEF Growing
  <1>3. CASE b = Nil
    <2>1. call' = NoCall /\ outcome' = "growth" /\ allocation' = allocation
      BY <1>3 DEF MoveTable, Fail
    <2>2. CallInv' /\ ContentsInv' /\ ~Growing' /\ call'.stage = "idle" /\ ~Intact'
      BY <1>1, <1>2, <2>1, EndedCall DEF AllocatorInv, Intact
    <2>3. TableInv'
      BY <1>2, <2>1, <2>2 DEF TableInv, At
    <2>4. ListType(allocation') /\ ListInv(allocation') /\ HeldInv' /\ ContentsKept'
      BY <1>1, <1>2, <2>1 DEF AllocatorInv, HeldInv, ContentsKept
    <2> QED
      BY <2>1, <2>2, <2>3, <2>4 DEF AllocatorInv
  <1>4. CASE b # Nil
    <2> DEFINE at == allocation.blockList[b].block
               a1 == AddEntries(allocation, k)
               a2 == SetTable(a1, b, at)
    <2>1. allocation' = a2 /\ call' = [call EXCEPT !.stage = "cut"] /\ outcome' = outcome
      BY <1>4 DEF MoveTable, Step, SetTable
    <2>2. /\ b \in Linked(allocation) /\ ~allocation.blockList[b].allocated
          /\ allocation.blockList[b].units >= (N + k) * EntrySize
      <3> DEFINE need == (N + k) * EntrySize
      <3>1. b = FindBlock(allocation, need)
        OBVIOUS
      <3> HIDE DEF need, b
      <3>2. b \in Linked(allocation) /\ ~allocation.blockList[b].allocated
            /\ allocation.blockList[b].units >= need
        BY <1>2, <1>4, <3>1, FindBlockFacts DEF Trusted
      <3> QED
        BY <3>2 DEF need
    <2> HIDE DEF b
    <2>3. /\ k \in {0, 1, 2}
          /\ k = 1 => Unlinked(allocation) # {}
          /\ k = 0 => TwoUnlinked(allocation)
      BY <1>1, <1>2 DEF TableInv, At
    <2>4. /\ call' \in Calls /\ call'.function = call.function /\ call'.client = call.client
          /\ call'.units = call.units /\ call'.block = call.block /\ call'.fits = call.fits
          /\ call'.entries = call.entries /\ call'.before = call.before /\ call'.stage = "cut"
      BY <1>2, <2>1 DEF Calls, Stages
    <2> HIDE DEF k
    <2>5. /\ ListType(a1) /\ ListInv(a1) /\ Length(a1) = N + k
          /\ Linked(a1) = Linked(allocation)
          /\ Unlinked(a1) = Unlinked(allocation) \cup N .. N + k - 1
          /\ \A d \in Linked(allocation) : a1.blockList[d] = allocation.blockList[d]
      <3>1. k \in Nat
        BY <2>3
      <3> QED
        BY <1>2, <3>1, AddEntriesKeeps
    <2> HIDE DEF a1
    <2>6. b \in Nat /\ at \in Int
      BY <1>2, <2>2, LinkFacts
    <2>7. /\ ListType(a2) /\ ListInv(a2) /\ Length(a2) = N + k
          /\ a2.table = b /\ a2.at = at
          /\ Linked(a2) = Linked(allocation)
          /\ Unlinked(a2) = Unlinked(allocation) \cup N .. N + k - 1
          /\ \A d \in Linked(allocation) : a2.blockList[d] = allocation.blockList[d]
      <3> HIDE DEF at, N
      <3>1. /\ ListType(a2) /\ ListInv(a2) /\ Length(a2) = Length(a1)
            /\ a2.table = b /\ a2.at = at /\ a2.blockList = a1.blockList
            /\ Linked(a2) = Linked(a1) /\ Unlinked(a2) = Unlinked(a1)
        BY <2>5, <2>6, SetTableFacts
      <3> HIDE DEF a2
      <3> QED
        BY <2>5, <3>1
    <2> HIDE DEF a2
    <2>8. SameBlocks(allocation, a2, t)
      BY <2>7 DEF SameBlocks
    <2>9. TwoUnlinked(a2)
      <3> HIDE DEF N
      <3>1. CASE k = 0
        BY <2>3, <2>7, <3>1 DEF TwoUnlinked
      <3>2. CASE k = 1
        <4>1. PICK d \in Unlinked(allocation) : TRUE
          BY <2>3, <3>2
        <4>2. d \in 0 .. N - 1
          BY <1>2, EntryFacts DEF N
        <4>3. N \in N .. N + k - 1 /\ d # N
          BY <1>2, <3>2, <4>2
        <4> QED
          BY <2>7, <4>1, <4>3 DEF TwoUnlinked
      <3>3. CASE k = 2
        <4>1. N \in N .. N + k - 1 /\ N + 1 \in N .. N + k - 1 /\ N + 1 # N
          BY <1>2, <3>3
        <4> QED
          BY <2>7, <4>1 DEF TwoUnlinked
      <3> QED
        BY <2>3, <3>1, <3>2, <3>3
    <2>10. call.function = "realloc" => call.block \notin {t, b}
      <3>1. call.function = "realloc" => allocation.blockList[call.block].allocated
        BY <1>1, <1>2 DEF CallInv
      <3> QED
        BY <1>2, <2>2, <3>1
    <2>11. ListType(allocation') /\ ListInv(allocation') /\ HeldInv' /\ ContentsKept'
      BY <1>1, <1>2, <2>1, <2>7 DEF AllocatorInv, HeldInv, ContentsKept
    <2>12. CallInv' /\ Intact'
      BY <1>1, <1>2, <2>1, <2>4, <2>7, <2>8, <2>10, CallStays DEF Midway
    <2>13. TableInv'
      <3>1. /\ allocation'.blockList[b] = allocation.blockList[b] /\ b \in Linked(allocation')
            /\ allocation'.table = b /\ allocation'.at = at
            /\ Length(allocation') = N + k
        BY <2>1, <2>2, <2>7
      <3>2. allocation.blockList[b].units >= Length(allocation') * EntrySize
        BY <2>2, <3>1
      <3> QED
        BY <2>1, <2>2, <2>4, <2>9, <2>12, <3>1, <3>2 DEF TableInv, Growing, At
    <2>14. OwnersInv'
      <3>1. /\ InUse' = InUse
            /\ \A d \in InUse : allocation'.blockList[d] = allocation.blockList[d]
        BY <1>2, <2>1, <2>2, <2>4, <2>7 DEF InUse
      <3>2. Owners' = Owners
        BY <1>1, <2>4 DEF Owners
      <3> QED
        BY <1>1, <1>2, <3>1, <3>2 DEF OwnersInv
    <2>15. ContentsInv'
      BY <1>1, <2>4 DEF AllocatorInv, ContentsInv, Growing
    <2> QED
      BY <2>1, <2>11, <2>12, <2>13, <2>14, <2>15 DEF AllocatorInv
  <1> QED
    BY <1>3, <1>4

LEMMA CutTableKeeps ==
    ASSUME AllocatorInv, Trusted, CutTable
    PROVE  AllocatorInv'
  <1> DEFINE t == allocation.table
             size == Length(allocation) * EntrySize
             x == Max(Unlinked(allocation))
             a1 == IF allocation.blockList[t].units > size THEN SplitInto(allocation, t, size, x)
                   ELSE allocation
             a2 == Mark(a1, t, TRUE)
             span == TableSpan(allocation)
             none == {}
  <1>1. /\ call.stage = "cut" /\ allocation' = a2
        /\ memory' = WriteTable(memory, call.before, span)
        /\ call' = [call EXCEPT !.before = none, !.stage = "find"]
        /\ UNCHANGED <<held, outcome>>
    BY DEF CutTable, At
  <1>2. /\ ListType(allocation) /\ ListInv(allocation) /\ TableInv /\ CallInv /\ HeldInv
        /\ Intact /\ ~Idle /\ OwnersInv
        /\ t \in Linked(allocation) /\ ~allocation.blockList[t].allocated
        /\ call.function = "realloc" => call.block # t
        /\ call \in Calls /\ size \in Nat /\ size > 0
        /\ allocation.blockList[t].units \in Nat /\ allocation.blockList[t].block \in Nat
        /\ End(allocation.blockList[t]) =
             allocation.blockList[t].block + allocation.blockList[t].units
    BY <1>1, TableFacts DEF Growing
  <1>3. /\ allocation.blockList[t].block = allocation.at
        /\ allocation.blockList[t].units >= size
        /\ TwoUnlinked(allocation)
    BY <1>1, <1>2 DEF TableInv, At
  <1>4. \A u \in span : u \in allocation.blockList[t].block .. End(allocation.blockList[t]) - 1
    <2>1. span = allocation.at .. allocation.at + size - 1
      BY DEF TableSpan, Span
    <2> DEFINE e == allocation.blockList[t]
    <2>2. /\ e.block = allocation.at /\ e.units >= size /\ End(e) = e.block + e.units
          /\ e.block \in Nat /\ e.units \in Nat
      BY <1>2, <1>3
    <2> HIDE DEF size, span, e
    <2>3. \A u \in span : u \in e.block .. End(e) - 1
      BY <1>2, <2>1, <2>2
    <2> QED
      BY <2>3 DEF e
  <1>5. none \in SUBSET Int /\ none = {}
    OBVIOUS
  <1> HIDE DEF none, span
  <1>6. /\ call' \in Calls /\ call'.function = call.function /\ call'.client = call.client
        /\ call'.units = call.units /\ call'.block = call.block /\ call'.fits = call.fits
        /\ call'.entries = call.entries /\ call'.stage = "find"
    <2> DEFINE call1 == [call EXCEPT !.before = none]
    <2>1. call' = [call1 EXCEPT !.stage = "find"]
      BY <1>1
    <2>2. /\ call1 \in Calls /\ call1.function = call.function /\ call1.client = call.client
          /\ call1.units = call.units /\ call1.block = call.block /\ call1.fits = call.fits
          /\ call1.entries = call.entries
      BY <1>2, <1>5 DEF Calls
    <2> HIDE DEF call1
    <2> QED
      BY <2>1, <2>2 DEF Calls, Stages
  <1>7. x \in Unlinked(allocation)
    <2>1. /\ Unlinked(allocation) # {} /\ Unlinked(allocation) \subseteq 0 .. Length(allocation) - 1
          /\ Length(allocation) \in Nat
      BY <1>2, <1>3, EntryFacts DEF TwoUnlinked
    <2> DEFINE n == Length(allocation)
    <2>2. Unlinked(allocation) \in SUBSET (0 .. n) /\ n \in Nat
      <3>1. Unlinked(allocation) \subseteq 0 .. n - 1 /\ n \in Nat
        BY <2>1
      <3> HIDE DEF n
      <3> QED
        BY <3>1
    <2> HIDE DEF n
    <2> QED
      BY <2>1, <2>2, MaxFacts
  <1> HIDE DEF x, size
  <1>8. /\ Keeps(allocation, a1, t)
        /\ a1.blockList[t].block = allocation.blockList[t].block
        /\ a1.blockList[t].units = size
        /\ Unlinked(a1) # {}
    <2>1. CASE allocation.blockList[t].units > size
      <3>1. a1 = SplitInto(allocation, t, size, x)
        BY <2>1
      <3>2. size \in Nat \ {0} /\ size < allocation.blockList[t].units
        BY <1>2, <2>1
      <3> HIDE DEF a1, t
      <3>3. /\ Keeps(allocation, a1, t)
            /\ Unlinked(a1) = Unlinked(allocation) \ {x}
            /\ a1.blockList[t].block = allocation.blockList[t].block
            /\ a1.blockList[t].units = size
        BY <1>2, <1>7, <3>1, <3>2, SplitKeeps
      <3> QED
        BY <1>3, <3>3 DEF TwoUnlinked
    <2>2. CASE ~(allocation.blockList[t].units > size)
      <3>1. a1 = allocation /\ allocation.blockList[t].units = size
        BY <1>2, <1>3, <2>2
      <3> HIDE DEF a1
      <3> QED
        BY <1>2, <1>3, <3>1 DEF Keeps, SameBlocks, TwoUnlinked
    <2> QED
      BY <2>1, <2>2
  <1>9. ListType(a1) /\ ListInv(a1) /\ t \in Linked(a1)
    BY <1>8 DEF Keeps
  <1> HIDE DEF a1, t
  <1>10. Marked(a1, a2, t) /\ a2.blockList[t].allocated
    BY <1>9, MarkAllocated
  <1>11. /\ a2.blockList[t].block = allocation.blockList[t].block
         /\ a2.blockList[t].units = size
         /\ Unlinked(a2) # {}
         /\ Keeps(allocation, a2, t)
    BY <1>8, <1>10, KeepsTransitive DEF Marked
  <1> HIDE DEF a2
  <1>12. /\ ListType(a2) /\ ListInv(a2) /\ Length(a2) = Length(allocation)
         /\ a2.table = t /\ a2.at = allocation.at
         /\ t \in Linked(a2) /\ SameBlocks(allocation, a2, t)
    BY <1>11 DEF Keeps, t
  <1>13. ListType(allocation') /\ ListInv(allocation') /\ HeldInv'
    BY <1>1, <1>2, <1>12 DEF HeldInv
  <1>14. CallInv' /\ Intact'
    BY <1>1, <1>2, <1>6, <1>12, CallStays DEF Midway
  <1>15. TableInv'
    <2>1. Length(allocation') * EntrySize = size
      BY <1>1, <1>12 DEF size
    <2> QED
      BY <1>1, <1>3, <1>6, <1>10, <1>11, <1>12, <1>14, <2>1 DEF TableInv, Growing, At
  <1>16. OwnersInv'
    <2>1. t \in Kept /\ Kept' = Kept /\ Owners' = Owners
      BY <1>1, <1>6, <1>12 DEF Kept, Owners, t
    <2> QED
      BY <1>1, <1>2, <1>12, <2>1, OwnersStay
  <1>17. DOMAIN memory = 0 .. Size - 1 /\ DOMAIN memory' = DOMAIN memory
         /\ \A u \in DOMAIN memory : u \notin span /\ u \notin call.before => memory'[u] = memory[u]
    BY <1>1 DEF AllocatorInv, ContentsInv, WriteTable
  <1>18. ContentsInv'
    BY <1>6, <1>17 DEF ContentsInv, Growing
  <1>19. ContentsKept'
    <2> SUFFICES ASSUME NEW c \in Clients, NEW i \in 0 .. held[c].filled - 1
                 PROVE  /\ held[c].pointer + i \in DOMAIN memory'
                        /\ memory'[held[c].pointer + i] = Datum(c, i)
      BY <1>1 DEF ContentsKept
    <2> DEFINE p == held[c].pointer
               k == held[c].units
               f == held[c].filled
    <2>1. /\ held[c] # NotHeld /\ p \in Int /\ k \in Nat /\ f \in Nat /\ f <= k /\ i \in Nat
          /\ i < f
      <3>1. f \in Nat
        BY <1>2 DEF HeldInv
      <3>2. held[c] # NotHeld
        BY DEF NotHeld
      <3> QED
        BY <1>2, <3>1, <3>2 DEF HeldInv
    <2>2. p + i \in DOMAIN memory /\ memory[p + i] = Datum(c, i)
      BY DEF AllocatorInv, ContentsKept
    <2>3. \A u \in call.before \cup span : u < p \/ p + k <= u
      <3>1. \A u \in call.before : u < p \/ p + k <= u
        BY <1>1 DEF AllocatorInv, ContentsInv, Growing
      <3>2. PICK b : HolderIn(c, b)
        BY <1>2, <2>1, HolderHasBlock
      <3>3. t \in Linked(allocation) \ {b}
        BY <1>2, <3>2 DEF HolderIn, t
      <3>4. \A u \in span : u < p \/ p + k <= u
        BY <1>2, <1>4, <2>1, <3>2, <3>3, HoldersApart DEF t
      <3> QED
        BY <3>1, <3>4
    <2>4. p + i \notin call.before \cup span
      <3> HIDE DEF p, k, f
      <3>1. ~(p + i < p) /\ ~(p + k <= p + i)
        BY <2>1
      <3> QED
        BY <2>3, <3>1
    <2> QED
      BY <1>17, <2>2, <2>4
  <1> QED
    BY <1>1, <1>13, <1>14, <1>15, <1>16, <1>18, <1>19 DEF AllocatorInv

-----------------------------------------------------------------------------
(* The search and the end of the operations. *)

LEMMA FindKeeps ==
    ASSUME AllocatorInv, Trusted, Find
    PROVE  AllocatorInv'
  <1> DEFINE t == allocation.table
             a == IF call.function = "realloc" THEN Mark(allocation, call.block, FALSE)
                  ELSE allocation
             b == IF call.fits THEN call.block ELSE FindBlock(a, call.units)
  <1>1. call.stage = "find" /\ allocation' = a /\ UNCHANGED <<memory, held>>
    BY DEF Find, At
  <1>2. /\ ListType(allocation) /\ ListInv(allocation) /\ TableInv /\ CallInv /\ HeldInv
        /\ Intact /\ ~Idle /\ OwnersInv
        /\ t \in Linked(allocation) /\ allocation.blockList[t].allocated
        /\ call.function = "realloc" => call.block # t /\ call.block \in Linked(allocation)
        /\ call \in Calls
    BY <1>1, TableFacts DEF Growing
  <1>3. /\ call.function = "malloc" \/ call.function = "realloc"
        /\ call.function = "malloc" => ~call.fits
    BY <1>2 DEF CallInv, Calls
  <1>4. ASSUME call.function = "realloc"
        PROVE  /\ Marked(allocation, a, call.block)
               /\ ~a.blockList[call.block].allocated
    <2>1. a = Mark(allocation, call.block, FALSE)
      BY <1>4
    <2> HIDE DEF a
    <2> QED
      BY <1>2, <1>4, <2>1, MarkFree
  <1>5. call.function = "malloc" => a = allocation
    OBVIOUS
  <1> HIDE DEF a
  <1>6. /\ ListType(a) /\ ListInv(a) /\ Length(a) = Length(allocation)
        /\ a.table = t /\ a.at = allocation.at
        /\ Linked(a) = Linked(allocation) /\ Unlinked(a) = Unlinked(allocation)
        /\ \E d \in Kept : SameBlocks(allocation, a, d)
    <2>1. CASE call.function = "realloc"
      BY <1>4, <2>1 DEF Marked, Keeps, Kept
    <2>2. CASE call.function = "malloc"
      <3>1. SameBlocks(allocation, allocation, t)
        BY DEF SameBlocks
      <3> QED
        BY <1>2, <1>5, <2>2, <3>1 DEF Kept
    <2> QED
      BY <1>3, <2>1, <2>2
  <1>7. /\ a.blockList[t].allocated
        /\ a.blockList[t].block = allocation.blockList[t].block
        /\ a.blockList[t].units = allocation.blockList[t].units
    <2>1. CASE call.function = "realloc"
      BY <1>2, <1>4, <2>1 DEF Marked, Keeps, SameBlocks
    <2>2. CASE call.function = "malloc"
      BY <1>2, <1>5, <2>2
    <2> QED
      BY <1>3, <2>1, <2>2
  <1> HIDE DEF t
  <1>8. Unlinked(allocation) # {}
    BY <1>1, <1>2 DEF TableInv
  <1>9. ListType(allocation') /\ ListInv(allocation') /\ HeldInv' /\ ContentsKept'
    BY <1>1, <1>2, <1>6 DEF AllocatorInv, HeldInv, ContentsKept
  <1>10. CASE b = Nil
    <2>1. /\ call' = NoCall
          /\ outcome' = IF call.function = "malloc" THEN "full" ELSE "realloc"
      BY <1>10 DEF Find, Fail, a
    <2>2. CallInv' /\ ContentsInv' /\ ~Growing' /\ call'.stage = "idle" /\ call'.function = "none"
      BY <1>1, <1>2, <2>1, EndedCall DEF AllocatorInv
    <2>3. TableInv'
      <3>1. allocation.blockList[t].block = allocation.at
            /\ allocation.blockList[t].units = Length(allocation) * EntrySize
        BY <1>1, <1>2 DEF TableInv, Growing, t
      <3>2. Length(allocation') * EntrySize = Length(allocation) * EntrySize
        BY <1>1, <1>6
      <3> QED
        BY <1>1, <1>2, <1>6, <1>7, <2>2, <3>1, <3>2 DEF TableInv, At
    <2>4. Intact' => OwnersInv'
      <3> SUFFICES ASSUME Intact' PROVE OwnersInv'
        OBVIOUS
      <3>1. call.function = "malloc"
        BY <1>3, <2>1 DEF Intact
      <3>2. InUse' = InUse /\ Owners' = Owners /\ allocation' = allocation /\ held' = held
        BY <1>1, <1>5, <2>2, <3>1 DEF InUse, Owners
      <3> QED
        BY <1>2, <3>2 DEF OwnersInv
    <2> QED
      BY <1>9, <2>1, <2>2, <2>3, <2>4 DEF AllocatorInv
  <1>11. CASE b # Nil
    <2>1. call' = [call EXCEPT !.entries = b, !.stage = "take"] /\ outcome' = outcome
      BY <1>11 DEF Find, a
    <2>2. /\ b \in Linked(a) /\ ~a.blockList[b].allocated
          /\ a.blockList[b].units >= call.units
          /\ call.fits => b = call.block
      <3>1. CASE call.fits
        <4>1. b = call.block /\ call.function = "realloc"
          BY <1>3, <3>1
        <4>2. allocation.blockList[call.block].units >= call.units
          BY <1>2, <3>1, <4>1 DEF CallInv
        <4>3. Marked(allocation, a, call.block) /\ ~a.blockList[call.block].allocated
          BY <1>4, <4>1
        <4> QED
          BY <1>2, <1>6, <4>1, <4>2, <4>3 DEF Marked
      <3>2. CASE ~call.fits
        <4> DEFINE need == call.units
        <4>1. b = FindBlock(a, need)
          BY <3>2
        <4> HIDE DEF b, need
        <4>2. b \in Linked(a) /\ ~a.blockList[b].allocated /\ a.blockList[b].units >= need
          BY <1>6, <1>11, <4>1, FindBlockFacts DEF Trusted
        <4> QED
          BY <3>2, <4>2 DEF need
      <3> QED
        BY <3>1, <3>2
    <2> HIDE DEF b
    <2>3. b \in Nat
      BY <1>6, <2>2, LinkFacts
    <2>4. /\ call' \in Calls /\ call'.function = call.function /\ call'.client = call.client
          /\ call'.units = call.units /\ call'.block = call.block /\ call'.fits = call.fits
          /\ call'.entries = b /\ call'.stage = "take"
      <3> DEFINE call1 == [call EXCEPT !.entries = b]
      <3>1. call' = [call1 EXCEPT !.stage = "take"]
        BY <2>1
      <3>2. /\ call1 \in Calls /\ call1.function = call.function /\ call1.client = call.client
            /\ call1.units = call.units /\ call1.block = call.block /\ call1.fits = call.fits
            /\ call1.entries = b
        BY <1>2, <2>3 DEF Calls
      <3> HIDE DEF call1
      <3> QED
        BY <3>1, <3>2 DEF Calls, Stages
    <2>5. CallInv'
      <3>1. call' # NoCall /\ Intact'
        BY <1>2, <2>1, <2>4 DEF NoCall, Intact
      <3>2. b \in Linked(allocation') /\ ~allocation'.blockList[b].allocated /\ b # allocation'.table
        BY <1>1, <1>6, <1>7, <2>2
      <3>3. call.function # "none" /\ call.client \in Clients /\ call.units > 0
        BY <1>2 DEF CallInv
      <3>4. ASSUME call.function = "realloc"
            PROVE  /\ held[call.client] # NotHeld
                   /\ call.block \in Linked(a) \ {a.table}
                   /\ ~a.blockList[call.block].allocated
                   /\ a.blockList[call.block].block <= held[call.client].pointer
                   /\ held[call.client].pointer + held[call.client].units
                        <= End(a.blockList[call.block])
                   /\ call.fits => /\ a.blockList[call.block].block = held[call.client].pointer
                                   /\ a.blockList[call.block].units >= call.units
        <4>1. /\ a.blockList[call.block].block = allocation.blockList[call.block].block
              /\ a.blockList[call.block].units = allocation.blockList[call.block].units
              /\ End(a.blockList[call.block]) = End(allocation.blockList[call.block])
          BY <1>4, <3>4 DEF Marked, End
        <4>2. /\ held[call.client] # NotHeld
              /\ allocation.blockList[call.block].block <= held[call.client].pointer
              /\ held[call.client].pointer + held[call.client].units
                   <= End(allocation.blockList[call.block])
              /\ call.fits => /\ allocation.blockList[call.block].block = held[call.client].pointer
                              /\ allocation.blockList[call.block].units >= call.units
          BY <1>2, <3>4 DEF CallInv
        <4> QED
          BY <1>2, <1>4, <1>6, <3>4, <4>1, <4>2 DEF t
      <3>5. call.function = "malloc" => held[call.client] = NotHeld /\ ~call.fits
        BY <1>2 DEF CallInv
      <3> QED
        BY <1>1, <2>2, <2>4, <3>1, <3>2, <3>3, <3>4, <3>5
           DEF CallInv, At, Idle, IsFree
    <2>6. TableInv'
      <3>1. allocation.blockList[t].block = allocation.at
            /\ allocation.blockList[t].units = Length(allocation) * EntrySize
        BY <1>1, <1>2 DEF TableInv, Growing, t
      <3>2. Length(allocation') * EntrySize = Length(allocation) * EntrySize
        BY <1>1, <1>6
      <3> QED
        BY <1>1, <1>2, <1>6, <1>7, <1>8, <2>1, <2>4, <3>1, <3>2
           DEF TableInv, At, Growing, Intact
    <2>7. OwnersInv'
      <3>1. Kept' = Kept /\ Owners' = Owners
        BY <1>1, <1>6, <2>4 DEF Kept, Owners, t
      <3>2. PICK d \in Kept : SameBlocks(allocation, a, d)
        BY <1>6
      <3> QED
        BY <1>1, <1>2, <3>1, <3>2, OwnersStay
    <2>8. ContentsInv'
      BY <1>1, <2>4 DEF AllocatorInv, ContentsInv, Growing
    <2> QED
      BY <1>9, <2>1, <2>5, <2>6, <2>7, <2>8 DEF AllocatorInv
  <1> QED
    BY <1>10, <1>11

LEMMA MinOfTwo ==
    ASSUME NEW m \in Nat, NEW n \in Nat
    PROVE  /\ Min({m, n}) \in {m, n} /\ Min({m, n}) \in Nat
           /\ Min({m, n}) <= m /\ Min({m, n}) <= n
           /\ \A i \in Int : i < m /\ i < n => i < Min({m, n})
  <1>1. \E i \in {m, n} : \A j \in {m, n} : i <= j
    <2>1. m <= n => \A j \in {m, n} : m <= j
      OBVIOUS
    <2>2. ~(m <= n) => \A j \in {m, n} : n <= j
      OBVIOUS
    <2> QED
      BY <2>1, <2>2
  <1>2. Min({m, n}) \in {m, n} /\ \A j \in {m, n} : Min({m, n}) <= j
    BY <1>1 DEF Min
  <1> HIDE DEF Min
  <1> QED
    BY <1>2

LEMMA SplitBlockKeeps ==
    ASSUME NEW a, ListType(a), ListInv(a), NEW b \in Linked(a), NEW units \in Nat \ {0},
           units <= a.blockList[b].units, CanSplit(a, b, units)
    PROVE  /\ Keeps(a, SplitBlock(a, b, units), b)
           /\ SplitBlock(a, b, units).blockList[b].block = a.blockList[b].block
           /\ SplitBlock(a, b, units).blockList[b].units = units
  <1>1. CASE a.blockList[b].units = units
    BY <1>1 DEF SplitBlock, Keeps, SameBlocks
  <1>2. CASE a.blockList[b].units # units
    <2> DEFINE e == Min(Unlinked(a))
    <2>1. SplitBlock(a, b, units) = SplitInto(a, b, units, e)
      BY <1>2 DEF SplitBlock
    <2>2. e \in Unlinked(a)
      <3>1. Unlinked(a) \in SUBSET Nat /\ Unlinked(a) # {}
        BY <1>2, EntryFacts DEF CanSplit
      <3> QED
        BY <3>1, MinFacts
    <2>3. units < a.blockList[b].units
      <3>1. a.blockList[b].units \in Nat
        BY LinkFacts
      <3> QED
        BY <1>2, <3>1
    <2> HIDE DEF e
    <2> QED
      BY <2>1, <2>2, <2>3, SplitKeeps
  <1> QED
    BY <1>1, <1>2

\* A client's units that no other client's step touches are still its own.
LEMMA ContentsStay ==
    ASSUME AllocatorInv, Intact, NEW m, NEW S,
           \A u \in DOMAIN memory : u \notin S => m[u] = memory[u],
           NEW c \in Clients,
           \A u \in S : u < held[c].pointer \/ held[c].pointer + held[c].units <= u,
           NEW i \in 0 .. held[c].filled - 1
    PROVE  held[c].pointer + i \in DOMAIN memory /\ m[held[c].pointer + i] = Datum(c, i)
  <1> DEFINE p == held[c].pointer
             k == held[c].units
             f == held[c].filled
  <1>1. /\ p \in Int /\ k \in Nat /\ f \in Nat /\ f <= k /\ i \in Nat /\ i < f
    <2>1. HeldInv
      BY DEF AllocatorInv
    <2>2. p \in Int /\ k \in Nat /\ f \in Nat
      BY <2>1 DEF HeldInv
    <2>3. held[c] # NotHeld
      BY DEF NotHeld
    <2> QED
      BY <2>1, <2>2, <2>3 DEF HeldInv
  <1>2. p + i \in DOMAIN memory /\ memory[p + i] = Datum(c, i)
    BY DEF AllocatorInv, ContentsKept
  <1>3. \A u \in S : u < p \/ p + k <= u
    OBVIOUS
  <1> HIDE DEF p, k, f
  <1>4. p + i \notin S
    <2>1. ~(p + i < p) /\ ~(p + k <= p + i)
      BY <1>1
    <2> QED
      BY <1>3, <2>1
  <1>5. p + i \in DOMAIN memory /\ m[p + i] = Datum(c, i)
    BY <1>2, <1>4
  <1> QED
    BY <1>5 DEF p

LEMMA TakeKeeps ==
    ASSUME AllocatorInv, Trusted, Take
    PROVE  AllocatorInv'
  <1> DEFINE t == allocation.table
             b == call.entries
             c == call.client
             units == call.units
             new == allocation.blockList[b].block
             old == held[c].pointer
             filled == held[c].filled
             room == allocation.blockList[call.block].units
             kept == IF call.function = "malloc" THEN units ELSE Min({units, filled})
             here == IF call.function = "malloc" THEN Filled(memory, c, new, units)
                     ELSE IF call.fits THEN memory
                     ELSE Moved(memory, new, old, Min({units, room}))
             a1 == SplitBlock(allocation, b, units)
             a2 == Mark(a1, b, TRUE)
             now == [pointer |-> new, units |-> units, filled |-> kept]
  <1>1. /\ call.stage = "take" /\ CanSplit(allocation, b, units)
        /\ allocation' = a2
        /\ held' = [held EXCEPT ![c] = now]
        /\ memory' = Scrubbed(here, (new + kept) .. (new + units - 1))
        /\ call' = NoCall /\ outcome' = "ok"
    BY DEF Take, At
  <1>2. /\ ListType(allocation) /\ ListInv(allocation) /\ TableInv /\ CallInv /\ HeldInv
        /\ Intact /\ ~Idle /\ OwnersInv
        /\ t \in Linked(allocation) /\ allocation.blockList[t].allocated
        /\ call \in Calls
    BY <1>1, TableFacts DEF Growing
  <1>3. /\ call.function \in {"malloc", "realloc"}
        /\ b \in Linked(allocation) /\ ~allocation.blockList[b].allocated /\ b # t
        /\ allocation.blockList[b].units >= units /\ units \in Nat \ {0} /\ c \in Clients
        /\ call.function = "malloc" => held[c] = NotHeld /\ ~call.fits
        /\ call.function = "realloc" =>
             /\ held[c] # NotHeld /\ call.block \in Linked(allocation)
             /\ ~allocation.blockList[call.block].allocated
             /\ allocation.blockList[call.block].block <= old
             /\ old + held[c].units <= End(allocation.blockList[call.block])
             /\ call.fits => b = call.block /\ new = old
    BY <1>1, <1>2 DEF CallInv, At, IsFree, Calls
  <1>4. /\ new \in Nat /\ allocation.blockList[b].units \in Nat
        /\ End(allocation.blockList[b]) = new + allocation.blockList[b].units
        /\ End(allocation.blockList[b]) <= Size
    BY <1>2, <1>3, LinkFacts
  <1>5. new + units <= End(allocation.blockList[b]) /\ new + units <= Size /\ Size \in Nat
    <2>1. Size \in Nat
      BY AllocatorAssumption
    <2> QED
      BY <1>3, <1>4, <2>1
  <1>6. /\ held[c].pointer \in Int /\ held[c].units \in Nat /\ filled \in Nat
        /\ held[c] # NotHeld => filled <= held[c].units
    BY <1>2, <1>3 DEF HeldInv
  <1>7. kept \in Nat /\ kept <= units /\ (call.function = "realloc" => kept <= filled)
    <2>1. CASE call.function = "malloc"
      BY <1>3, <2>1
    <2>2. CASE call.function = "realloc"
      <3>1. kept = Min({units, filled})
        BY <2>2
      <3>2. Min({units, filled}) \in Nat /\ Min({units, filled}) <= units
            /\ Min({units, filled}) <= filled
        BY <1>3, <1>6, MinOfTwo
      <3> QED
        BY <3>1, <3>2
    <2> QED
      BY <1>3, <2>1, <2>2
  <1>8. DOMAIN memory = 0 .. Size - 1
    BY DEF AllocatorInv, ContentsInv
  <1>9. /\ DOMAIN here = DOMAIN memory
        /\ \A u \in DOMAIN memory : u \notin new .. new + units - 1 => here[u] = memory[u]
        /\ \A i \in 0 .. kept - 1 : here[new + i] = Datum(c, i)
    <2> HIDE DEF kept
    <2>1. CASE call.function = "malloc"
      <3>1. here = Filled(memory, c, new, units) /\ kept = units
        BY <2>1 DEF kept
      <3> HIDE DEF here, new, units
      <3>2. \A i \in 0 .. kept - 1 : /\ new + i \in Span(new, units) /\ new + i \in DOMAIN memory
                                     /\ (new + i) - new = i
        BY <1>3, <1>4, <1>5, <1>8, <3>1 DEF Span
      <3>3. /\ DOMAIN here = DOMAIN memory
            /\ \A u \in DOMAIN memory : u \notin Span(new, units) => here[u] = memory[u]
            /\ \A u \in DOMAIN memory : u \in Span(new, units) => here[u] = Datum(c, u - new)
        BY <3>1 DEF Filled
      <3> HIDE DEF c
      <3>4. \A i \in 0 .. kept - 1 : here[new + i] = Datum(c, i)
        <4> SUFFICES ASSUME NEW i \in 0 .. kept - 1 PROVE here[new + i] = Datum(c, i)
          OBVIOUS
        <4> DEFINE u == new + i
        <4>1. u \in Span(new, units) /\ u \in DOMAIN memory /\ u - new = i
          BY <3>2
        <4> HIDE DEF u
        <4>2. here[u] = Datum(c, i)
          BY <3>3, <4>1
        <4> QED
          BY <4>2 DEF u
      <3> QED
        BY <3>3, <3>4 DEF Span
    <2>2. CASE call.function = "realloc" /\ call.fits
      <3>1. here = memory /\ new = old
        BY <1>3, <2>2
      <3>2. \A i \in 0 .. kept - 1 : i \in 0 .. filled - 1
        <4> HIDE DEF filled
        <4> QED
          BY <1>6, <1>7, <2>2
      <3>3. \A i \in 0 .. filled - 1 : memory[old + i] = Datum(c, i)
        BY <1>3 DEF AllocatorInv, ContentsKept
      <3> QED
        BY <3>1, <3>2, <3>3
    <2>3. CASE call.function = "realloc" /\ ~call.fits
      <3> DEFINE copied == Min({units, room})
      <3>1. here = Moved(memory, new, old, copied)
        BY <2>3
      <3>2. room \in Nat /\ held[c].units <= room
        <4> DEFINE e == allocation.blockList[call.block]
        <4>1. e.block \in Nat /\ e.units \in Nat /\ End(e) = e.block + e.units
          BY <1>2, <1>3, <2>3, LinkFacts
        <4>2. e.block <= old /\ old + held[c].units <= End(e)
          BY <1>3, <2>3
        <4> HIDE DEF e
        <4> QED
          BY <1>6, <4>1, <4>2 DEF e
      <3>3. /\ copied \in Nat /\ copied <= units
            /\ \A i \in Int : i < units /\ i < room => i < copied
        BY <1>3, <3>2, MinOfTwo
      <3>4. filled <= room
        BY <1>3, <1>6, <2>3, <3>2
      <3> HIDE DEF copied, here, new, units, old, filled, room
      <3>5. ASSUME NEW i \in 0 .. kept - 1
            PROVE  /\ i \in 0 .. filled - 1 /\ new + i \in Span(new, copied)
                   /\ new + i \in DOMAIN memory /\ (new + i) - new = i
        <4>1. i \in Nat /\ i < kept /\ i < units /\ i < filled /\ i < room
          BY <1>3, <1>6, <1>7, <2>3, <3>2, <3>4
        <4>2. i < copied
          BY <3>3, <4>1
        <4>3. new \in Nat /\ new + units <= Size /\ Size \in Nat /\ filled \in Nat /\ units \in Nat
          BY <1>3, <1>4, <1>5, <1>6
        <4>4. new + i \in 0 .. Size - 1
          BY <4>1, <4>3
        <4>5. (new + i) - new = i /\ i \in 0 .. filled - 1 /\ new + i \in new .. new + copied - 1
          BY <3>3, <4>1, <4>2, <4>3
        <4> QED
          BY <1>8, <4>4, <4>5 DEF Span
      <3>6. \A i \in 0 .. filled - 1 : old + i \in DOMAIN memory /\ memory[old + i] = Datum(c, i)
        BY <1>3 DEF AllocatorInv, ContentsKept, old, filled
      <3>7. /\ DOMAIN here = DOMAIN memory
            /\ \A u \in DOMAIN memory : u \notin Span(new, copied) => here[u] = memory[u]
            /\ \A u \in DOMAIN memory : u \in Span(new, copied) /\ u - new + old \in DOMAIN memory
                 => here[u] = memory[u - new + old]
        BY <3>1 DEF Moved
      <3>8. \A u \in Span(new, copied) : u \in new .. new + units - 1
        BY <1>3, <1>4, <3>3 DEF Span
      <3>9. \A i \in 0 .. kept - 1 : here[new + i] = Datum(c, i)
        <4> SUFFICES ASSUME NEW i \in 0 .. kept - 1 PROVE here[new + i] = Datum(c, i)
          OBVIOUS
        <4>1. ((new + i) - new) + old = old + i
          <5>1. i \in Int /\ new \in Int /\ old \in Int
            BY <1>4, <1>6 DEF old
          <5> QED
            BY <5>1
        <4> DEFINE u == new + i
        <4>2. u \in DOMAIN memory /\ u \in Span(new, copied) /\ i \in 0 .. filled - 1
          BY <3>5
        <4>3. u - new + old = old + i
          BY <4>1
        <4> HIDE DEF u
        <4>4. here[u] = memory[old + i]
          BY <3>6, <3>7, <4>2, <4>3
        <4> QED
          BY <3>6, <4>2, <4>4 DEF u
      <3> QED
        BY <3>7, <3>8, <3>9
    <2> QED
      BY <1>3, <2>1, <2>2, <2>3
  <1> HIDE DEF kept, here
  <1>10. /\ DOMAIN memory' = DOMAIN memory
         /\ \A u \in DOMAIN memory : u \notin new .. new + units - 1 => memory'[u] = memory[u]
         /\ \A i \in 0 .. kept - 1 : new + i \in DOMAIN memory' /\ memory'[new + i] = Datum(c, i)
    <2> HIDE DEF new, units
    <2>1. /\ DOMAIN memory' = DOMAIN memory
          /\ \A u \in DOMAIN memory : u \notin (new + kept) .. (new + units - 1) =>
               memory'[u] = here[u]
      BY <1>1, <1>9 DEF Scrubbed
    <2>2. \A u : u \notin new .. new + units - 1 => u \notin (new + kept) .. (new + units - 1)
      BY <1>3, <1>4, <1>7
    <2>3. \A i \in 0 .. kept - 1 : /\ new + i \in DOMAIN memory
                                   /\ new + i \notin (new + kept) .. (new + units - 1)
      BY <1>3, <1>4, <1>5, <1>7, <1>8
    <2> QED
      BY <1>9, <2>1, <2>2, <2>3
  <1>11. /\ Keeps(allocation, a1, b)
         /\ a1.blockList[b].block = new /\ a1.blockList[b].units = units
    <2> HIDE DEF b, units
    <2> QED
      BY <1>1, <1>2, <1>3, SplitBlockKeeps
  <1> HIDE DEF a1, b
  <1>12. Marked(a1, a2, b) /\ a2.blockList[b].allocated
    BY <1>11, MarkAllocated DEF Keeps
  <1>13. /\ Keeps(allocation, a2, b)
         /\ a2.blockList[b].block = new /\ a2.blockList[b].units = units
    BY <1>11, <1>12, KeepsTransitive DEF Marked
  <1> HIDE DEF a2
  <1>14. /\ ListType(a2) /\ ListInv(a2) /\ Length(a2) = Length(allocation)
         /\ a2.table = t /\ a2.at = allocation.at
         /\ b \in Linked(a2) /\ SameBlocks(allocation, a2, b)
    BY <1>13 DEF Keeps
  <1> HIDE DEF new, units, c
  <1>15. held'[c] = now /\ \A d \in Clients \ {c} : held'[d] = held[d]
    BY <1>1, <1>2, <1>3 DEF HeldInv
  <1>16. HeldInv'
    <2>1. now \in [pointer : Int, units : Nat, filled : Nat]
      BY <1>3, <1>4, <1>7
    <2>2. held' \in [Clients -> [pointer : Int, units : Nat, filled : Nat]]
      BY <1>1, <1>2, <2>1 DEF HeldInv
    <2>3. now.pointer >= 0 /\ now.units > 0 /\ now.filled <= now.units
          /\ now.pointer + now.units <= Size
      BY <1>3, <1>4, <1>5, <1>7
    <2>4. \A d \in Clients \ {c} : held[d] # NotHeld =>
            /\ held[d].pointer >= 0 /\ held[d].units > 0 /\ held[d].filled <= held[d].units
            /\ held[d].pointer + held[d].units <= Size
      BY <1>2 DEF HeldInv
    <2> QED
      BY <1>15, <2>2, <2>3, <2>4 DEF HeldInv
  <1>17. CallInv' /\ ~Growing' /\ Idle' /\ call'.stage = "idle" /\ call'.function = "none"
    <2>1. NoCall \in Calls /\ NoCall.stage = "idle" /\ NoCall.function = "none"
      BY DEF NoCall, Calls, Nil, Stages
    <2> QED
      BY <1>1, <2>1 DEF CallInv, At, Idle, Growing
  <1>18. TableInv'
    <2>1. /\ a2.blockList[t].allocated /\ t \in Linked(a2)
          /\ a2.blockList[t].block = allocation.blockList[t].block
          /\ a2.blockList[t].units = allocation.blockList[t].units
      BY <1>2, <1>3, <1>14 DEF SameBlocks, b
    <2>2. /\ allocation.blockList[t].block = allocation.at
          /\ allocation.blockList[t].units = Length(allocation) * EntrySize
      BY <1>1, <1>2 DEF TableInv, Growing
    <2>3. Length(allocation') * EntrySize = Length(allocation) * EntrySize
      BY <1>1, <1>14
    <2> HIDE DEF t
    <2> QED
      BY <1>1, <1>14, <1>17, <2>1, <2>2, <2>3 DEF TableInv, At
  <1>19. OwnersInv'
    <2>1. InUse' = InUse \cup {b} /\ b \notin InUse
          /\ \A d \in InUse : /\ a2.blockList[d].block = allocation.blockList[d].block
                              /\ a2.blockList[d].units = allocation.blockList[d].units
      <3>1. InUse = {d \in Linked(allocation) : allocation.blockList[d].allocated} \ {t}
        BY <1>3 DEF InUse
      <3>2. InUse' = {d \in Linked(a2) : a2.blockList[d].allocated} \ {t}
        BY <1>1, <1>14, <1>17 DEF InUse
      <3> HIDE DEF t
      <3> QED
        BY <1>3, <1>12, <1>14, <3>1, <3>2 DEF SameBlocks, b
    <2>2. Owners' = Owners \cup {c} /\ c \notin Owners
      <3>1. c \notin Owners
        BY <1>3 DEF Owners, c
      <3>2. held'[c] # NotHeld
        BY <1>4, <1>15 DEF NotHeld, Nil
      <3>3. Owners' = {d \in Clients : held'[d] # NotHeld}
        BY <1>17 DEF Owners
      <3>4. Owners = {d \in Clients \ {c} : held[d] # NotHeld}
        BY <1>3 DEF Owners, c
      <3> QED
        BY <1>3, <1>15, <3>1, <3>2, <3>3, <3>4
    <2>3. ASSUME NEW d \in Owners
          PROVE  /\ d \in Clients \ {c} /\ held'[d] = held[d] /\ held[d].pointer # new
                 /\ \E e \in InUse : /\ a2.blockList[e].block = held[d].pointer
                                     /\ a2.blockList[e].units >= held[d].units
      <3>1. PICK e \in InUse : /\ allocation.blockList[e].block = held[d].pointer
                               /\ allocation.blockList[e].units >= held[d].units
        BY <1>2 DEF OwnersInv
      <3>2. e # b /\ e \in Linked(allocation)
        BY <2>1 DEF InUse
      <3>3. allocation.blockList[e].block # new
        BY <1>2, <1>3, <3>2, PointerNamesBlock DEF b, new
      <3>4. d \in Clients \ {c}
        BY <2>2 DEF Owners
      <3> QED
        BY <1>15, <2>1, <3>1, <3>3, <3>4
    <2>4. /\ a2.blockList[b].block = held'[c].pointer
          /\ a2.blockList[b].units >= held'[c].units
          /\ held'[c].pointer = new
      BY <1>3, <1>13, <1>15
    <2>5. \A d \in InUse : \E e \in Owners : a2.blockList[d].block = held[e].pointer
      BY <1>2, <2>1 DEF OwnersInv
    <2>6. \A d, e \in Owners : held[d].pointer = held[e].pointer => d = e
      BY <1>2 DEF OwnersInv
    <2>7. \A d \in Owners' : \E e \in InUse' :
            /\ a2.blockList[e].block = held'[d].pointer
            /\ a2.blockList[e].units >= held'[d].units
      BY <2>1, <2>2, <2>3, <2>4
    <2>8. \A d, e \in Owners' : held'[d].pointer = held'[e].pointer => d = e
      BY <2>2, <2>3, <2>4, <2>6
    <2>9. \A d \in InUse' : \E e \in Owners' : a2.blockList[d].block = held'[e].pointer
      BY <2>1, <2>2, <2>3, <2>4, <2>5
    <2> QED
      BY <1>1, <2>7, <2>8, <2>9 DEF OwnersInv
  <1>20. ContentsInv'
    BY <1>8, <1>10, <1>17 DEF ContentsInv
  <1>21. ContentsKept'
    <2>1. \A i \in 0 .. now.filled - 1 :
            now.pointer + i \in DOMAIN memory' /\ memory'[now.pointer + i] = Datum(c, i)
      BY <1>10
    <2>2. ASSUME NEW d \in Clients \ {c}, NEW i \in 0 .. held[d].filled - 1
          PROVE  /\ held[d].pointer + i \in DOMAIN memory'
                 /\ memory'[held[d].pointer + i] = Datum(d, i)
      <3>1. held[d] # NotHeld
        BY DEF NotHeld
      <3>2. d \in Owners
        BY <3>1 DEF Owners, c
      <3>3. PICK e : HolderIn(d, e)
        BY <1>2, <3>1, HolderHasBlock
      <3>4. b \in Linked(allocation) \ {e}
        BY <1>3, <3>2, <3>3 DEF HolderIn, InUse, b
      <3>5. \A u \in new .. new + units - 1 : u \in new .. End(allocation.blockList[b]) - 1
        BY <1>3, <1>4, <1>5
      <3>6. \A u \in new .. new + units - 1 :
              u < held[d].pointer \/ held[d].pointer + held[d].units <= u
        BY <1>2, <3>1, <3>3, <3>4, <3>5, HoldersApart DEF new, b
      <3> DEFINE S == new .. new + units - 1
      <3> HIDE DEF S
      <3> QED
        BY <1>2, <1>10, <3>6, ContentsStay DEF S
    <2> QED
      BY <1>15, <2>1, <2>2 DEF ContentsKept
  <1>22. ListType(allocation') /\ ListInv(allocation')
    BY <1>1, <1>14
  <1> QED
    BY <1>1, <1>16, <1>17, <1>18, <1>19, <1>20, <1>21, <1>22 DEF AllocatorInv

LEMMA FreeKeeps ==
    ASSUME AllocatorInv, Trusted, NEW c \in Clients, Free(c)
    PROVE  AllocatorInv'
  <1> DEFINE t == allocation.table
             b == PointerToBlock(allocation, held[c].pointer)
             a1 == Mark(allocation, b, FALSE)
             a2 == MergeAfter(a1, b)
             a3 == MergeBefore(a2, b)
             span == Span(held[c].pointer, held[c].units)
  <1>1. /\ Intact /\ Idle /\ held[c] # NotHeld /\ call' = call
        /\ held' = [held EXCEPT ![c] = NotHeld]
    BY DEF Free, Running, Trusted
  <1>2. /\ HolderIn(c, b) /\ c \in Owners /\ b \in InUse /\ IsAllocated(b)
        /\ b \in Linked(allocation) \ {t}
        /\ allocation.blockList[b].block = held[c].pointer
        /\ held[c].pointer + held[c].units <= End(allocation.blockList[b])
        /\ held[c].pointer \in Nat /\ held[c].units \in Nat
    <2> HIDE DEF b
    <2>1. b = PointerToBlock(allocation, held[c].pointer)
      BY DEF b
    <2> QED
      BY <1>1, <2>1, HolderNamed
  <1>3. allocation' = a3 /\ outcome' = "ok" /\ memory' = Scrubbed(memory, span)
    BY <1>2 DEF Free, MergeBlocks
  <1> HIDE DEF b
  <1>4. /\ ListType(allocation) /\ ListInv(allocation) /\ OwnersInv /\ TableInv /\ CallInv
        /\ HeldInv /\ call.stage = "idle" /\ call.function = "none"
    BY <1>1 DEF AllocatorInv, Idle, NoCall
  <1>5. Marked(allocation, a1, b) /\ ~a1.blockList[b].allocated
    BY <1>2, <1>4, MarkFree
  <1> HIDE DEF a1
  <1>6. ListType(a1) /\ ListInv(a1) /\ b \in Linked(a1) /\ Keeps(allocation, a1, b)
    BY <1>5 DEF Marked, Keeps
  <1>7. Keeps(a1, a2, b) /\ ~a2.blockList[b].allocated
    BY <1>5, <1>6, MergeAfterKeeps
  <1> HIDE DEF a2
  <1>8. ListType(a2) /\ ListInv(a2) /\ b \in Linked(a2) /\ Keeps(allocation, a2, b)
    BY <1>6, <1>7, KeepsTransitive DEF Keeps
  <1>9. Keeps(a2, a3, b) /\ ~a3.blockList[b].allocated
    BY <1>7, <1>8, MergeBeforeKeeps
  <1> HIDE DEF a3
  <1>10. Keeps(allocation, a3, b)
    BY <1>8, <1>9, KeepsTransitive
  <1>11. /\ ListType(a3) /\ ListInv(a3) /\ Length(a3) = Length(allocation)
         /\ a3.table = t /\ a3.at = allocation.at
         /\ b \in Linked(a3) /\ SameBlocks(allocation, a3, b)
    BY <1>10 DEF Keeps
  <1>12. held'[c] = NotHeld /\ \A d \in Clients \ {c} : held'[d] = held[d]
    BY <1>1, <1>4 DEF HeldInv
  <1>13. HeldInv'
    <2> DEFINE none == NotHeld
    <2>1. none \in [pointer : Int, units : Nat, filled : Nat] /\ none = NotHeld
      BY DEF NotHeld, Nil
    <2> HIDE DEF none
    <2>2. held' \in [Clients -> [pointer : Int, units : Nat, filled : Nat]]
      BY <1>1, <1>4, <2>1 DEF HeldInv
    <2>3. \A d \in Clients \ {c} : held[d] # NotHeld =>
            /\ held[d].pointer >= 0 /\ held[d].units > 0 /\ held[d].filled <= held[d].units
            /\ held[d].pointer + held[d].units <= Size
      BY <1>4 DEF HeldInv
    <2> QED
      BY <1>12, <2>2, <2>3 DEF HeldInv
  <1>14. CallInv' /\ Intact'
    BY <1>1, <1>3, <1>4 DEF CallInv, At, Idle, Intact
  <1>15. TableInv'
    <2>1. t \in Linked(allocation) \ {b} /\ allocation.blockList[t].allocated
          /\ allocation.blockList[t].block = allocation.at
          /\ allocation.blockList[t].units = Length(allocation) * EntrySize
      BY <1>1, <1>2, <1>4 DEF TableInv, Growing
    <2>2. /\ t \in Linked(a3) /\ a3.blockList[t].allocated
          /\ a3.blockList[t].block = allocation.blockList[t].block
          /\ a3.blockList[t].units = allocation.blockList[t].units
      BY <1>11, <2>1 DEF SameBlocks
    <2>3. Length(allocation') * EntrySize = Length(allocation) * EntrySize
      BY <1>3, <1>11
    <2> HIDE DEF t
    <2> QED
      BY <1>1, <1>3, <1>4, <1>11, <1>14, <2>1, <2>2, <2>3 DEF TableInv, Growing, At
  <1>16. OwnersInv'
    <2>1. InUse' = InUse \ {b}
          /\ \A d \in InUse \ {b} : /\ a3.blockList[d].block = allocation.blockList[d].block
                                    /\ a3.blockList[d].units = allocation.blockList[d].units
      <3>1. InUse = {d \in Linked(allocation) : allocation.blockList[d].allocated} \ {t}
        BY <1>4 DEF InUse
      <3>2. InUse' = {d \in Linked(a3) : a3.blockList[d].allocated} \ {t}
        BY <1>1, <1>3, <1>4, <1>11 DEF InUse
      <3> HIDE DEF t
      <3> QED
        BY <1>9, <1>11, <3>1, <3>2 DEF SameBlocks
    <2>2. Owners' = Owners \ {c}
      BY <1>1, <1>4, <1>12 DEF Owners
    <2>3. \A d \in Owners \ {c} : held'[d] = held[d]
      BY <1>12 DEF Owners
    <2> QED
      BY <1>2, <1>3, <1>4, <2>1, <2>2, <2>3, OwnersLess
  <1>17. /\ DOMAIN memory' = DOMAIN memory
         /\ \A u \in DOMAIN memory : u \notin span => memory'[u] = memory[u]
    BY <1>3 DEF Scrubbed
  <1>18. ContentsInv'
    BY <1>1, <1>4, <1>17 DEF AllocatorInv, ContentsInv, Growing
  <1>19. ContentsKept'
    <2>1. \A i \in 0 .. held'[c].filled - 1 : FALSE
      BY <1>12 DEF NotHeld
    <2>2. ASSUME NEW d \in Clients \ {c}, NEW i \in 0 .. held[d].filled - 1
          PROVE  /\ held[d].pointer + i \in DOMAIN memory'
                 /\ memory'[held[d].pointer + i] = Datum(d, i)
      <3>1. held[d] # NotHeld
        BY DEF NotHeld
      <3>2. PICK e : HolderIn(d, e)
        BY <1>1, <3>1, HolderHasBlock
      <3>3. b \in Linked(allocation) \ {e}
        BY <1>1, <1>2, <3>1, <3>2, HoldersApart
      <3>4. \A u \in span :
              u \in allocation.blockList[b].block .. End(allocation.blockList[b]) - 1
        <4> DEFINE x == allocation.blockList[b]
        <4>1. x.block = held[c].pointer /\ held[c].pointer + held[c].units <= End(x)
              /\ End(x) \in Nat
          BY <1>2, <1>4, LinkFacts
        <4> HIDE DEF x
        <4>2. \A u \in span : u \in x.block .. End(x) - 1
          BY <1>2, <4>1 DEF Span
        <4> QED
          BY <4>2 DEF x
      <3>5. \A u \in span : u < held[d].pointer \/ held[d].pointer + held[d].units <= u
        BY <1>1, <3>1, <3>2, <3>3, <3>4, HoldersApart
      <3> HIDE DEF span
      <3> QED
        BY <1>1, <1>17, <3>5, ContentsStay
    <2> QED
      BY <1>12, <2>1, <2>2 DEF ContentsKept
  <1> QED
    BY <1>3, <1>11, <1>13, <1>14, <1>15, <1>16, <1>18, <1>19 DEF AllocatorInv

LEMMA FillKeeps ==
    ASSUME AllocatorInv, Trusted, NEW c \in Clients, Fill(c)
    PROVE  AllocatorInv'
  <1> DEFINE p == held[c].pointer
             k == held[c].units
             now == [held[c] EXCEPT !.filled = k]
             span == Span(p, k)
  <1>1. /\ Intact /\ Idle /\ held[c].filled < k
        /\ held' = [held EXCEPT ![c] = now]
        /\ memory' = Filled(memory, c, p, k)
        /\ outcome' = "ok" /\ allocation' = allocation /\ call' = call
    BY DEF Fill, Running, Trusted
  <1>2. /\ ListType(allocation) /\ ListInv(allocation) /\ OwnersInv /\ TableInv /\ CallInv
        /\ HeldInv /\ call.stage = "idle" /\ call.function = "none"
    BY <1>1 DEF AllocatorInv, Idle, NoCall
  <1>3. /\ held[c] \in [pointer : Int, units : Nat, filled : Nat]
        /\ held[c] # NotHeld /\ p \in Nat /\ k \in Nat /\ k > 0 /\ p + k <= Size
    <2>1. held[c] \in [pointer : Int, units : Nat, filled : Nat]
      BY <1>2 DEF HeldInv
    <2>2. held[c] # NotHeld
      BY <1>1 DEF NotHeld
    <2> QED
      BY <1>2, <2>1, <2>2 DEF HeldInv
  <1>4. /\ now \in [pointer : Int, units : Nat, filled : Nat]
        /\ now.pointer = p /\ now.units = k /\ now.filled = k
    BY <1>3
  <1> HIDE DEF now
  <1>5. held'[c] = now /\ \A d \in Clients \ {c} : held'[d] = held[d]
    BY <1>1, <1>2 DEF HeldInv
  <1>6. now # NotHeld
    BY <1>3, <1>4 DEF NotHeld, Nil
  <1> HIDE DEF p, k
  <1>7. HeldInv'
    <2>1. held' \in [Clients -> [pointer : Int, units : Nat, filled : Nat]]
      BY <1>1, <1>2, <1>4 DEF HeldInv
    <2>2. \A d \in Clients \ {c} : held[d] # NotHeld =>
            /\ held[d].pointer >= 0 /\ held[d].units > 0 /\ held[d].filled <= held[d].units
            /\ held[d].pointer + held[d].units <= Size
      BY <1>2 DEF HeldInv
    <2>3. now.pointer >= 0 /\ now.units > 0 /\ now.filled <= now.units
          /\ now.pointer + now.units <= Size
      BY <1>3, <1>4
    <2> QED
      BY <1>5, <2>1, <2>2, <2>3 DEF HeldInv
  <1>8. CallInv' /\ Intact'
    BY <1>1, <1>2 DEF CallInv, At, Idle, Intact
  <1>9. TableInv'
    BY <1>1, <1>2 DEF TableInv, Growing, At, Intact
  <1>10. OwnersInv'
    <2>1. InUse' = InUse
      BY <1>1 DEF InUse
    <2>2. Owners' = Owners
      BY <1>1, <1>2, <1>3, <1>5, <1>6 DEF Owners
    <2>3. \A d \in Owners : held'[d].pointer = held[d].pointer /\ held'[d].units = held[d].units
      BY <1>4, <1>5 DEF Owners, p, k
    <2> QED
      BY <1>1, <1>2, <2>1, <2>2, <2>3 DEF OwnersInv
  <1>11. /\ DOMAIN memory = 0 .. Size - 1 /\ DOMAIN memory' = DOMAIN memory
         /\ \A u \in DOMAIN memory : u \notin span => memory'[u] = memory[u]
         /\ \A u \in DOMAIN memory : u \in span => memory'[u] = Datum(c, u - p)
    BY <1>1 DEF AllocatorInv, ContentsInv, Filled
  <1>12. ContentsInv'
    BY <1>1, <1>2, <1>11 DEF ContentsInv, Growing
  <1>13. ContentsKept'
    <2>1. ASSUME NEW i \in 0 .. k - 1
          PROVE  p + i \in DOMAIN memory' /\ memory'[p + i] = Datum(c, i)
      <3> DEFINE u == p + i
      <3>1. Size \in Nat
        BY AllocatorAssumption
      <3>2. u \in 0 .. Size - 1 /\ u \in span /\ u - p = i
        BY <1>3, <3>1 DEF Span
      <3> HIDE DEF u, span
      <3>3. u \in DOMAIN memory' /\ memory'[u] = Datum(c, i)
        BY <1>11, <3>2
      <3> QED
        BY <3>3 DEF u
    <2>2. ASSUME NEW d \in Clients \ {c}, NEW i \in 0 .. held[d].filled - 1
          PROVE  /\ held[d].pointer + i \in DOMAIN memory'
                 /\ memory'[held[d].pointer + i] = Datum(d, i)
      <3>1. held[d] # NotHeld
        BY DEF NotHeld
      <3>2. PICK e : HolderIn(d, e)
        BY <1>1, <3>1, HolderHasBlock
      <3>3. PICK b : HolderIn(c, b)
        BY <1>1, <1>3, HolderHasBlock
      <3>4. b \in Linked(allocation) \ {e}
        BY <1>1, <1>3, <3>1, <3>2, <3>3, HoldersApart DEF HolderIn
      <3>5. \A u \in span :
              u \in allocation.blockList[b].block .. End(allocation.blockList[b]) - 1
        <4> DEFINE x == allocation.blockList[b]
        <4>1. x.block <= p /\ p + k <= End(x) /\ End(x) \in Nat /\ x.block \in Nat
          BY <1>2, <3>3, <3>4, LinkFacts DEF HolderIn, p, k
        <4> HIDE DEF x
        <4>2. \A u \in span : u \in x.block .. End(x) - 1
          BY <1>3, <4>1 DEF Span
        <4> QED
          BY <4>2 DEF x
      <3>6. \A u \in span : u < held[d].pointer \/ held[d].pointer + held[d].units <= u
        BY <1>1, <3>1, <3>2, <3>4, <3>5, HoldersApart
      <3> HIDE DEF span
      <3> QED
        BY <1>1, <1>11, <3>6, ContentsStay
    <2> QED
      BY <1>4, <1>5, <2>1, <2>2 DEF ContentsKept
  <1> QED
    BY <1>1, <1>2, <1>7, <1>8, <1>9, <1>10, <1>12, <1>13 DEF AllocatorInv

-----------------------------------------------------------------------------
(* The invariant and the properties. *)

LEMMA InitHolds ==
    Init => AllocatorInv
  <1> SUFFICES ASSUME Init PROVE AllocatorInv
    OBVIOUS
  <1> DEFINE k == 2 * EntrySize
             e0 == [block |-> 0, units |-> k, previous |-> Nil, next |-> 1,
                    allocated |-> TRUE, unlinked |-> FALSE]
             e1 == [block |-> k, units |-> Size - k, previous |-> 0, next |-> Nil,
                    allocated |-> FALSE, unlinked |-> FALSE]
             list == [b \in 0 .. 1 |-> IF b = 0 THEN e0 ELSE e1]
             a == allocation
  <1>1. /\ a = [blockList |-> list, first |-> 0, table |-> 0, at |-> 0]
        /\ memory = [u \in 0 .. Size - 1 |-> IF u < k THEN Table ELSE Junk]
        /\ held = [c \in Clients |-> NotHeld]
        /\ call = NoCall /\ outcome = "ok"
    BY DEF Init
  <1>2. k \in Nat /\ k > 0 /\ Size \in Nat /\ Size - k \in Nat /\ Size - k > 0
    BY AllocatorAssumption
  <1>3. k = 2 * EntrySize
    OBVIOUS
  <1> HIDE DEF k
  <1>4. /\ e0 \in Block /\ e0.block = 0 /\ e0.units = k /\ e0.previous = Nil /\ e0.next = 1
        /\ e0.allocated = TRUE /\ e0.unlinked = FALSE
    BY <1>2 DEF Block, Nil
  <1>5. /\ e1 \in Block /\ e1.block = k /\ e1.units = Size - k /\ e1.previous = 0
        /\ e1.next = Nil /\ e1.allocated = FALSE /\ e1.unlinked = FALSE
    BY <1>2 DEF Block, Nil
  <1> HIDE DEF e0, e1
  <1>6. list \in [0 .. 1 -> Block] /\ list[0] = e0 /\ list[1] = e1
    BY <1>4, <1>5
  <1>7. Entries(a) = 0 .. 1 /\ a.blockList = list /\ a.first = 0 /\ a.table = 0 /\ a.at = 0
    BY <1>1, <1>6 DEF Entries
  <1> HIDE DEF list
  <1>8. Length(a) = 2
    <2> DEFINE n == 2
    <2>1. n \in Nat /\ n = 2 /\ 0 .. 1 = 0 .. n - 1
      OBVIOUS
    <2> HIDE DEF n
    <2> QED
      BY <1>7, <2>1, LengthIs
  <1>9. ListType(a)
    <2>1. 0 .. Length(a) - 1 = 0 .. 1
      BY <1>8
    <2> QED
      BY <1>1, <1>6, <1>8, <2>1 DEF ListType
  <1>10. Linked(a) = {0, 1}
    BY <1>4, <1>5, <1>6, <1>7 DEF Linked
  <1>11. End(e0) = k /\ End(e1) = Size
    BY <1>2, <1>4, <1>5 DEF End
  <1>12. ListInv(a)
    <2>1. a.blockList[0] = e0 /\ a.blockList[1] = e1
      BY <1>6, <1>7
    <2>2. HeadInv(a) /\ TailInv(a)
      BY <1>4, <1>5, <1>7, <1>10, <2>1 DEF HeadInv, TailInv
    <2>3. PlaceInv(a)
      BY <1>2, <1>4, <1>5, <1>10, <1>11, <2>1 DEF PlaceInv
    <2>4. NextInv(a)
      BY <1>4, <1>5, <1>10, <1>11, <2>1 DEF NextInv, Nil
    <2>5. PreviousInv(a)
      BY <1>4, <1>5, <1>7, <1>10, <2>1 DEF PreviousInv, Nil
    <2>6. DisjointInv(a)
      BY <1>2, <1>4, <1>5, <1>10, <1>11, <2>1 DEF DisjointInv
    <2> QED
      BY <2>2, <2>3, <2>4, <2>5, <2>6 DEF ListInv
  <1>13. CallInv /\ ~Growing /\ call.stage = "idle" /\ call.function = "none"
    <2>1. NoCall \in Calls /\ NoCall.stage = "idle" /\ NoCall.function = "none"
      BY DEF NoCall, Calls, Nil, Stages
    <2> QED
      BY <1>1, <2>1 DEF CallInv, At, Idle, Growing
  <1>14. TableInv
    BY <1>1, <1>3, <1>4, <1>6, <1>7, <1>8, <1>10, <1>13 DEF TableInv, At
  <1>15. OwnersInv
    <2>1. InUse = {}
      BY <1>5, <1>6, <1>7, <1>10 DEF InUse
    <2>2. Owners = {}
      BY <1>1 DEF Owners
    <2> QED
      BY <2>1, <2>2 DEF OwnersInv
  <1>16. HeldInv
    <2> DEFINE none == NotHeld
    <2>1. none \in [pointer : Int, units : Nat, filled : Nat] /\ none = NotHeld
      BY DEF NotHeld, Nil
    <2> HIDE DEF none
    <2> QED
      BY <1>1, <2>1 DEF HeldInv
  <1>17. ContentsInv /\ ContentsKept
    <2>1. \A i \in 0 .. NotHeld.filled - 1 : FALSE
      BY DEF NotHeld
    <2> QED
      BY <1>1, <1>13, <2>1 DEF ContentsInv, ContentsKept
  <1> QED
    BY <1>1, <1>9, <1>12, <1>13, <1>14, <1>15, <1>16, <1>17 DEF AllocatorInv

LEMMA StepKeeps ==
    Trusted /\ AllocatorInv /\ [Next]_vars => AllocatorInv'
  <1> SUFFICES ASSUME Trusted, AllocatorInv, [Next]_vars PROVE AllocatorInv'
    OBVIOUS
  <1>1. ASSUME NEW c \in Clients, NEW r \in Requests, BeginMalloc(c, r) PROVE AllocatorInv'
    BY <1>1, BeginMallocKeeps
  <1>2. ASSUME NEW c \in Clients, NEW r \in Requests, BeginRealloc(c, r) PROVE AllocatorInv'
    BY <1>2, BeginReallocKeeps
  <1>3. ASSUME NEW c \in Clients, Free(c) PROVE AllocatorInv'
    BY <1>3, FreeKeeps
  <1>4. ASSUME NEW c \in Clients, Fill(c) PROVE AllocatorInv'
    BY <1>4, FillKeeps
  <1>5. CASE Widen
    BY <1>5, WidenKeeps
  <1>6. CASE HasEntry
    BY <1>6, HasEntryKeeps
  <1>7. CASE BeginGrowth
    BY <1>7, BeginGrowthKeeps
  <1>8. CASE GrowInPlace
    BY <1>8, GrowInPlaceKeeps
  <1>9. CASE GrowBefore
    BY <1>9, GrowBeforeKeeps
  <1>10. CASE MoveTable
    BY <1>10, MoveTableKeeps
  <1>11. CASE CutTable
    BY <1>11, CutTableKeeps
  <1>12. CASE Find
    BY <1>12, FindKeeps
  <1>13. CASE Take
    BY <1>13, TakeKeeps
  <1>14. CASE UNCHANGED vars
    <2>1. allocation' = allocation /\ memory' = memory /\ held' = held
          /\ call' = call /\ outcome' = outcome
      BY <1>14 DEF vars
    <2>2. ListType(allocation') /\ ListInv(allocation') /\ CallInv' /\ TableInv'
      BY <2>1 DEF AllocatorInv, CallInv, TableInv, At, Idle, Intact, IsFree, Growing
    <2>3. Intact' => OwnersInv'
      BY <2>1 DEF AllocatorInv, OwnersInv, Intact, Owners, InUse
    <2>4. HeldInv' /\ ContentsInv' /\ ContentsKept'
      BY <2>1 DEF AllocatorInv, HeldInv, ContentsInv, ContentsKept, Growing
    <2>5. outcome' \in {"ok", "full", "growth", "realloc"}
      BY <2>1 DEF AllocatorInv
    <2> QED
      BY <2>2, <2>3, <2>4, <2>5 DEF AllocatorInv
  <1> QED
    BY <1>1, <1>2, <1>3, <1>4, <1>5, <1>6, <1>7, <1>8, <1>9, <1>10, <1>11, <1>12, <1>13, <1>14
       DEF Next

LEMMA InvariantHolds ==
    ASSUME Trusted
    PROVE  Spec => []AllocatorInv
  <1>1. AllocatorInv /\ [Next]_vars => AllocatorInv'
    BY StepKeeps
  <1> QED
    BY <1>1, InitHolds, PTL DEF Spec

\* What is said of each conjunct of TypeOK, BlocksTile, TableIsABlock and
\* AllocatedIsHeld follows from the invariant of the same state.
LEMMA TypesFollow ==
    AllocatorInv => TypeOK
  <1> SUFFICES ASSUME AllocatorInv PROVE TypeOK
    OBVIOUS
  <1>1. ListType(allocation) /\ ListInv(allocation) /\ TableInv /\ HeldInv /\ ContentsInv
    BY DEF AllocatorInv
  <1>2. Size \in Nat
    BY AllocatorAssumption
  <1>3. Entries(allocation) = 0 .. Length(allocation) - 1
    BY <1>1, EntryFacts
  <1>4. allocation.first \in Entries(allocation) /\ allocation.table \in Entries(allocation)
    BY <1>1, EntryFacts DEF ListInv, HeadInv, TableInv
  <1>5. ASSUME NEW c \in Clients, held[c] # NotHeld PROVE held[c].pointer \in 0 .. Size - 1
    <2>1. /\ held[c].pointer \in Int /\ held[c].units \in Nat /\ held[c].pointer >= 0
          /\ held[c].units > 0 /\ held[c].pointer + held[c].units <= Size
      BY <1>1, <1>5 DEF HeldInv
    <2> QED
      BY <1>2, <2>1
  <1>6. ASSUME NEW b \in Linked(allocation)
        PROVE  allocation.blockList[b].block \in Nat /\ allocation.blockList[b].units \in 1 .. Size
    <2> DEFINE e == allocation.blockList[b]
    <2>1. /\ e.block \in Nat /\ e.units \in Nat \ {0} /\ End(e) = e.block + e.units
          /\ End(e) <= Size
      BY <1>1, LinkFacts
    <2> HIDE DEF e
    <2>2. e.block \in Nat /\ e.units \in 1 .. Size
      BY <1>2, <2>1
    <2> QED
      BY <2>2 DEF e
  <1> QED
    BY <1>1, <1>3, <1>4, <1>5, <1>6 DEF TypeOK, ContentsInv

LEMMA TilingFollows ==
    AllocatorInv => BlocksTile
  <1> SUFFICES ASSUME AllocatorInv PROVE BlocksTile
    OBVIOUS
  <1> DEFINE list == allocation.blockList
             last == {b \in Linked(allocation) : list[b].next = Nil}
  <1>1. ListType(allocation) /\ ListInv(allocation)
    BY DEF AllocatorInv
  <1>2. \A b \in last : b \in Linked(allocation) /\ End(list[b]) = Size
                        /\ list[b].block + list[b].units = Size
    BY <1>1, LinkFacts
  <1>3. Cardinality(last) = 1
    <2>1. PICK b \in last : TRUE
      BY <1>1 DEF ListInv, TailInv
    <2>2. ASSUME NEW d \in last, d # b PROVE FALSE
      <3> DEFINE x == list[b]
                 y == list[d]
      <3>1. /\ End(x) = Size /\ End(y) = Size
            /\ End(x) <= y.block \/ End(y) <= x.block
        BY <1>1, <1>2, <2>2, LinkFacts
      <3>2. /\ x.block \in Nat /\ x.units \in Nat \ {0} /\ End(x) = x.block + x.units
            /\ y.block \in Nat /\ y.units \in Nat \ {0} /\ End(y) = y.block + y.units
        BY <1>1, <1>2, LinkFacts
      <3> HIDE DEF x, y
      <3> QED
        BY <3>1, <3>2
    <2>3. last = {b}
      BY <2>1, <2>2
    <2> HIDE DEF last
    <2> QED
      BY <2>3, FS_Singleton
  <1>4. list[allocation.first].block = 0 /\ list[allocation.first].previous = Nil
    BY <1>1 DEF ListInv, HeadInv, PreviousInv
  <1>5. ASSUME NEW b \in Linked(allocation)
        PROVE  /\ list[b].next # Nil =>
                    /\ list[b].next \in Linked(allocation)
                    /\ list[list[b].next].previous = b
                    /\ list[list[b].next].block = list[b].block + list[b].units
               /\ list[b].previous = Nil <=> b = allocation.first
    BY <1>1 DEF ListInv, NextInv, PreviousInv, End
  <1>6. ASSUME NEW b \in Linked(allocation), NEW d \in Linked(allocation),
               list[b].block = list[d].block
        PROVE  b = d
    <2>1. PointerToBlock(allocation, list[b].block) = b
      BY <1>1, PointerNamesBlock
    <2>2. PointerToBlock(allocation, list[d].block) = d
      BY <1>1, PointerNamesBlock
    <2> QED
      BY <1>6, <2>1, <2>2
  <1> QED
    BY <1>2, <1>3, <1>4, <1>5, <1>6 DEF BlocksTile

LEMMA TableFollows ==
    AllocatorInv => TableIsABlock
  <1> SUFFICES ASSUME AllocatorInv PROVE TableIsABlock
    OBVIOUS
  <1> DEFINE t == allocation.blockList[allocation.table]
             size == Length(allocation) * EntrySize
  <1>1. ListType(allocation) /\ ListInv(allocation) /\ TableInv /\ CallInv
    BY DEF AllocatorInv
  <1>2. allocation.table \in Linked(allocation)
    BY <1>1 DEF TableInv
  <1>3. ASSUME Intact, Idle
        PROVE  t.allocated /\ ~t.unlinked /\ t.block = allocation.at /\ t.units >= size
    <2>1. call.stage = "idle"
      BY <1>1, <1>3 DEF CallInv, At
    <2>2. t.allocated /\ t.block = allocation.at /\ t.units = size
      BY <1>1, <1>3, <2>1 DEF TableInv, Growing
    <2>3. ~t.unlinked
      BY <1>2 DEF Linked
    <2>4. t.units \in Nat
      BY <1>1, <1>2, LinkFacts
    <2> HIDE DEF t, size
    <2> QED
      BY <2>2, <2>3, <2>4
  <1>4. At("take") => CanSplit(allocation, call.entries, call.units)
    BY <1>1 DEF TableInv, At, CanSplit
  <1> QED
    BY <1>3, <1>4 DEF TableIsABlock

LEMMA HoldersFollow ==
    AllocatorInv => AllocatedIsHeld
  <1> SUFFICES ASSUME AllocatorInv, Intact, Idle PROVE AllocatedIsHeld
    BY DEF AllocatedIsHeld
  <1> DEFINE list == allocation.blockList
             allocated == {b \in Linked(allocation) : list[b].allocated} \ {allocation.table}
             holders == {c \in Clients : held[c] # NotHeld}
             BlockOf(c) == {b \in allocated : /\ list[b].block = held[c].pointer
                                              /\ list[b].units >= held[c].units}
  <1>1. /\ ListType(allocation) /\ ListInv(allocation) /\ OwnersInv
        /\ allocated = InUse /\ holders = Owners
    BY DEF AllocatorInv, InUse, Owners, Idle, NoCall
  <1>2. /\ \A c \in holders : \E b \in allocated : b \in BlockOf(c)
        /\ \A c, d \in holders : held[c].pointer = held[d].pointer => c = d
        /\ \A b \in allocated : \E c \in holders : list[b].block = held[c].pointer
    BY <1>1 DEF OwnersInv
  <1>3. ASSUME NEW b \in allocated, NEW d \in allocated, list[b].block = list[d].block
        PROVE  b = d
    <2>1. PointerToBlock(allocation, list[b].block) = b
      BY <1>1, PointerNamesBlock
    <2>2. PointerToBlock(allocation, list[d].block) = d
      BY <1>1, PointerNamesBlock
    <2> QED
      BY <1>3, <2>1, <2>2
  <1>4. ASSUME NEW c \in holders PROVE Cardinality(BlockOf(c)) = 1
    <2>1. PICK b \in allocated : b \in BlockOf(c)
      BY <1>2
    <2>2. BlockOf(c) = {b}
      BY <1>3, <2>1
    <2> HIDE DEF BlockOf
    <2> QED
      BY <2>2, FS_Singleton
  <1>5. IsFiniteSet(allocated)
    <2> DEFINE n == Length(allocation)
    <2>1. n \in Nat /\ allocated \subseteq 0 .. n - 1
      BY <1>1, EntryFacts
    <2> HIDE DEF n, allocated
    <2>2. IsFiniteSet(0 .. n - 1)
      BY <2>1, FS_Interval
    <2> QED
      BY <2>1, <2>2, FS_Subset
  <1>6. ExistsBijection(allocated, holders)
    <2> DEFINE Owner(b) == CHOOSE c \in holders : list[b].block = held[c].pointer
               f == [b \in allocated |-> Owner(b)]
    <2>1. \A b \in allocated : Owner(b) \in holders /\ list[b].block = held[Owner(b)].pointer
      BY <1>2
    <2> HIDE DEF Owner
    <2>2. f \in [allocated -> holders] /\ \A b \in allocated : f[b] = Owner(b)
      BY <2>1
    <2>3. \A b, d \in allocated : f[b] = f[d] => b = d
      <3> HIDE DEF f, allocated, holders
      <3> QED
        BY <1>3, <2>1, <2>2
    <2>4. \A c \in holders : \E b \in allocated : f[b] = c
      <3> SUFFICES ASSUME NEW c \in holders PROVE \E b \in allocated : f[b] = c
        OBVIOUS
      <3>1. PICK b \in allocated : list[b].block = held[c].pointer
        BY <1>2
      <3>2. Owner(b) = c
        BY <1>2, <2>1, <3>1
      <3> QED
        BY <2>2, <3>2
    <2> HIDE DEF f, allocated, holders
    <2>5. f \in Bijection(allocated, holders)
      BY <2>2, <2>3, <2>4 DEF Bijection, Injection, Surjection, IsInjective
    <2> QED
      BY <2>5 DEF ExistsBijection
  <1>7. Cardinality(allocated) = Cardinality(holders)
    <2> HIDE DEF allocated, holders
    <2> QED
      BY <1>5, <1>6, FS_Bijection
  <1> QED
    BY <1>4, <1>7 DEF AllocatedIsHeld

\* The table of entries stays a table, clients' pointers stay in the memory and
\* linked blocks keep addresses and sizes, whatever is asked for in any order.
THEOREM TypeCorrect ==
    ASSUME Survived = {}, Fit # "next"
    PROVE  Spec => []TypeOK
  <1>1. Spec => []AllocatorInv
    BY InvariantHolds DEF Trusted
  <1> QED
    BY <1>1, TypesFollow, PTL

\* However blocks are merged, split and taken as the table moves among them, the
\* linked ones tile the memory in the order of the list.
THEOREM BlocksTileMemory ==
    ASSUME Survived = {}, Fit # "next"
    PROVE  Spec => []BlocksTile
  <1>1. Spec => []AllocatorInv
    BY InvariantHolds DEF Trusted
  <1> QED
    BY <1>1, TilingFollows, PTL

\* Between operations the table lies in an allocated block that holds it, and
\* dl_memory_splitBlock never comes to its "shouldntHappen".
THEOREM TableStaysABlock ==
    ASSUME Survived = {}, Fit # "next"
    PROVE  Spec => []TableIsABlock
  <1>1. Spec => []AllocatorInv
    BY InvariantHolds DEF Trusted
  <1> QED
    BY <1>1, TableFollows, PTL

\* Between operations the allocated blocks are the table's and one for each
\* client that holds one, large enough for it: no leak and no block shared.
THEOREM AllocatedStaysHeld ==
    ASSUME Survived = {}, Fit # "next"
    PROVE  Spec => []AllocatedIsHeld
  <1>1. Spec => []AllocatorInv
    BY InvariantHolds DEF Trusted
  <1> QED
    BY <1>1, HoldersFollow, PTL

\* What a client wrote is at its pointer until it frees it, through the growth of
\* the table, the other clients' operations and its own reallocs.
THEOREM ContentsStayKept ==
    ASSUME Survived = {}, Fit # "next"
    PROVE  Spec => []ContentsKept
  <1>1. Spec => []AllocatorInv
    BY InvariantHolds DEF Trusted
  <1>2. AllocatorInv => ContentsKept
    BY DEF AllocatorInv
  <1> QED
    BY <1>1, <1>2, PTL

=============================================================================
