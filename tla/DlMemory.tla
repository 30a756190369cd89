------------------------------ MODULE DlMemory ------------------------------
(***************************************************************************)
(* DuckLib's allocator (src/DuckLib/memory.c, built with                   *)
(* USE_DUCKLIB_MALLOC) and the programs that use it.                       *)
(*                                                                         *)
(* The memory is Size units of 8 bytes (DL_ALIGNMENT).  Its blocks are     *)
(* described by a table of entries, a doubly linked list by indices, that  *)
(* lies in one of the blocks it describes and has to grow, and therefore   *)
(* move, in the middle of an allocation.                                   *)
(***************************************************************************)
EXTENDS Integers, FiniteSets, FiniteSetsExt, Functions, TLC

CONSTANTS
  Size,          \* units of memory
  EntrySize,     \* units of one dl_memoryBlock_t
  Fit,           \* the strategy given to dl_memory_init
  Clients,       \* owners of at most one block each
  Requests,      \* sizes that clients ask for, in bytes \div 8
  Survived       \* failures that programs go on after

ASSUME AllocatorAssumption ==
  /\ EntrySize \in Nat \ {0}
  /\ Size \in Nat /\ Size > 2 * EntrySize
  /\ Fit \in {"first", "next", "best", "worst"}
  /\ Requests \subseteq Nat
  /\ Survived \subseteq {"growth", "realloc"}

Nil == -1
Junk == "junk"
Table == "table"

VARIABLES
  allocation,  \* dl_memoryAllocation_t: blockList, first, table, at
  memory,      \* what each unit holds: a client's unit, the table, or junk
  held,        \* each client's pointer, its size and how much of it is filled
  call,        \* the operation that is running and its C locals
  outcome      \* how the last operation ended

vars == <<allocation, memory, held, call, outcome>>

Entries(a) == DOMAIN a.blockList
Linked(a) == {b \in Entries(a) : ~a.blockList[b].unlinked}
Unlinked(a) == Entries(a) \ Linked(a)
Length(a) == Cardinality(Entries(a))

NotHeld == [pointer |-> Nil, units |-> 0, filled |-> 0]

NoCall == [function |-> "none", client |-> Nil, units |-> 0, block |-> Nil, fits |-> FALSE,
           entries |-> 0, before |-> {}, stage |-> "idle"]

Init ==
  /\ allocation =
       [ blockList |-> [b \in 0 .. 1 |->
           IF b = 0
             THEN [block |-> 0, units |-> 2 * EntrySize, previous |-> Nil, next |-> 1,
                   allocated |-> TRUE, unlinked |-> FALSE]
             ELSE [block |-> 2 * EntrySize, units |-> Size - 2 * EntrySize,
                   previous |-> 0, next |-> Nil, allocated |-> FALSE, unlinked |-> FALSE]],
         first |-> 0, table |-> 0, at |-> 0 ]
  /\ memory = [u \in 0 .. Size - 1 |-> IF u < 2 * EntrySize THEN Table ELSE Junk]
  /\ held = [c \in Clients |-> NotHeld]
  /\ call = NoCall /\ outcome = "ok"

-----------------------------------------------------------------------------
(* The helpers, as functions of the allocation. *)

\* A request is rounded up by 8 - size % 8 bytes, so to the next unit above it.
Units(request) == request + 1

Mark(a, b, allocated) == [a EXCEPT !.blockList[b].allocated = allocated]

\* The blocks in the order in which dl_memory_findBlock looks at them.
Visited(a) ==
  LET visit[n \in 0 .. Length(a)] ==
        IF n = 0
          THEN IF Fit = "next" THEN a.blockList[0].next ELSE a.first
          ELSE IF visit[n - 1] = Nil THEN Nil ELSE a.blockList[visit[n - 1]].next
  IN visit

\* Mutant: the size of the block is not looked at.
FindAnyBlock(a, units) ==
  LET free == {b \in Linked(a) : ~a.blockList[b].allocated}
  IN IF free = {} THEN Nil ELSE Max(free)

\* The loop ends at the first block that fits: the fit is never compared.
FindBlock(a, units) ==
  LET Fits(b) == b # Nil /\ ~a.blockList[b].allocated /\ a.blockList[b].units >= units
      First(visit) == {visit[n] : n \in {m \in DOMAIN visit :
                         Fits(visit[m]) /\ \A k \in 0 .. m - 1 : ~Fits(visit[k])}}
      found == First(Visited(a))
  IN IF found = {} THEN Nil ELSE CHOOSE b \in found : TRUE

FreeNext(a, b) ==
  LET n == a.blockList[b].next IN n # Nil /\ ~a.blockList[n].allocated
FreePrevious(a, b) ==
  LET p == a.blockList[b].previous IN p # Nil /\ ~a.blockList[p].allocated

\* Mutant: the block after the merged one keeps its link to what was merged.
MergeAfterKeepsBackLink(a, b) ==
  LET n == a.blockList[b].next
  IN IF ~FreeNext(a, b) THEN a
     ELSE [a EXCEPT !.blockList[b].units = @ + a.blockList[n].units,
                    !.blockList[b].next = a.blockList[n].next,
                    !.blockList[n].unlinked = TRUE]

MergeAfter(a, b) ==
  LET n == a.blockList[b].next
      after == a.blockList[n].next
      absorbed == [a EXCEPT !.blockList[b].units = @ + a.blockList[n].units,
                            !.blockList[b].next = after,
                            !.blockList[n].unlinked = TRUE]
  IN IF ~FreeNext(a, b) THEN a
     ELSE IF after = Nil THEN absorbed
     ELSE [absorbed EXCEPT !.blockList[after].previous = b]

MergeBefore(a, b) ==
  LET p == a.blockList[b].previous
      before == a.blockList[p].previous
      grown == [a.blockList[b] EXCEPT !.units = @ + a.blockList[p].units,
                                      !.block = @ - a.blockList[p].units, !.previous = before]
      absorbed == [a EXCEPT !.blockList[b] = grown, !.blockList[p].unlinked = TRUE]
  IN IF ~FreePrevious(a, b) THEN a
     ELSE IF before = Nil THEN [absorbed EXCEPT !.first = b]
     ELSE [absorbed EXCEPT !.blockList[before].next = b]

MergeBlocks(a, b) == MergeBefore(MergeAfter(a, b), b)

\* The rest of block b past its first `units` becomes the free block of entry e.
\* Mutant: the rest is not marked free.
SplitIntoAllocated(a, b, units, e) ==
  LET n == a.blockList[b].next
      rest == [block |-> a.blockList[b].block + units,
               units |-> a.blockList[b].units - units,
               previous |-> b, next |-> n, allocated |-> TRUE, unlinked |-> FALSE]
      divided == [a EXCEPT !.blockList[e] = rest,
                           !.blockList[b].units = units,
                           !.blockList[b].next = e]
  IN IF n = Nil THEN divided ELSE [divided EXCEPT !.blockList[n].previous = e]

SplitInto(a, b, units, e) ==
  LET n == a.blockList[b].next
      rest == [block |-> a.blockList[b].block + units,
               units |-> a.blockList[b].units - units,
               previous |-> b, next |-> n, allocated |-> FALSE, unlinked |-> FALSE]
      divided == [a EXCEPT !.blockList[e] = rest,
                           !.blockList[b].units = units,
                           !.blockList[b].next = e]
  IN IF n = Nil THEN divided ELSE [divided EXCEPT !.blockList[n].previous = e]

CanSplit(a, b, units) == a.blockList[b].units = units \/ Unlinked(a) # {}
SplitBlock(a, b, units) ==
  IF a.blockList[b].units = units THEN a
  ELSE SplitInto(a, b, units, Min(Unlinked(a)))

\* The table with `count` more entries, all unlinked.
NewEntry == [block |-> Nil, units |-> 0, previous |-> Nil, next |-> Nil,
             allocated |-> FALSE, unlinked |-> TRUE]
AddEntries(a, count) ==
  [a EXCEPT !.blockList =
     [b \in 0 .. Length(a) + count - 1 |-> IF b \in Entries(a) THEN @[b] ELSE NewEntry]]

\* An entry for the caller and one for what a moved table leaves of its new
\* block, less those that merging the old block gave back.
EntriesToMove(mergedAfter, mergedBefore) ==
  2 - (IF mergedAfter THEN 1 ELSE 0) - (IF mergedBefore THEN 1 ELSE 0)

-----------------------------------------------------------------------------
(* What the memory holds: the table is written where the table is. *)

Span(first, units) == first .. first + units - 1
TableSpan(a) == Span(a.at, Length(a) * EntrySize)

\* The table leaves the units of its old place and is written at the new one.
WriteTable(m, old, new) ==
  [u \in DOMAIN m |-> IF u \in new THEN Table
                      ELSE IF u \in old /\ m[u] = Table THEN Junk ELSE m[u]]

\* Client c's unit i.
Datum(c, i) == <<c, i>>
Filled(m, c, pointer, units) ==
  [u \in DOMAIN m |-> IF u \in Span(pointer, units) THEN Datum(c, u - pointer) ELSE m[u]]
Scrubbed(m, span) == [u \in DOMAIN m |-> IF u \in span THEN Junk ELSE m[u]]

\* Mutant: a copy upwards through its own source.
MovedOverItself(m, to, from, units) ==
  [u \in DOMAIN m |->
     IF u \notin Span(to, units) THEN m[u]
     ELSE IF to > from THEN m[from]
     ELSE IF u - to + from \in DOMAIN m THEN m[u - to + from] ELSE Junk]

\* dl_memcopy (a memmove); units past the end of the memory are unknown.
Moved(m, to, from, units) ==
  [u \in DOMAIN m |->
     IF u \notin Span(to, units) THEN m[u]
     ELSE IF u - to + from \in DOMAIN m THEN m[u - to + from] ELSE Junk]

-----------------------------------------------------------------------------
(* The operations.  When the table cannot grow, or a realloc finds no block,   *)
(* blocks that are in use have been marked free: a program goes on after that  *)
(* only if Survived says so.                                                   *)

Intact == outcome \notin {"growth", "realloc"}
Running == Intact \/ outcome \in Survived

PointerToBlock(a, pointer) ==
  LET at == {b \in Linked(a) : a.blockList[b].block = pointer}
  IN IF at = {} THEN Nil ELSE Max(at)

IsAllocated(b) == b # Nil /\ allocation.blockList[b].allocated

Idle == call = NoCall
At(stage) == call.stage = stage
Step(stage) == call' = [call EXCEPT !.stage = stage]

\* The operation ends without a block.
Fail(how) == call' = NoCall /\ outcome' = how

\* dl_malloc up to dl_memory_reserveTableEntries.
BeginMalloc(c, request) ==
  /\ Running /\ Idle /\ held[c] = NotHeld /\ request # 0
  /\ call' = [NoCall EXCEPT !.function = "malloc", !.client = c, !.units = Units(request),
                            !.stage = "reserve"]
  /\ UNCHANGED <<allocation, memory, held, outcome>>

\* dl_realloc: the block is free for a moment and takes in the free block after it.
BeginRealloc(c, request) ==
  /\ Running /\ Idle /\ held[c] # NotHeld /\ request # 0
  /\ \E b \in {PointerToBlock(allocation, held[c].pointer)} :
       IF IsAllocated(b)
         THEN /\ allocation' = MergeAfter(Mark(allocation, b, FALSE), b)
              /\ call' = [NoCall EXCEPT !.function = "realloc", !.client = c,
                                        !.units = Units(request), !.block = b, !.stage = "widen"]
              /\ UNCHANGED outcome
         ELSE outcome' = "dangling" /\ UNCHANGED <<allocation, call>>
  /\ UNCHANGED <<memory, held>>

\* If that is not enough it takes in the one before as well; it is allocated
\* while the table may grow.
Widen ==
  LET b == call.block
      fits == allocation.blockList[b].units >= call.units
  IN /\ At("widen")
     /\ allocation' = Mark(IF fits THEN allocation ELSE MergeBefore(allocation, b), b, TRUE)
     /\ call' = [call EXCEPT !.fits = fits, !.stage = "reserve"]
     /\ UNCHANGED <<memory, held, outcome>>

\* dl_memory_reserveTableEntries(1).  An unlinked entry is enough; otherwise the
\* table's own block is marked free and takes in the free block after it.
HasEntry ==
  /\ At("reserve") /\ Unlinked(allocation) # {}
  /\ Step("find")
  /\ UNCHANGED <<allocation, memory, held, outcome>>

BeginGrowth ==
  LET t == allocation.table
  IN /\ At("reserve") /\ Unlinked(allocation) = {}
     /\ allocation' = MergeAfter(Mark(allocation, t, FALSE), t)
     /\ call' = [call EXCEPT !.entries = IF FreeNext(allocation, t) THEN 1 ELSE 0,
                             !.before = TableSpan(allocation), !.stage = "grow"]
     /\ UNCHANGED <<memory, held, outcome>>

FitsInPlace == allocation.blockList[allocation.table].units >= (Length(allocation) + 1) * EntrySize

GrowInPlace ==
  /\ At("grow") /\ FitsInPlace
  /\ allocation' = AddEntries(allocation, 1)
  /\ Step("cut")
  /\ UNCHANGED <<memory, held, outcome>>

\* The table takes in the free block before it too, and is sought a new place.
GrowBefore ==
  LET t == allocation.table
  IN /\ At("grow") /\ ~FitsInPlace
     /\ allocation' = MergeBefore(allocation, t)
     /\ call' = [call EXCEPT !.entries = EntriesToMove(@ = 1, FreePrevious(allocation, t)),
                             !.stage = "move"]
     /\ UNCHANGED <<memory, held, outcome>>

\* Mutant: the table is moved, the index of its block is not.
MoveTableKeepsIndex ==
  /\ At("move")
  /\ \E b \in {FindBlock(allocation, (Length(allocation) + call.entries) * EntrySize)} :
       IF b = Nil THEN Fail("growth") /\ UNCHANGED allocation
       ELSE /\ Step("cut") /\ UNCHANGED outcome
            /\ allocation' = [AddEntries(allocation, call.entries) EXCEPT
                                !.at = allocation.blockList[b].block]
  /\ UNCHANGED <<memory, held>>

MoveTable ==
  /\ At("move")
  /\ \E b \in {FindBlock(allocation, (Length(allocation) + call.entries) * EntrySize)} :
       IF b = Nil THEN Fail("growth") /\ UNCHANGED allocation
       ELSE /\ Step("cut") /\ UNCHANGED outcome
            /\ allocation' = [AddEntries(allocation, call.entries) EXCEPT
                                !.at = allocation.blockList[b].block, !.table = b]
  /\ UNCHANGED <<memory, held>>

\* The table keeps what it needs of its block; the rest is given to the entry
\* with the highest index that is unlinked.
CutTable ==
  LET t == allocation.table
      units == Length(allocation) * EntrySize
  IN /\ At("cut")
     /\ allocation' =
          Mark(IF allocation.blockList[t].units > units
                 THEN SplitInto(allocation, t, units, Max(Unlinked(allocation)))
                 ELSE allocation, t, TRUE)
     /\ memory' = WriteTable(memory, call.before, TableSpan(allocation))
     /\ call' = [call EXCEPT !.before = {}, !.stage = "find"]
     /\ UNCHANGED <<held, outcome>>

\* A block for the request; realloc frees its own first, so that the search may
\* find it again.
Find ==
  /\ At("find")
  /\ \E a \in {IF call.function = "realloc" THEN Mark(allocation, call.block, FALSE)
               ELSE allocation} :
     \E b \in {IF call.fits THEN call.block ELSE FindBlock(a, call.units)} :
       /\ allocation' = a
       /\ IF b = Nil
            THEN Fail(IF call.function = "malloc" THEN "full" ELSE "realloc")
            ELSE /\ call' = [call EXCEPT !.entries = b, !.stage = "take"]
                 /\ UNCHANGED outcome
  /\ UNCHANGED <<memory, held>>

\* What remains of the block is split off, the contents are copied (as many
\* units as the old block has after its merges) and the pointer is handed out.
\* dl_memory_splitBlock's "shouldntHappen" is not a step: see TableIsABlock.
Take ==
  LET b == call.entries
      c == call.client
      new == allocation.blockList[b].block
      old == held[c].pointer
      kept == IF call.function = "malloc" THEN call.units
              ELSE Min({call.units, held[c].filled})
      here == IF call.function = "malloc" THEN Filled(memory, c, new, call.units)
              ELSE IF call.fits THEN memory
              ELSE Moved(memory, new, old,
                         Min({call.units, allocation.blockList[call.block].units}))
  IN /\ At("take") /\ CanSplit(allocation, b, call.units)
     /\ allocation' = Mark(SplitBlock(allocation, b, call.units), b, TRUE)
     /\ held' = [held EXCEPT ![c] = [pointer |-> new, units |-> call.units, filled |-> kept]]
     /\ memory' = Scrubbed(here, (new + kept) .. (new + call.units - 1))
     /\ call' = NoCall /\ outcome' = "ok"

\* dl_free.  The pointer is null afterwards, freed or not.
Free(c) ==
  /\ Running /\ Idle /\ held[c] # NotHeld
  /\ \E b \in {PointerToBlock(allocation, held[c].pointer)} :
       IF IsAllocated(b)
         THEN /\ outcome' = "ok"
              /\ allocation' = MergeBlocks(Mark(allocation, b, FALSE), b)
              /\ memory' = Scrubbed(memory, Span(held[c].pointer, held[c].units))
         ELSE outcome' = "dangling" /\ UNCHANGED <<allocation, memory>>
  /\ held' = [held EXCEPT ![c] = NotHeld]
  /\ UNCHANGED call

\* A client fills what a realloc added.
Fill(c) ==
  /\ Running /\ Idle /\ held[c].filled < held[c].units
  /\ held' = [held EXCEPT ![c].filled = held[c].units]
  /\ memory' = Filled(memory, c, held[c].pointer, held[c].units)
  /\ outcome' = "ok" /\ UNCHANGED <<allocation, call>>

Next ==
  \/ \E c \in Clients :
       \/ \E r \in Requests : BeginMalloc(c, r) \/ BeginRealloc(c, r)
       \/ Free(c) \/ Fill(c)
  \/ Widen
  \/ HasEntry \/ BeginGrowth \/ GrowInPlace \/ GrowBefore \/ MoveTable \/ CutTable
  \/ Find \/ Take

Spec == Init /\ [][Next]_vars

-----------------------------------------------------------------------------
(* Properties. *)

\* The table is a table of entries and the clients hold what they may hold.
TypeOK ==
  /\ Entries(allocation) = 0 .. Length(allocation) - 1
  /\ allocation.first \in Entries(allocation) /\ allocation.table \in Entries(allocation)
  /\ \A c \in Clients : held[c] # NotHeld => held[c].pointer \in 0 .. Size - 1
  /\ \A b \in Linked(allocation) :
       allocation.blockList[b].block \in Nat /\ allocation.blockList[b].units \in 1 .. Size
  /\ DOMAIN memory = 0 .. Size - 1

\* The linked blocks are the memory: the list goes through each of them once, in
\* the order of their addresses, and they leave no gap and do not overlap
\* (merges and splits keep the list that dl_memory_findBlock follows).
BlocksTile ==
  LET list == allocation.blockList
      last == {b \in Linked(allocation) : list[b].next = Nil}
  IN /\ list[allocation.first].block = 0 /\ list[allocation.first].previous = Nil
     /\ Cardinality(last) = 1
     /\ \A b \in last : list[b].block + list[b].units = Size
     /\ \A b \in Linked(allocation) :
          /\ list[b].next # Nil =>
               /\ list[b].next \in Linked(allocation)
               /\ list[list[b].next].previous = b
               /\ list[list[b].next].block = list[b].block + list[b].units
          /\ list[b].previous = Nil <=> b = allocation.first
     /\ \A b, d \in Linked(allocation) : list[b].block = list[d].block => b = d

\* The table lies in a block of its own that is allocated and holds it; and when
\* a block is split it has an entry for the rest, whatever was merged and split
\* since it was reserved (the code calls a split without one "shouldntHappen").
TableIsABlock ==
  LET t == allocation.blockList[allocation.table]
  IN /\ Intact /\ Idle =>
          /\ t.allocated /\ ~t.unlinked
          /\ t.block = allocation.at
          /\ t.units >= Length(allocation) * EntrySize
     /\ At("take") => CanSplit(allocation, call.entries, call.units)

\* The allocated blocks are the table and one for each client that holds one:
\* nothing is leaked and no client holds memory that can be given away.
AllocatedIsHeld ==
  LET list == allocation.blockList
      allocated == {b \in Linked(allocation) : list[b].allocated} \ {allocation.table}
      holders == {c \in Clients : held[c] # NotHeld}
      BlockOf(c) == {b \in allocated : /\ list[b].block = held[c].pointer
                                       /\ list[b].units >= held[c].units}
  IN Intact /\ Idle =>
     /\ \A c \in holders : Cardinality(BlockOf(c)) = 1
     /\ Cardinality(allocated) = Cardinality(holders)

\* What a client wrote is there until it frees it, wherever a realloc or the
\* growth of the table moved it.
ContentsKept ==
  \A c \in Clients : \A i \in 0 .. held[c].filled - 1 :
    /\ held[c].pointer + i \in DOMAIN memory
    /\ memory[held[c].pointer + i] = Datum(c, i)

-----------------------------------------------------------------------------
(* Why the properties hold, as long as no failure is survived and the search   *)
(* does not start at an entry that may be unlinked ("next").                   *)

Block == [block : Int, units : Nat, previous : Int, next : Int,
          allocated : BOOLEAN, unlinked : BOOLEAN]

ListType(a) ==
  /\ Length(a) \in Nat
  /\ a \in [blockList : [0 .. Length(a) - 1 -> Block], first : Nat, table : Nat, at : Int]

End(e) == e.block + e.units

\* The list starts at address 0 and ends at the end of the memory, its links agree with
\* each other and with the addresses, and its blocks are pairwise disjoint: a split would
\* otherwise not keep their addresses distinct.
HeadInv(a) == a.first \in Linked(a) /\ a.blockList[a.first].block = 0
TailInv(a) == \E b \in Linked(a) : a.blockList[b].next = Nil
PlaceInv(a) ==
  \A b \in Linked(a) : /\ a.blockList[b].block >= 0 /\ a.blockList[b].units > 0
                       /\ End(a.blockList[b]) <= Size
NextInv(a) ==
  \A b \in Linked(a) :
    LET n == a.blockList[b].next
    IN /\ n = Nil => End(a.blockList[b]) = Size
       /\ n # Nil => /\ n \in Linked(a) /\ a.blockList[n].previous = b
                     /\ a.blockList[n].block = End(a.blockList[b])
PreviousInv(a) ==
  \A b \in Linked(a) :
    LET p == a.blockList[b].previous
    IN /\ p = Nil <=> b = a.first
       /\ p # Nil => p \in Linked(a) /\ a.blockList[p].next = b
DisjointInv(a) ==
  \A b, d \in Linked(a) : b # d => \/ End(a.blockList[b]) <= a.blockList[d].block
                                  \/ End(a.blockList[d]) <= a.blockList[b].block
ListInv(a) ==
  /\ HeadInv(a) /\ TailInv(a) /\ PlaceInv(a)
  /\ NextInv(a) /\ PreviousInv(a) /\ DisjointInv(a)

Growing == call.stage \in {"grow", "move", "cut"}
Stages == {"idle", "widen", "reserve", "grow", "move", "cut", "find", "take"}
IsFree(b) == b \in Linked(allocation) /\ ~allocation.blockList[b].allocated

Calls == [function : {"none", "malloc", "realloc"}, client : Clients \cup {Nil}, units : Nat,
          block : Int, fits : BOOLEAN, entries : Int, before : SUBSET Int, stage : Stages]

\* The C locals of the operation that is running.
CallInv ==
  /\ call \in Calls
  /\ At("idle") <=> Idle
  /\ ~Idle => Intact /\ call.function # "none" /\ call.client \in Clients /\ call.units > 0
  /\ call.function = "malloc" => held[call.client] = NotHeld /\ ~call.fits /\ ~At("widen")
  /\ call.function = "realloc" =>
       LET e == allocation.blockList[call.block]
       IN /\ held[call.client] # NotHeld
          /\ call.block \in Linked(allocation) \ {allocation.table}
          /\ At("widen") => e.block = held[call.client].pointer
          /\ e.allocated <=> call.stage \notin {"widen", "take"}
          /\ e.block <= held[call.client].pointer
          /\ held[call.client].pointer + held[call.client].units <= End(e)
          /\ call.fits => e.block = held[call.client].pointer /\ e.units >= call.units
  /\ At("take") => /\ IsFree(call.entries) /\ call.entries # allocation.table
                   /\ allocation.blockList[call.entries].units >= call.units
                   /\ call.fits => call.entries = call.block

\* The table's block, and the entries that its growth and the operation need.
TwoUnlinked(a) == \E b, d \in Unlinked(a) : b # d
TableInv ==
  LET t == allocation.blockList[allocation.table]
      size == Length(allocation) * EntrySize
  IN /\ allocation.table \in Linked(allocation)
     /\ Intact => (t.allocated <=> ~Growing)
     /\ Intact /\ ~Growing => t.block = allocation.at /\ t.units = size
     /\ At("grow") => /\ t.block = allocation.at /\ t.units >= size
                      /\ call.entries \in {0, 1}
                      /\ call.entries = 1 => Unlinked(allocation) # {}
                      /\ call.entries = 0 => t.units = size
     /\ At("move") => /\ call.entries \in {0, 1, 2}
                      /\ call.entries = 1 => Unlinked(allocation) # {}
                      /\ call.entries = 0 => TwoUnlinked(allocation)
     /\ At("cut") => /\ t.block = allocation.at /\ t.units >= size
                     /\ TwoUnlinked(allocation)
     /\ call.stage \in {"find", "take"} => Unlinked(allocation) # {}

\* Each client but the one in a realloc has a block, and each block but the
\* table's and that of the realloc has a client.
InUse ==
  {b \in Linked(allocation) : allocation.blockList[b].allocated}
    \ ({allocation.table} \cup IF call.function = "realloc" THEN {call.block} ELSE {})
Owners ==
  {c \in Clients : held[c] # NotHeld}
    \ (IF call.function = "realloc" THEN {call.client} ELSE {})
OwnersInv ==
  /\ \A c \in Owners : \E b \in InUse :
       /\ allocation.blockList[b].block = held[c].pointer
       /\ allocation.blockList[b].units >= held[c].units
  /\ \A c, d \in Owners : held[c].pointer = held[d].pointer => c = d
  /\ \A b \in InUse : \E c \in Owners : allocation.blockList[b].block = held[c].pointer

HeldInv ==
  /\ held \in [Clients -> [pointer : Int, units : Nat, filled : Nat]]
  /\ \A c \in Clients : held[c] # NotHeld =>
       /\ held[c].pointer >= 0 /\ held[c].units > 0 /\ held[c].filled <= held[c].units
       /\ held[c].pointer + held[c].units <= Size

\* While the table grows, where it was before is no client's.
ContentsInv ==
  /\ DOMAIN memory = 0 .. Size - 1
  /\ Growing => \A c \in Clients : \A u \in call.before :
       u < held[c].pointer \/ held[c].pointer + held[c].units <= u

AllocatorInv ==
  /\ ListType(allocation) /\ ListInv(allocation)
  /\ outcome \in {"ok", "full", "growth", "realloc"}
  /\ CallInv
  /\ TableInv
  /\ Intact => OwnersInv
  /\ HeldInv
  /\ ContentsInv /\ ContentsKept
=============================================================================
