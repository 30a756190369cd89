----------------------------- MODULE MCDlMemory -----------------------------
(***************************************************************************)
(* Model checking DlMemory.  The fields of an unlinked entry are not read  *)
(* before they are written again, so two states that differ only in them   *)
(* are one.                                                                *)
(***************************************************************************)
EXTENDS DlMemory

Symmetry == Permutations(Clients)

SeenList ==
  [b \in Entries(allocation) |->
     LET e == allocation.blockList[b]
     IN IF e.unlinked THEN <<>>
        ELSE <<e.block, e.units, e.previous, e.next, e.allocated>>]

View == <<SeenList, allocation.first, allocation.table, allocation.at, memory, held, call,
          IF outcome \in {"ok", "full"} THEN "ok" ELSE outcome>>
=============================================================================
