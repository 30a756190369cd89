---------------------------- MODULE MCExecution ----------------------------
(* Model values for Execution; the cells are interchangeable. *)
EXTENDS Execution, TLC
CellSymmetry == Permutations(Cells)

(* Callbacks do what duckVM.h has for them: they call functions and leave  *)
(* the execution of programs to the application.                           *)
CallbacksOnlyCall == Len(host') > Len(host) /\ host # <<>> => Last(host').isCall
=============================================================================
