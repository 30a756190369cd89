------------------------------ MODULE MCVmHeap ------------------------------
(***************************************************************************)
(* Values for the constants of VmHeap.                                     *)
(***************************************************************************)
EXTENDS VmHeap

\* Programs on lists, with variadic functions.
ListInstructions ==
    {"push", "pushIndex", "cons", "rest", "car", "cdr", "setCdr"}

\* Programs on vectors and composites, and on lists in them.
ObjectInstructions ==
    {"push", "pushIndex", "cons", "vector", "makeVector", "makeInstance", "car", "cdr",
     "getVecElt", "setVecElt", "setCar", "setCdrOfVector", "compositeValue",
     "compositeFunction", "setCompositeValue", "setCompositeFunction"}

\* With vectors of one element at most, nothing reads a cell that neither the stack
\* nor the running instruction leads to before it is overwritten: states that
\* differ in the contents of such cells only are explored once.
Known ==
    LET after[n \in 0 .. ObjectsLength] ==
            IF n = 0 THEN StackCells \cup ({op.target, op.last} \ {Null})
            ELSE LET before == after[n - 1]
                 IN  before \cup UNION {Children(heap[c]) : c \in before}
    IN  after[ObjectsLength]

KnownView ==
    LET known == Known
    IN  <<[c \in known |-> heap[c]], free, stack, upvalues, op, event>>
=============================================================================
