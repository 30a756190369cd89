---------------------------- MODULE MCMarkSweep ----------------------------
(***************************************************************************)
(* Values for the constants of MarkSweep.                                  *)
(***************************************************************************)
EXTENDS MarkSweep

\* One-pointer objects (lists, composites, upvalues) for long chains and cycles,
\* and user objects of a C callback.
ChainShapes ==
    {[type |-> "cell", length |-> 1, initialized |-> TRUE],
     [type |-> "user", length |-> 0, initialized |-> TRUE]}

\* A cons, an empty vector, an internal vector filled after its allocation, and a
\* string.
BufferShapes ==
    {[type |-> "cell", length |-> 2, initialized |-> TRUE],
     [type |-> "array", length |-> 0, initialized |-> TRUE],
     [type |-> "array", length |-> 1, initialized |-> FALSE],
     [type |-> "bytes", length |-> 0, initialized |-> TRUE]}
=============================================================================
