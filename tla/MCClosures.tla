----------------------------- MODULE MCClosures -----------------------------
(***************************************************************************)
(* A view for model checking Closures.                                     *)
(***************************************************************************)
EXTENDS Closures

-----------------------------------------------------------------------------
(* States that differ in the names of cells and variables, or in what cannot *)
(* be reached, are the same: the view names cells in the order a walk from   *)
(* the stack meets them, and variables by the slot or the captures that know *)
(* them.                                                                     *)

Roots ==
    [i \in DOMAIN stack |-> IF IsClosure(stack[i]) THEN stack[i].closure ELSE Null]
    \o upvalueStack

Meet(cells, c) ==
    IF c \in Range(cells) \cup {Null} THEN cells ELSE Append(cells, c)

Walk ==
    LET walk[n \in 0 .. ObjectsLength] ==
            IF n = 0 THEN FoldLeft(Meet, <<>>, Roots)
            ELSE LET cells == walk[n - 1]
                 IN  IF n > Len(cells) THEN cells
                     ELSE FoldLeft(Meet, cells, heap[cells[n]].refs)
    IN  walk[ObjectsLength]

CanonicalView ==
    LET walk == Walk
        CellName(c) == IF \E n \in DOMAIN walk : walk[n] = c
                       THEN CHOOSE n \in DOMAIN walk : walk[n] = c ELSE 0
        ValueName(v) == IF IsClosure(v) THEN <<CellName(v.closure), v.arity>> ELSE v
        CapturedBy(c) == IF heap[c].type = "array" /\ c # op.array THEN captured[c] ELSE <<>>
        VariableName(x) ==
            IF x \in Range(env) THEN <<CHOOSE i \in DOMAIN env : env[i] = x>>
            ELSE {u \in (DOMAIN walk) \X (1 .. CaptureBound) :
                     LET known == CapturedBy(walk[u[1]])
                     IN  u[2] \in DOMAIN known /\ known[u[2]] = x}
        Variable(x) == <<VariableName(x), ValueName(store[x])>>
    IN  << [n \in DOMAIN walk |->
              LET object == heap[walk[n]]
              IN  << object.type, [k \in DOMAIN object.refs |-> CellName(object.refs[k])],
                     object.index, ValueName(object.value),
                     [k \in DOMAIN CapturedBy(walk[n]) |->
                         Variable(CapturedBy(walk[n])[k])] >>],
           [i \in DOMAIN stack |-> ValueName(stack[i])],
           [i \in DOMAIN env |-> ValueName(store[env[i]])],
           [i \in DOMAIN upvalueStack |-> CellName(upvalueStack[i])],
           [i \in DOMAIN calls |-> <<CellName(calls[i].closure), calls[i].base>>],
           [op EXCEPT !.array = 0] >>
=============================================================================
