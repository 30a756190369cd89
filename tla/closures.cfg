SPECIFICATION Spec
CONSTANTS
    ObjectsLength = 5
    Blocks = {}
    Null = Null
    Nil = Nil
    Atoms = {Nil}
    Arities = {0}
    CalleeIsTemporary = TRUE
    SelfCaptures = TRUE
    StackBound = 4
    CallBound = 2
    CaptureBound = 2
VIEW CanonicalView
INVARIANTS
    TypeOK
    UpvaluesNameTheirSlots
    RunningFunctionsAreLive
    VariablesHaveTheirValues
CHECK_DEADLOCK FALSE
