SPECIFICATION Spec
CONSTANTS
    ObjectsLength = 5
    Blocks = {}
    Null = Null
    Nil = Nil
    Atoms = {Nil}
    Arities = {1}
    CalleeIsTemporary = FALSE
    SelfCaptures = FALSE
    StackBound = 4
    CallBound = 1
    CaptureBound = 1
VIEW CanonicalView
INVARIANTS
    RunningFunctionsAreLive
CHECK_DEADLOCK FALSE
