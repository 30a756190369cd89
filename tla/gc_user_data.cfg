SPECIFICATION Spec
CONSTANTS
    ObjectsLength = 2
    Blocks = {caller, b1, b2}
    Null = Null
    Shapes <- ChainShapes
    CallerBlock = caller
    StackBound = 2
    RootsLength = 1
    DuckLibMalloc = FALSE
    DispatchCanFail = FALSE
INVARIANTS
    UserDataAlive
