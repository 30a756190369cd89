SPECIFICATION Spec
CONSTANTS
    ObjectsLength = 3
    Blocks = {caller}
    Null = Null
    Shapes <- ChainShapes
    CallerBlock = caller
    StackBound = 1
    RootsLength = 1
    DuckLibMalloc = FALSE
    DispatchCanFail = TRUE
INVARIANTS
    FreeIsDead
