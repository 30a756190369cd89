SPECIFICATION Spec
CONSTANTS
    ObjectsLength = 2
    Blocks = {caller, b1, b2}
    Null = Null
    Shapes <- BufferShapes
    CallerBlock = caller
    StackBound = 1
    RootsLength = 1
    DuckLibMalloc = FALSE
    DispatchCanFail = TRUE
INVARIANTS
    BuffersOwnedOnce
