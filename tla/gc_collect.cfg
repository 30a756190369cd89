SPECIFICATION Spec
CONSTANTS
    ObjectsLength = 3
    Blocks = {caller, b1}
    Null = Null
    Shapes <- ChainShapes
    CallerBlock = caller
    StackBound = 1
    RootsLength = 1
    DuckLibMalloc = FALSE
    DispatchCanFail = FALSE
INVARIANTS
    TypeOK
    FreeIsDead
    OutOfMemoryMeansFull
PROPERTIES
    ImplementsGcHeap
    CollectionEnds
