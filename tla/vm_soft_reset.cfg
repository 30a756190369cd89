SPECIFICATION Spec
CONSTANTS
    ObjectsLength = 3
    Blocks = {}
    Null = Null
    Atoms = {"integer"}
    Instructions = {"push", "makeVector"}
    StackBound = 2
    VectorBound = 1
    RestBound = 0
INVARIANTS
    SoftResetResets
