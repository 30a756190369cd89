SPECIFICATION Spec
CONSTANTS
    ObjectsLength = 3
    Blocks = {}
    Null = Null
    Atoms = {"integer"}
    Instructions = {"push", "vector"}
    StackBound = 2
    VectorBound = 2
    RestBound = 0
INVARIANTS
    InstructionBuilds
