SPECIFICATION Spec
CONSTANTS
    ObjectsLength = 4
    Blocks = {}
    Null = Null
    Atoms = {"integer"}
    Instructions <- ListInstructions
    StackBound = 2
    VectorBound = 1
    RestBound = 2
VIEW KnownView
INVARIANTS
    InstructionBuilds
