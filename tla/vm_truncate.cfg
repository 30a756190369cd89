SPECIFICATION Spec
CONSTANTS
    ObjectsLength = 3
    Blocks = {}
    Null = Null
    Atoms = {"integer"}
    Instructions = {"push", "cons", "makeVector", "cdr", "setCdrOfVector"}
    StackBound = 3
    VectorBound = 2
    RestBound = 0
INVARIANTS
    FreeIsDead
