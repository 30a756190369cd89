CONSTANTS
  Cells = {c1, c2, c3}
  Null = Null
  Shim = Shim
  MaxStack = 3
  MaxCalls = 2
  MaxHost = 3
  MaxLiberties = 1
SYMMETRY CellSymmetry
SPECIFICATION Spec
INVARIANTS TypeOK CodeIsKept FramesAreTheCalls
PROPERTY MarksOnlyCells
