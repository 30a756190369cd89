SPECIFICATION Spec
CONSTANTS
  Size = 20
  EntrySize = 2
  Fit = "best"
  Clients = {c1, c2, c3}
  Requests = {1, 3}
  Survived = {}
INVARIANTS TypeOK BlocksTile TableIsABlock AllocatedIsHeld ContentsKept
CHECK_DEADLOCK FALSE
SYMMETRY Symmetry
VIEW View
