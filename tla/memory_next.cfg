SPECIFICATION Spec
CONSTANTS
  Size = 20
  EntrySize = 2
  Fit = "next"
  Clients = {c1, c2, c3}
  Requests = {1, 3}
  Survived = {}
INVARIANT BlocksTile
CHECK_DEADLOCK FALSE
SYMMETRY Symmetry
VIEW View
