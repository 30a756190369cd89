CONSTANT Programs <- AllPrograms
SPECIFICATION Spec
INVARIANTS
  TypeOK
  PeepholeKeepsStacks
  LinksAreExact
  SizesSettle
  VmFollowsAssembly
  DisassemblerInStep
CHECK_DEADLOCK FALSE
