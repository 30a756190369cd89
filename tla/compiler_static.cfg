CONSTANTS
  CallbackArity <- Arities
  Programs <- StaticPrograms
  Endless <- EndlessPrograms
SPECIFICATION Spec
INVARIANT CompiledMeansSource
CHECK_DEADLOCK FALSE
