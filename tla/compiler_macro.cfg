CONSTANTS
  CallbackArity <- Arities
  Programs <- MacroPrograms
  Endless <- EndlessPrograms
SPECIFICATION Spec
INVARIANT CompiledMeansSource
CHECK_DEADLOCK FALSE
