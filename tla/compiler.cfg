CONSTANTS
  CallbackArity <- Arities
  Programs <- GoodPrograms
  Endless <- EndlessPrograms
SPECIFICATION Spec
INVARIANTS
  TypeOK
  DepthsAgree
  CompiledMeansSource
  NoUpvalueOutlivesItsVariable
  CompileTimeInStep
  ScopesInStep
PROPERTY ProgramsEnd
CHECK_DEADLOCK FALSE
