CONSTANTS
  Externals <- Linked
  ScriptOf <- Scripts
  Programs <- Looping
SPECIFICATION Spec
PROPERTY EveryInferenceEnds
