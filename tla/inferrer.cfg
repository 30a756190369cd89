CONSTANTS
  Externals <- Linked
  ScriptOf <- Scripts
  Programs <- Trees
SPECIFICATION Spec
INVARIANTS
  ScopesInStep
  OnlyAddsParentheses
  InfersWhatIsMeant
PROPERTY InferenceEnds
