CONSTANT Programs <- Conditionals
SPECIFICATION Spec
INVARIANT DisplacementsFit
CHECK_DEADLOCK FALSE
