SPECIFICATION Spec
CONSTANTS
  Texts <- Measures
  MaxCalls = 3
  MaxLength = 3
INVARIANTS
  Transitive
