SPECIFICATION Spec
CONSTANTS
  Texts <- Numbers
  MaxCalls = 1
  MaxLength = 4
INVARIANTS
  TypeOK
  ReadsInside
  ComparesValues
  HashesAgree
