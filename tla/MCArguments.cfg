SPECIFICATION Spec
CONSTANTS
  CommandLines <- AllCommandLines
  SIZE_MAX = 63
  UINT32_MAX = 31
  BUF_SIZE_DEFAULT = 7
  MAX_BUF_SIZE = 4
  MAX_BYTES_PER_CHARACTER = 4
  Alignments <- AlignmentTexts
  LoadFactors <- LoadFactorTexts
  Compiles <- CompilesAs
  MaxLookbehind <- LooksBack
  MinMatchLength <- ShortestMatch
  MaxWords = 4
INVARIANTS
  TypeOK
  ErrorsReported
  FitsTheRest
  NumbersAsWritten
