SPECIFICATION Spec
CONSTANTS
  Bytes <- AllBytes
  Length <- CharacterLength
  MAX_BYTES_PER_CHARACTER = 2
  Configs <- AllConfigs
  Inputs <- InputsFor
  MaxLetters = 5
  MaxCharacters = 4
INVARIANTS
  TypeOK
  BufferBounds
  TokensAsSplit
  OverlongReplaced
  SedCopiesInput
  CharactersWhole
