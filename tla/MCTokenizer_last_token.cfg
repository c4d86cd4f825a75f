SPECIFICATION Spec
CONSTANTS
  Bytes <- AllBytes
  Length <- CharacterLength
  MAX_BYTES_PER_CHARACTER = 2
  Configs <- LastTokenConfigs
  Inputs <- InputsFor
  MaxLetters = 4
  MaxCharacters = 0
INVARIANTS
  TokensCounted
