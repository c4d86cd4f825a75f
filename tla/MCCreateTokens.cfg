SPECIFICATION CreateSpec
CONSTANTS
  Bytes = {"a", "b"}
  Length <- LetterLength
  MAX_BYTES_PER_CHARACTER = 1
  Configs <- AllConfigs
  Inputs <- AllInputs
  Texts <- AllTexts
  OpLists <- AllOps
  OptionSets <- AllOptions
  Keys <- AllKeys
  Rank <- RankOf
  MaxLetters = 3
  MaxInputs = 100
  MaxTokens = 100
  MaxFragments = 100
INVARIANTS
  WritesResult
PROPERTIES
  EventuallyFinished
