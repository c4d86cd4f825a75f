SPECIFICATION Spec
CONSTANTS
  Texts = {1, 2, 3}
  OpLists <- AllAndSelectOps
  OptionSets <- DirectOrAppendOnly
  MaxInputs = 4
  Keys = {1, 2}
  MaxTokens = 4
  MaxFragments = 0
INVARIANTS
  TypeOK
  OutputAsComposed
  SelectsMatched
PROPERTIES
  LosesNoToken
