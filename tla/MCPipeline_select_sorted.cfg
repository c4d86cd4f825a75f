SPECIFICATION Spec
CONSTANTS
  Texts = {1, 2, 3}
  OpLists <- SelectOps
  OptionSets <- SortedBounded
  MaxInputs = 3
  Keys = {1, 2}
  MaxTokens = 3
  MaxFragments = 0
INVARIANTS
  SelectsMatched
