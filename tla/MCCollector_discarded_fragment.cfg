SPECIFICATION Spec
CONSTANTS
  Keys = {1}
  OptionSets <- DirectOptions
  MaxTokens = 2
  MaxFragments = 1
INVARIANTS
  DiscardedNotWritten
