SPECIFICATION Spec
CONSTANTS
  Keys = {1, 2}
  OptionSets <- AllOptions
  MaxTokens = 4
  MaxFragments = 2
INVARIANTS
  TypeOK
  SizeBound
  NoDuplicates
  LosesOnlyWorse
  BoundedWindow
  DelimitersSeparate
  BatchAtEnd
PROPERTIES
  KeepsPromise
  StopsWhenSettled
