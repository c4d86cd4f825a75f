SPECIFICATION Spec
CONSTANTS
  Sizes <- AllSizes
  ArgSets <- LayoutArgs
  Screens <- AllScreens
  Keys <- AllKeys
  MaxBatches = 1
  MaxPicks = 1
  MayFail = FALSE
  MaxPrompt = 0
INVARIANTS
  NothingHiddenAbove
