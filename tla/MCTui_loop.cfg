SPECIFICATION FairSpec
CONSTANTS
  ArgSets <- AllArgs
  Sizes <- AllSizes
  Screens <- AllScreens
  Keys <- AllKeys
  MaxBatches = 2
  MaxPicks = 3
  MayFail = TRUE
  MaxPrompt = 4
INVARIANTS
  TypeOK
  CursorVisible
  NoEmptyLines
  PromptFits
  PromptKept
  OutputSoFar
  OutputComplete
  EndwinOnce
PROPERTIES
  ConfirmsWhatWasPicked
  WritesOutsideCurses
  SigintExits
