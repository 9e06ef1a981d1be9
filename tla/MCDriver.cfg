SPECIFICATION Spec
CONSTANTS
  Paths <- MCPaths
  Options <- MCOptions
INVARIANTS ExitTellsOutput ReadsBeforeWriting
PROPERTY ListingKept
CHECK_DEADLOCK FALSE
