SPECIFICATION Spec
CONSTANTS
  Paths <- MCPaths
  Options <- MCOptions
INVARIANT HelpExitsClean
CHECK_DEADLOCK FALSE
