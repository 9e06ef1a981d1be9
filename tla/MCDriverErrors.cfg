SPECIFICATION Spec
CONSTANTS
  Paths <- MCPaths
  Options <- MCOptions
INVARIANT ErrorsExitOne
CHECK_DEADLOCK FALSE
