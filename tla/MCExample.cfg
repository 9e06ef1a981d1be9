SPECIFICATION Spec
CONSTANTS
  Names = {}
  Inputs <- MCInputs
INVARIANT ExampleCompiles
CHECK_DEADLOCK FALSE
