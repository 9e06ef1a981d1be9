SPECIFICATION Spec
CONSTANTS
  Texts <- MCTexts
  Code <- MCCode
  WordMod = 4096
INVARIANT ColumnsTrue
CHECK_DEADLOCK FALSE
