SPECIFICATION Spec
CONSTANTS
  Texts <- MCTexts
  Code <- MCCode
  WordMod = 4096
INVARIANTS
  TypeOK
  LinesCounted
  ShortensInPlace
  StoreBounded
PROPERTIES
  ScannerImplemented
  Terminates
CHECK_DEADLOCK FALSE
