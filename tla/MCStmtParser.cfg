SPECIFICATION FileSpec
CONSTANTS
  Names <- PoolNames
  Inputs <- MCInputs
INVARIANTS
  FileTypeOK
  DepthBounded
  SentencesBecomeTrees
  SilenceKeepsTheText
  TreesFitGenerator
PROPERTY Terminates
CHECK_DEADLOCK FALSE
