SPECIFICATION FairSpec
CONSTANTS
  Names = {}
  Inputs <- MCInputs
INVARIANTS
  TypeOK
  TreeIsTheGrammars
  SentencesAccepted
PROPERTY Terminates
CHECK_DEADLOCK FALSE
