SPECIFICATION FairSpec
CONSTANTS
  Name <- MCName
  Expr <- MCExpr
  Stmt <- MCStmt
  LablesOf <- MCLablesOf
  Proper <- MCProper
  Uses <- MCUses
  Sane <- MCSane
  Needs <- MCNeeds
  Meets <- MCMeets
  Programs <- MCPrograms
INVARIANTS
  TypeOK
  DefBeforeUse
  SingleAssignment
  SlotsExclusive
  ControlStaysInside
  LabelInv
  FramesApart
  RuleInv
  RefusesIllFormed
  WrittenOnEveryPath
PROPERTIES
  Terminates
  LoweringImplemented
CHECK_DEADLOCK FALSE
