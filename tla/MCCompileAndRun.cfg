SPECIFICATION RunSpec
CONSTANTS
  Name <- MCName
  Expr <- MCExpr
  Stmt <- MCStmt
  Programs <- MCPrograms
  Literals <- MCLiterals
  External <- MCExternal
  GlobalWords = 16
  StackWords = 160
  Junk <- MCJunk
INVARIANTS
  CallsAligned
  ReturnsSafe
  CompiledMeansSource
PROPERTY CompiledHalts
CHECK_DEADLOCK FALSE
