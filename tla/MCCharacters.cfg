SPECIFICATION RunSpec
CONSTANTS
  Name <- MCName
  Expr <- MCExpr
  Stmt <- MCStmt
  Programs <- MCCharacters
  Literals <- MCLiterals
  External <- MCExternal
  GlobalWords = 16
  StackWords = 160
  Junk <- MCJunk
INVARIANT CharIsCharacter
CHECK_DEADLOCK FALSE
