------------------------------- MODULE BTrees -------------------------------
(***************************************************************************)
(* Syntax trees of B, src/ast.c: the nodes the parser builds, the generator  *)
(* reads and the pools of programs consist of.  A list linked by `next' is a *)
(* sequence, and a node and the struct its union points to are one record.  *)
(***************************************************************************)
EXTENDS Integers, SequencesExt

Var(x)       == [kind |-> "IDENTIFIER", value |-> x]
Num(n)       == [kind |-> "INT", int_lit |-> n]
Str(i)       == [kind |-> "STRING", int_lit |-> i]
Other        == [kind |-> "OTHER"]
Un(op, e)    == [kind |-> "AST_UNARY", op |-> op, node |-> e]
Bin(op, l, r) == [kind |-> "AST_BINARY", op |-> op, left |-> l, right |-> r]
Asg(l, r)    == Bin("ASSIGN", l, r)
FunCall(f, args) == [kind |-> "AST_FUNCTION_CALL", name |-> f, args |-> args]
\* parse_left_f turns left[index] into *(index * 8 + &left).
Element(l, i) == Un("MUL", Bin("ADD", Bin("MUL", i, Num(8)), Un("BIT_AND", l)))

Do(e)      == [kind |-> "AST_EXPR", node |-> e]
Ret(e)     == [kind |-> "AST_RETURN", node |-> e]
Vector(x, size) == [kind |-> "AST_AUTO", name |-> x, size |-> size]
AutoVar(x)    == Vector(x, 1)
Extrn(x)   == [kind |-> "AST_EXTRN", name |-> x]
Lable(x)   == [kind |-> "AST_LABLE", name |-> x]
Goto(x)    == [kind |-> "AST_GOTO", name |-> x]
Block(b)   == [kind |-> "AST_SCOPE", body |-> b]
While(c, b) == [kind |-> "AST_WHILE", Condition |-> c, body |-> Block(b)]
NoChain    == [kind |-> "NULL"]
IfNode(kind, c, body, chain) == [kind |-> kind, Condition |-> c, body |-> body, chain |-> chain]
If(c, b, chain)     == IfNode("AST_IF", c, Block(b), chain)
ElseIf(c, b, chain) == IfNode("AST_ELSE_IF", c, Block(b), chain)
Else(b)    == [kind |-> "AST_ELSE", body |-> b]

-----------------------------------------------------------------------------
\* The nodes directly below a statement, and below an expression.
StmtsUnder(s) ==
  CASE s.kind \in {"AST_SCOPE", "AST_ELSE"} -> Range(s.body)
    [] s.kind \in {"AST_IF", "AST_ELSE_IF"} -> {s.body, s.chain} \ {NoChain}
    [] s.kind = "AST_WHILE" -> {s.body}
    [] OTHER -> {}
ExprsUnder(e) ==
  CASE e.kind = "AST_UNARY" -> {e.node}
    [] e.kind = "AST_BINARY" -> {e.left, e.right}
    [] e.kind = "AST_FUNCTION_CALL" -> Range(e.args)
    [] OTHER -> {}

\* A set of trees with everything inside them, MaxDepth levels down.
MaxDepth == 9
Closure(S, Under(_)) ==
  LET to[n \in 0 .. MaxDepth] ==
        IF n = 0 THEN S
        ELSE LET above == to[n - 1] IN above \cup UNION {Under(x) : x \in above}
  IN to[MaxDepth]

\* The expressions that stand directly in a statement.
ExprsOf(s) ==
  CASE s.kind \in {"AST_RETURN", "AST_EXPR"} -> {s.node}
    [] s.kind \in {"AST_IF", "AST_ELSE_IF", "AST_WHILE"} -> {s.Condition}
    [] OTHER -> {}

LablesIn(s) ==
  {l.name : l \in {t \in Closure({s}, StmtsUnder) : t.kind = "AST_LABLE"}}

FunctionNode(f, params, lables, body) ==
  [kind |-> "AST_FUNCTION", name |-> f, params |-> params, lables |-> lables, body |-> body]
Function(f, params, body) == FunctionNode(f, params, LablesIn(Block(body)), Block(body))
Global(x, size) == [kind |-> "AST_GLOBAL", name |-> x, size |-> size]
ExtrnTop(x)     == Extrn(x)

\* What a set of programs is made of.
FunctionsIn(progs) ==
  {d \in UNION {Range(p) : p \in progs} : d.kind = "AST_FUNCTION"}
StmtsIn(progs) == Closure({d.body : d \in FunctionsIn(progs)}, StmtsUnder)
ExprsIn(progs) == Closure(UNION {ExprsOf(s) : s \in StmtsIn(progs)}, ExprsUnder)

GlobalsOf(p) == {p[i].name : i \in {j \in DOMAIN p : p[j].kind = "AST_GLOBAL"}}
=============================================================================
