----------------------------- MODULE IrGenRules -----------------------------
(***************************************************************************)
(* The rules of B as the IR generator enforces them: which programs it has  *)
(* to refuse, and the account of what the activations under way have still  *)
(* to find in order.                                                        *)
(*                                                                         *)
(* The five constants are what the rules say of each tree.  They are given  *)
(* by equations from a node to the nodes below it; the trees being finite,   *)
(* the equations have one solution, which a run computes by recursion.       *)
(***************************************************************************)
EXTENDS IrGen

CONSTANTS
  Proper,  \* the expressions whose operators exist and have the operands they need
  Uses,    \* the variables an expression names
  Sane,    \* the statements of proper expressions that use no auto ahead of it
  Needs,   \* the variables a statement takes from the blocks around it
  Meets    \* the labels a statement defines or goes to

UnaryOps  == {"BIT_AND", "MUL", "SUB", "NOT", "INC", "DEC"}
PlaceOps  == {"BIT_AND", "INC", "DEC"}      \* those that take an lvalue
BinaryOps ==
  {"ADD", "SUB", "MUL", "DEV", "MOD", "BIT_AND", "BIT_OR", "BITSHIFT_L", "BITSHIFT_R",
   "EQUAL", "NOT_EQUAL", "GREATER", "GREATER_EQUAL", "LESSER", "LESSER_EQUAL"}

IsPlace(e) == e.kind = "IDENTIFIER" \/ (e.kind = "AST_UNARY" /\ e.op = "MUL")

\* The autos among the first n statements of a scope.
Declared(body, n) ==
  {body[i].name : i \in {j \in DOMAIN body : j <= n /\ body[j].kind = "AST_AUTO"}}
Autos(body) == Declared(body, Len(body))

ExprRules(e) ==
  /\ e.kind \in {"INT", "STRING"} => e \in Proper /\ Uses[e] = {}
  /\ e.kind = "IDENTIFIER" => e \in Proper /\ Uses[e] = {e.value}
  /\ e.kind = "OTHER" => e \notin Proper
  /\ e.kind = "AST_UNARY" =>
       /\ e \in Proper <=> /\ e.op \in UnaryOps
                           /\ e.op \in PlaceOps => IsPlace(e.node)
                           /\ e.node \in Proper
       /\ Uses[e] = Uses[e.node]
  /\ e.kind = "AST_BINARY" =>
       /\ e \in Proper <=> /\ \/ e.op \in BinaryOps
                              \/ e.op = "ASSIGN" /\ IsPlace(e.left)
                           /\ e.left \in Proper /\ e.right \in Proper
       /\ Uses[e] = Uses[e.left] \cup Uses[e.right]
  /\ e.kind = "AST_FUNCTION_CALL" =>
       /\ e \in Proper <=> \A i \in 1 .. Len(e.args) : e.args[i] \in Proper
       /\ Uses[e] = UNION {Uses[e.args[i]] : i \in 1 .. Len(e.args)}

\* The scope's own autos are unknown in it up to their declaration, whatever
\* the blocks around it declare.
ScopeRules(s) ==
  /\ s \in Sane <=> \A i \in 1 .. Len(s.body) :
       /\ s.body[i] \in Sane
       /\ Needs[s.body[i]] \cap Autos(s.body) \subseteq Declared(s.body, i - 1)
  /\ Needs[s] = UNION {Needs[s.body[i]] \ Autos(s.body) : i \in 1 .. Len(s.body)}
  /\ Meets[s] = UNION {Meets[s.body[i]] : i \in 1 .. Len(s.body)}

WhileRules(s) ==
  /\ s \in Sane <=> s.Condition \in Proper /\ s.body \in Sane
  /\ Needs[s] = Uses[s.Condition] \cup Needs[s.body]
  /\ Meets[s] = Meets[s.body]

ChainRules(s) ==
  /\ s \in Sane <=> s.Condition \in Proper /\ s.body \in Sane /\ s.chain \in Sane
  /\ Needs[s] = Uses[s.Condition] \cup Needs[s.body] \cup Needs[s.chain]
  /\ Meets[s] = Meets[s.body] \cup Meets[s.chain]

StmtRules(s) ==
  /\ s.kind \in {"AST_AUTO", "AST_EXTRN"} => s \in Sane /\ Needs[s] = {} /\ Meets[s] = {}
  /\ s.kind \in {"AST_LABLE", "AST_GOTO"} =>
       s \in Sane /\ Needs[s] = {} /\ Meets[s] = {s.name}
  /\ s.kind \in {"AST_RETURN", "AST_EXPR"} =>
       /\ s \in Sane <=> s.node \in Proper
       /\ Needs[s] = Uses[s.node] /\ Meets[s] = {}
  /\ s.kind \in {"AST_SCOPE", "AST_ELSE"} => ScopeRules(s)
  /\ s.kind = "AST_WHILE" => WhileRules(s)
  /\ s.kind \in {"AST_IF", "AST_ELSE_IF"} =>
       IF s.chain = NULL THEN WhileRules(s) ELSE ChainRules(s)

ASSUME RulesAssumption ==
  /\ Uses \in [Expr -> SUBSET Name]
  /\ Needs \in [Stmt -> SUBSET Name] /\ Meets \in [Stmt -> SUBSET Name]
  /\ \A e \in Expr : ExprRules(e)
  /\ \A s \in Stmt : StmtRules(s)

\* With the variables E in force, and the labels T in the function.
FineExpr(e, E)    == e \in Proper /\ Uses[e] \subseteq E
FineStmt(s, E, T) == s \in Sane /\ Needs[s] \subseteq E /\ Meets[s] \subseteq T

ParamsOf(d) == {d.params[i] : i \in 1 .. Len(d.params)}
FunctionFine(d, G) == FineStmt(d.body, G \cup ParamsOf(d), d.lables)

\* Every name is used after its declaration in the innermost block that
\* declares it, only a variable or a dereference is assigned, incremented or
\* has its address taken, every operator exists, and every goto has its label.
WellFormed(p) ==
  \A i \in 1 .. Len(p) : p[i].kind = "AST_FUNCTION" =>
    FunctionFine(p[i], {p[j].name : j \in {k \in 1 .. Len(p) : p[k].kind = "AST_GLOBAL"}})

-----------------------------------------------------------------------------
\* What frame f has still to evaluate is in order when it called b times, the
\* variables around it being E: the first conjunct what it looks at itself,
\* the others the calls that remain.
Accepted(f, E, T) ==
  LET n == f.node IN
  /\ f.fn = "ir_expr_f" =>
       /\ n.kind # "OTHER"
       /\ n.kind = "IDENTIFIER" => n.value \in E
       /\ n.kind = "AST_UNARY" => n.op \in UnaryOps
       /\ n.kind = "AST_BINARY" => n.op \in BinaryOps \cup {"ASSIGN"}
  /\ f.fn = "ir_lvalue" => IsPlace(n) /\ (n.kind = "IDENTIFIER" => n.value \in E)
  /\ f.fn \in {"ir_lable_s", "ir_goto_s"} => n.name \in T

FineCall(g, E) == FineExpr(g.node, E) /\ (g.fn = "ir_lvalue" => IsPlace(g.node))

Remaining(f, b, E, T) ==
  LET n == f.node IN
  CASE f.fn \in {"ir_expr_f", "ir_lvalue", "ir_return_s"} ->
         \A i \in b + 1 .. Len(Operands(f)) : FineCall(Operands(f)[i], E)
    [] f.fn = "ir_function_s" -> b <= Len(n.params) => FineStmt(n.body, E \cup ParamsOf(n), T)
    [] f.fn = "ir_scope" ->
         \A i \in b + 1 .. Len(n.body) :
           FineStmt(n.body[i], (E \ Autos(n.body)) \cup Declared(n.body, i - 1), T)
    [] f.fn = "ir_if_s" \/ (f.fn = "ir_if_chain_s" /\ n.kind = "AST_ELSE") ->
         b = 0 => FineStmt(n, E, T)
    [] f.fn = "ir_while_s" \/ (f.fn = "ir_if_chain_s" /\ n.kind # "AST_ELSE") ->
         /\ b = 0 => FineExpr(n.Condition, E)
         /\ b <= 1 => FineStmt(n.body, E, T)
         /\ f.fn = "ir_if_chain_s" /\ b <= 2 /\ n.chain # NULL => FineStmt(n.chain, E, T)
    [] OTHER -> TRUE

InOrder(f, b, E, T) == Accepted(f, E, T) /\ Remaining(f, b, E, T)

\* The variables that the frames 1 .. n of st put in force, over the globals G.
Around(st, n, x) == {k \in 1 .. n : x \in DOMAIN st[k].symtab}
Sees(st, n, G) ==
  {x \in Name :
     \/ Around(st, n, x) = {} /\ x \in G
     \/ \E k \in Around(st, n, x) : /\ \A j \in Around(st, n, x) : j <= k
                                    /\ st[k].symtab[x].temp_dest # 0}

BegunCalls(st, k) == Len(st[k].got) + (IF k = Len(st) THEN 0 ELSE 1)
FrameInOrder(st, k, G, T) == InOrder(st[k], BegunCalls(st, k), Sees(st, k - 1, G), T)

\* A scope's table holds its autos, with storage for those passed; other tables
\* hold the parameters, or nothing.
TableKept(f) ==
  /\ f.fn = "ir_scope" =>
       /\ DOMAIN f.symtab = Autos(f.node.body)
       /\ \A x \in DOMAIN f.symtab :
            f.symtab[x].temp_dest # 0 <=> x \in Declared(f.node.body, Len(f.got))
  /\ f.fn = "ir_function_s" =>
       DOMAIN f.symtab = ParamsOf(f.node) /\ \A x \in DOMAIN f.symtab : f.symtab[x].temp_dest # 0
  /\ f.fn \notin {"ir_scope", "ir_function_s"} => DOMAIN f.symtab = {}

\* An auto is generated for the scope that comes to it, and only then.
AutoCalled(f, g) ==
  /\ f.fn = "ir_scope" =>
       /\ Len(f.got) < Len(f.node.body)
       /\ g.fn = "ir_auto_s" <=> f.node.body[Len(f.got) + 1].kind = "AST_AUTO"
       /\ g.fn = "ir_auto_s" => g.node = f.node.body[Len(f.got) + 1]
  /\ g.fn = "ir_auto_s" => f.fn = "ir_scope"

\* An activation reserves its labels before it calls another.
Numbered(f, b) ==
  f.fn \in {"ir_if_s", "ir_while_s", "ir_if_chain_s"} /\ f.node.kind # "AST_ELSE" /\ f.lab = 0 => b = 0

\* While a function is generated, it keeps the rules if and only if everything
\* the activations have still to evaluate does, each in the variables its
\* place in the nest of tables shows: nothing already generated was wrong, and
\* nothing right was passed over with the wrong names in force.
RuleInv ==
  /\ \A i \in 1 .. curr - 1 :
       program[i].kind = "AST_FUNCTION" => FunctionFine(program[i], Globals)
  /\ status = "done" => curr = Len(program) + 1
  /\ status = "fatal" => stack # <<>> /\ ~ FunctionFine(program[curr], Globals)
  /\ stack # <<>> =>
       /\ DOMAIN lable_tab = program[curr].lables
       /\ FunctionFine(program[curr], Globals) <=>
            \A k \in 1 .. Len(stack) : FrameInOrder(stack, k, Globals, DOMAIN lable_tab)
       /\ \A k \in 1 .. Len(stack) : /\ TableKept(stack[k])
                                     /\ Numbered(stack[k], BegunCalls(stack, k))
       /\ \A k \in 1 .. Len(stack) - 1 : AutoCalled(stack[k], stack[k + 1])

\* The generator refuses exactly the programs that break the rules: the order
\* in which it meets declarations, uses and labels never makes it accept a use
\* before the auto, or a name the scope hides, nor refuse a program that keeps
\* the rules.
RefusesIllFormed ==
  /\ status = "done" => WellFormed(program)
  /\ status = "fatal" => ~ WellFormed(program)

-----------------------------------------------------------------------------
\* What gen_ir promises its callers, whose view of it is the module it builds:
\* the steps of all the ir_* functions in between come to nothing else.
Lower == INSTANCE Lowering WITH Good <- WellFormed
LoweringImplemented == Lower!Spec
=============================================================================
