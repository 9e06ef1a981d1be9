------------------------------- MODULE IrGen -------------------------------
(***************************************************************************)
(* The IR generator, src/ir.c: gen_ir walks the top-level list the parser   *)
(* built and turns every function into a list of IR nodes.                  *)
(*                                                                         *)
(* The C functions call each other recursively.  Here their activations     *)
(* are the frames of `stack': a frame names the C function, the AST node    *)
(* it was given, the results its calls returned so far (`got'), the labels  *)
(* it reserved, and, for ir_scope, the symbol table of that scope.  The     *)
(* chain of AstScope.parent pointers is therefore the order of the frames,  *)
(* and free_hash_set at the end of a scope is the pop of its frame.         *)
(***************************************************************************)
EXTENDS IrCode

CONSTANTS
  Name,       \* identifiers of variables, functions and labels
  Expr,       \* AST expressions, closed under sub-expressions
  Stmt,       \* AST statements, closed under sub-statements
  Programs    \* the top-level lists (Parser.ast_head) under consideration

Unmapped == "UNMAPPED"       \* a token that binop_to_irop maps to 0
NULL     == [kind |-> "NULL"]

\* AstKind, an AST_ATOM being named by the kind of its token; "OTHER" is any
\* token parse_atom_f may wrap that is no literal.
ExprKind == {"INT", "STRING", "IDENTIFIER", "OTHER",
             "AST_UNARY", "AST_BINARY", "AST_FUNCTION_CALL"}
StmtKind == {"AST_RETURN", "AST_SCOPE", "AST_AUTO", "AST_EXTRN", "AST_EXPR",
             "AST_IF", "AST_ELSE_IF", "AST_ELSE", "AST_WHILE",
             "AST_LABLE", "AST_GOTO"}

\* Definitions named X_But... are variants of X with a plausible slip in it.
\* No specification uses them: they show that a property notices the slip.

\* What the parser guarantees of the trees: every child pointer leads to a
\* node of the right sort, and a function's tables hold its own names.
ASSUME ExprAssumption ==
  \A e \in Expr :
    /\ e.kind \in ExprKind
    /\ e.kind \in {"INT", "STRING"} => e.int_lit \in Nat
    /\ e.kind = "IDENTIFIER" => e.value \in Name
    /\ e.kind = "AST_UNARY" => e.node \in Expr
    /\ e.kind = "AST_BINARY" => e.left \in Expr /\ e.right \in Expr
    /\ e.kind = "AST_FUNCTION_CALL" => e.name \in Name /\ e.args \in Seq(Expr)

ASSUME StmtAssumption ==
  \A s \in Stmt :
    /\ s.kind \in StmtKind
    /\ s.kind \in {"AST_AUTO", "AST_EXTRN", "AST_LABLE", "AST_GOTO"} => s.name \in Name
    /\ s.kind \in {"AST_RETURN", "AST_EXPR"} => s.node \in Expr
    /\ s.kind \in {"AST_SCOPE", "AST_ELSE"} =>
         /\ s.body \in Seq(Stmt)
         /\ \A i \in 1 .. Len(s.body) : s.body[i].kind \notin {"AST_ELSE_IF", "AST_ELSE"}
    /\ s.kind \in {"AST_IF", "AST_ELSE_IF"} =>
         /\ s.Condition \in Expr
         /\ s.body \in Stmt /\ s.body.kind = "AST_SCOPE"
         /\ \/ s.chain = NULL
            \/ s.chain \in Stmt /\ s.chain.kind \in {"AST_ELSE_IF", "AST_ELSE"}
    /\ s.kind = "AST_WHILE" =>
         s.Condition \in Expr /\ s.body \in Stmt /\ s.body.kind = "AST_SCOPE"

IsFunction(d) ==
  /\ d.kind = "AST_FUNCTION"
  /\ d.name \in Name
  /\ d.params \in Seq(Name)
  /\ \A i, j \in 1 .. Len(d.params) : d.params[i] = d.params[j] => i = j
  /\ d.lables \subseteq Name
  /\ d.body \in Stmt /\ d.body.kind = "AST_SCOPE"

IsDeclaration(d) ==
  /\ d.kind \in {"AST_GLOBAL", "AST_EXTRN"}
  /\ d.name \in Name
  /\ d.kind = "AST_GLOBAL" => d.size \in Nat

ASSUME ProgramAssumption ==
  \A p \in Programs :
    /\ p = [i \in 1 .. Len(p) |-> p[i]] /\ Len(p) \in Nat
    /\ \A i \in 1 .. Len(p) : IsFunction(p[i]) \/ IsDeclaration(p[i])

-----------------------------------------------------------------------------
(* IR nodes.  `use' lists the temporaries a node reads, in the order the    *)
(* backend loads them; `id' is imm or lable_id.                             *)

Node(op, dest, use) ==
  [op |-> op, dest |-> dest, use |-> use, name |-> "", id |-> 0, id_f |-> 0]
Named(op, dest, use, name) == [Node(op, dest, use) EXCEPT !.name = name]
Imm(op, dest, value)       == [Node(op, dest, <<>>) EXCEPT !.id = value]
Label(l)                   == [Node("IR_LABEL", 0, <<>>) EXCEPT !.id = l]
Jump(l)                    == [Node("IR_JUMP", 0, <<>>) EXCEPT !.id = l]
Branch(t, l, l_f) ==
  [Node("IR_BRANCH", 0, <<t>>) EXCEPT !.id = l, !.id_f = l_f]

IropOf ==
  [ADD |-> "OP_ADD", SUB |-> "OP_SUB", MUL |-> "OP_MUL", DEV |-> "OP_DIV",
   MOD |-> "OP_MOD", BIT_AND |-> "OP_AND", BIT_OR |-> "OP_OR",
   BITSHIFT_L |-> "OP_SHL", BITSHIFT_R |-> "OP_SHR", EQUAL |-> "OP_EQ",
   NOT_EQUAL |-> "OP_NE", GREATER |-> "OP_GT", GREATER_EQUAL |-> "OP_GE",
   LESSER |-> "OP_LT", LESSER_EQUAL |-> "OP_LE"]
binop_to_irop_ButNotMod(tok) ==
  IF tok \in DOMAIN IropOf \ {"MOD"} THEN IropOf[tok] ELSE Unmapped
binop_to_irop(tok) == IF tok \in DOMAIN IropOf THEN IropOf[tok] ELSE Unmapped

\* What a finished call hands back: a temporary, or an LValue.
Temp(t)        == [kind |-> "TEMP", temp |-> t, name |-> ""]
LocalLv(t)     == [kind |-> "LV_LOCAL", temp |-> t, name |-> ""]
GlobalLv(name) == [kind |-> "LV_GLOBAL", temp |-> 0, name |-> name]

ir_load_lvalue(lv, t) ==
  IF lv.kind = "LV_GLOBAL" THEN Named("OP_GLOBAL_L", t, <<>>, lv.name)
                           ELSE Node("OP_LOAD", t, <<lv.temp>>)
ir_store_lvalue(value, lv) ==
  IF lv.kind = "LV_GLOBAL" THEN Named("OP_GLOBAL_S", 0, <<value>>, lv.name)
                           ELSE Node("OP_STORE", 0, <<lv.temp, value>>)
ir_addr_of_lvalue(lv, t) ==
  IF lv.kind = "LV_GLOBAL" THEN Named("OP_GLOBAL_ADDR", t, <<>>, lv.name)
                           ELSE Node("OP_ADDRESS", t, <<lv.temp>>)

-----------------------------------------------------------------------------
VARIABLES
  program,   \* the AST, chosen once
  curr,      \* position of gen_ir in the top-level list
  module,    \* ir_head .. ir_tail: the IR of the module so far
  stack,     \* activations of the C functions under ir_function_s
  code,      \* the nodes of the current function, entry .. block_tail
  temp_c,    \* counter of temporaries of the current function
  lable_c,   \* counter of labels of the current function
  lable_tab, \* t_lable_tab: label name -> label id, 0 until first met
  status     \* "running", "done", or "fatal" after ir_fatal

vars == <<program, curr, module, stack, code, temp_c, lable_c, lable_tab, status>>

VarKind_ButLableFirst == <<"LABLE_S", "AUTO_VAR", "GLOBAL_VAR", "PARAM_VAR">>

\* The enumerators, in order; a VarInfo whose kind is not set holds the first.
VarKind   == <<"AUTO_VAR", "GLOBAL_VAR", "PARAM_VAR", "LABLE_S">>
UnsetKind == VarKind[1]

VarInfo(kind, temp_dest) == [kind |-> kind, temp_dest |-> temp_dest]

\* The symbol table parse_scope_f filled for a scope: its own autos, without
\* storage until ir_auto_s meets them.
ScopeTab(body) ==
  [n \in {body[i].name : i \in {j \in DOMAIN body : body[j].kind = "AST_AUTO"}}
     |-> VarInfo("AUTO_VAR", 0)]

\* parse_function_s overwrites a parameter's VarInfo with {.temp_dest = i}, and
\* so the kind it had.
ParamTab(params) ==
  [n \in {params[i] : i \in DOMAIN params} |->
     VarInfo(UnsetKind, CHOOSE i \in DOMAIN params : params[i] = n)]

NoTab == [n \in {} |-> VarInfo("AUTO_VAR", 0)]

Frame(fn, node, end) ==
  [fn |-> fn, node |-> node, got |-> <<>>, lab |-> 0, end |-> end,
   symtab |-> CASE fn = "ir_scope" -> ScopeTab(node.body)
                [] fn = "ir_function_s" -> ParamTab(node.params)
                [] OTHER -> NoTab]
Value(e) == Frame("ir_expr_f", e, 0)
Place(e) == Frame("ir_lvalue", e, 0)

HandlerOf ==
  [AST_RETURN |-> "ir_return_s", AST_SCOPE |-> "ir_scope", AST_AUTO |-> "ir_auto_s",
   AST_EXTRN |-> "ir_extrn_s", AST_IF |-> "ir_if_s", AST_WHILE |-> "ir_while_s",
   AST_LABLE |-> "ir_lable_s", AST_GOTO |-> "ir_goto_s"]

\* ir_statements: an expression statement goes straight to ir_expr_f, and a
\* kind with no case is fatal.
ir_statements(s) ==
  IF s.kind = "AST_EXPR" THEN Value(s.node) ELSE Frame(HandlerOf[s.kind], s, 0)

Top       == stack[Len(stack)]
InCall(fn) == status = "running" /\ stack # <<>> /\ Top.fn = fn

\* A C function returns r to its caller.
Return(r) ==
  stack' = [k \in 1 .. Len(stack) - 1 |->
              IF k = Len(stack) - 1 THEN [stack[k] EXCEPT !.got = Append(@, r)]
                                    ELSE stack[k]]
Call(f) == stack' = Append(stack, f)
\* The same, after the caller stored the first label it reserved.
CallFrom(base, f) ==
  stack' = Append([stack EXCEPT ![Len(stack)].lab = base], f)

NoTemp == Temp(0)   \* the result of a void C function
Emit1(a)          == Append(code, a)
Emit2(a, b)       == Append(Append(code, a), b)
Emit3(a, b, c)    == Append(Append(Append(code, a), b), c)
Emit4(a, b, c, d) == Append(Append(Append(Append(code, a), b), c), d)

-----------------------------------------------------------------------------
(* Symbol lookup: the tables of the open scopes, innermost first, then the  *)
(* parameters, then global_table, which the parser completed beforehand.    *)

Holders(name) == {k \in DOMAIN stack : name \in DOMAIN stack[k].symtab}
Innermost_ButOutermost(name) ==
  CHOOSE k \in Holders(name) : \A j \in Holders(name) : k <= j
Innermost(name) ==
  CHOOSE k \in Holders(name) : \A j \in Holders(name) : j <= k
Globals == {program[i].name : i \in {j \in DOMAIN program : program[j].kind = "AST_GLOBAL"}}

lookup_symbol(name) ==
  IF Holders(name) # {} THEN stack[Innermost(name)].symtab[name]
  ELSE VarInfo(IF name \in Globals THEN "GLOBAL_VAR" ELSE "UNDEFINED", 0)

Unusable_ButWithoutSlotCheck(name) == lookup_symbol(name).kind \in {"UNDEFINED", "LABLE_S"}

\* A name ir_expr_f and ir_lvalue refuse: undefined, of a kind that is no
\* variable's, or without a storage slot yet.
Unusable(name) ==
  LET var == lookup_symbol(name) IN
    \/ var.kind \in {"UNDEFINED", "LABLE_S"}
    \/ var.kind \in {"AUTO_VAR", "PARAM_VAR"} /\ var.temp_dest = 0

-----------------------------------------------------------------------------
(* gen_ir: one step per top-level node.                                     *)

Init ==
  /\ program \in Programs
  /\ curr = 1
  /\ module = <<>>
  /\ stack = <<>>
  /\ code = <<>>
  /\ temp_c = 0
  /\ lable_c = 0
  /\ lable_tab = [n \in {} |-> 0]
  /\ status = "running"

ModuleNode(kind, name, size, nodes) ==
  [kind |-> kind, name |-> name, size |-> size, nodes |-> nodes]

AtTopLevel == status = "running" /\ stack = <<>>

GenDeclaration_ButTwice ==
  /\ AtTopLevel /\ curr <= Len(program)
  /\ program[curr].kind \in {"AST_GLOBAL", "AST_EXTRN"}
  /\ curr' = curr + 2
  /\ UNCHANGED <<program, module, stack, code, temp_c, lable_c, lable_tab, status>>

GenDeclaration ==
  /\ AtTopLevel /\ curr <= Len(program)
  /\ LET d == program[curr] IN
       /\ d.kind \in {"AST_GLOBAL", "AST_EXTRN"}
       /\ module' = Append(module,
            IF d.kind = "AST_GLOBAL" THEN ModuleNode("IR_GLOBAL", d.name, d.size, <<>>)
                                     ELSE ModuleNode("IR_EXTRN", d.name, 0, <<>>))
  /\ curr' = curr + 1
  /\ UNCHANGED <<program, stack, code, temp_c, lable_c, lable_tab, status>>

BeginFunction_ButFromZero ==
  /\ AtTopLevel /\ curr <= Len(program)
  /\ LET d == program[curr] IN
       /\ d.kind = "AST_FUNCTION"
       /\ lable_tab' = [l \in d.lables |-> 0]
       /\ stack' = <<Frame("ir_function_s", d, 0)>>
  /\ temp_c' = 0
  /\ lable_c' = 1
  /\ code' = <<Label(1)>>
  /\ UNCHANGED <<program, curr, module, status>>

\* The prologue of ir_function_s: fresh counters, the entry label.
BeginFunction ==
  /\ AtTopLevel /\ curr <= Len(program)
  /\ LET d == program[curr] IN
       /\ d.kind = "AST_FUNCTION"
       /\ temp_c' = Len(d.params)
       /\ lable_tab' = [l \in d.lables |-> 0]
       /\ stack' = <<Frame("ir_function_s", d, 0)>>
  /\ lable_c' = 1
  /\ code' = <<Label(1)>>
  /\ UNCHANGED <<program, curr, module, status>>

GenDone ==
  /\ AtTopLevel /\ curr > Len(program)
  /\ status' = "done"
  /\ UNCHANGED <<program, curr, module, stack, code, temp_c, lable_c, lable_tab>>

-----------------------------------------------------------------------------
(* ir_function_s                                                            *)

SpillParam_ButOneSlot ==
  /\ InCall("ir_function_s")
  /\ Len(Top.got) < Len(Top.node.params)
  /\ LET i == Len(Top.got) + 1
         slot == IF i = 1 THEN temp_c + 1 ELSE temp_c
     IN /\ code' = IF i = 1
                     THEN Emit3(Node("OP_ALLOC", slot, <<>>),
                                Node("OP_STORE", 0, <<slot, i>>),
                                Node("OP_ADDRESS", i, <<slot>>))
                     ELSE Emit2(Node("OP_STORE", 0, <<slot, i>>),
                                Node("OP_ADDRESS", i, <<slot>>))
        /\ temp_c' = slot
  /\ stack' = [stack EXCEPT ![Len(stack)].got = Append(@, NoTemp)]
  /\ UNCHANGED <<program, curr, module, lable_c, lable_tab, status>>

\* One round of the parameter loop: a slot, the incoming value stored into
\* it, and the parameter's own temporary redefined as the slot's address.
SpillParam ==
  /\ InCall("ir_function_s")
  /\ Len(Top.got) < Len(Top.node.params)
  /\ LET i == Len(Top.got) + 1  slot == temp_c + 1 IN
       code' = Emit3(Node("OP_ALLOC", slot, <<>>),
                     Node("OP_STORE", 0, <<slot, i>>),
                     Node("OP_ADDRESS", i, <<slot>>))
  /\ temp_c' = temp_c + 1
  /\ stack' = [stack EXCEPT ![Len(stack)].got = Append(@, NoTemp)]
  /\ UNCHANGED <<program, curr, module, lable_c, lable_tab, status>>

FunctionBody ==
  /\ InCall("ir_function_s")
  /\ Len(Top.got) = Len(Top.node.params)
  /\ Call(Frame("ir_scope", Top.node.body, 0))
  /\ UNCHANGED <<program, curr, module, code, temp_c, lable_c, lable_tab, status>>

\* After the body: an implicit `return 0' unless the last node returns, then
\* the function joins the module.
EndFunction ==
  /\ InCall("ir_function_s")
  /\ Len(Top.got) = Len(Top.node.params) + 1
  /\ IF code[Len(code)].op = "IR_RETURN"
       THEN UNCHANGED <<code, temp_c>>
       ELSE /\ code' = Emit2(Imm("OP_CONST", temp_c + 1, 0),
                             Node("IR_RETURN", 0, <<temp_c + 1>>))
            /\ temp_c' = temp_c + 1
  /\ module' = Append(module,
       ModuleNode("IR_FUNCTION", Top.node.name, Len(Top.node.params), code'))
  /\ stack' = <<>>
  /\ curr' = curr + 1
  /\ UNCHANGED <<program, lable_c, lable_tab, status>>

-----------------------------------------------------------------------------
(* ir_expr_f and ir_lvalue                                                  *)

\* The calls a handler makes, in the order it makes them: an assignment
\* evaluates its right side first, arguments go from left to right.
Operands(f) ==
  LET n == f.node IN
  CASE f.fn = "ir_return_s" -> <<Value(n.node)>>
    [] f.fn = "ir_lvalue" /\ n.kind = "AST_UNARY" -> <<Value(n.node)>>
    [] f.fn = "ir_expr_f" /\ n.kind = "AST_UNARY" ->
         IF n.op \in {"BIT_AND", "INC", "DEC"} THEN <<Place(n.node)>> ELSE <<Value(n.node)>>
    [] f.fn = "ir_expr_f" /\ n.kind = "AST_BINARY" ->
         IF n.op = "ASSIGN" THEN <<Value(n.right), Place(n.left)>>
                            ELSE <<Value(n.left), Value(n.right)>>
    [] f.fn = "ir_expr_f" /\ n.kind = "AST_FUNCTION_CALL" ->
         [i \in 1 .. Len(n.args) |-> Value(n.args[i])]
    [] OTHER -> <<>>

Rejected_ButAnyUnaryIsLvalue(f) ==
  LET n == f.node IN
  \/ /\ f.fn = "ir_expr_f"
     /\ \/ n.kind = "IDENTIFIER" /\ Unusable(n.value)
        \/ n.kind = "OTHER"
        \/ n.kind = "AST_UNARY" /\ n.op \notin {"BIT_AND", "MUL", "SUB", "NOT", "INC", "DEC"}
        \/ n.kind = "AST_BINARY" /\ n.op # "ASSIGN" /\ binop_to_irop(n.op) = Unmapped
  \/ /\ f.fn = "ir_lvalue"
     /\ ~ (n.kind = "IDENTIFIER" /\ ~ Unusable(n.value))
     /\ n.kind # "AST_UNARY"
  \/ f.fn \in {"ir_lable_s", "ir_goto_s"} /\ n.name \notin DOMAIN lable_tab
Rejected_ButNotUnhandledAtoms(f) ==
  LET n == f.node IN
  \/ f.fn = "ir_expr_f" /\ n.kind = "IDENTIFIER" /\ Unusable(n.value)
  \/ /\ f.fn = "ir_lvalue"
     /\ ~ (n.kind = "IDENTIFIER" /\ ~ Unusable(n.value))
     /\ ~ (n.kind = "AST_UNARY" /\ n.op = "MUL")
  \/ f.fn \in {"ir_lable_s", "ir_goto_s"} /\ n.name \notin DOMAIN lable_tab

\* The conditions under which the handler of f calls ir_fatal at once.
Rejected(f) ==
  LET n == f.node IN
  \/ /\ f.fn = "ir_expr_f"
     /\ \/ n.kind = "IDENTIFIER" /\ Unusable(n.value)
        \/ n.kind = "OTHER"
        \/ n.kind = "AST_UNARY" /\ n.op \notin {"BIT_AND", "MUL", "SUB", "NOT", "INC", "DEC"}
        \/ n.kind = "AST_BINARY" /\ n.op # "ASSIGN" /\ binop_to_irop(n.op) = Unmapped
  \/ /\ f.fn = "ir_lvalue"
     /\ ~ (n.kind = "IDENTIFIER" /\ ~ Unusable(n.value))
     /\ ~ (n.kind = "AST_UNARY" /\ n.op = "MUL")
  \/ f.fn \in {"ir_lable_s", "ir_goto_s"} /\ n.name \notin DOMAIN lable_tab

Got(i) == Top.got[i].temp

Fatal ==
  /\ status = "running" /\ stack # <<>>
  /\ Rejected(Top)
  /\ status' = "fatal"
  /\ UNCHANGED <<program, curr, module, stack, code, temp_c, lable_c, lable_tab>>

EvaluateOperand ==
  /\ InCall("ir_expr_f") \/ InCall("ir_lvalue") \/ InCall("ir_return_s")
  /\ ~ Rejected(Top)
  /\ Len(Top.got) < Len(Operands(Top))
  /\ Call(Operands(Top)[Len(Top.got) + 1])
  /\ UNCHANGED <<program, curr, module, code, temp_c, lable_c, lable_tab, status>>

\* All calls of the handler have returned and it can emit its own nodes.
Ready(fn, kind) ==
  /\ InCall(fn) /\ Top.node.kind = kind
  /\ ~ Rejected(Top)
  /\ Len(Top.got) = Len(Operands(Top))
ReadyUnary(ops) == Ready("ir_expr_f", "AST_UNARY") /\ Top.node.op \in ops

\* Emit nodes that use up n temporaries, and return r.
Yield(nodes, n, r) ==
  /\ code' = nodes
  /\ temp_c' = temp_c + n
  /\ Return(r)
  /\ UNCHANGED <<program, curr, module, lable_c, lable_tab, status>>

Literal ==
  \E k \in {"INT", "STRING"} :
    /\ Ready("ir_expr_f", k)
    /\ Yield(Emit1(Imm(IF k = "INT" THEN "OP_CONST" ELSE "OP_DATA", temp_c + 1,
                       Top.node.int_lit)),
             1, Temp(temp_c + 1))

LvalueOfName(name) ==
  LET var == lookup_symbol(name) IN
    IF var.kind = "GLOBAL_VAR" THEN GlobalLv(name) ELSE LocalLv(var.temp_dest)

LoadVariable ==
  /\ Ready("ir_expr_f", "IDENTIFIER")
  /\ Yield(Emit1(ir_load_lvalue(LvalueOfName(Top.node.value), temp_c + 1)),
           1, Temp(temp_c + 1))

AddressOf ==
  /\ ReadyUnary({"BIT_AND"})
  /\ Yield(Emit1(ir_addr_of_lvalue(Top.got[1], temp_c + 1)), 1, Temp(temp_c + 1))

DerefOrNegate ==
  /\ ReadyUnary({"MUL", "SUB"})
  /\ Yield(Emit1(Node(IF Top.node.op = "MUL" THEN "OP_LOAD" ELSE "OP_NEG", temp_c + 1,
                      <<Got(1)>>)),
           1, Temp(temp_c + 1))

Not ==
  /\ ReadyUnary({"NOT"})
  /\ Yield(Emit2(Imm("OP_CONST", temp_c + 1, 0),
                 Node("OP_EQ", temp_c + 2, <<Got(1), temp_c + 1>>)),
           2, Temp(temp_c + 2))

\* The lvalue was computed once and is both loaded and stored.
IncDec ==
  /\ ReadyUnary({"INC", "DEC"})
  /\ Yield(Emit4(ir_load_lvalue(Top.got[1], temp_c + 1),
                 Imm("OP_CONST", temp_c + 2, 1),
                 Node(IF Top.node.op = "INC" THEN "OP_ADD" ELSE "OP_SUB", temp_c + 3,
                      <<temp_c + 1, temp_c + 2>>),
                 ir_store_lvalue(temp_c + 3, Top.got[1])),
           3, Temp(temp_c + 3))

Assign ==
  /\ Ready("ir_expr_f", "AST_BINARY") /\ Top.node.op = "ASSIGN"
  /\ Yield(Emit1(ir_store_lvalue(Got(1), Top.got[2])), 0, Top.got[1])

BinaryOp ==
  /\ Ready("ir_expr_f", "AST_BINARY") /\ Top.node.op # "ASSIGN"
  /\ Yield(Emit1(Node(binop_to_irop(Top.node.op), temp_c + 1, <<Got(1), Got(2)>>)),
           1, Temp(temp_c + 1))

EmitCall ==
  /\ Ready("ir_expr_f", "AST_FUNCTION_CALL")
  /\ Yield(Emit1(Named("IR_CALL", temp_c + 1, [i \in DOMAIN Top.got |-> Got(i)],
                       Top.node.name)),
           1, Temp(temp_c + 1))

LvalueName ==
  /\ Ready("ir_lvalue", "IDENTIFIER")
  /\ Yield(code, 0, LvalueOfName(Top.node.value))

LvalueDeref ==
  /\ Ready("ir_lvalue", "AST_UNARY")
  /\ Yield(code, 0, LocalLv(Got(1)))

-----------------------------------------------------------------------------
(* Statements                                                               *)

ScopeStatement ==
  /\ InCall("ir_scope")
  /\ Len(Top.got) < Len(Top.node.body)
  /\ Call(ir_statements(Top.node.body[Len(Top.got) + 1]))
  /\ UNCHANGED <<program, curr, module, code, temp_c, lable_c, lable_tab, status>>

EndScope ==
  /\ InCall("ir_scope")
  /\ Len(Top.got) = Len(Top.node.body)
  /\ Yield(code, 0, NoTemp)

\* Storage for an auto: always one OP_ALLOC, whatever the size declared.
ir_auto_s ==
  /\ InCall("ir_auto_s")
  /\ code' = Emit1(Node("OP_ALLOC", temp_c + 1, <<>>))
  /\ temp_c' = temp_c + 1
  /\ LET name == Top.node.name  caller == Len(stack) - 1  holder == Innermost(name) IN
       stack' = [k \in 1 .. caller |->
                   [stack[k] EXCEPT
                      !.got = IF k = caller THEN Append(@, NoTemp) ELSE @,
                      !.symtab = IF k = holder
                                   THEN [@ EXCEPT ![name].temp_dest = temp_c + 1] ELSE @]]
  /\ UNCHANGED <<program, curr, module, lable_c, lable_tab, status>>

ir_extrn_s ==
  /\ InCall("ir_extrn_s")
  /\ module' = Append(module, ModuleNode("IR_EXTRN", Top.node.name, 0, <<>>))
  /\ Return(NoTemp)
  /\ UNCHANGED <<program, curr, code, temp_c, lable_c, lable_tab, status>>

ir_return_s ==
  /\ InCall("ir_return_s") /\ Len(Top.got) = 1
  /\ Yield(Emit1(Node("IR_RETURN", 0, <<Got(1)>>)), 0, NoTemp)

LableOrGoto_ButIdNotKept ==
  /\ InCall("ir_lable_s") \/ InCall("ir_goto_s")
  /\ ~ Rejected(Top)
  /\ lable_c' = lable_c + 1
  /\ code' = Emit1(IF Top.fn = "ir_lable_s" THEN Label(lable_c + 1) ELSE Jump(lable_c + 1))
  /\ Return(NoTemp)
  /\ UNCHANGED <<program, curr, module, temp_c, lable_tab, status>>

\* ir_lable_s and ir_goto_s: whichever meets the name first gives it its id.
LableOrGoto ==
  /\ InCall("ir_lable_s") \/ InCall("ir_goto_s")
  /\ ~ Rejected(Top)
  /\ LET name == Top.node.name
         first == lable_tab[name] = 0
         id == IF first THEN lable_c + 1 ELSE lable_tab[name] IN
       /\ lable_tab' = [lable_tab EXCEPT ![name] = id]
       /\ lable_c' = IF first THEN lable_c + 1 ELSE lable_c
       /\ code' = Emit1(IF Top.fn = "ir_lable_s" THEN Label(id) ELSE Jump(id))
  /\ Return(NoTemp)
  /\ UNCHANGED <<program, curr, module, temp_c, status>>

\* ir_if_s reserves the end label, generates the chain, places the label.
IfBegin ==
  /\ InCall("ir_if_s") /\ Top.lab = 0
  /\ lable_c' = lable_c + 1
  /\ CallFrom(lable_c + 1, Frame("ir_if_chain_s", Top.node, lable_c + 1))
  /\ UNCHANGED <<program, curr, module, code, temp_c, lable_tab, status>>

IfEnd ==
  /\ InCall("ir_if_s") /\ Len(Top.got) = 1
  /\ Yield(Emit1(Label(Top.lab)), 0, NoTemp)

InChain(kinds) == InCall("ir_if_chain_s") /\ Top.node.kind \in kinds

ChainCondition_ButOneId ==
  /\ InChain({"AST_IF", "AST_ELSE_IF"}) /\ Top.lab = 0
  /\ lable_c' = lable_c + 1
  /\ CallFrom(lable_c + 1, Value(Top.node.Condition))
  /\ UNCHANGED <<program, curr, module, code, temp_c, lable_tab, status>>

\* ir_if_chain_s: lab is then_label, lab + 1 is next_label.
ChainCondition ==
  /\ InChain({"AST_IF", "AST_ELSE_IF"}) /\ Top.lab = 0
  /\ lable_c' = lable_c + 2
  /\ CallFrom(lable_c + 1, Value(Top.node.Condition))
  /\ UNCHANGED <<program, curr, module, code, temp_c, lable_tab, status>>

ChainThen ==
  /\ InChain({"AST_IF", "AST_ELSE_IF"}) /\ Len(Top.got) = 1
  /\ code' = Emit2(Branch(Got(1), Top.lab, Top.lab + 1), Label(Top.lab))
  /\ Call(Frame("ir_scope", Top.node.body, 0))
  /\ UNCHANGED <<program, curr, module, temp_c, lable_c, lable_tab, status>>

ChainNext ==
  /\ InChain({"AST_IF", "AST_ELSE_IF"}) /\ Len(Top.got) = 2
  /\ code' = Emit2(Jump(Top.end), Label(Top.lab + 1))
  /\ IF Top.node.chain = NULL THEN Return(NoTemp)
     ELSE Call(Frame("ir_if_chain_s", Top.node.chain, Top.end))
  /\ UNCHANGED <<program, curr, module, temp_c, lable_c, lable_tab, status>>

ChainElse ==
  /\ InChain({"AST_ELSE"}) /\ Top.got = <<>>
  /\ Call(Frame("ir_scope", Top.node, 0))
  /\ UNCHANGED <<program, curr, module, code, temp_c, lable_c, lable_tab, status>>

ChainEnd ==
  /\ \/ InChain({"AST_IF", "AST_ELSE_IF"}) /\ Len(Top.got) = 3
     \/ InChain({"AST_ELSE"}) /\ Len(Top.got) = 1
  /\ Yield(code, 0, NoTemp)

\* ir_while_s: lab, lab + 1, lab + 2 are the cond, body and exit labels.
WhileCondition ==
  /\ InCall("ir_while_s") /\ Top.lab = 0
  /\ lable_c' = lable_c + 3
  /\ code' = Emit1(Label(lable_c + 1))
  /\ CallFrom(lable_c + 1, Value(Top.node.Condition))
  /\ UNCHANGED <<program, curr, module, temp_c, lable_tab, status>>

WhileBody ==
  /\ InCall("ir_while_s") /\ Len(Top.got) = 1
  /\ code' = Emit2(Branch(Got(1), Top.lab + 1, Top.lab + 2), Label(Top.lab + 1))
  /\ Call(Frame("ir_scope", Top.node.body, 0))
  /\ UNCHANGED <<program, curr, module, temp_c, lable_c, lable_tab, status>>

WhileEnd ==
  /\ InCall("ir_while_s") /\ Len(Top.got) = 2
  /\ Yield(Emit2(Jump(Top.lab), Label(Top.lab + 2)), 0, NoTemp)

-----------------------------------------------------------------------------
ModuleStep == GenDeclaration \/ BeginFunction \/ GenDone
FunctionStep == SpillParam \/ FunctionBody \/ EndFunction
ExprStep ==
  \/ Fatal \/ EvaluateOperand \/ Literal \/ LoadVariable \/ AddressOf \/ DerefOrNegate
  \/ Not \/ IncDec \/ Assign \/ BinaryOp \/ EmitCall \/ LvalueName \/ LvalueDeref
StatementStep ==
  \/ ScopeStatement \/ EndScope \/ ir_auto_s \/ ir_extrn_s \/ ir_return_s \/ LableOrGoto
  \/ IfBegin \/ IfEnd \/ ChainCondition \/ ChainThen \/ ChainNext \/ ChainElse \/ ChainEnd
  \/ WhileCondition \/ WhileBody \/ WhileEnd

Next == ModuleStep \/ FunctionStep \/ ExprStep \/ StatementStep

Spec == Init /\ [][Next]_vars
\* The generator is a loop of a single thread that never waits.
FairSpec == Spec /\ WF_vars(Next)

-----------------------------------------------------------------------------
(* Types                                                                    *)

Irop ==
  {"OP_NEG", "OP_ADD", "OP_SUB", "OP_DIV", "OP_MUL", "OP_MOD", "OP_AND", "OP_OR",
   "OP_SHL", "OP_SHR", "OP_EQ", "OP_NE", "OP_GE", "OP_GT", "OP_LE", "OP_LT",
   "OP_ALLOC", "OP_ADDRESS", "OP_LOAD", "OP_STORE", "OP_CONST", "OP_DATA",
   "OP_GLOBAL_L", "OP_GLOBAL_S", "OP_GLOBAL_ADDR",
   "IR_LABEL", "IR_JUMP", "IR_BRANCH", "IR_CALL", "IR_RETURN"}
NodeSet ==
  [op : Irop, dest : Nat, use : Seq(Nat), name : Name \cup {""}, id : Nat, id_f : Nat]
ModuleNodeSet ==
  [kind : {"IR_FUNCTION", "IR_GLOBAL", "IR_EXTRN"}, name : Name, size : Nat,
   nodes : Seq(NodeSet)]
ResultSet ==
  [kind : {"TEMP", "LV_LOCAL", "LV_GLOBAL"}, temp : Nat, name : Name \cup {""}]
VarInfoSet == [kind : {"AUTO_VAR"}, temp_dest : Nat]
IsTable(t, T) == DOMAIN t \subseteq Name /\ t \in [DOMAIN t -> T]

\* The sort of node each C function is called with.
Accepts(fn, n) ==
  \/ fn \in {"ir_expr_f", "ir_lvalue"} /\ n \in Expr
  \/ fn = "ir_function_s" /\ IsFunction(n)
  \/ fn = "ir_scope" /\ n \in Stmt /\ n.kind \in {"AST_SCOPE", "AST_ELSE"}
  \/ fn = "ir_if_chain_s" /\ n \in Stmt /\ n.kind \in {"AST_IF", "AST_ELSE_IF", "AST_ELSE"}
  \/ /\ n \in Stmt /\ n.kind \in DOMAIN HandlerOf \ {"AST_SCOPE"}
     /\ fn = HandlerOf[n.kind]

FrameOk(f) ==
  /\ f \in [fn : {f.fn}, node : {f.node}, got : Seq(ResultSet), lab : Nat, end : Nat,
           symtab : {f.symtab}]
  /\ Accepts(f.fn, f.node)
  /\ IsTable(f.symtab, VarInfoSet)

StackOk ==
  /\ Len(stack) \in Nat /\ DOMAIN stack = 1 .. Len(stack)
  /\ \A k \in 1 .. Len(stack) : FrameOk(stack[k])

\* Every variable keeps its type: counters and label ids are naturals, the
\* code is made of IR nodes, and each activation holds a node its C function
\* accepts, which is what gen_ir relies on when it reads a union member.
TypeOK ==
  /\ program \in Programs
  /\ curr \in 1 .. Len(program) + 1
  /\ module \in Seq(ModuleNodeSet)
  /\ code \in Seq(NodeSet)
  /\ temp_c \in Nat /\ lable_c \in Nat
  /\ IsTable(lable_tab, Nat)
  /\ status \in {"running", "done", "fatal"}
  /\ StackOk

-----------------------------------------------------------------------------
(* Properties                                                               *)

\* The temporaries the nodes of c define, and those a caller fills.
Defined(c, params) == (1 .. params) \cup {c[k].dest : k \in DOMAIN c}

\* The code being generated, and that of the functions already in the module.
Params == Len(program[curr].params)
FunctionsDone == {m \in {module[i] : i \in DOMAIN module} : m.kind = "IR_FUNCTION"}

\* In every function, a temporary a node reads is a parameter or the result of
\* an earlier node: no ir_* function hands back the 0 of a call that produced
\* nothing, the address of an auto without storage, or a temporary left over
\* from another function (temp_c restarts in each ir_function_s).
DefBeforeUse ==
  /\ stack # <<>> => UsesOk(code, Params)
  /\ \A m \in FunctionsDone : UsesOk(m.nodes, m.size)

\* No two nodes of a function write one temporary, so a value computed for an
\* operand is still there when the operator's node reads it, however many
\* nodes the other operands emitted in between.
SingleAssignment ==
  /\ stack # <<>> => UniqueDests(code)
  /\ \A m \in FunctionsDone : UniqueDests(m.nodes)

\* The variables with storage that some open scope of the function declares.
LiveVars ==
  UNION {{<<k, n>> : n \in {m \in DOMAIN stack[k].symtab :
                              stack[k].symtab[m].temp_dest # 0}} : k \in DOMAIN stack}
SlotOf(v) == stack[v[1]].symtab[v[2]].temp_dest

\* Two variables that are alive together, shadowed ones included, have
\* different address temporaries, and each of these holds the address of an
\* OP_ALLOC of its own (directly, or through the parameter loop's OP_ADDRESS).
SlotsExclusive ==
  LET Written(t) == {i \in DOMAIN code : code[i].dest = t}
      AllocOf(t) ==
        LET i == CHOOSE i \in Written(t) : TRUE IN
          IF code[i].op = "OP_ADDRESS" THEN code[i].use[1] ELSE t
      Spilled(v) == Written(SlotOf(v)) # {}
  IN \A v, w \in LiveVars :
       /\ v # w => SlotOf(v) # SlotOf(w)
       /\ Spilled(v) =>
            \E i \in DOMAIN code : /\ code[i].op = "OP_ALLOC"
                                   /\ code[i].dest = AllocOf(SlotOf(v))
       /\ v # w /\ Spilled(v) /\ Spilled(w) => AllocOf(SlotOf(v)) # AllocOf(SlotOf(w))

\* Control never leaves a finished function except by a return: every target
\* of a jump or a branch is a label of this function placed exactly once
\* (reserved labels and those of goto share one counter and never collide),
\* and the last node, which every label precedes, returns.
ControlStaysInside == \A m \in FunctionsDone : Contained(m.nodes)

\* gen_ir ends on every tree, having emitted the module or stopped in ir_fatal.
Terminates == <>(status # "running")

=============================================================================
