----------------------------- MODULE BLanguage -----------------------------
(***************************************************************************)
(* What a B program means: an interpreter of the syntax trees that knows    *)
(* neither temporaries, labels, registers nor frames.  It fixes the order   *)
(* of evaluation the language leaves open as the compiler does: arguments   *)
(* and operands from the left, the right side of an assignment first.       *)
(*                                                                         *)
(* A store s is [mem, top, log, trap]: words by address, the next free      *)
(* address, the external calls made, and whether a division trapped, after  *)
(* which no call counts.  An environment maps names to addresses.           *)
(* A goto may leave blocks; the programs it is used on never jump into one. *)
(***************************************************************************)
EXTENDS BTrees, Words

CONSTANT Literals   \* the string literals, sequences of bytes

FirstAuto == 5000
StringAt(n)  == 20000 + 256 * n
CellOf(i, w) == 8 * (16 * i + w)   \* a global has at most 16 words

Result(v, s)    == [v |-> v, s |-> s]
Read(s, a)      == IF a \in DOMAIN s.mem THEN s.mem[a] ELSE 0
Write(s, a, v)  == [s EXCEPT !.mem = [x \in DOMAIN @ \cup {a} |-> IF x = a THEN v ELSE @[x]]]
NewCell(s, v)   == [Write(s, s.top, v) EXCEPT !.top = @ + 8]

Apply(op, a, b) ==
  CASE op = "ADD" -> Wrap(a + b)            [] op = "SUB" -> Wrap(a - b)
    [] op = "MUL" -> Wrap(a * b)            [] op = "DEV" -> Quot(a, b)
    [] op = "MOD" -> Rem(a, b)              [] op = "BIT_AND" -> BitAnd(a, b)
    [] op = "BIT_OR" -> BitOr(a, b)         [] op = "BITSHIFT_L" -> Shl(a, b)
    [] op = "BITSHIFT_R" -> Sar(a, b)       [] op = "EQUAL" -> Bool(a = b)
    [] op = "NOT_EQUAL" -> Bool(a # b)      [] op = "GREATER" -> Bool(a > b)
    [] op = "GREATER_EQUAL" -> Bool(a >= b) [] op = "LESSER" -> Bool(a < b)
    [] op = "LESSER_EQUAL" -> Bool(a <= b)

FunctionNamed(p, f) ==
  {p[i] : i \in {j \in DOMAIN p : p[j].kind = "AST_FUNCTION" /\ p[j].name = f}}
GlobalEnv(p) ==
  [x \in GlobalsOf(p) |-> CellOf(CHOOSE i \in DOMAIN p : p[i].kind = "AST_GLOBAL" /\ p[i].name = x, 0)]
Bind(env, x, a) == [y \in DOMAIN env \cup {x} |-> IF y = x THEN a ELSE env[y]]

-----------------------------------------------------------------------------
\* The i-th byte of the string at a, which ends with a zero.
CharOf(a, i) ==
  LET n == (a - 20000) \div 256  k == a - StringAt(n) + i + 1 IN
    IF k = Len(Literals[n]) + 1 THEN 0 ELSE Literals[n][k]

Logs(v, entry, s) == Result(v, IF s.trap THEN s ELSE [s EXCEPT !.log = Append(@, entry)])
\* The library as res/libb.md has it; syscall is write or a call of seven
\* arguments; any other external function logs its arguments and returns the
\* first.
Library(f, vals, s) ==
  CASE f = "char" -> Result(CharOf(vals[1], vals[2]), s)
    [] f = "putchar" -> Logs(0, <<"write", <<vals[1] % 256>>>>, s)
    [] f = "syscall" /\ vals[1] = 1 ->
         Logs(vals[4], <<"write", [k \in 1 .. vals[4] |-> CharOf(vals[3], k - 1)]>>, s)
    [] OTHER -> Logs(IF vals = <<>> THEN 0 ELSE vals[1], <<f, vals>>, s)

RECURSIVE Eval(_, _, _, _), Place(_, _, _, _), EvalArgs(_, _, _, _, _)
RECURSIVE Call(_, _, _, _), Exec(_, _, _, _), ExecFrom(_, _, _, _, _)

\* The address of an lvalue.
Place(p, e, env, s) ==
  IF e.kind = "IDENTIFIER" THEN Result(env[e.value], s) ELSE Eval(p, e.node, env, s)

Eval(p, e, env, s) ==
  CASE e.kind = "INT" -> Result(Wrap(e.int_lit), s)
    [] e.kind = "STRING" -> Result(StringAt(e.int_lit), s)
    [] e.kind = "IDENTIFIER" -> Result(Read(s, env[e.value]), s)
    [] e.kind = "AST_FUNCTION_CALL" -> EvalArgs(p, e, <<>>, env, s)
    [] e.kind = "AST_BINARY" /\ e.op = "ASSIGN" ->
         LET r == Eval(p, e.right, env, s)  l == Place(p, e.left, env, r.s) IN
           Result(r.v, Write(l.s, l.v, r.v))
    [] e.kind = "AST_BINARY" /\ e.op # "ASSIGN" ->
         LET l == Eval(p, e.left, env, s)  r == Eval(p, e.right, env, l.s) IN
           IF e.op \in {"DEV", "MOD"} /\ ~ Divides(l.v, r.v)
             THEN Result(0, [r.s EXCEPT !.trap = TRUE])
             ELSE Result(Apply(e.op, l.v, r.v), r.s)
    [] e.kind = "AST_UNARY" /\ e.op = "BIT_AND" -> Place(p, e.node, env, s)
    [] e.kind = "AST_UNARY" /\ e.op \in {"INC", "DEC"} ->
         LET l == Place(p, e.node, env, s)
             v == Wrap(Read(l.s, l.v) + (IF e.op = "INC" THEN 1 ELSE -1))
         IN Result(v, Write(l.s, l.v, v))
    [] e.kind = "AST_UNARY" /\ e.op \in {"MUL", "SUB", "NOT"} ->
         LET x == Eval(p, e.node, env, s) IN
           Result(CASE e.op = "MUL" -> Read(x.s, x.v)
                    [] e.op = "SUB" -> Wrap(- x.v)
                    [] e.op = "NOT" -> Bool(x.v = 0), x.s)

EvalArgs(p, e, vals, env, s) ==
  IF Len(vals) = Len(e.args) THEN Call(p, e.name, vals, s)
  ELSE LET a == Eval(p, e.args[Len(vals) + 1], env, s) IN
         EvalArgs(p, e, Append(vals, a.v), env, a.s)

Call(p, f, vals, s) ==
  IF FunctionNamed(p, f) = {} THEN Library(f, vals, s)
  ELSE LET d == CHOOSE d \in FunctionNamed(p, f) : TRUE
           cell(i) == s.top + 8 * (i - 1)
           env == [x \in GlobalsOf(p) \cup Range(d.params) |->
                     IF x \in Range(d.params)
                       THEN cell(CHOOSE i \in DOMAIN d.params : d.params[i] = x)
                       ELSE GlobalEnv(p)[x]]
           new == {cell(i) : i \in DOMAIN d.params}
           given == [s EXCEPT
                       !.mem = [a \in DOMAIN @ \cup new |->
                                  IF a \in new THEN vals[(a - s.top) \div 8 + 1] ELSE @[a]],
                       !.top = @ + 8 * Len(d.params)]
           out == Exec(p, d.body, env, given)
       IN Result(IF out.how = "return" THEN out.v ELSE 0, out.s)

-----------------------------------------------------------------------------
\* How a statement ends: "next", "return" with a value, or "goto" a label.
Ends(how, v, s) == [how |-> how, v |-> v, s |-> s, lable |-> ""]

Exec(p, c, env, s) ==
  CASE c.kind \in {"AST_SCOPE", "AST_ELSE"} -> ExecFrom(p, c.body, 1, env, s)
    [] c.kind = "AST_EXPR" -> Ends("next", 0, Eval(p, c.node, env, s).s)
    [] c.kind = "AST_RETURN" ->
         LET r == Eval(p, c.node, env, s) IN Ends("return", r.v, r.s)
    [] c.kind = "AST_GOTO" -> [Ends("goto", 0, s) EXCEPT !.lable = c.name]
    [] c.kind \in {"AST_IF", "AST_ELSE_IF"} ->
         LET b == Eval(p, c.Condition, env, s) IN
           IF b.v # 0 THEN Exec(p, c.body, env, b.s)
           ELSE IF c.chain = NoChain THEN Ends("next", 0, b.s)
           ELSE Exec(p, c.chain, env, b.s)
    [] c.kind = "AST_WHILE" ->
         LET b == Eval(p, c.Condition, env, s) IN
           IF b.v = 0 THEN Ends("next", 0, b.s)
           ELSE LET r == Exec(p, c.body, env, b.s) IN
                  IF r.how = "next" THEN Exec(p, c, env, r.s) ELSE r
    [] c.kind \in {"AST_LABLE", "AST_EXTRN"} -> Ends("next", 0, s)

ExecFrom(p, body, i, env, s) ==
  IF i > Len(body) THEN Ends("next", 0, s)
  ELSE IF body[i].kind = "AST_AUTO"
    THEN ExecFrom(p, body, i + 1, Bind(env, body[i].name, s.top), NewCell(s, 0))
  ELSE LET r == Exec(p, body[i], env, s)
           here == {j \in DOMAIN body : body[j] = Lable(r.lable)}
       IN CASE r.how = "next" -> ExecFrom(p, body, i + 1, env, r.s)
            [] r.how = "goto" /\ here # {} ->
                 ExecFrom(p, body, CHOOSE j \in here : TRUE, env, r.s)
            [] OTHER -> r

\* The run of main: what it returns, the external calls, whether it trapped,
\* the final globals.
Meaning(p) ==
  LET globals == {i \in DOMAIN p : p[i].kind = "AST_GLOBAL"}
      nothing == [mem |-> [a \in {} |-> 0], top |-> FirstAuto, log |-> <<>>, trap |-> FALSE]
      r == Call(p, "main", <<>>, nothing)
  IN [value |-> r.v, log |-> r.s.log, trap |-> r.s.trap,
      globals |-> [i \in globals |-> [w \in 1 .. p[i].size |-> Read(r.s, CellOf(i, w - 1))]]]
=============================================================================
