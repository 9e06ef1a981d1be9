------------------------------- MODULE BPool -------------------------------
(***************************************************************************)
(* Small programs that cover the language.  In every function p is the      *)
(* parameter, a and b are autos, g is a global and u is declared nowhere.   *)
(***************************************************************************)
EXTENDS BTrees

PoolNames == {"a", "b", "p", "q", "g", "u", "f", "main", "L", "M"}

\* Expressions up to depth two: every unary operator, one binary operator of
\* each sort, calls with two arguments, in a body where a has a slot.
Atoms  == {Var("a"), Var("p"), Var("g"), Var("u"), Num(2), Str(3), Other}
UnOps  == {"BIT_AND", "MUL", "ADD", "SUB", "NOT", "INC", "DEC"}
Small  == {Un(op, x) : op \in UnOps, x \in {Var("a"), Var("g"), Num(2)}}
            \cup {Bin("SUB", Var("p"), Num(2)), Asg(Var("g"), Num(2)),
                  Element(Var("g"), Var("a")), FunCall("f", <<>>)}
Exprs2 ==
  Atoms
    \cup {Un(op, x) : op \in UnOps, x \in Atoms \cup Small}
    \cup {Bin(op, x, y) : op \in {"SUB", "ASSIGN"}, x, y \in Atoms}
    \cup {Bin(op, x, y) : op \in {"LESSER", "ASSIGN"}, x \in Small, y \in {Var("p"), Num(2)}}
    \cup {Bin(op, y, x) : op \in {"LESSER", "ASSIGN"}, x \in Small, y \in {Var("a"), Var("u")}}
    \cup {FunCall("f", <<x, y>>) : x \in Small, y \in {Var("a"), Un("INC", Var("g"))}}
ExprPrograms ==
  {<<Function("f", <<"p">>, <<AutoVar("a"), Do(e)>>), Global("g", 2)>> : e \in Exprs2}

\* Statements: every leaf, and every compound of leaves, two in a row after
\* an auto; then a second function, so that the counters restart.
Leaves ==
  {AutoVar("a"), AutoVar("b"), Do(Asg(Var("a"), Num(2))), Do(Asg(Var("b"), Var("a"))), Extrn("f"),
   Ret(Un("INC", Var("a"))), Goto("L"), Goto("M")}
Bodies  == {<<>>} \cup {<<s>> : s \in Leaves}
Chains  == {NoChain} \cup {Else(b) : b \in Bodies}
             \cup {ElseIf(Var("a"), <<Goto("L")>>, c) : c \in {NoChain, Else(<<Ret(Num(2))>>)}}
Compounds ==
  {Block(b) : b \in Bodies} \cup {While(Var("a"), b) : b \in Bodies}
    \cup {If(Var("p"), b, c) : b \in Bodies, c \in Chains}
    \cup {Block(<<AutoVar("a"), Block(<<AutoVar("b"), s>>), Do(Var("a"))>>) : s \in Leaves}
    \cup {While(Var("a"), <<If(Var("p"), <<s>>, Else(<<AutoVar("a")>>))>>) : s \in Leaves}
Second == Function("main", <<"p", "q">>, <<Lable("M"), Do(FunCall("f", <<Var("q")>>)), Goto("M")>>)
StmtBodies ==
  {<<AutoVar("a"), s, Lable("L"), t>> : s \in Compounds, t \in {Goto("L"), AutoVar("b")}}
    \cup {<<s, t, Lable("L")>> : s \in Leaves, t \in Leaves \cup {Block(<<AutoVar("a"), Extrn("g")>>)}}

\* A goto into a block, before and after an auto of it, from above and below.
Entered ==
  LET use == Do(Asg(Var("b"), Var("a")))
      ins == {<<AutoVar("b"), Lable("L"), use>>, <<Lable("L"), AutoVar("b"), use>>}
  IN UNION {{Block(b), While(Var("a"), b), If(Var("p"), b, NoChain),
             If(Var("p"), <<Goto("L")>>, Else(b))} : b \in ins}
Entries == {Goto("L"), If(Var("a"), <<Goto("L")>>, NoChain)}
EntryBodies ==
  UNION {{<<AutoVar("a"), s, g>>, <<AutoVar("a"), g, s>>} : s \in Entered, g \in Entries}

StmtPrograms ==
  {<<ExtrnTop("f"), Function("f", <<"p">>, b), Second>> : b \in StmtBodies \cup EntryBodies}

Pool == ExprPrograms \cup StmtPrograms
=============================================================================
