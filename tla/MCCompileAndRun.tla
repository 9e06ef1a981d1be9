-------------------------- MODULE MCCompileAndRun --------------------------
(***************************************************************************)
(* Well-formed programs whose source ends, for CompileAndRun.               *)
(***************************************************************************)
EXTENDS CompileAndRun, BTrees

MCExternal == [none |-> 0, ext6 |-> 6, ext7 |-> 7, ext8 |-> 8, ext9 |-> 9]

MCJunk == -7777

\* "Hi" and "ok*n"
MCLiterals == <<<<72, 105>>, <<111, 107, 10>>>>

a == Var("a")
b == Var("b")
i == Var("i")
g == Var("g")
MainIs(body) == Function("main", <<>>, body)
Out(e)       == Do(FunCall("putchar", <<e>>))
Set(x, e)    == Do(Asg(x, e))

\* Each binary operator on signs, zero and the ends of the word.
BinOps ==
  {"ADD", "SUB", "MUL", "DEV", "MOD", "BIT_AND", "BIT_OR", "BITSHIFT_L", "BITSHIFT_R",
   "EQUAL", "NOT_EQUAL", "GREATER", "GREATER_EQUAL", "LESSER", "LESSER_EQUAL"}
Signed(n) == IF n < 0 THEN Un("SUB", Num(- n)) ELSE Num(n)
Pairs2 == ({-7, 2, 300} \X {-2, 0, 3}) \cup {<<-32768, -1>>}
BinaryPrograms ==
  {<<Global("g", 1),
     MainIs(<<AutoVar("a"), Set(a, Signed(x[1])), Set(g, Signed(x[2])), Ret(Bin(op, a, g))>>)>>
     : op \in BinOps, x \in Pairs2}

\* A callee of n parameters that tells their positions apart, called with
\* calls among its arguments, and an external function of n arguments.
Params8 == <<"p1", "p2", "p3", "p4", "p5", "p6", "p7", "p8", "p9">>
Horner[n \in 0 .. 9] ==
  IF n = 0 THEN Num(0) ELSE Bin("ADD", Var(Params8[n]), Bin("MUL", Num(2), Horner[n - 1]))
ArgsUpTo(n) == [k \in 1 .. n |-> IF k = 2 THEN FunCall("one", <<Num(k)>>) ELSE Num(k)]
ExternOf == <<"putchar", "none", "none", "none", "none", "ext6", "ext7", "ext8", "ext9">>
CallPrograms ==
  {<<Function("f", SubSeq(Params8, 1, n), <<AutoVar("b"), Set(b, Num(1)), Ret(Horner[n])>>),
     Function("one", <<"p1">>, <<Ret(Bin("ADD", Var("p1"), Num(10)))>>),
     MainIs(<<AutoVar("a"), Set(a, FunCall("f", ArgsUpTo(n))),
              Do(FunCall(ExternOf[IF n = 0 THEN 2 ELSE n], ArgsUpTo(n))),
              Ret(Bin("ADD", a, FunCall("f", ArgsUpTo(n))))>>)>> : n \in {0, 1, 6, 7, 8, 9}}

\* while (i < n) { ...; ++i; } counts as `upto'.
UpTo(n, body) == While(Bin("LESSER", i, Num(n)), body \o <<Do(Un("INC", i))>>)

Factorial ==
  <<Function("fact", <<"n">>,
      <<If(Bin("LESSER", Var("n"), Num(2)), <<Ret(Num(1))>>, NoChain),
        Ret(Bin("MUL", Var("n"), FunCall("fact", <<Bin("SUB", Var("n"), Num(1))>>)))>>),
    MainIs(<<Ret(FunCall("fact", <<Num(4)>>))>>)>>
\* examples/chain_if.b and if.b: each arm of a chain, and none of them.
Chain ==
  <<Function("f", <<"n">>,
      <<If(Bin("EQUAL", Var("n"), Num(0)), <<Ret(Num(40))>>,
           ElseIf(Bin("EQUAL", Var("n"), Num(1)), <<Out(Num(1))>>,
             ElseIf(Bin("EQUAL", Var("n"), Num(2)), <<>>, Else(<<Do(Un("DEC", Var("n")))>>)))),
        Out(Var("n"))>>),
    MainIs(<<AutoVar("i"), Set(i, Num(0)), UpTo(4, <<Out(FunCall("f", <<i>>))>>),
             Do(Un("NOT", i)), Ret(Un("NOT", Un("NOT", i)))>>)>>
\* examples/goto.b: a loop of gotos, left from inside an if.
GotoLoop ==
  <<MainIs(<<AutoVar("a"), Set(a, Num(0)), Lable("loop"),
             If(Bin("GREATER_EQUAL", a, Num(3)), <<Goto("end_loop")>>, NoChain),
             Set(a, Bin("ADD", a, Num(1))), Goto("loop"), Lable("end_loop"), Ret(a)>>)>>
\* examples/array.b in small: a global array sorted through computed addresses.
BubbleSort ==
  LET at(k) == Element(Var("num"), k)  j == Var("j") IN
  <<Global("num", 3),
    MainIs(<<AutoVar("i"), AutoVar("j"), AutoVar("temp"),
      Set(at(Num(0)), Num(3)), Set(at(Num(1)), Num(1)), Set(at(Num(2)), Num(2)), Set(i, Num(0)),
      UpTo(2, <<Set(j, Bin("ADD", i, Num(1))),
                While(Bin("LESSER", j, Num(3)),
                  <<If(Bin("GREATER", at(i), at(j)),
                       <<Set(Var("temp"), at(i)), Set(at(i), at(j)), Set(at(j), Var("temp"))>>,
                       NoChain),
                    Do(Un("INC", j))>>)>>)>>)>>
\* examples/passbyref.b and scopes.b: addresses handed to a callee, names
\* hidden by an inner block and visible again after it, inner storage reused.
ByReference ==
  <<Global("g", 2),
    Function("swap", <<"x", "y">>,
      <<AutoVar("t"), Set(Var("t"), Un("MUL", Var("x"))),
        Set(Un("MUL", Var("x")), Un("MUL", Var("y"))), Set(Un("MUL", Var("y")), Var("t"))>>),
    MainIs(<<AutoVar("a"), Set(a, Num(5)), Set(g, Num(9)),
             Do(FunCall("swap", <<Un("BIT_AND", a), Un("BIT_AND", g)>>)),
             Out(a), Do(Un("DEC", g)), Do(Un("INC", Un("MUL", Un("BIT_AND", a)))),
             Set(Element(g, Num(1)), Un("INC", a)), Ret(Bin("SUB", a, g))>>)>>
Scopes ==
  <<Function("f", <<"a">>,
      <<Set(a, Bin("ADD", a, Num(1))),
        Block(<<AutoVar("a"), AutoVar("b"), Set(a, Num(70)), Set(b, a),
                Block(<<AutoVar("a"), Set(a, b), Do(Un("DEC", a)), Out(a)>>), Out(a)>>),
        Block(<<AutoVar("b"), Set(b, a), Out(b)>>), Ret(a)>>),
    MainIs(<<AutoVar("i"), Set(i, Num(0)),
             UpTo(2, <<AutoVar("b"), Set(b, Bin("MUL", i, Num(3))), Out(b)>>),
             Do(Asg(i, FunCall("f", <<i>>))), Do(FunCall("none", <<>>)), Ret(i)>>)>>
\* A parameter's own slot: assigned, incremented, its address taken; and the
\* return from inside nested loops.
ParamSlots ==
  <<Function("f", Params8,
      <<While(Num(1), <<While(Num(1),
          <<Do(Un("INC", Var("p8"))),
            If(Bin("GREATER", Var("p8"), Num(9)), <<Goto("out")>>, NoChain),
            Set(Un("MUL", Un("BIT_AND", Var("p1"))), Var("p9"))>>)>>),
        Lable("out"), Out(Var("p1")), Ret(Bin("ADD", Var("p8"), Var("p9")))>>),
    MainIs(<<Do(FunCall("ext7", [k \in 1 .. 7 |-> FunCall("f", [m \in 1 .. 9 |-> Num(m)])])),
             Ret(FunCall("f", [m \in 1 .. 9 |-> Num(m)]))>>)>>

\* examples/hello_world.b on the last string, another string written by a direct
\* system call, and the seven arguments of another one.
Hello ==
  <<Function("puts", <<"str">>,
      <<Extrn("putchar"), Extrn("char"), AutoVar("i"), AutoVar("c"), Set(i, Num(0)),
        While(Asg(Var("c"), FunCall("char", <<Var("str"), i>>)),
              <<Out(Var("c")), Do(Un("INC", i))>>)>>),
    MainIs(<<Do(FunCall("syscall", <<Num(1), Num(1), Str(1), Num(2)>>)),
             Do(FunCall("puts", <<Str(2)>>)),
             Ret(FunCall("syscall", [k \in 1 .. 7 |-> Num(8 + k)]))>>)>>

Curated ==
  {Factorial, Chain, GotoLoop, BubbleSort, ByReference, Scopes, ParamSlots, Hello}

Pool      == {Cpu!Linked(p) : p \in BinaryPrograms \cup CallPrograms \cup Curated}
\* A character of a literal, as the exit status.
MCCharacters ==
  {Cpu!Linked(<<MainIs(<<Ret(FunCall("char", <<Str(1), Num(k)>>))>>)>>) : k \in 0 .. 1}
PoolExprs == ExprsIn(Pool \cup MCCharacters)
PoolStmts == StmtsIn(Pool \cup MCCharacters)
Variables ==
  {e.value : e \in {x \in PoolExprs : x.kind = "IDENTIFIER"}}
PoolNames ==
  {s.name : s \in {t \in PoolStmts : t.kind \in {"AST_AUTO", "AST_EXTRN", "AST_LABLE", "AST_GOTO"}}}
    \cup {e.name : e \in {x \in PoolExprs : x.kind = "AST_FUNCTION_CALL"}}
    \cup Variables \cup Range(Params8) \cup {"main", "__call_main", "str"}
MCPrograms == Pool
MCExpr     == PoolExprs
MCStmt     == PoolStmts
MCName     == PoolNames

\* "The i-th character of the string is returned" (libb.md): the program above
\* exits with it.
CharIsCharacter == power = "halted" => regs.rdi = Source!Meaning(Own(program)).value
=============================================================================
