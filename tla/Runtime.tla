------------------------------ MODULE Runtime ------------------------------
(***************************************************************************)
(* What the Makefile links a program with: the start-up code and the library *)
(* of src/res, each a file in assembler and one in B.                       *)
(***************************************************************************)
EXTENDS Amd64, BTrees

\* Definitions named X_But... are variants of X with a plausible slip in it,
\* which no specification uses.

Routine(name, text) == [kind |-> "ASM", name |-> name, text |-> text]
Copy(to, from) == Ins("mov", Reg(to), Reg(from))
CallTo(f)      == [Ins("call", NoArg, NoArg) EXCEPT !.d = f]
SystemTrap     == Ins("syscall", NoArg, NoArg)

\* brt.asm
_start == Routine("_start", <<CallTo("__call_main"), CallTo("exit")>>)
exit   == Routine("exit", <<Copy("rdi", "rax"), Ins("mov", Reg("rax"), Const(60)), SystemTrap>>)

\* libb.asm: from the order of a function's arguments to that of a system call,
\* one register at a time.
syscall_ButSeventhFirst ==
  Routine("syscall",
    <<Copy("rax", "rdi"), Copy("rdi", "rsi"), Copy("rsi", "rdx"), Copy("rdx", "rcx"),
      Copy("r10", "r8"), Ins("mov", Reg("r9"), Rsp(8)), Copy("r8", "r9"), SystemTrap,
      Ins("ret", NoArg, NoArg)>>)
syscall ==
  Routine("syscall",
    <<Copy("rax", "rdi"), Copy("rdi", "rsi"), Copy("rsi", "rdx"), Copy("rdx", "rcx"),
      Copy("r10", "r8"), Copy("r8", "r9"), Ins("mov", Reg("r9"), Rsp(8)), SystemTrap,
      Ins("ret", NoArg, NoArg)>>)

\* brt.b and libb.b
__call_main == Function("__call_main", <<>>, <<Extrn("main"), Ret(FunCall("main", <<>>))>>)
char ==
  Function("char", <<"string", "i">>, <<Ret(Un("MUL", Bin("ADD", Var("string"), Var("i"))))>>)
putchar ==
  Function("putchar", <<"char">>,
    <<Do(FunCall("syscall", <<Num(1), Num(1), Un("BIT_AND", Var("char")), Num(1)>>))>>)

InAssembler == <<_start, exit, syscall>>
Libb        == <<Extrn("syscall"), char, putchar>>
\* ld puts the compiled files one after the other.
Linked(p) == p \o Libb \o <<__call_main>>
=============================================================================
