------------------------------- MODULE Amd64 -------------------------------
(***************************************************************************)
(* The assembly back end, src/amd64.c, as operators: the instructions that  *)
(* asm_op, asm_call and asm_function print for the nodes of a function.     *)
(*                                                                         *)
(* A function of the module is a record whose `nodes' are IR nodes and      *)
(* whose `size' is its number of parameters, as IrGen builds it.  Its text  *)
(* is kept node by node: AsmNode(fn, k) is what the loop of asm_function    *)
(* prints for the k-th node, and AsmNode(fn, 0) is the prologue.            *)
(***************************************************************************)
EXTENDS Integers, Sequences, FiniteSets

\* Definitions named X_But... are variants of X with a plausible slip in it,
\* which no specification uses.

N_ARG_REGS == 6
ARG_REGS   == <<"rdi", "rsi", "rdx", "rcx", "r8", "r9">>

\* Operands: a register, [rbp + off], [rsp + off], [reg], an immediate, and the
\* two sorts of symbols, var_x and __ro_data_n.
Reg(r)    == [at |-> "reg", r |-> r]
Rbp(off)  == [at |-> "rbp", off |-> off]
Rsp(off)  == [at |-> "rsp", off |-> off]
At(r)     == [at |-> "mem", r |-> r]
Const(n)  == [at |-> "imm", n |-> n]
VarOf(x)  == [at |-> "var", x |-> x]
RoData(i) == [at |-> "data", n |-> i]
NoArg     == [at |-> "none"]

Ins(mn, d, s) == [mn |-> mn, d |-> d, s |-> s]

\* The home of temporary t, and the two helpers that move it.
Slot(t)    == Rbp(- 8 * t)
ld(r, t)   == Ins("mov", Reg(r), Slot(t))
st(t, r)   == Ins("mov", Slot(t), Reg(r))

-----------------------------------------------------------------------------
(* The frame of a function                                                  *)

Params(fn)   == fn.size
IsAlloc(n)   == n.op = "OP_ALLOC"
Writes(n)    == n.op \notin {"IR_LABEL", "IR_JUMP", "IR_BRANCH", "IR_RETURN"}
MaxOf(S)     == CHOOSE m \in S : \A x \in S : x <= m

\* max_t and n_alloc of the first loop of asm_function.
MaxTemp(fn) ==
  MaxOf({Params(fn)} \cup {fn.nodes[k].dest : k \in {j \in DOMAIN fn.nodes : Writes(fn.nodes[j])}})
AllocsUpTo(fn, k) == {j \in 1 .. k : IsAlloc(fn.nodes[j])}
NAlloc(fn)        == Cardinality(AllocsUpTo(fn, Len(fn.nodes)))

AllocIndex_ButNotCounted(fn, k) == 1
\* alloc_i when the second loop reaches node k: it starts at 1.
AllocIndex(fn, k) == Cardinality(AllocsUpTo(fn, k - 1)) + 1

RoundUp16(n) == 16 * ((n + 15) \div 16)
FrameSize_ButTempsOnly(fn) == RoundUp16(8 * MaxTemp(fn))
FrameSize(fn) == RoundUp16(8 * (MaxTemp(fn) + NAlloc(fn)))

-----------------------------------------------------------------------------
(* asm_op                                                                   *)

\* Load the operands into rax and rcx, compute, store the result.
Unary(n, body)  == <<ld("rax", n.use[1])>> \o body \o <<st(n.dest, "rax")>>
Binary(n, body) == <<ld("rax", n.use[1]), ld("rcx", n.use[2])>> \o body \o <<st(n.dest, "rax")>>
AluOp(mn) == <<Ins(mn, Reg("rax"), Reg("rcx"))>>
Fetch(n, operand, how) == <<Ins(how, Reg("rax"), operand), st(n.dest, "rax")>>

setcc_for ==
  [OP_EQ |-> "sete", OP_NE |-> "setne", OP_GT |-> "setg", OP_GE |-> "setge",
   OP_LT |-> "setl", OP_LE |-> "setle"]
AluFor ==
  [OP_ADD |-> "add", OP_SUB |-> "sub", OP_AND |-> "and", OP_OR |-> "or",
   OP_MUL |-> "imul", OP_SHL |-> "shl", OP_SHR |-> "sar"]

asm_op(n, alloc_i, max_t) ==
  CASE n.op = "OP_CONST"   -> Fetch(n, Const(n.id), "mov")
    [] n.op = "OP_DATA"    -> Fetch(n, RoData(n.id), "lea")
    [] n.op = "OP_ALLOC"   -> Fetch(n, Slot(max_t + alloc_i), "lea")
    [] n.op = "OP_ADDRESS" -> Unary(n, <<>>)
    [] n.op = "OP_LOAD"    -> Unary(n, <<Ins("mov", Reg("rax"), At("rax"))>>)
    [] n.op = "OP_STORE"   -> <<ld("rax", n.use[2]), ld("rcx", n.use[1]),
                                Ins("mov", At("rcx"), Reg("rax"))>>
    [] n.op = "OP_GLOBAL_L"    -> Fetch(n, VarOf(n.name), "mov")
    [] n.op = "OP_GLOBAL_S"    -> <<ld("rax", n.use[1]), Ins("mov", VarOf(n.name), Reg("rax"))>>
    [] n.op = "OP_GLOBAL_ADDR" -> Fetch(n, VarOf(n.name), "lea")
    [] n.op = "OP_NEG"     -> Unary(n, <<Ins("neg", Reg("rax"), NoArg)>>)
    [] n.op \in DOMAIN AluFor -> Binary(n, AluOp(AluFor[n.op]))
    [] n.op \in {"OP_DIV", "OP_MOD"} ->
         <<ld("rax", n.use[1]), ld("rcx", n.use[2]), Ins("cqo", NoArg, NoArg),
           Ins("idiv", Reg("rcx"), NoArg), st(n.dest, IF n.op = "OP_DIV" THEN "rax" ELSE "rdx")>>
    [] n.op \in DOMAIN setcc_for ->
         Binary(n, <<Ins("cmp", Reg("rax"), Reg("rcx")), Ins(setcc_for[n.op], NoArg, NoArg),
                     Ins("movzx", NoArg, NoArg)>>)

-----------------------------------------------------------------------------
(* asm_call: arguments beyond the sixth are pushed from the last to the     *)
(* seventh, over a padding word when their number is odd.                   *)

StackArgs(argc) == IF argc > N_ARG_REGS THEN argc - N_ARG_REGS ELSE 0
Pad_ButNever(argc) == 0
Pad(argc)       == StackArgs(argc) % 2
InRegs(argc)    == argc - StackArgs(argc)

MoveRsp(mn, bytes) ==
  IF bytes = 0 THEN <<>> ELSE <<Ins(mn, Reg("rsp"), Const(bytes))>>

\* Two instructions for each of 1 .. n.
Pairs(n, First(_), Second(_)) ==
  [k \in 1 .. 2 * n |-> IF k % 2 = 1 THEN First((k + 1) \div 2) ELSE Second(k \div 2)]

PushArgs(args) ==
  LET Load(j) == ld("rax", args[Len(args) + 1 - j])
      Push(j) == Ins("push", Reg("rax"), NoArg)
  IN Pairs(StackArgs(Len(args)), Load, Push)

asm_call(n) ==
  LET args == n.use  argc == Len(n.use) IN
    MoveRsp("sub", 8 * Pad(argc))
      \o PushArgs(args)
      \o [i \in 1 .. InRegs(argc) |-> ld(ARG_REGS[i], args[i])]
      \o <<Ins("xor", Reg("rax"), Reg("rax")), [Ins("call", NoArg, NoArg) EXCEPT !.d = n.name]>>
      \o MoveRsp("add", 8 * (StackArgs(argc) + Pad(argc)))
      \o <<st(n.dest, "rax")>>

-----------------------------------------------------------------------------
(* asm_function                                                             *)

\* A parameter in a register goes to its home slot; the others come from
\* above the saved rbp and the return address.
TakeStackParams(n) ==
  LET Load(j)  == Ins("mov", Reg("rax"), Rbp(16 + 8 * (j - 1)))
      Store(j) == st(N_ARG_REGS + j, "rax")
  IN Pairs(StackArgs(n), Load, Store)

Prologue(fn) ==
  <<Ins("push", Reg("rbp"), NoArg), Ins("mov", Reg("rbp"), Reg("rsp"))>>
    \o MoveRsp("sub", FrameSize(fn))
    \o [i \in 1 .. InRegs(Params(fn)) |-> st(i, ARG_REGS[i])]
    \o TakeStackParams(Params(fn))

JumpTo(mn, l) == [Ins(mn, NoArg, NoArg) EXCEPT !.d = l]

Epilogue(n) ==
  <<IF n.use[1] # 0 THEN ld("rax", n.use[1]) ELSE Ins("xor", Reg("rax"), Reg("rax")),
    Ins("leave", NoArg, NoArg), Ins("ret", NoArg, NoArg)>>

AsmNode(fn, k) ==
  IF k = 0 THEN Prologue(fn)
  ELSE LET n == fn.nodes[k] IN
    CASE n.op = "IR_LABEL"  -> <<JumpTo("label", n.id)>>
      [] n.op = "IR_JUMP"   -> <<JumpTo("jmp", n.id)>>
      [] n.op = "IR_BRANCH" -> <<ld("rax", n.use[1]), Ins("test", Reg("rax"), Reg("rax")),
                                 JumpTo("jnz", n.id), JumpTo("jmp", n.id_f)>>
      [] n.op = "IR_CALL"   -> asm_call(n)
      [] n.op = "IR_RETURN" -> Epilogue(n)
      [] OTHER -> asm_op(n, AllocIndex(fn, k), MaxTemp(fn))

-----------------------------------------------------------------------------
(* dump_x86_64_nasm: .rodata has the string literals in the order of their  *)
(* tokens, the n-th at __ro_data_n, and each is as long as strlen says.      *)

strlen(lexeme) ==
  CHOOSE n \in 0 .. Len(lexeme) :
    (\A k \in 1 .. n : lexeme[k] # 0) /\ (n = Len(lexeme) \/ lexeme[n + 1] = 0)
DataOf(lexeme) == SubSeq(lexeme, 1, strlen(lexeme)) \o <<0>>

=============================================================================
