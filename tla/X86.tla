-------------------------------- MODULE X86 --------------------------------
(***************************************************************************)
(* A processor that runs the text src/amd64.c prints: the registers and     *)
(* instructions that text uses, a memory of 8-byte words, and functions     *)
(* outside the module that follow the System V convention.                  *)
(*                                                                         *)
(* The text stays where Amd64 puts it: pc names a function of the module, a *)
(* node of it and an instruction of that node.                              *)
(***************************************************************************)
EXTENDS Runtime, Words

CONSTANTS
  Literals,     \* the string literals of the source, sequences of bytes
  External,     \* name of an external function -> number of its arguments
  GlobalWords,  \* words reserved for each global
  StackWords,   \* words of the stack
  Junk          \* what a word holds that nobody wrote

\* Definitions named X_But... are variants of X with a plausible slip in it,
\* which no specification uses.

VARIABLES
  module,   \* the module IrGen produced
  regs,     \* register -> word
  flags,    \* operands of the last cmp or test
  mem,      \* byte address (a multiple of 8) -> word
  pc,       \* [f, k, i]: function, node, instruction
  log,      \* the calls of external functions and of the kernel, oldest first
  calls,    \* ghost: where each active call stored its return address, and what
  power     \* "off", "running", "halted" or "fault"

cpu == <<regs, flags, mem, pc, log, calls, power>>

-----------------------------------------------------------------------------
(* The memory map: one region per global, then the stack.                   *)

VarAddr(x) ==
  8 * GlobalWords * (CHOOSE j \in DOMAIN module :
                       module[j].kind = "IR_GLOBAL" /\ module[j].name = x)
GlobalCells ==
  {8 * (GlobalWords * j + w) : j \in {i \in DOMAIN module : module[i].kind = "IR_GLOBAL"},
                               w \in 0 .. GlobalWords - 1}
StackBase  == 4000
StackTop   == StackBase + 8 * StackWords   \* a multiple of 16
StackCells == {StackBase + 8 * w : w \in 0 .. StackWords - 1}

\* .rodata, and the zeros to the end of its page.
DataBase == 3000
Data     == FlattenSeq([n \in DOMAIN Literals |-> DataOf(Literals[n])])
DataCells == DataBase .. DataBase + Len(Data) + 8
DataAddr(n) == DataBase + Len(FlattenSeq([k \in 1 .. n - 1 |-> DataOf(Literals[k])]))

\* The byte at address a; a word has two that count.
ByteAt(a) ==
  IF a \in DataCells THEN (IF a - DataBase < Len(Data) THEN Data[a - DataBase + 1] ELSE 0)
  ELSE (mem[a - (a % 8)] \div (CASE a % 8 = 0 -> 1 [] a % 8 = 1 -> 256 [] OTHER -> Modulus)) % 256
WordAt(a) ==
  IF a \in DataCells THEN Wrap(ByteAt(a) + 256 * ByteAt(a + 1)) ELSE mem[a]

\* Return addresses are words too.
NodesPerFn == 150
InsPerNode == 40
CodeAddr(p) == (p.f * NodesPerFn + p.k) * InsPerNode + p.i
PcAt(w) ==
  [f |-> w \div (NodesPerFn * InsPerNode), k |-> (w \div InsPerNode) % NodesPerFn,
   i |-> w % InsPerNode]

-----------------------------------------------------------------------------
(* Fetching                                                                 *)

\* The executable: the compiled files, then those in assembler.
Image == module \o InAssembler
FunctionAt(name) ==
  {j \in DOMAIN Image : Image[j].kind \in {"IR_FUNCTION", "ASM"} /\ Image[j].name = name}
EntryOf(name) == [f |-> CHOOSE j \in FunctionAt(name) : TRUE, k |-> 0, i |-> 1]

Here   == Image[pc.f]
InText == pc.k <= IF Here.kind = "ASM" THEN 0 ELSE Len(Here.nodes)
Text   == IF Here.kind = "ASM" THEN Here.text ELSE AsmNode(Here, pc.k)
Insn   == Text[pc.i]
NextPc ==
  IF pc.i < Len(Text) THEN [pc EXCEPT !.i = @ + 1] ELSE [pc EXCEPT !.k = @ + 1, !.i = 1]
LabelPc(l) ==
  [pc EXCEPT !.k = CHOOSE k \in DOMAIN module[pc.f].nodes :
                     /\ module[pc.f].nodes[k].op = "IR_LABEL"
                     /\ module[pc.f].nodes[k].id = l,
             !.i = 1]

Addr(o) ==
  CASE o.at = "rbp"  -> regs.rbp + o.off
    [] o.at = "rsp"  -> regs.rsp + o.off
    [] o.at = "mem"  -> regs[o.r]
    [] o.at = "var"  -> VarAddr(o.x)
    [] o.at = "data" -> DataAddr(o.n)
InMemory(o) == o.at \in {"rbp", "rsp", "mem", "var"}
Value(o) ==
  CASE o.at = "reg" -> regs[o.r]
    [] o.at = "imm" -> Wrap(o.n)
    [] OTHER        -> WordAt(Addr(o))

Fetched == IF InText THEN {Insn} ELSE {}

\* Memory operands of mov that point nowhere, and the other ways to trap.
Traps(ins) ==
  \/ /\ ins.mn = "mov"
     /\ \/ InMemory(ins.d) /\ Addr(ins.d) \notin DOMAIN mem
        \/ InMemory(ins.s) /\ Addr(ins.s) \notin DOMAIN mem \cup DataCells
  \/ ins.mn = "push" /\ regs.rsp - 8 \notin DOMAIN mem
  \/ ins.mn = "call" /\ regs.rsp - 8 \notin DOMAIN mem
  \/ ins.mn = "leave" /\ regs.rbp \notin DOMAIN mem
  \/ ins.mn = "ret" /\ regs.rsp \notin DOMAIN mem
  \/ /\ ins.mn = "idiv"
     /\ ~ /\ regs.rdx = (IF regs.rax < 0 THEN -1 ELSE 0)
          /\ Divides(regs.rax, regs.rcx)

Exec(ins, mns) == ins.mn \in mns /\ ~ Traps(ins)

SetReg(r, v) == regs' = [regs EXCEPT ![r] = v]
Advance == pc' = NextPc

-----------------------------------------------------------------------------
(* Power on: the kernel enters _start on an aligned stack, with argc on it.  *)

PowerOff ==
  /\ regs = [r \in {} |-> 0] /\ mem = [a \in {} |-> 0] /\ flags = <<0, 0>>
  /\ pc = [f |-> 0, k |-> 0, i |-> 1]
  /\ log = <<>> /\ calls = <<>> /\ power = "off"

Registers == {"rax", "rcx", "rdx", "rdi", "rsi", "r8", "r9", "r10", "rsp", "rbp"}

Load ==
  /\ power = "off"
  /\ FunctionAt("main") # {}
  /\ power' = "running"
  /\ regs' = [r \in Registers |-> IF r = "rsp" THEN StackTop - 16 ELSE Junk]
  /\ mem' = [a \in GlobalCells \cup StackCells |-> IF a \in GlobalCells THEN 0 ELSE Junk]
  /\ pc' = EntryOf("_start")
  /\ UNCHANGED <<flags, log, calls>>

-----------------------------------------------------------------------------
(* Instructions                                                             *)

Move(ins) ==
  /\ Exec(ins, {"mov"}) /\ Advance
  /\ IF ins.d.at = "reg" THEN SetReg(ins.d.r, Value(ins.s)) /\ UNCHANGED mem
     ELSE mem' = [mem EXCEPT ![Addr(ins.d)] = Value(ins.s)] /\ UNCHANGED regs
  /\ UNCHANGED <<flags, log, calls, power>>

LoadAddress(ins) ==
  /\ Exec(ins, {"lea"}) /\ Advance
  /\ SetReg(ins.d.r, Addr(ins.s))
  /\ UNCHANGED <<flags, mem, log, calls, power>>

Alu(mn, a, b) ==
  CASE mn = "add"  -> Wrap(a + b)
    [] mn = "sub"  -> Wrap(a - b)
    [] mn = "imul" -> Wrap(a * b)
    [] mn = "and"  -> BitAnd(a, b)
    [] mn = "or"   -> BitOr(a, b)
    [] mn = "shl"  -> Shl(a, b)
    [] mn = "sar"  -> Sar(a, b)

Arithmetic(ins) ==
  /\ Exec(ins, {"add", "sub", "imul", "and", "or", "shl", "sar"}) /\ Advance
  /\ SetReg(ins.d.r, Alu(ins.mn, regs[ins.d.r], Value(ins.s)))
  /\ UNCHANGED <<flags, mem, log, calls, power>>

Clear(ins) ==
  /\ Exec(ins, {"xor"}) /\ ins.d = ins.s /\ Advance
  /\ SetReg(ins.d.r, 0)
  /\ UNCHANGED <<flags, mem, log, calls, power>>

Negate(ins) ==
  /\ Exec(ins, {"neg"}) /\ Advance
  /\ SetReg(ins.d.r, Wrap(- regs[ins.d.r]))
  /\ UNCHANGED <<flags, mem, log, calls, power>>

Divide(ins) ==
  /\ Exec(ins, {"cqo", "idiv"}) /\ Advance
  /\ IF ins.mn = "cqo" THEN SetReg("rdx", IF regs.rax < 0 THEN -1 ELSE 0)
     ELSE regs' = [regs EXCEPT !.rax = Quot(regs.rax, regs.rcx),
                               !.rdx = Rem(regs.rax, regs.rcx)]
  /\ UNCHANGED <<flags, mem, log, calls, power>>

Compare(ins) ==
  /\ Exec(ins, {"cmp", "test"}) /\ Advance
  /\ flags' = IF ins.mn = "cmp" THEN <<Value(ins.d), Value(ins.s)>>
                                 ELSE <<BitAnd(Value(ins.d), Value(ins.s)), 0>>
  /\ UNCHANGED <<regs, mem, log, calls, power>>

Holds(setcc) ==
  CASE setcc = "sete"  -> flags[1] = flags[2]
    [] setcc = "setne" -> flags[1] # flags[2]
    [] setcc = "setg"  -> flags[1] > flags[2]
    [] setcc = "setge" -> flags[1] >= flags[2]
    [] setcc = "setl"  -> flags[1] < flags[2]
    [] setcc = "setle" -> flags[1] <= flags[2]

\* setcc writes al and leaves the other bytes of rax, which movzx clears.
SetByte(ins) ==
  /\ Exec(ins, {"sete", "setne", "setg", "setge", "setl", "setle", "movzx"}) /\ Advance
  /\ SetReg("rax", IF ins.mn = "movzx" THEN regs.rax % 256
                   ELSE Wrap(regs.rax - (regs.rax % 256) + Bool(Holds(ins.mn))))
  /\ UNCHANGED <<flags, mem, log, calls, power>>

Jump(ins) ==
  /\ Exec(ins, {"label", "jmp", "jnz"})
  /\ pc' = IF ins.mn = "jmp" \/ (ins.mn = "jnz" /\ flags[1] # flags[2])
             THEN LabelPc(ins.d) ELSE NextPc
  /\ UNCHANGED <<regs, flags, mem, log, calls, power>>

Push(ins) ==
  /\ Exec(ins, {"push"}) /\ Advance
  /\ SetReg("rsp", regs.rsp - 8)
  /\ mem' = [mem EXCEPT ![regs.rsp - 8] = regs[ins.d.r]]
  /\ UNCHANGED <<flags, log, calls, power>>

CallFunction(ins) ==
  /\ Exec(ins, {"call"}) /\ FunctionAt(ins.d) # {}
  /\ SetReg("rsp", regs.rsp - 8)
  /\ mem' = [mem EXCEPT ![regs.rsp - 8] = CodeAddr(NextPc)]
  /\ calls' = Append(calls, [at |-> regs.rsp - 8, ret |-> CodeAddr(NextPc), rbp |-> regs.rbp])
  /\ pc' = EntryOf(ins.d)
  /\ UNCHANGED <<flags, log, power>>

\* An external function finds its arguments where the convention puts them,
\* returns the first one, and clobbers the other caller-saved registers.
ArgAt(j) ==
  IF j <= 6 THEN regs[<<"rdi", "rsi", "rdx", "rcx", "r8", "r9">>[j]]
  ELSE LET a == regs.rsp + 8 * (j - 7) IN IF a \in DOMAIN mem THEN mem[a] ELSE Junk
CallExternal(ins) ==
  /\ Exec(ins, {"call"}) /\ FunctionAt(ins.d) = {} /\ Advance
  /\ log' = Append(log, <<ins.d, [j \in 1 .. External[ins.d] |-> ArgAt(j)]>>)
  /\ regs' = [r \in Registers |->
                CASE r \in {"rsp", "rbp"} -> regs[r]
                  [] r = "rax" -> regs.rdi
                  [] OTHER -> Junk]
  /\ UNCHANGED <<flags, mem, calls, power>>

Leave(ins) ==
  /\ Exec(ins, {"leave"}) /\ Advance
  /\ regs' = [regs EXCEPT !.rsp = regs.rbp + 8, !.rbp = mem[regs.rbp]]
  /\ UNCHANGED <<flags, mem, log, calls, power>>

ReturnTo(ins) ==
  /\ Exec(ins, {"ret"})
  /\ SetReg("rsp", regs.rsp + 8)
  /\ calls' = SubSeq(calls, 1, Len(calls) - 1)
  /\ pc' = PcAt(mem[regs.rsp])
  /\ UNCHANGED <<flags, mem, log, power>>

\* The kernel: exit, write, and the others, which only show their arguments and
\* answer with their number.  It keeps all registers but three.
KernelRegs == <<"rax", "rdi", "rsi", "rdx", "r10", "r8", "r9">>
Exit(ins) ==
  /\ Exec(ins, {"syscall"}) /\ regs.rax = 60
  /\ power' = "halted"
  /\ UNCHANGED <<regs, flags, mem, pc, log, calls>>
SystemCall(ins) ==
  /\ Exec(ins, {"syscall"}) /\ regs.rax # 60 /\ Advance
  /\ log' = Append(log,
       IF regs.rax = 1 THEN <<"write", [k \in 1 .. regs.rdx |-> ByteAt(regs.rsi + k - 1)]>>
       ELSE <<"syscall", [k \in DOMAIN KernelRegs |-> regs[KernelRegs[k]]]>>)
  /\ regs' = [regs EXCEPT !.rax = IF @ = 1 THEN regs.rdx ELSE @, !.rcx = Junk]
  /\ UNCHANGED <<flags, mem, calls, power>>

\* A trapping instruction, or the end of a function's text, stops the run.
Trap ==
  /\ ~ InText \/ Traps(Insn)
  /\ power' = "fault"
  /\ UNCHANGED <<regs, flags, mem, pc, log, calls>>

Step(ins) ==
  \/ Move(ins) \/ LoadAddress(ins) \/ Arithmetic(ins) \/ Clear(ins) \/ Negate(ins)
  \/ Divide(ins) \/ Compare(ins) \/ SetByte(ins) \/ Jump(ins) \/ Push(ins)
  \/ CallFunction(ins) \/ CallExternal(ins) \/ Leave(ins) \/ ReturnTo(ins)
  \/ Exit(ins) \/ SystemCall(ins)

CpuNext ==
  \/ Load
  \/ power = "running" /\ \E ins \in Fetched : Step(ins)
  \/ power = "running" /\ Trap

-----------------------------------------------------------------------------
(* Properties of the running text                                           *)

\* System V: rsp is a multiple of 16 at every call, whatever the number of
\* stack arguments of this call and of the calls around it.
CallsAligned == power = "running" /\ InText /\ Insn.mn = "call" => regs.rsp % 16 = 0

\* No store of the program, push or local, ever overwrites the return address
\* of an active call; and each function returns with the rsp and the rbp its
\* caller had, so the address popped is the one its own call pushed.
ReturnsSafe ==
  power = "running" =>
    /\ \A c \in DOMAIN calls : mem[calls[c].at] = calls[c].ret
    /\ InText /\ Insn.mn = "ret" =>
         /\ regs.rsp = calls[Len(calls)].at
         /\ regs.rbp = calls[Len(calls)].rbp

=============================================================================
