--------------------------- MODULE CompileAndRun ---------------------------
(***************************************************************************)
(* The compiler's back half, end to end: IrGen turns a syntax tree into a   *)
(* module, Amd64 prints the module as assembly, and X86 runs the text with  *)
(* the start-up code and the library.  The run is compared with what        *)
(* BLanguage says the tree means.                                           *)
(***************************************************************************)
EXTENDS IrGen

CONSTANTS Literals, External, GlobalWords, StackWords, Junk

\* A byte that is zero ends a string, for the back end and in the library.
ASSUME LiteralsAssumption ==
  \A n \in DOMAIN Literals :
    \A k \in DOMAIN Literals[n] : Literals[n][k] \in 1 .. 255

VARIABLES regs, flags, mem, pc, log, calls, power

Source == INSTANCE BLanguage
Cpu    == INSTANCE X86

cpu     == <<regs, flags, mem, pc, log, calls, power>>
allVars == <<vars, cpu>>

\* What the source says is the program without what the linker adds.
Own(p) == SubSeq(p, 1, Len(p) - Len(Cpu!Linked(<<>>)))

RunInit == Init /\ Cpu!PowerOff

CompileStep == Next /\ UNCHANGED cpu
RunStep     == status = "done" /\ Cpu!CpuNext /\ UNCHANGED vars
RunNext     == CompileStep \/ RunStep

\* One thread compiles, then one thread runs: neither ever waits.
RunSpec == RunInit /\ [][RunNext]_allVars /\ WF_allVars(RunNext)

-----------------------------------------------------------------------------
Final(x, size) == [w \in 1 .. size |-> mem[Cpu!VarAddr(x) + 8 * (w - 1)]]

\* The compiled program means what its source means: when it exits, the
\* status is what the source's main returns, it has written the source's bytes,
\* the external functions were called in the source's order with the source's
\* arguments, and every global holds what the source leaves in it; it traps
\* only where a division of the source does.
CompiledMeansSource ==
  power \in {"halted", "fault"} =>
    LET m == Source!Meaning(Own(program)) IN
      /\ m.trap <=> power = "fault"
      /\ log = m.log
      /\ power = "halted" =>
           /\ regs.rdi = m.value
           /\ \A i \in DOMAIN m.globals :
                Final(program[i].name, program[i].size) = m.globals[i]

CallsAligned == Cpu!CallsAligned
ReturnsSafe  == Cpu!ReturnsSafe

\* Every well-formed program whose source ends also ends when compiled: the
\* generator accepts it, and its labels and jumps add no loop of their own.
CompiledHalts == <>(power \in {"halted", "fault"})
=============================================================================
