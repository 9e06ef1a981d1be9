------------------------------- MODULE Driver -------------------------------
(***************************************************************************)
(* The driver: main of src/main.c with init_ir, gen_output and free_ir, as  *)
(* the Makefile sees it: the options, the files and the exit status.         *)
(*                                                                         *)
(* The phases between are modules of their own; here each is a step that    *)
(* goes on, prints diagnostics and goes on, or ends the process.  Any fopen *)
(* may fail, and the two options -i and -o may name the same file.          *)
(***************************************************************************)

CONSTANTS
  Options,   \* command lines: [valid, help, version, input, output, target]
  Paths      \* the paths they name

\* Definitions named X_But... are variants of X with a plausible slip in it,
\* which no specification uses.

NoPath == "none"

ASSUME OptionsAssumption ==
  \A o \in Options :
    /\ o.valid \in BOOLEAN /\ o.help \in BOOLEAN /\ o.version \in BOOLEAN
    /\ o.input \in Paths \cup {NoPath} /\ o.output \in Paths
    /\ o.target \in {"ir", "x86_64_nasm", "other"}

VARIABLES
  opts,      \* what shi_flag_parse found on the command line
  disk,      \* path -> what the file holds
  before,    \* the same, when the process started
  buffer,    \* what read_file read
  diagnosed, \* the lexer or the parser printed a diagnostic
  pc,        \* the next call of main, "exited", or "killed" by a signal
  exit       \* the exit status, once exited

vars == <<opts, disk, before, buffer, diagnosed, pc, exit>>

Init ==
  /\ opts \in Options
  /\ disk \in [Paths -> {"source", "old listing"}]
  /\ before = disk
  /\ buffer = "nothing"
  /\ diagnosed = FALSE
  /\ pc = "flags"
  /\ exit = 0

Here(label) == pc = label
Goto(label) == pc' = label /\ UNCHANGED exit
\* return from main, or exit(3).
Exit(n) == pc' = "exited" /\ exit' = n
\* The end by a signal, which leaves no status of main's.
Die == pc' = "killed" /\ UNCHANGED exit
\* fopen with "w", and what a flushed stream leaves.
Write(text) == disk' = [disk EXCEPT ![opts.output] = text]

-----------------------------------------------------------------------------
Flags_ButOutputOpened ==
  /\ Here("flags")
  /\ IF ~ opts.valid \/ opts.help THEN Exit(1) /\ UNCHANGED disk
     ELSE IF opts.version THEN Exit(0) /\ UNCHANGED disk
     ELSE IF opts.input = NoPath THEN Exit(1) /\ UNCHANGED disk
     ELSE Goto("read") /\ Write("empty")
  /\ UNCHANGED <<opts, before, buffer, diagnosed>>

\* The options in the order main looks at them.
Flags ==
  /\ Here("flags")
  /\ IF ~ opts.valid \/ opts.help THEN Exit(1)
     ELSE IF opts.version THEN Exit(0)
     ELSE IF opts.input = NoPath THEN Exit(1)
     ELSE Goto("read")
  /\ UNCHANGED <<opts, disk, before, buffer, diagnosed>>

\* The whole input is in memory, and its file closed, before anything else.
Read ==
  /\ Here("read")
  /\ \/ buffer' = disk[opts.input] /\ Goto("lexer")
     \/ Exit(1) /\ UNCHANGED buffer
  /\ UNCHANGED <<opts, disk, before, diagnosed>>

\* The lexer prints what it dislikes and goes on, but get_string exits on a
\* quoted text that nothing closes and on an unknown escape.
Lex ==
  /\ Here("lexer")
  /\ \/ Goto("parser") /\ diagnosed' \in BOOLEAN
     \/ Exit(1) /\ diagnosed' = TRUE
  /\ UNCHANGED <<opts, disk, before, buffer>>

\* The parser goes on too; but parse_expr_f exits on an unknown operator, and
\* a list of tokens that ends early makes the parser read through NULL.
Parse ==
  /\ Here("parser")
  /\ \/ Goto("init_ir") /\ diagnosed' \in {diagnosed, TRUE}
     \/ Exit(1) /\ diagnosed' = TRUE
     \/ Die /\ diagnosed' \in {diagnosed, TRUE}
  /\ UNCHANGED <<opts, disk, before, buffer>>

\* init_ir truncates the output, before gen_ir has looked at the tree.
InitIr ==
  /\ Here("init_ir")
  /\ \/ Write("empty") /\ Goto("gen_ir")
     \/ Exit(1) /\ UNCHANGED disk
  /\ UNCHANGED <<opts, before, buffer, diagnosed>>

\* gen_ir ends, stops in ir_fatal, or dies: ir_scope follows scope_n of a
\* function's body, which the parser does not promise to be a scope.
GenIr ==
  /\ Here("gen_ir")
  /\ Goto("gen_output") \/ Exit(1) \/ Die
  /\ UNCHANGED <<opts, disk, before, buffer, diagnosed>>

GenOutput_ButNoUnknownTarget ==
  /\ Here("gen_output")
  /\ \/ Exit(1) /\ UNCHANGED disk
     \/ opts.target # "other" /\ Write("listing") /\ Goto("free_ir")
     \/ opts.target = "other" /\ Write("empty") /\ Goto("free_ir")
  /\ UNCHANGED <<opts, before, buffer, diagnosed>>

\* gen_output refuses a target it does not know, and opens the output again;
\* it does not ask whether the disk took all of the text.  (The exit of asm_op on
\* an operation it has no case for is dead: the generator emits no such node.)
GenOutput ==
  /\ Here("gen_output")
  /\ \/ Exit(1) /\ UNCHANGED disk
     \/ /\ opts.target # "other"
        /\ \E text \in {"listing", "cut listing"} : Write(text)
        /\ Goto("free_ir")
  /\ UNCHANGED <<opts, before, buffer, diagnosed>>

FreeIr_ButWritesItsFile ==
  /\ Here("free_ir")
  /\ Write("empty")
  /\ Exit(0)
  /\ UNCHANGED <<opts, before, buffer, diagnosed>>

\* free_ir closes the handle of init_ir, through which nothing was written.
FreeIr ==
  /\ Here("free_ir")
  /\ Exit(0)
  /\ UNCHANGED <<opts, disk, before, buffer, diagnosed>>

Next == Flags \/ Read \/ Lex \/ Parse \/ InitIr \/ GenIr \/ GenOutput \/ FreeIr
Spec == Init /\ [][Next]_vars

-----------------------------------------------------------------------------
(* Properties                                                               *)

\* The command line asks for a compilation.
Compiling == opts.valid /\ ~ opts.help /\ ~ opts.version

\* The process left by a return, an exit or a signal.
Ended  == pc \in {"exited", "killed"}
Failed == pc = "killed" \/ exit = 1

\* The rule `trident ... || exit 1; nasm ...' of the Makefile is right to trust
\* the status: after 0 the output is what the back end printed in this run, as
\* far as the disk took it, and no other file changed; after 1, from whichever
\* phase, and after a signal the output is as it was before the run or is
\* empty, so no listing of a program that was refused is left to assemble.
ExitTellsOutput ==
  Ended =>
    /\ \A p \in Paths \ {opts.output} : disk[p] = before[p]
    /\ ~ Failed /\ Compiling => disk[opts.output] \in {"listing", "cut listing"}
    /\ Failed => disk[opts.output] \in {before[opts.output], "empty"}

\* What is compiled is what the input held when the process started, even when
\* the output has the input's name and init_ir has truncated it.
ReadsBeforeWriting == buffer # "nothing" => buffer = before[opts.input]

\* The handle init_ir opened on the output file, which free_ir closes last, never
\* undoes the listing gen_output wrote through a second one.
ListingKept == [][disk[opts.output] = "listing" => disk'[opts.output] = "listing"]_vars

\* "0: Successful compilation or clean exit after displaying version or help
\* information" (res/trident.1:39-40): -help exits with 0.
HelpExitsClean == pc = "exited" /\ opts.valid /\ opts.help => exit = 0

\* "1: An error occurred during execution" (res/trident.1:42-43): a program the
\* lexer or the parser complained about does not exit with 0.
ErrorsExitOne == pc = "exited" /\ diagnosed => exit = 1
=============================================================================
