---------------------------- MODULE DriverProofs ----------------------------
(***************************************************************************)
(* The driver's promises about its files, for every set of command lines    *)
(* and paths.                                                               *)
(***************************************************************************)
EXTENDS Driver, TLAPS

Old  == {"source", "old listing"}
Text == {"source", "old listing", "empty", "listing", "cut listing"}

Calls == {"flags", "read", "lexer", "parser", "init_ir", "gen_ir", "gen_output", "free_ir",
          "exited", "killed"}

DriverTypeOK ==
  /\ opts \in Options
  /\ disk \in [Paths -> Text] /\ before \in [Paths -> Old]
  /\ pc \in Calls
  /\ exit \in {0, 1}

Untouched == disk = before
Truncated == disk = [before EXCEPT ![opts.output] = "empty"]
Printed   == \E text \in {"listing", "cut listing"} : disk = [before EXCEPT ![opts.output] = text]

\* What the files hold at each point of main.  The exit status alone does not
\* tell: FreeIr exits with 0 because nothing has touched the output since
\* gen_output printed it, and only that is inductive.
DiskAt ==
  /\ pc \in {"flags", "read", "lexer", "parser", "init_ir"} => Untouched
  /\ pc \in {"gen_ir", "gen_output"} => Truncated
  /\ pc = "free_ir" => Printed
  /\ pc = "exited" /\ exit = 0 => IF Compiling THEN Printed ELSE Untouched
  /\ pc = "exited" /\ exit = 1 => Untouched \/ Truncated
  /\ pc = "killed" => Untouched \/ Truncated

\* main goes on only when it compiles, from a file it was given.
InputKnown ==
  /\ pc \notin {"flags", "exited"} => Compiling /\ opts.input \in Paths
  /\ buffer # "nothing" => opts.input \in Paths /\ buffer = before[opts.input]

DriverInv == DriverTypeOK /\ DiskAt /\ InputKnown

-----------------------------------------------------------------------------
LEMMA OutputIsPath == ASSUME DriverTypeOK PROVE opts.output \in Paths
  BY OptionsAssumption DEF DriverTypeOK

\* Writing twice is writing once.
LEMMA WriteTwice ==
  ASSUME DriverTypeOK, Truncated, NEW text, Write(text)
  PROVE  disk' = [before EXCEPT ![opts.output] = text]
  BY OutputIsPath DEF DriverTypeOK, Truncated, Write

\* A step that leaves the files alone.
LEMMA SameFiles ==
  ASSUME UNCHANGED <<opts, disk, before>>
  PROVE  /\ Untouched => Untouched'
         /\ Truncated => Truncated'
         /\ Printed => Printed'
         /\ Compiling' <=> Compiling
  BY DEF Untouched, Truncated, Printed, Compiling

LEMMA DriverInit == Init => DriverInv
  BY OptionsAssumption
  DEF Init, DriverInv, DriverTypeOK, DiskAt, InputKnown, Untouched, Text, Old, Calls

LEMMA DriverStep == DriverInv /\ [Next]_vars => DriverInv'
<1> SUFFICES ASSUME DriverInv, [Next]_vars PROVE DriverInv'
  OBVIOUS
<1> USE DEF DriverInv
<1>1. CASE Flags
  <2> USE <1>1 DEF Flags, Here, Goto, Exit
  <2>1. DriverTypeOK'
    BY OptionsAssumption DEF DriverTypeOK, Calls
  <2>2. DiskAt'
    BY SameFiles DEF DriverTypeOK, DiskAt, Compiling
  <2>3. InputKnown'
    BY OptionsAssumption DEF DriverTypeOK, InputKnown, DiskAt, Untouched, Compiling
  <2> QED
    BY <2>1, <2>2, <2>3
<1>2. CASE Read
  <2> USE <1>2 DEF Read, Here, Goto, Exit
  <2>1. DriverTypeOK'
    BY DEF DriverTypeOK, Calls
  <2>2. DiskAt'
    BY SameFiles DEF DriverTypeOK, DiskAt, InputKnown
  <2>3. InputKnown'
    BY DEF DriverTypeOK, InputKnown, DiskAt, Untouched, Compiling
  <2> QED
    BY <2>1, <2>2, <2>3
<1>3. CASE Lex
  <2> USE <1>3 DEF Lex, Here, Goto, Exit
  <2>1. DriverTypeOK'
    BY DEF DriverTypeOK, Calls
  <2>2. DiskAt'
    BY SameFiles DEF DriverTypeOK, DiskAt, InputKnown
  <2>3. InputKnown'
    BY DEF DriverTypeOK, InputKnown, DiskAt, Untouched, Compiling
  <2> QED
    BY <2>1, <2>2, <2>3
<1>4. CASE Parse
  <2> USE <1>4 DEF Parse, Here, Goto, Exit, Die
  <2>1. DriverTypeOK'
    BY DEF DriverTypeOK, Calls
  <2>2. DiskAt'
    <3>1. /\ pc = "parser" /\ UNCHANGED <<opts, disk, before>>
          /\ pc' \in {"init_ir", "killed"} \/ (pc' = "exited" /\ exit' = 1)
      OBVIOUS
    <3> QED
      BY ONLY <3>1, SameFiles, DiskAt DEF DiskAt
  <2>3. InputKnown'
    BY DEF DriverTypeOK, InputKnown, DiskAt, Untouched, Compiling
  <2> QED
    BY <2>1, <2>2, <2>3
<1>5. CASE InitIr
  <2> USE <1>5 DEF InitIr, Here, Goto, Exit, Write
  <2>1. DriverTypeOK'
    BY OutputIsPath DEF DriverTypeOK, Calls, Text
  <2>2. CASE Write("empty") /\ Goto("gen_ir")
    <3>1. Truncated'
      BY <2>2 DEF DiskAt, Untouched, Truncated
    <3> QED
      BY <2>1, <2>2, <3>1 DEF DiskAt, InputKnown, Compiling
  <2>3. CASE Exit(1) /\ UNCHANGED disk
    BY <2>1, <2>3, SameFiles DEF DiskAt, InputKnown
  <2> QED
    BY <2>2, <2>3
<1>6. CASE GenIr
  <2> USE <1>6 DEF GenIr, Here, Goto, Exit, Die
  <2>1. DriverTypeOK'
    BY DEF DriverTypeOK, Calls
  <2>2. DiskAt'
    BY SameFiles DEF DriverTypeOK, DiskAt, InputKnown
  <2>3. InputKnown'
    BY DEF DriverTypeOK, InputKnown, DiskAt, Untouched, Compiling
  <2> QED
    BY <2>1, <2>2, <2>3
<1>7. CASE GenOutput
  <2>1. CASE Exit(1) /\ UNCHANGED disk
    <3> USE <1>7, <2>1 DEF GenOutput, Here, Exit
    <3>1. DriverTypeOK'
      BY DEF DriverTypeOK, Calls
    <3>2. DiskAt'
      BY SameFiles DEF DiskAt
    <3>3. InputKnown'
      BY DEF InputKnown
    <3> QED
      BY <3>1, <3>2, <3>3
  <2>2. CASE \E text \in {"listing", "cut listing"} : Write(text) /\ Goto("free_ir")
    <3>1. PICK text \in {"listing", "cut listing"} : Write(text) /\ Goto("free_ir")
      BY <2>2
    <3>2. Truncated
      BY <1>7 DEF GenOutput, Here, DiskAt
    <3>3. disk' = [before EXCEPT ![opts.output] = text]
      BY <3>1, <3>2, WriteTwice
    <3>4. UNCHANGED <<opts, before, buffer>> /\ pc = "gen_output" /\ pc' = "free_ir" /\ exit' = exit
      BY <1>7, <3>1 DEF GenOutput, Here, Goto
    <3>5. DriverTypeOK'
      BY <3>1, <3>4, OutputIsPath DEF DriverTypeOK, Text, Calls, Write
    <3>6. DiskAt'
      BY <3>3, <3>4 DEF DiskAt, Printed
    <3>7. InputKnown'
      BY <3>4 DEF InputKnown, Compiling
    <3> QED
      BY <3>5, <3>6, <3>7
  <2> QED
    BY <1>7, <2>1, <2>2 DEF GenOutput
<1>8. CASE FreeIr
  <2> USE <1>8 DEF FreeIr, Here, Exit
  <2>1. DriverTypeOK'
    BY DEF DriverTypeOK, Calls
  <2>2. DiskAt'
    BY SameFiles DEF DriverTypeOK, DiskAt, InputKnown
  <2>3. InputKnown'
    BY DEF DriverTypeOK, InputKnown, DiskAt, Untouched, Compiling
  <2> QED
    BY <2>1, <2>2, <2>3
<1>9. CASE UNCHANGED vars
  BY <1>9
  DEF vars, DriverTypeOK, DiskAt, InputKnown, Untouched, Truncated, Printed, Compiling
<1> QED
  BY <1>1, <1>2, <1>3, <1>4, <1>5, <1>6, <1>7, <1>8, <1>9 DEF Next

LEMMA DriverInvariant == Spec => []DriverInv
<1>1. Init => DriverInv
  BY DriverInit
<1>2. DriverInv /\ [Next]_vars => DriverInv'
  BY DriverStep
<1> QED
  BY <1>1, <1>2, PTL DEF Spec

-----------------------------------------------------------------------------
\* For every command line, every failing fopen and every phase that ends the
\* process, by an exit or by a signal, the Makefile may trust the status: 0
\* leaves a listing of this run, anything else the output as it was or empty,
\* and no other file is ever written.
THEOREM StatusTellsOutput == Spec => []ExitTellsOutput
<1>1. DriverInv => ExitTellsOutput
  <2> SUFFICES ASSUME DriverInv, Ended PROVE ExitTellsOutput
    BY DEF ExitTellsOutput
  <2>1. opts.output \in Paths
    BY OutputIsPath DEF DriverInv
  <2> QED
    BY <2>1
    DEF DriverInv, DriverTypeOK, DiskAt, ExitTellsOutput, Ended, Failed,
        Untouched, Truncated, Printed, Text
<1> QED
  BY <1>1, DriverInvariant, PTL

\* The compiled text is the input of before the run, even if -o names it too.
THEOREM InputReadFirst == Spec => []ReadsBeforeWriting
<1>1. DriverInv => ReadsBeforeWriting
  BY DEF DriverInv, InputKnown, ReadsBeforeWriting
<1> QED
  BY <1>1, DriverInvariant, PTL

\* Closing the first of the two handles on the output leaves the listing.
THEOREM ListingStays == Spec => ListingKept
<1> DEFINE Kept == disk[opts.output] = "listing" => disk'[opts.output] = "listing"
<1>1. DriverInv /\ [Next]_vars => [Kept]_vars
  <2> SUFFICES ASSUME DriverInv, Next, disk[opts.output] = "listing"
               PROVE  disk'[opts.output] = "listing"
    OBVIOUS
  <2>1. opts.output \in Paths
    BY OutputIsPath DEF DriverInv
  <2>2. CASE Flags \/ Read \/ Lex \/ Parse \/ GenIr \/ FreeIr
    BY <2>2 DEF Flags, Read, Lex, Parse, GenIr, FreeIr
  <2>3. CASE InitIr
    BY <2>1, <2>3 DEF DriverInv, DriverTypeOK, DiskAt, InitIr, Here, Untouched, Old
  <2>4. CASE GenOutput
    BY <2>1, <2>4 DEF DriverInv, DiskAt, GenOutput, Here, Truncated, DriverTypeOK
  <2> QED
    BY <2>2, <2>3, <2>4 DEF Next
<1> QED
  BY <1>1, DriverInvariant, PTL DEF Spec, ListingKept
=============================================================================
