# A TLA+ model of the Trident B compiler

`src/` is Trident (tridentc), a compiler from B to x86-64 assembly in C: one
process, one thread, one file in and one file out. Nothing in it runs
concurrently and nothing is persisted, so what is hard about it is elsewhere:
recursive functions that share counters and mutable symbol tables, a parser
that reports an error and goes on, code layouts that must agree in two places,
and the meaning of the program at the end of it all. The project models the
recursive code as explicit state machines, checks them with TLC against
reference definitions written independently, and proves with TLAPS what should
hold for every program and every file.

## 1. Inventory

| part | source | state | operations | what makes it correct |
|---|---|---|---|---|
| driver | `src/main.c`, `src/backend.c` | flags, the files, the exit status | read, lex, parse, `init_ir`, `gen_ir`, `gen_output`, `free_ir` | the exit status tells what the output holds; the source is read before anything is written |
| lexer | `src/lexer.c`, `res/keywords.gperf` | position, token list, string arena | `lexer`, `get_word`, `get_string`, `get_digit` | the tokens are the longest ones of the text; it stays in its buffers; it ends |
| statement parser | `src/parser.c` | `p->tok`, symbol tables, tail pointers | `parser`, `parse_*_s`, `parse_scope_f`, `expect_and_consume` | ends on every token list and recurses no deeper than its tokens pay for; a text it accepts is the text of its tree; what it hands on has the sorts the generator reads |
| expression parser | `src/expr.c` | `p->tok`, the C stack | `parse_expr_f`, `parse_left_f`, `parse_function_call_s` | the tree is the grammar's; it ends; sentences are accepted |
| syntax tree | `src/ast.c`, `src/ast.h` | arena of nodes | constructors | every child has the sort its parent expects |
| IR generator | `src/ir.c` | `temp_c`, `lable_c`, `t_lable_tab`, `VarInfo.temp_dest`, block tail, module tail | `ir_expr_f`, `ir_lvalue`, `ir_*_s`, `ir_scope`, `ir_function_s`, `gen_ir` | temporaries are defined once and before use, slots are exclusive, jumps find one label, it refuses exactly ill-formed programs |
| IR listing | `dump_ir` of `src/ir.c` | none | printing | (layout only) |
| x86-64 back end | `src/amd64.c` | `alloc_i` | `asm_op`, `asm_call`, `asm_function` | frames, alignment and calls follow System V; the text means what the source means |
| runtime and library | `res/brt.*`, `res/libb.*` | none | `_start`, `exit`, `putchar`, ... | calls `main` and stops with its value; a system call gets its arguments |
| libraries | `dep/shi_*.h` (submodule, not in the tree) | arena, hash set, flags, file | as used by `src/` | external |
| build | `Makefile` | files | compile, assemble, link, run | stops at the first failing command |

The parts are called one after the other. They share three structures: the
token list (lexer to parser; the back end reads it again for string literals),
the tree with its symbol tables (parser to IR generator, which *writes* the
`VarInfo` entries the parser made and frees each table when its scope ends),
and the IR module (generator to back end).

Hard behaviours, each listed with its line in `PROJECT.json` under `hazards`:
entries of a table that are 0 until their `auto` has been generated; counters
reset for each function and drawn from by nested calls; labels that a `goto`
may number before their definition; a parser whose `expect_and_consume` leaves
a wrong token where it is, inside loops; NULL at the end of the token list; the
frame size, the slot numbers and the call alignment, each computed in two
places; a loop that replaces escapes in the block it reads from; an output file
that two handles are open on.

## 2. Modules

```
 text --Lexer--> tokens --StmtParser/ExprParser--> trees --IrGen--> module --Amd64--> instructions, run by X86
         |                    |                       |                |
      Scanner       FileText, FileTrees,          Lowering, BRules,   Frames      (what each ought to do)
                    ExprGrammar                   BLanguage
```

Modules on the upper line are translated from the code. Those below are
written without looking at it, and the runs compare the two.

### `Lexer`, `Scanner`, `BChars` - the lexer
`Lexer` is `lexer.c` a character at a time. `mode` names the loop that runs:
that of `lexer`, or of `get_word`, `get_digit` (one for each base),
`get_string` (the search for the closing quote, then the replacement of
escapes) or the comment. `i`, `ln`, `cn` are the fields of `Lexer`; `store` is
the lexeme arena as one row of bytes whose blocks follow each other without
padding, so that a write beyond a block would be seen in the next one; a token
holds the place of its block. `BChars` has the character classes and the
keyword table (`res/keywords.gperf`). A plain `char` is signed: `Code` gives
0xE9 the value -23, and `isalpha` and `isspace` of such a value are false, as
in glibc.

`Scanner` is the abstract specification: each step takes the longest token at
the front, a blank or a comment. `ScannerImplemented` in `Lexer` is the
refinement: `Read`, `Seen` and `Outcome` map the state (a loop under way maps
to the position where it started), and every step of `Lexer` is a step of
`Scanner` or a stutter.

### `ExprParser`, `ExprGrammar` - the expression parser
`ExprParser` has the activations of `parse_expr_s`, `parse_expr_f`,
`parse_left_f` (with `parse_unary_lop_s` and `parse_atom_f`) and
`parse_function_call_s` on a stack; `tok` is the position of `p->tok`, one past
the end being NULL; `Crash` is a read through NULL; `diagnosed` records that
`expect_and_consume` complained and went on. `ExprGrammar` defines the trees a
token list stands for by splitting it at its loosest operator (`Parses`), with
no cursor and no precedence climbing.

All binary operators but assignment associate to the *right* in this code
(`a - b - c` is `a - (b - c)`), and assignment, the only one
`is_proc_left_Associative` names, to the left. The repository documents no
associativity, so the reference grammar takes the code's and the finding of
the example (below) is what follows from it.

### `StmtParser`, `FileTrees`, `FileText` - the parser of a file
`StmtParser` extends `ExprParser` with every function of `parser.c`, on the
same stack: a frame's `got` is the list its activation has built, so that
`add_node` is an append. What one C function takes in a row is a cursor that
passes through `Takes` (read and consume), `Skips` (`pconsume`), `Expects`
(`expect_and_consume`, which leaves a wrong token) and `May`. A cursor carries
the ways it may have died: reading through NULL is certain death, and
`put_to_hash_set` with a NULL key, for a token without a lexeme, is a choice
between death and life, the library not being in the tree. A scope's table is
the set of autos in its list and is not kept twice; `t_lable_tab`, which
functions share, is a variable. `stack_offset` is computed and never read by
anyone, and is left out.

`FileTrees` says what the parser owes the generator: each child is of the sort
the generator reads it as, and a function's table has the labels of its body
(`TreesFitGenerator`). `FileText` writes a tree as text (`Text`) and says what
the parser owes its user: the file it silently accepts is the text of its tree
(`SilenceKeepsTheText`).

### `BTrees`, `BRules`, `BPool`, `BLanguage` - trees and references
`BTrees` has the constructors of `ast.c`, with which all modules build trees.
`BRules` defines `ProgramWellFormed`: names declared before use, lvalues,
labels; and `JumpsKeepScopes`: no goto skips an auto. `BPool` is a set of small
programs that covers the language, which the runs of the parser and of the
generator share. `BLanguage` is an interpreter of B on those trees which knows
no temporaries, labels, frames or registers.

### `IrGen` - the IR generator
A frame of `stack` is an activation of one C function: its name, the AST node,
the results its calls returned (`got`), the labels it reserved (`lab`, `end`),
and in `ir_scope` and `ir_function_s` the symbol table. A step of the model is
the C code between two calls; `Call` pushes a frame, `Yield` emits nodes and
returns a result to the caller. The chain of `AstScope.parent` is the order of
the frames, so `lookup_symbol` is `Innermost`, and `free_hash_set` is the pop.
A parameter's `VarInfo`, overwritten by the parser (`parser.c:292`), has the
first kind of the enumeration (`VarKind`, `UnsetKind`), so that the order of the
enumerators is part of the model. `code` is the node list from `entry` to `block_tail`; `module` is the list from
`ir_head` to `ir_tail`; `status = "fatal"` is `ir_fatal`'s exit. An IR node
names its destination temporary, the temporaries it reads in the order the back
end loads them, and its label ids. What the parser guarantees of its trees is
assumed of the constants (`ExprAssumption`, `StmtAssumption`,
`ProgramAssumption`). `TreesFitGenerator` says that the parser keeps this
promise for trees of every file, and is proved. Three things are assumed beyond it: that a
function's body is a scope (the parser takes any one statement, and `ir_scope`
then reads `scope_n` of a node that has none), that names are identifiers and
not other tokens, and that no parameter is named twice.

`IrCode` has what a list of IR nodes must be for a back end to make sense of it
(`UsesOk`, `UniqueDests`, `Contained`). `Lowering` is the abstract specification
of the generator, as `compile_file` and the back ends see it: the module grows
by the program's declarations and functions in their order, every function with
such a list, the externs of a function before it, until the program is through;
and it is refused if and only if it breaks the rules of B. No activation,
counter, table or label is in it. `LoweringImplemented` is the refinement, by
which the variables `program`, `curr`, `module` and `status` are themselves and
every step that changes none of them is a stutter.

`IrGenLabels` and `IrGenRules` add what the proofs need to say of the trees, as
constants with equations from a node to the nodes below it (`LablesAssumption`,
`RulesAssumption`): the labels a statement defines; the variables a statement
or expression needs, the labels it meets, and whether it is in order by itself.
Trees are finite, so the equations have one solution, which `MCIrGen` computes
by recursion, and which it compares, as an `ASSUME` over all programs of the
run, with `ProgramWellFormed` of `BRules`. `WellFormed` is the same in terms of
the constants. `LabelInv` and `RuleInv` are the invariants on which control and
refusals rest (section 5).

### `Amd64`, `Frames`, `X86`, `Words` - the back end and a processor
`Amd64` gives, node by node, the instructions `asm_function` prints (operators;
the only state is `alloc_i`, which `AllocIndex` counts), and the bytes of
`.rodata` for each literal. `Frames` states over `IrGen`'s finished functions
what `asm_function`'s two loops must agree on (`FramesApart`). Arguments go where
`amd64.c:8-9` and `asm_call` put them; the comment of `examples/fncall.b:3-12`
has another convention (`r10` for the fourth, later ones below `rsp`), which the
back end does not follow. `X86` executes the instructions: registers, words of memory, `.rodata` byte by byte behind the
globals and followed by zeros, `rsp`, calls and returns with their addresses on
the stack, caller-saved registers overwritten by external calls, traps on
`idiv` and on addresses outside memory, and the kernel's `exit` and other
system calls, which enter the log. `Words` has two's-complement words of 16
bits instead of 64, so that TLC's integers hold every product; a word then
holds two bytes, and the others of its eight addresses read as zero.

### `Runtime` - start-up code and library
`brt.asm` and `libb.asm` instruction by instruction; `brt.b` and `libb.b` as
trees, which are compiled with each program. `Linked` puts them together as the
Makefile's rule does.

### `CompileAndRun` - the composition
`IrGen` runs on the linked program until it is done, then `X86` runs from
`_start` the module it left, which `X86` and `IrGen` share as one variable.
`CompiledMeansSource` compares the machine after `exit` with
`BLanguage!Meaning` of the program without the library, whose `putchar` and
`syscall` are what `res/libb.md` says.

### `Driver` - main
One action per call of `main`. Any `fopen` may fail. The lexer and the parser
may print a diagnostic and go on, or exit (the lexer on a quoted text that
nothing closes and on an unknown escape, `lexer.c:251`, `259`, `286`; the parser
on an unknown operator, `expr.c:174`). The parser may die reading through NULL;
`gen_ir` may stop in `ir_fatal`, or die reading `scope_n` of a function's body
that is no scope (`ir.c:423`), when the output is already truncated. A listing
may be cut by a full disk. `-i` and `-o` may name the same file.

### Proofs
`LexerProofs`, `StmtProofs`, `IrGenProofs`, `IrGenTemps`, `IrGenSlots`,
`IrGenRefusals`, `IrGenControl` and `DriverProofs`: section 5.

Definitions named `X_But...` are variants of `X` with a plausible slip; no
specification uses them. `PROJECT.json` names the property that fails when
one takes the place of `X`.

## 3. Runs

Every run uses a specification with the inputs chosen in `Init`, so one run
covers the whole pool. Deadlock is not checked: the program ends.

| run | module | states | asks |
|---|---|---|---|
| `lexer` | `MCLexer` | 265 333 | on 38 715 texts: refinement of `Scanner`, buffer, lines, store, termination |
| `expr_parser` | `MCExprParser` | 163 291 | tree, acceptance, termination on 16 730 token lists |
| `stmt_parser` | `MCStmtParser` | 285 261 | on the texts of 936 programs and on broken files: trees, silence, recursion, termination |
| `ir_gen` | `MCIrGen` | 20 434 | well-formed code, frames, labels, refusals, refinement of `Lowering`, termination of the generator on 967 programs |
| `compile_and_run` | `MCCompileAndRun` | 28 016 | 164 programs, compiled and linked, behave as their source |
| `driver` | `MCDriver` | 2 272 | exit status and files over every command line |
| `columns` | `MCLexer` | - | violation: a token's column counts blanks twice |
| `characters` | `MCCompileAndRun` | - | violation: `char` returns a word, not a character |
| `example_statements` | `MCExample` | - | violation: `res/example.b` does not compile |
| `help_status` | `MCDriver` | - | violation: `-help` exits with 1 |
| `diagnostic_status` | `MCDriver` | - | violation: a diagnosed program exits with 0 |

**`lexer`.** All texts of up to four characters over one or more of each
class, all strings, numbers and comments of up to five, and all pairs of words
of the language with nothing, a blank or a newline between. A loop of the lexer
looks at most two characters ahead and an escape, the longest thing with inner
structure, is two, so that four and five characters hold every pair of
neighbours with a context. `WordMod` is 4096, to let numbers exceed a `size_t`.
`ScannerImplemented` says that the tokens, their lexemes, values and lines are
those of the longest tokens of the text. The loop that replaces
escapes runs one character too far, because `strlen` counts the closing quote
(`lexer.c:267`); `ShortensInPlace` and `ScannerImplemented` show why that is
harmless. `TypeOK` has the buffer: no position is beyond the terminator.
`StoreBounded` is the most the lexemes can take of the arena.

**`expr_parser`.** All lists of up to four of nine token kinds (`MaxWord`),
each also ended by `; }`, chains of three operators from all eight levels,
and `f(A, B) op v[C]` with nine forms of each part. `TreeIsTheGrammars` and
`SentencesAccepted` are the two directions of "it parses the grammar".
A list with a token taken as an atom (`parse_atom_f` takes any) is not a
sentence; the generator refuses its tree (`OTHER` in `IrGen`).

**`stmt_parser`.** The texts of the programs of `BPool` (all but those with a
token that is no expression), three files of declarations and six functions
with each single token left out, replaced or preceded by one of fourteen, all
beginnings of a file of up to four tokens of twelve kinds, and of a function's
body of three of nineteen. `SentencesBecomeTrees`: each program is read back
from its text, scopes, chains and labels in place. `SilenceKeepsTheText`: of
any file without a diagnostic, broken ones included, all names, literals,
operators, keywords and braces are in the trees in the order of the file.
(One thing is lost, and excluded by the property: the size of a global that is
no literal becomes 0.) `TreesFitGenerator` is about files with diagnostics too,
because `main` goes on with them. `DepthBounded` is about the C stack: two
activations for each token taken.

**`ir_gen`.** The pool has every unary operator on every sort of operand
to depth two, one binary operator of each sort and assignment to every sort of
left side, calls; and every statement inside every other, before and after an
`auto`, a label and a `goto`, followed by a second function so that counters
restart and a label of another function is out of reach; and gotos into blocks,
loops and chains, before and after an auto there, from above and below. `DefBeforeUse`,
`SingleAssignment`, `SlotsExclusive` and `ControlStaysInside` are about the
emitted code in its order, `WrittenOnEveryPath` about it in the order in which
it is executed: no path reads an address before its `OP_ALLOC`. It excepts
programs with a goto over an auto into its scope (`JumpsKeepScopes` of
`BRules`), which the generator accepts and nothing documents; without the
exception TLC finds one at once. `FramesApart` is about the frames the back end lays out for it;
`LabelInv` and `RuleInv` are the accounts, kept through every state, of the
labels still to be placed and of what is still to be found in order;
`RefusesIllFormed` says that `ir_fatal` stops exactly the
programs that are not `WellFormed`; `LoweringImplemented` that all this is what
the callers are promised, and nothing else reaches them; `Terminates` is
liveness.

**`compile_and_run`.** Each binary operator on ten pairs of numbers (signs,
zero, the ends of the word); callees and external functions of 0, 1, 6, 7, 8
and 9 arguments with calls among the arguments (the sixth is the last in a
register; odd and even stack arguments differ in the pad); and eight programs
after `examples/`: recursion, an if chain, a goto loop, a sort through computed
addresses, references, shadowed names, parameters' own slots, and strings
written by `putchar` and by direct system calls of four and of seven
arguments. 16 bits
distinguish signed from unsigned comparison, arithmetic from logical shift and
truncating from flooring division as 64 do. `GlobalWords` (16) and `StackWords`
(160) are above what any of the programs uses; an access outside would be a
fault and fail `CompiledMeansSource`. `Junk` fills memory and clobbered
registers, so reading what nobody wrote shows. Literals have no zero byte
inside (`LiteralsAssumption`), since no document says what one would be.

**`driver`.** `ExitTellsOutput` is what the Makefile's `trident ... || exit 1;
nasm ...` relies on, for every way the process may end: with status 0 the output
is a listing of this run; with status 1, from whichever phase, or after a signal
it is empty or as it was. A cut listing also exits with 0, because `fprintf` and
`fclose` are not checked (`backend.c:38`); the property says so.

**Violations.** Each quotes a document. `lexer.h:71` calls `cn` the column, and
`lexer` adds two for a blank (`lexer.c:59` and `consume`). `libb.md:7` says
that `char` returns the i-th character, and `libb.b:4` loads the word that
begins there. `ReadMe.md:36` runs `res/example.b`,
whose `v[i++] = 1` needs a postfix increment the parser does not know (it
exits) and whose `i = col = 0` parses as `(i = col) = 0`. `res/trident.1:39-43`
gives 0 for displaying help and 1 for an error; `main` returns 1 for `-help`
and 0 after any diagnostic that does not end the process.

## 4. Fairness

The program is a single thread that never waits. Weak fairness of the whole
next-state relation says that it is scheduled again until it ends, which is all
that `Terminates` (`Lexer`, `ExprParser`, `StmtParser`, `IrGen`) and
`CompiledHalts` need; no action has fairness of its own. `compile_and_run` has
programs that end in their source only, since others should not halt. `Driver`
has no liveness property and no fairness.

## 5. Proofs

TLAPS proves the following for every value of the constants.

| module | theorem | states |
|---|---|---|
| `LexerProofs` | `StaysInBuffer` | `Spec => []TypeOK` |
| `LexerProofs` | `LinesAreCounted` | `Spec => []LinesCounted` |
| `LexerProofs` | `UnescapeStaysInBlock` | `Spec => []ShortensInPlace` |
| `LexerProofs` | `TwoBytesEnough` | `Spec => []StoreBounded` |
| `LexerProofs` | `ScannerRefined` | `Spec => ScannerImplemented` |
| `StmtProofs` | `ParserStaysInList` | `FileSpec => []FileTypeOK` |
| `StmtProofs` | `RecursionIsPaidFor` | `FileSpec => []DepthBounded` |
| `StmtProofs` | `StatementStaysInList` | `Spec => []TypeOK` of `ExprParser` |
| `StmtProofs` | `TreesAreWellSorted` | `FileSpec => [](status = "done" => every tree is Handed)` |
| `StmtProofs` | `ParserServesGenerator` | `FileSpec => []TreesFitGenerator` |
| `IrGenProofs` | `TypeCorrect` | `Spec => []TypeOK` |
| `IrGenTemps` | `DefinedBeforeUsed` | `Spec => []DefBeforeUse` |
| `IrGenTemps` | `AssignedOnce` | `Spec => []SingleAssignment` |
| `IrGenSlots` | `SlotsHold` | `Spec => []SlotsExclusive` |
| `IrGenSlots` | `FramesHold` | `Spec => []FramesApart` |
| `IrGenRefusals` | `RulesKept` | `Spec => []RuleInv` |
| `IrGenRefusals` | `RefusalsRight` | `Spec => []RefusesIllFormed` |
| `IrGenControl` | `LabelsAccounted` | `Spec => []LabelInv` |
| `IrGenControl` | `ControlKept` | `Spec => []ControlStaysInside` |
| `IrGenControl` | `LoweringRefined` | `Spec => LoweringImplemented` |
| `DriverProofs` | `StatusTellsOutput` | `Spec => []ExitTellsOutput` |
| `DriverProofs` | `InputReadFirst` | `Spec => []ReadsBeforeWriting` |
| `DriverProofs` | `ListingStays` | `Spec => ListingKept` |

*Assumptions.* Those of the modules: that texts and token lists are sequences
(`TextsAssumption` of `Lexer`, `InputsAssumption` of `ExprParser`), that the
char NUL is 0 (`CodeAssumption` of `Lexer`), that a token
list spells an identifier by its name and not by its kind (`NamedTokens` of
`StmtParser`), the shape of the trees (`ExprAssumption`, `StmtAssumption`,
`ProgramAssumption` of `IrGen`) and of the command lines (`OptionsAssumption` of
`Driver`); for the theorems of `IrGenRefusals` also `RulesAssumption`, the
equations of the rules of B; and for those of `IrGenControl` also
`LablesAssumption`, the equations of the labels, with the one restriction that
no function defines a label twice: `ir_lable_s` would place it twice, and nasm
refuses the listing. TLC evaluates them in the runs. Programs, names, trees and texts are otherwise
arbitrary, infinite sets included.

*Lexer.* `PosInv` adds to `TypeOK` what each loop knows of the characters it
began with: a word or number is not empty when it ends, and quoted text follows
its quote. What a loop takes is no terminator (`Classes`, `Peak`), so no step
leaves the buffer. `LinesCounted` is inductive with it. `StoreInv` relates the
store to the text: a lexeme is paid for by the characters since it began, two
bytes each; and in the loop over escapes the write index is never past the read
index and the block still ends in its terminator. Without this last part
`ShortensInPlace` is not inductive: an escape moves the read index by two, and
only the terminator keeps it from passing the block's end.

*Longest tokens.* `LexInv` adds what each loop has gone over, between one step
of `Scanner` and the next: the chars of a word (`WordTaken`), a number's prefix
and digits (`NumberTaken`), quoted text in which the quote stood only escaped
(`StringTaken`), a comment that has not ended before (`CommentTaken`). To
`Scanner`, whether a char is escaped is the parity of the stars before it; to
the loop, it is the char after a star; `EscapedNext` joins the two. When a loop
ends, what it has is a token and nothing longer is: the char that stopped it
can be in no such token, and quoted text that went on would have an unescaped
quote inside. `Unescaping` is the invariant of the replacement in place:
`Unescaped(s, n, b, st, r, w)` says that in the block at `b` the first `w` bytes
are the meanings of the chars of `s` that count among those before `r`, and that
what is not read yet still stands there; `UnescapedEnd` that when the loop is
through, the byte too far included, the C string in the block is `Quoted`.
`BlocksKept` says that each token's lexeme has a terminator inside what is
`Finished`, where no step writes (`FinishedKept`); so tokens made stay what they
were, and `Seen` only grows. `strtoull` is one library function to both modules:
which digits it gets and in which base is proved to be right, not how it adds
them up.

*Parser.* The bound on the recursion is not inductive as a bound on the
length of the stack: after a return the next call may be by a function that has
taken fewer tokens than the one that returned. `Fits` bounds each activation by
itself: the k-th has k at most `2 * tok + Slack(fn)`, where `Slack` is one more
than its caller's for a function called before anything is taken, and one less
for one called for a token. There is a lemma for each way the stack changes
(call, call of two, return, result) and one for what a cursor may do to `tok`.

*Trees of the parser.* What an activation returns cannot be judged alone: a
frame's list is half a node. `TreeInv` says of each activation what its list
holds by now (`FrameHolds`), which call it waits for (`Waits`), and that every
label of the table is in one of these lists (`Labelled`), so that none is lost
when the lists become nodes. What a C function hands back (`Yields`) is then
what the caller's list lacks (`CallerTakes`). That everything *below* a node is
of the right sort is said without recursion: there is a set with the node in
it that is closed under children and every member of which is right (`IsStmt`,
`IsExpr`). `TreesAreWellSorted` is this for trees of any depth;
`TreesFitGenerator`, in which TLC collects the nodes to a bounded depth,
follows. That diagnosed files are included is the hard part: after
`expect_and_consume` has complained the parser goes on with the wrong token.

*Types of the generator.* `TypeOK` alone is not inductive: `ir_scope` returns
to the frame below, and that the frame can take the result depends on the order
of the frames. `TypeInv` adds `Nesting`: the bottom frame is `ir_function_s` on
the current declaration and no other frame is one. The proof has lemmas for the
three things a step does (`Call`, `Yield`, return), then one per C function.

*Temporaries.* `ValueInv` adds to `TypeInv`:
- `Sound`: the nodes emitted so far write distinct temporaries, none beyond the
  counter `temp_c`, and read only available ones; parameters are redefined only
  up to the one being spilled;
- `FrameServed`: every result a frame holds, and the storage of every variable
  in its table, is an available temporary;
- `Awaited`: each activation is the one its caller waits for, so that an lvalue
  is never taken for a value. Without it the result of `ir_lvalue`, which
  for a global has no temporary, could reach an operator;
- `ModuleInv`: finished functions keep the property.

A step emits at most two nodes, each reading results that `FrameServed` covers
and writing `temp_c + 1` (lemmas `SoundAppend` and following), and code only
grows, so what was available stays so.

*Storage.* `SlotInv` adds which temporaries are addresses of which storage. In
a function of p parameters the i-th is spilled to slot p + i (`Spilled`,
`Counted`), an auto takes a temporary beyond 2p, and no two entries of the live
tables hold the same one (`NoneShared`). `Home` reads from an address temporary
whose storage it is; two variables with one slot would have one home.

*Refusals.* `RuleInv` says, in every state, that the function being generated
keeps the rules if and only if all that its activations have still to evaluate
is in order (`FrameInOrder`), each in the variables that the nest of symbol
tables below it shows (`Sees`). Both directions are needed: "only if" so that an
accepted function was right all along, "if" so that `ir_fatal` condemns the
whole. The proof is one lemma per C function: a call splits what is in order
into the part called and the part that remains, and a return adds nothing. The
delicate step is `ir_auto_s`, which changes a table that other activations look
through: `TableKept` and `AutoCalled` pin it to the scope on top, whose
remaining statements are in order with the name in force exactly when they were
with the declaration ahead. `RuleInv` contains what makes it inductive; TLC
checks it on the run.

*Control.* A goto may precede its label, so the invariant has to speak of what
is not generated yet. `LabelInv` is an account. Each id that `lable_c` has given
out is in exactly one of three places: placed once in the code; owed by one
activation that reserved it (`Reserved`: the ends, elses and bodies of `if` and
`while`); or the id of a name which one activation has ahead of it in its tree
(`Ahead`). Everything jumps to ids given out. A step moves ids from one place to
another; when the function ends no activation is left to owe anything, so each
target is placed once, and `EndFunction` has seen to the return.

*Lowering.* Each step of the generator that ends a top-level node maps to the
step of `Lowering` that adds it, `ir_fatal` to `Refuse` and the end to
`Finish`; the others are stutters. That a function is usable when it is added is
`DefBeforeUse`, `SingleAssignment` and `ControlStaysInside`; that refusals and
endings are the right ones is `RefusesIllFormed`; that it is the function at
`curr` which is added is `Nesting`. So the theorem joins all of the above into
one statement about what a caller sees.

*Frames.* From `TypeCorrect` alone: every temporary is at most the `MaxTemp` of
the first loop (the maximum of finitely many naturals exists, by induction on
their bound), the allocs' words start above it and their numbers, the
cardinalities of strictly growing sets, differ and end at the count, and the
rounding to 16 bytes leaves an even number of words at least as large.

*Files of the driver.* `DriverInv` says what the output holds at every point of
`main`: untouched up to `init_ir`, empty until `gen_output`, then a listing, and
one of the first two wherever the process may have exited with 1 or died.
`ExitTellsOutput` speaks only of the end, and follows.

*Only model-checked.* Liveness (`Terminates`, `CompiledHalts`): the prover has
no fairness. What compares the code with a recursive reference
(`CompiledMeansSource`, `TreeIsTheGrammars`, `SentencesAccepted`,
`SentencesBecomeTrees`, `SilenceKeepsTheText`): recursion over trees and words
needs induction the prover cannot instantiate. `WrittenOnEveryPath`: it quantifies
over the paths through the code, again by recursion, and rests on the parts of
B's rules (`JumpsKeepScopes`) that no activation knows.
`CallsAligned` and
`ReturnsSafe`: they hold for programs that do not write outside their variables,
a property of the run of the program and not of the compiler; `FramesApart` is
the compiler's share, and is proved.

## 6. Not modelled

- `dump_ir` and the layout of both listings; the wording of diagnostics.
- Allocation failure and the growth of arenas: the library (`dep/`) is a
  submodule that is not in the tree. `StoreBounded` says how much is asked for.
- `auto v[n]`: the parser hands the size to the tree (`FileText` compares it),
  and `ir_auto_s` allocates one word. What the other n - 1 words should be is
  written nowhere, so that nothing can be compared; the hazard is listed.
- A function body that is one statement and no scope: what `ir_scope` reads of
  it is undefined. `StmtParser` builds such trees, `IrGen` assumes them away, and
  `Driver` lets `gen_ir` go on, stop or die.
- Sources whose labels are defined twice in a function: nasm refuses the
  listing. Jumps *into* a block are in
  `ir_gen` and `stmt_parser`, but not executed: `BLanguage` does not define them.
- `res/libb.md` describes library functions; those outside `libb.asm` and
  `libb.b` do not exist yet, and a program that calls one does not link. The
  external functions of `compile_and_run` stand for those a user links.
- The build, apart from what it links and that it stops on a failing compiler.

## 7. Plan

Done in this order: the generator, which holds most of the compiler's mutable
state; what its output means; then the inputs it relies on, from the
expressions outwards to the characters; the storage and the frames proved; then
control, refusals and the trees the parser hands on; the abstract generator
that these theorems together implement; and last the abstract lexer.

What would come next:
1. Programs that jump forward into a scope, with a meaning for what they find.
2. Autos of n words, when a document says what they are.
