----------------------------- MODULE ExprGrammar -----------------------------
(***************************************************************************)
(* The expressions of the language as a grammar read from the outside in:    *)
(* an expression is cut at its loosest operator.  It shares with ExprParser  *)
(* only the shape of the trees, and says what parse_expr_s ought to build.   *)
(***************************************************************************)
EXTENDS ExprParser, FiniteSetsExt

\* From the loosest binary operators to the tightest.
Levels ==
  <<{"ASSIGN"}, {"BIT_OR"}, {"BIT_AND"},
    {"LESSER", "GREATER", "LESSER_EQUAL", "GREATER_EQUAL"}, {"EQUAL", "NOT_EQUAL"},
    {"BITSHIFT_L", "BITSHIFT_R"}, {"ADD", "SUB"}, {"MUL", "DEV", "MOD"}>>
LevelOf(op) == CHOOSE l \in DOMAIN Levels : op \in Levels[l]
BinaryOps   == UNION {Levels[l] : l \in DOMAIN Levels}

Openers == {"O_PREN", "O_BRACKET"}
Closers == {"C_PREN", "C_BRACKET"}
Operands1 == {"IDENTIFIER", "INT"}

\* How many brackets are open before position i of w, counted from lo.
Depth(w, lo, i) ==
  Cardinality({j \in lo .. i - 1 : w[j] \in Openers})
    - Cardinality({j \in lo .. i - 1 : w[j] \in Closers})

\* w[lo] opens the bracket that w[hi], and nothing before it, closes.
Encloses(w, lo, hi, open, close) ==
  /\ lo < hi /\ w[lo] = open /\ w[hi] = close
  /\ Depth(w, lo, hi + 1) = 0 /\ \A i \in lo + 1 .. hi : Depth(w, lo, i) > 0

\* The binary operators of w[lo .. hi] outside all brackets: an operator is
\* binary when an operand ends before it.
Cuts(w, lo, hi) ==
  {i \in lo + 1 .. hi - 1 :
     w[i] \in BinaryOps /\ w[i - 1] \in Operands1 \cup Closers /\ Depth(w, lo, i) = 0}

\* The root: the loosest operator, the last of them for assignments and the
\* first for all others.
Root(w, cuts) ==
  LET loosest == Min({LevelOf(w[i]) : i \in cuts})
      here == {i \in cuts : LevelOf(w[i]) = loosest}
  IN IF loosest = 1 THEN Max(here) ELSE Min(here)

\* The trees w[lo .. hi] stands for as an expression, and the lists of trees
\* it stands for as arguments: one or none.
RECURSIVE Parses(_, _, _), Arguments(_, _, _)
Parses(w, lo, hi) ==
  LET cuts == Cuts(w, lo, hi) IN
  IF lo > hi THEN {}
  ELSE IF cuts # {} THEN
    LET i == Root(w, cuts) IN
      {Bin(w[i], l, r) : l \in Parses(w, lo, i - 1), r \in Parses(w, i + 1, hi)}
  ELSE IF lo = hi THEN {Atom(k, lo) : k \in {w[lo]} \cap Operands1}
  ELSE IF w[lo] \in unary_ops THEN {Un(w[lo], t) : t \in Parses(w, lo + 1, hi)}
  ELSE IF Encloses(w, lo, hi, "O_PREN", "C_PREN") THEN Parses(w, lo + 1, hi - 1)
  ELSE IF w[lo] = "IDENTIFIER" /\ Encloses(w, lo + 1, hi, "O_PREN", "C_PREN")
    THEN {CallOf(w[lo], lo, a) : a \in Arguments(w, lo + 2, hi - 1)}
  ELSE IF w[lo] \in Operands1 /\ Encloses(w, lo + 1, hi, "O_BRACKET", "C_BRACKET")
    THEN {Index(Atom(w[lo], lo), t) : t \in Parses(w, lo + 2, hi - 1)}
  ELSE {}

\* Arguments are separated by commas, and a comma may follow the last one.
Arguments(w, lo, hi) ==
  IF lo > hi THEN {<<>>}
  ELSE LET commas == {i \in lo .. hi : w[i] = "COMMA" /\ Depth(w, lo, i) = 0}
           c == IF commas = {} THEN hi + 1 ELSE Min(commas)
       IN {<<t>> \o rest : t \in Parses(w, lo, c - 1), rest \in Arguments(w, c + 1, hi)}

-----------------------------------------------------------------------------
\* Every atom of the tree is a name or a number: the tree has none that
\* ir_expr_f and ir_lvalue do not know.
RECURSIVE Clean(_)
Clean(t) ==
  CASE t.kind = "AST_ATOM"   -> t.tok \in Operands1
    [] t.kind = "AST_UNARY"  -> Clean(t.node)
    [] t.kind = "AST_BINARY" -> Clean(t.left) /\ Clean(t.right)
    [] t.kind = "AST_FUNCTION_CALL" -> \A i \in DOMAIN t.args : Clean(t.args[i])

\* A statement the parser passes on without a diagnostic, and whose tree the IR
\* generator can read, is an expression of the grammar up to its semicolon, and
\* the tree is the one the grammar gives it: every operand under the operator
\* that binds it tightest, no token lost or taken twice.
TreeIsTheGrammars ==
  HasTree /\ ~ diagnosed /\ Clean(Result) =>
    /\ input[tok - 1] = "SEMICOLON"
    /\ Parses(input, 1, tok - 2) = {Result}

\* Every expression of the grammar that a semicolon ends is parsed up to that
\* semicolon, without a diagnostic, an exit or a read past the last token.
SentencesAccepted ==
  status # "running" =>
    LET ends == {i \in DOMAIN input : input[i] = "SEMICOLON"} IN
      ends # {} /\ Parses(input, 1, Min(ends) - 1) # {} =>
        HasTree /\ ~ diagnosed /\ tok = Min(ends) + 1

-----------------------------------------------------------------------------
\* What ir_lvalue takes as the target of an assignment.
RECURSIVE TargetsOk(_)
TargetsOk(t) ==
  CASE t.kind = "AST_ATOM"   -> TRUE
    [] t.kind = "AST_UNARY"  -> TargetsOk(t.node)
    [] t.kind = "AST_BINARY" ->
         /\ TargetsOk(t.left) /\ TargetsOk(t.right)
         /\ t.op = "ASSIGN" => \/ t.left.kind = "AST_ATOM" /\ t.left.tok = "IDENTIFIER"
                               \/ t.left.kind = "AST_UNARY" /\ t.left.op = "MUL"
    [] t.kind = "AST_FUNCTION_CALL" -> \A i \in DOMAIN t.args : TargetsOk(t.args[i])

\* `make run EXAMPLE=res/example.b' (ReadMe.md:36) compiles the example: each
\* of its statements is accepted and assigns to something that has an address.
ExampleCompiles ==
  status # "running" => HasTree /\ ~ diagnosed /\ TargetsOk(Result)
=============================================================================
