----------------------------- MODULE ExprParser -----------------------------
(***************************************************************************)
(* The expression parser, src/expr.c, run by parse_expr_s of src/parser.c    *)
(* on one statement: precedence climbing by parse_expr_f, operands by        *)
(* parse_left_f.                                                             *)
(*                                                                         *)
(* A frame of `stack' is an activation of one of the C functions; `at' is    *)
(* the position of the token that chose its branch, `got' the trees its      *)
(* calls returned.  The tree's leaves name the position of their token, so   *)
(* a lost, repeated or displaced token shows.                                *)
(***************************************************************************)
EXTENDS BTrees

CONSTANTS
  Names,    \* the names a token may spell
  Inputs    \* the lists of tokens that may follow p->tok

\* A token is given by its name if it spells one of Names, else by its kind.
ASSUME InputsAssumption == \A w \in Inputs : w \in Seq(STRING)

KindOf(t) == IF t \in Names THEN "IDENTIFIER" ELSE t

\* Definitions named X_But... are variants of X with a plausible slip in it,
\* which no specification uses.

unary_ops == {"NOT", "ADD", "SUB", "MUL", "INC", "DEC", "BIT_AND"}

\* enum Precedence; PREC_CONDITIONAL has no operator.
PREC_UNKNOWN    == -1
PREC_NONE       == 0
PREC_ASSIGNMENT == 1
PrecOf ==
  [ASSIGN |-> PREC_ASSIGNMENT, BIT_OR |-> 3, BIT_AND |-> 4,
   LESSER |-> 5, GREATER |-> 5, LESSER_EQUAL |-> 5, GREATER_EQUAL |-> 5,
   EQUAL |-> 6, NOT_EQUAL |-> 6, BITSHIFT_L |-> 7, BITSHIFT_R |-> 7,
   ADD |-> 8, SUB |-> 8, MUL |-> 9, DEV |-> 9, MOD |-> 9,
   COMMA |-> PREC_NONE, C_PREN |-> PREC_NONE, C_BRACKET |-> PREC_NONE,
   SEMICOLON |-> PREC_NONE]
get_op_prec(kind) == IF kind \in DOMAIN PrecOf THEN PrecOf[kind] ELSE PREC_UNKNOWN

RightPrec_ButLeftAssociative(prec) == prec + 1
\* The precedence parse_expr_f asks of a right operand: only assignment is
\* "left associative".
RightPrec(prec) == IF prec = PREC_ASSIGNMENT THEN prec + 1 ELSE prec

-----------------------------------------------------------------------------
(* Trees                                                                    *)

Atom(t, at) == [kind |-> "AST_ATOM", tok |-> t, at |-> at]
CallOf(t, at, args) ==
  [kind |-> "AST_FUNCTION_CALL", name |-> t, at |-> at, args |-> args]

\* v[i] becomes *(i * 8 + &v); the 8 stands in no token.
Index(base, i) ==
  Un("MUL", Bin("ADD", Bin("MUL", i, Atom("INT", 0)), Un("BIT_AND", base)))

-----------------------------------------------------------------------------
VARIABLES
  input,      \* the tokens, chosen once
  tok,        \* position of p->tok; Len(input) + 1 is NULL
  stack,      \* activations of the C functions
  diagnosed,  \* expect_and_consume has printed a diagnostic
  status      \* "running", "done", "exit" after exit(1), "crash" after reading NULL

vars == <<input, tok, stack, diagnosed, status>>

Frame(fn, prec, at) == [fn |-> fn, prec |-> prec, at |-> at, got |-> <<>>]
Expr(prec) == Frame("parse_expr_f", prec, 0)

Init_ButAtListHead ==
  /\ input \in Inputs
  /\ tok = 0
  /\ stack = <<Frame("parse_expr_s", PREC_NONE, 0)>>
  /\ diagnosed = FALSE
  /\ status = "running"

Init ==
  /\ input \in Inputs
  /\ tok = 1
  /\ stack = <<Frame("parse_expr_s", PREC_NONE, 0)>>
  /\ diagnosed = FALSE
  /\ status = "running"

Top        == stack[Len(stack)]
InCall(fn) == status = "running" /\ Top.fn = fn
AtEnd      == tok > Len(input)
Kind       == KindOf(input[tok])
See(kinds) == ~ AtEnd /\ Kind \in kinds
\* The kind of the token that chose the branch of the running frame.
Branch(kinds) == Top.at # 0 /\ input[Top.at] \in kinds

Call(f) == stack' = Append(stack, f)
\* Call f, the running frame having taken the token at position i.
CallAt(i, f) == stack' = Append([stack EXCEPT ![Len(stack)].at = i], f)
\* The running activation returns tree to its caller.
Given(s, tree) == [s EXCEPT ![Len(s)].got = Append(@, tree)]
Returned(tree) == Given(Front(stack), tree)
Return(tree)   == stack' = Returned(tree)

\* expect_and_consume: a wrong token is reported and stays.
Expect(kind) ==
  /\ ~ AtEnd
  /\ tok' = IF Kind = kind THEN tok + 1 ELSE tok
  /\ diagnosed' = (diagnosed \/ Kind # kind)

-----------------------------------------------------------------------------
(* parse_expr_s                                                             *)

StatementExpr ==
  /\ InCall("parse_expr_s") /\ Top.got = <<>> /\ ~ See({"COMMA"})
  /\ Call(Expr(PREC_NONE))
  /\ UNCHANGED <<input, tok, diagnosed, status>>

\* A statement that begins with a comma is one token long and has no tree.
SkipComma ==
  /\ InCall("parse_expr_s") /\ Top.got = <<>> /\ See({"COMMA"})
  /\ tok' = tok + 1
  /\ status' = "done"
  /\ UNCHANGED <<input, stack, diagnosed>>

EndStatement ==
  /\ InCall("parse_expr_s") /\ Top.got # <<>>
  /\ Expect("SEMICOLON")
  /\ status' = "done"
  /\ UNCHANGED <<input, stack>>

-----------------------------------------------------------------------------
(* parse_expr_f                                                             *)

LeftOperand ==
  /\ InCall("parse_expr_f") /\ Top.got = <<>>
  /\ Call(Frame("parse_left_f", PREC_NONE, 0))
  /\ UNCHANGED <<input, tok, diagnosed, status>>

\* The head of the loop, the left operand being complete.
AtOperator == InCall("parse_expr_f") /\ Len(Top.got) = 1 /\ Top.at = 0

\* op_prec; the end of the list ends the loop like PREC_NONE.
OpPrec    == IF AtEnd THEN PREC_NONE ELSE get_op_prec(Kind)
Continues == OpPrec > PREC_NONE /\ OpPrec >= Top.prec

RightOperand ==
  /\ AtOperator /\ Continues
  /\ tok' = tok + 1
  /\ CallAt(tok, Expr(RightPrec(OpPrec)))
  /\ UNCHANGED <<input, diagnosed, status>>

UnknownOperator ==
  /\ AtOperator /\ OpPrec = PREC_UNKNOWN
  /\ status' = "exit"
  /\ UNCHANGED <<input, tok, stack, diagnosed>>

\* Both operands are there: the node becomes the left operand of the next one.
Combine ==
  /\ InCall("parse_expr_f") /\ Len(Top.got) = 2
  /\ stack' = [stack EXCEPT ![Len(stack)].got = <<Bin(input[Top.at], @[1], @[2])>>,
                            ![Len(stack)].at = 0]
  /\ UNCHANGED <<input, tok, diagnosed, status>>

EndExpr ==
  /\ AtOperator /\ ~ Continues /\ OpPrec # PREC_UNKNOWN
  /\ Return(Top.got[1])
  /\ UNCHANGED <<input, tok, diagnosed, status>>

-----------------------------------------------------------------------------
(* parse_left_f, parse_unary_lop_s and parse_atom_f                         *)

AtOperand == InCall("parse_left_f") /\ Top.at = 0

IsCall == See({"IDENTIFIER"}) /\ tok < Len(input) /\ input[tok + 1] = "O_PREN"

OpenParen ==
  /\ AtOperand /\ See({"O_PREN"})
  /\ tok' = tok + 1
  /\ CallAt(tok, Expr(PREC_NONE))
  /\ UNCHANGED <<input, diagnosed, status>>

CloseParen_ButRetries ==
  /\ InCall("parse_left_f") /\ Branch({"O_PREN"}) /\ Top.got # <<>>
  /\ See({"C_PREN"})
  /\ Expect("C_PREN")
  /\ Return(Top.got[1])
  /\ UNCHANGED <<input, status>>

CloseParen ==
  /\ InCall("parse_left_f") /\ Branch({"O_PREN"}) /\ Top.got # <<>>
  /\ Expect("C_PREN")
  /\ Return(Top.got[1])
  /\ UNCHANGED <<input, status>>

UnaryOperator ==
  /\ AtOperand /\ See(unary_ops)
  /\ tok' = tok + 1
  /\ CallAt(tok, Frame("parse_left_f", PREC_NONE, 0))
  /\ UNCHANGED <<input, diagnosed, status>>

EndUnary ==
  /\ InCall("parse_left_f") /\ Branch(unary_ops) /\ Top.got # <<>>
  /\ Return(Un(input[Top.at], Top.got[1]))
  /\ UNCHANGED <<input, tok, diagnosed, status>>

\* Any other token is taken as an atom, whatever it is; the next one is then
\* looked at without a check for the end of the list.
TakesAtom == AtOperand /\ ~ See({"O_PREN"} \cup unary_ops) /\ ~ IsCall /\ tok < Len(input)

PlainAtom ==
  /\ TakesAtom /\ input[tok + 1] # "O_BRACKET"
  /\ tok' = tok + 1
  /\ Return(Atom(input[tok], tok))
  /\ UNCHANGED <<input, diagnosed, status>>

OpenIndex ==
  /\ TakesAtom /\ input[tok + 1] = "O_BRACKET"
  /\ tok' = tok + 2
  /\ CallAt(tok, Expr(PREC_NONE))
  /\ UNCHANGED <<input, diagnosed, status>>

CloseIndex ==
  /\ InCall("parse_left_f") /\ Top.at # 0 /\ ~ Branch({"O_PREN"} \cup unary_ops) /\ Top.got # <<>>
  /\ Expect("C_BRACKET")
  /\ Return(Index(Atom(input[Top.at], Top.at), Top.got[1]))
  /\ UNCHANGED <<input, status>>

-----------------------------------------------------------------------------
(* parse_function_call_s: its frame takes the place of parse_left_f's, which *)
(* only wraps its result.  prec counts the arguments the loop is done with.  *)

OpenCall ==
  /\ AtOperand /\ IsCall
  /\ tok' = tok + 2
  /\ stack' = [stack EXCEPT ![Len(stack)] = Frame("parse_function_call_s", 0, tok)]
  /\ UNCHANGED <<input, diagnosed, status>>

AtArgument == InCall("parse_function_call_s") /\ Top.prec = Len(Top.got)

Argument ==
  /\ AtArgument /\ ~ AtEnd /\ Kind # "C_PREN"
  /\ Call(Expr(PREC_NONE))
  /\ UNCHANGED <<input, tok, diagnosed, status>>

AfterArgument_ButCommaKept ==
  /\ InCall("parse_function_call_s") /\ Top.prec < Len(Top.got)
  /\ stack' = [stack EXCEPT ![Len(stack)].prec = @ + 1]
  /\ UNCHANGED <<input, tok, diagnosed, status>>

\* A comma after an argument is consumed, but need not be there.
AfterArgument ==
  /\ InCall("parse_function_call_s") /\ Top.prec < Len(Top.got)
  /\ stack' = [stack EXCEPT ![Len(stack)].prec = @ + 1]
  /\ tok' = IF See({"COMMA"}) THEN tok + 1 ELSE tok
  /\ UNCHANGED <<input, diagnosed, status>>

CloseCall ==
  /\ AtArgument /\ See({"C_PREN"})
  /\ tok' = tok + 1
  /\ Return(CallOf(input[Top.at], Top.at, Top.got))
  /\ UNCHANGED <<input, diagnosed, status>>

-----------------------------------------------------------------------------
\* p->tok is NULL where the code reads its kind without a check: at the start
\* of an operand, after an atom, in the argument loop and at an expected token.
ReadsNull ==
  \/ AtOperand /\ AtEnd
  \/ AtOperand /\ ~ See({"O_PREN"} \cup unary_ops) /\ tok = Len(input)
  \/ AtArgument /\ AtEnd
  \/ /\ InCall("parse_left_f") \/ InCall("parse_expr_s")
     /\ Top.got # <<>> /\ ~ Branch(unary_ops) /\ AtEnd

Crash ==
  /\ status = "running" /\ ReadsNull
  /\ status' = "crash"
  /\ UNCHANGED <<input, tok, stack, diagnosed>>

ExpressionStep ==
  \/ LeftOperand \/ RightOperand \/ UnknownOperator \/ Combine \/ EndExpr
  \/ OpenParen \/ CloseParen \/ UnaryOperator \/ EndUnary
  \/ PlainAtom \/ OpenIndex \/ CloseIndex
  \/ OpenCall \/ Argument \/ AfterArgument \/ CloseCall
  \/ Crash
Next == StatementExpr \/ SkipComma \/ EndStatement \/ ExpressionStep

Spec == Init /\ [][Next]_vars
\* The parser is a loop of a single thread that never waits.
FairSpec == Spec /\ WF_vars(Next)

-----------------------------------------------------------------------------
(* Properties that need no reference                                        *)

FrameOk(f) ==
  /\ f.fn \in {"parse_expr_s", "parse_expr_f", "parse_left_f", "parse_function_call_s"}
  /\ f.prec \in Nat
  /\ f.at \in 0 .. Len(input)
  /\ Len(f.got) \in Nat

\* Variables keep their types: p->tok stays in the list or is NULL, every
\* activation remembers a token of the list.
TypeOK ==
  /\ input \in Inputs
  /\ tok \in 1 .. Len(input) + 1
  /\ stack # <<>> /\ \A k \in DOMAIN stack : FrameOk(stack[k])
  /\ diagnosed \in BOOLEAN
  /\ status \in {"running", "done", "exit", "crash"}

\* The tree of the statement, once it has been parsed.
Result == Top.got[1]
HasTree == status = "done" /\ Top.got # <<>>

\* The parser ends on every token list: although expect_and_consume leaves a
\* wrong token where it is, each round of each loop takes at least one.
Terminates == <>(status # "running")

=============================================================================
