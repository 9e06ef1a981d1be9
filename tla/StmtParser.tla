----------------------------- MODULE StmtParser -----------------------------
(***************************************************************************)
(* The parser of a file, src/parser.c: parser, the declarations, the scopes *)
(* and the statements, over the expression parser of ExprParser.             *)
(*                                                                         *)
(* A frame's `got' is the list its activation has built: the top-level list *)
(* in parser, the statements in parse_scope_f, parameters and then the body *)
(* in parse_function_s; add_node is an append to it.  The table of a scope   *)
(* holds the names of the autos in its list, global_table those of the      *)
(* globals: put_to_hash_set and add_node come together.  stack_offset is    *)
(* never read and left out.                                                 *)
(***************************************************************************)
EXTENDS ExprParser

\* Names tell declarations apart here, so that no identifier goes without one.
ASSUME NamedTokens == \A w \in Inputs : \A i \in DOMAIN w : w[i] # "IDENTIFIER"

VARIABLE t_lable_tab   \* the labels of the function being parsed

fileVars == <<vars, t_lable_tab>>

\* Tokens that add_token gives a lexeme; the others have NULL.
Worded == Names \cup {"INT", "STRING", "EXTRN", "AUTO", "IF", "ELSE", "WHILE", "GOTO", "RETURN"}
\* The value of the one number and the one string literal of the model.
int_lit(t) == CASE t = "INT" -> 2 [] t = "STRING" -> 3 [] OTHER -> 0

-----------------------------------------------------------------------------
(* A cursor goes over the tokens one C function takes in a row.  `crash' has *)
(* the ways it may end: {TRUE} once it went through NULL.                    *)

Here   == [tok |-> tok, diagnosed |-> diagnosed, crash |-> {FALSE}]
At(c)  == IF c.tok <= Len(input) THEN KindOf(input[c.tok]) ELSE "NULL"
Dies(c)  == [c EXCEPT !.crash = {TRUE}]
Reads(c) == IF At(c) = "NULL" THEN Dies(c) ELSE c
\* pconsume, and the same after p->tok has been read.
Skips(c) == IF At(c) = "NULL" THEN c ELSE [c EXCEPT !.tok = @ + 1]
Takes(c) == Skips(Reads(c))
Expects_ButNeverNull(c, kind) ==
  IF At(c) \in {kind, "NULL"} THEN [c EXCEPT !.tok = @ + 1] ELSE [c EXCEPT !.diagnosed = TRUE]
Expects(c, kind) ==
  IF At(c) \in {kind, "NULL"} THEN Takes(c) ELSE [c EXCEPT !.diagnosed = TRUE]
May(c, kind) == IF At(c) = kind THEN Skips(c) ELSE c
\* put_to_hash_set: what it makes of a NULL key is the library's affair.
Keys(c, t) == IF c.crash = {FALSE} /\ t \notin Worded THEN [c EXCEPT !.crash = BOOLEAN] ELSE c

\* Go to where c is, with stack s.  (\E d \in {c}, here and below, is LET with
\* a value TLC works out once.)
Advance(c, s) ==
  /\ \E d \in {c} : \E dies \in d.crash :
       IF dies THEN status' = "crash" /\ UNCHANGED <<tok, diagnosed, stack>>
       ELSE tok' = d.tok /\ diagnosed' = d.diagnosed /\ stack' = s /\ UNCHANGED status
  /\ UNCHANGED input

Frames(fn, prec, at) == Append(stack, Frame(fn, prec, at))
\* Call f, which goes on to call parse_expr_f.
WithExpr(fn, prec, at) == Append(Frames(fn, prec, at), Expr(PREC_NONE))
Scope == Frame("parse_scope_f", 0, 0)

-----------------------------------------------------------------------------
(* parser and parse_global_s                                                *)

BeginFunction_ButSameTable ==
  /\ InCall("parser") /\ See({"IDENTIFIER"}) /\ At(Skips(Here)) = "O_PREN"
  /\ Advance(Skips(Skips(Here)), Frames("parse_function_s", 0, tok))
  /\ UNCHANGED t_lable_tab

BeginFunction ==
  /\ InCall("parser") /\ See({"IDENTIFIER"}) /\ At(Skips(Here)) = "O_PREN"
  /\ Advance(Skips(Skips(Here)), Frames("parse_function_s", 0, tok))
  /\ t_lable_tab' = {}

BeginGlobal ==
  /\ InCall("parser") /\ See({"IDENTIFIER"}) /\ At(Skips(Here)) # "O_PREN"
  /\ Advance(Reads(Skips(Here)), Frames("parse_global_s", 0, tok))

Unexpected_ButNotConsumed ==
  /\ InCall("parser") /\ ~ AtEnd /\ ~ See({"IDENTIFIER", "EXTRN"})
  /\ Advance([Here EXCEPT !.diagnosed = TRUE], stack)

Unexpected ==
  /\ InCall("parser") /\ ~ AtEnd /\ ~ See({"IDENTIFIER", "EXTRN"})
  /\ Advance([Skips(Here) EXCEPT !.diagnosed = TRUE], stack)

EndOfFile ==
  /\ InCall("parser") /\ AtEnd
  /\ status' = "done"
  /\ UNCHANGED <<input, tok, stack, diagnosed>>

\* One round of the loop: any token may stand for the size, and for the name
\* after a comma.
GlobalItem ==
  /\ InCall("parse_global_s")
  /\ \E sized \in {See({"O_BRACKET"})} :
     \E c \in {Keys(IF sized THEN Expects(Takes(Skips(Here)), "C_BRACKET") ELSE Here,
                   input[Top.at])} :
       LET more  == At(c) = "COMMA"
           added == Returned(Global(input[Top.at], IF sized THEN int_lit(input[tok + 1]) ELSE 1))
       IN Advance(IF more THEN Takes(Skips(c)) ELSE Expects(c, "SEMICOLON"),
                  IF more THEN Append(added, Frame("parse_global_s", 0, c.tok + 1)) ELSE added)

-----------------------------------------------------------------------------
(* parse_function_s.  `prec' is 0 among the parameters, then one more than  *)
(* their number: the length of the list when the body is there.             *)

Parameter ==
  /\ InCall("parse_function_s") /\ Top.prec = 0 /\ ~ See({"C_PREN"})
  /\ Advance(IF AtEnd THEN Dies(Here) ELSE May(Keys(Skips(Here), input[tok]), "COMMA"),
             Given(stack, input[tok]))

EndParameters ==
  /\ InCall("parse_function_s") /\ Top.prec = 0 /\ See({"C_PREN"})
  /\ Advance(Skips(Here), [stack EXCEPT ![Len(stack)].prec = Len(Top.got) + 1])

AwaitsBody == InCall("parse_function_s") /\ Top.prec = Len(Top.got) + 1

EndFunction ==
  /\ InCall("parse_function_s") /\ Top.prec # 0 /\ Top.prec = Len(Top.got)
  /\ Advance(Here, Returned(FunctionNode(input[Top.at], Front(Top.got), t_lable_tab,
                                         Last(Top.got))))

-----------------------------------------------------------------------------
(* parse_statements_f, called by parse_scope_f in a loop and by              *)
(* parse_function_s once, without a tail for autos and extrns to append to. *)

AtStatement == InCall("parse_scope_f") \/ AwaitsBody
Statement(kind) == AtStatement /\ See({kind})

NoStatement == AtStatement /\ AtEnd /\ Advance(Reads(Here), stack)

EndScope ==
  /\ InCall("parse_scope_f") /\ See({"C_BRACE"})
  /\ Advance(Skips(Here), Returned(Block(Top.got)))

OpenScope_ButNotConsumed == Statement("O_BRACE") /\ Advance(Here, Append(stack, Scope))
OpenScope == Statement("O_BRACE") /\ Advance(Skips(Here), Append(stack, Scope))

\* parse_auto_s, and parse_extrn_s, which parser calls too.
BeginDeclaration ==
  \/ Statement("AUTO") /\ Advance(Skips(Here), Frames("parse_auto_s", 0, tok))
  \/ /\ Statement("EXTRN") \/ (InCall("parser") /\ See({"EXTRN"}))
     /\ Advance(Skips(Here), Frames("parse_extrn_s", 0, tok))

\* Their rounds: c is the cursor after an item, and the loop goes on or ends.
DeclarationItem(c, node, more) ==
  LET added == Returned(node) IN
    Advance(IF Last(Front(stack)).fn = "parse_function_s" THEN Dies(c) ELSE c,
            IF more THEN Append(added, Top) ELSE added)

AutoItem ==
  /\ InCall("parse_auto_s")
  /\ \E named \in {Expects(Here, "IDENTIFIER")} :
     \E sized \in {At(named) = "O_BRACKET"} :
     \E size \in {IF sized THEN Expects(Reads(Skips(named)), "INT") ELSE named} :
     \E c \in {Keys(IF sized THEN Expects(size, "C_BRACKET") ELSE size,
                   IF AtEnd THEN "INT" ELSE input[tok])} :
       LET more == At(c) = "COMMA" IN
         DeclarationItem(IF more THEN Skips(c) ELSE Expects(c, "SEMICOLON"),
           Vector(input[tok], IF sized THEN int_lit(input[named.tok + 1]) ELSE 1), more)

ExtrnItem ==
  /\ InCall("parse_extrn_s")
  /\ \E c \in {May(Takes(Here), "COMMA")} :
       DeclarationItem(May(c, "SEMICOLON"), Extrn(input[tok]), At(c) # "SEMICOLON")

GotoStatement_ButSemicolonTaken ==
  /\ Statement("GOTO")
  /\ Advance(Takes(Takes(Skips(Here))), Given(stack, Goto(input[tok + 1])))

GotoStatement ==
  /\ Statement("GOTO")
  /\ Advance(Expects(Takes(Skips(Here)), "SEMICOLON"), Given(stack, Goto(input[tok + 1])))

IsLable == See({"IDENTIFIER"}) /\ At(Skips(Here)) = "COLON"

LableStatement ==
  /\ AtStatement /\ IsLable
  /\ t_lable_tab' = t_lable_tab \cup {input[tok]}
  /\ Advance(Skips(Skips(Here)), Given(stack, Lable(input[tok])))

\* parse_expr_s on a comma returns no node; parse_function_s adds it blindly.
CommaStatement ==
  /\ Statement("COMMA")
  /\ Advance(IF AwaitsBody THEN Dies(Here) ELSE Skips(Here), stack)

BeginReturn == Statement("RETURN") /\ Advance(Skips(Here), WithExpr("parse_return_s", 0, tok))

ExprStatement ==
  /\ AtStatement /\ ~ AtEnd /\ ~ IsLable
  /\ Kind \notin {"AUTO", "EXTRN", "GOTO", "O_BRACE", "RETURN", "IF", "WHILE", "COMMA"}
  /\ InCall("parse_scope_f") => Kind # "C_BRACE"
  /\ Advance(Here, WithExpr("parse_expr_s", 0, tok))

EndSimpleStatement ==
  /\ InCall("parse_return_s") \/ InCall("parse_expr_s")
  /\ Advance(Expects(Here, "SEMICOLON"),
             Returned(IF Top.fn = "parse_return_s" THEN Ret(Top.got[1]) ELSE Do(Top.got[1])))

-----------------------------------------------------------------------------
(* parse_if_s and parse_while_s.  `prec' is 1 in the activation that parses *)
(* an else if.                                                              *)

BeginCondition ==
  \/ Statement("IF") /\ Advance(Expects(Skips(Here), "O_PREN"), WithExpr("parse_if_s", 0, tok))
  \/ Statement("WHILE") /\ Advance(Expects(Skips(Here), "O_PREN"), WithExpr("parse_while_s", 0, tok))

EndCondition ==
  /\ InCall("parse_if_s") \/ InCall("parse_while_s")
  /\ Len(Top.got) = 1
  /\ Advance(Expects(Expects(Here, "C_PREN"), "O_BRACE"), Append(stack, Scope))

EndWhile ==
  /\ InCall("parse_while_s") /\ Len(Top.got) = 2
  /\ Advance(Here, Returned(While(Top.got[1], Top.got[2].body)))

AtElse == InCall("parse_if_s") /\ Len(Top.got) = 2 /\ See({"ELSE"})

ElseIfStatement ==
  /\ AtElse /\ At(Skips(Here)) = "IF"
  /\ Advance(Expects(Skips(Skips(Here)), "O_PREN"), WithExpr("parse_if_s", 1, tok + 1))

ElseStatement ==
  /\ AtElse /\ At(Skips(Here)) # "IF"
  /\ Advance(Expects(Skips(Here), "O_BRACE"), Append(stack, Scope))

IfKind_ButNeverElse(f) == "AST_IF"
IfKind(f) == IF f.prec = 1 THEN "AST_ELSE_IF" ELSE "AST_IF"
\* What follows the first body: no node, the scope of else, or else if's node.
ChainOf(got) ==
  IF Len(got) = 2 THEN NoChain ELSE IF got[3].kind = "AST_SCOPE" THEN Else(got[3].body) ELSE got[3]

EndIf ==
  /\ InCall("parse_if_s") /\ Len(Top.got) >= 2 /\ ~ AtElse
  /\ Advance(Here, Returned(IfNode(IfKind(Top), Top.got[1], Top.got[2], ChainOf(Top.got))))

-----------------------------------------------------------------------------
FileInit ==
  /\ input \in Inputs
  /\ tok = 1
  /\ stack = <<Frame("parser", 0, 0)>>
  /\ diagnosed = FALSE
  /\ status = "running"
  /\ t_lable_tab = {}

DeclarationStep ==
  \/ BeginGlobal \/ Unexpected \/ EndOfFile \/ GlobalItem \/ Parameter \/ EndParameters
  \/ EndFunction \/ BeginDeclaration \/ AutoItem \/ ExtrnItem
StatementStep ==
  \/ NoStatement \/ EndScope \/ OpenScope \/ GotoStatement \/ CommaStatement \/ BeginReturn
  \/ ExprStatement \/ EndSimpleStatement \/ BeginCondition \/ EndCondition \/ EndWhile
  \/ ElseIfStatement \/ ElseStatement \/ EndIf

FileNext ==
  \/ (DeclarationStep \/ StatementStep \/ ExpressionStep) /\ UNCHANGED t_lable_tab
  \/ BeginFunction \/ LableStatement

\* One thread that never waits.
FileSpec == FileInit /\ [][FileNext]_fileVars /\ WF_fileVars(FileNext)

-----------------------------------------------------------------------------
FileFns == {"parser", "parse_global_s", "parse_function_s", "parse_scope_f", "parse_auto_s",
            "parse_extrn_s", "parse_return_s", "parse_expr_s", "parse_if_s", "parse_while_s",
            "parse_expr_f", "parse_left_f", "parse_function_call_s"}

\* Variables keep their types: p->tok stays in the list or is NULL, the
\* activations are those of parser and of what it called, and the table of
\* labels holds names.
FileTypeOK ==
  /\ tok \in 1 .. Len(input) + 1
  /\ stack # <<>> /\ stack[1].fn = "parser"
  /\ \A k \in DOMAIN stack : stack[k].fn \in FileFns
  /\ diagnosed \in BOOLEAN
  /\ status \in {"running", "done", "exit", "crash"}
  /\ \A x \in t_lable_tab : KindOf(x) = "IDENTIFIER"

\* The recursion of the C functions is paid for by the tokens they take, two
\* activations for each: no file, however wrong, makes the parser call itself
\* without going forward and exhaust the stack of the process.
DepthBounded == Len(stack) <= 2 * tok + 3
=============================================================================
