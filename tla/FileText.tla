------------------------------ MODULE FileText ------------------------------
(***************************************************************************)
(* The text of a syntax tree, written without looking at the parser: what   *)
(* StmtParser ought to read it from.                                        *)
(***************************************************************************)
EXTENDS FileTrees

\* The parser's tree without positions.
RECURSIVE Plain(_)
Plain(n) ==
  IF n.kind = "AST_ATOM" THEN
    CASE n.at = 0 -> Num(8)
      [] n.at # 0 /\ n.tok = "INT" -> Num(int_lit("INT"))
      [] n.tok = "STRING" -> Str(int_lit("STRING"))
      [] n.tok \in Names -> Var(n.tok)
      [] OTHER -> [kind |-> "OTHER", tok |-> n.tok]
  ELSE [f \in DOMAIN n \ {"at"} |->
    CASE f \in {"node", "left", "right", "Condition", "chain"} -> Plain(n[f])
      [] f = "args" \/ (f = "body" /\ n.kind \in {"AST_SCOPE", "AST_ELSE"}) ->
           [i \in DOMAIN n[f] |-> Plain(n[f][i])]
      [] f = "body" /\ n.kind \notin {"AST_SCOPE", "AST_ELSE"} -> Plain(n[f])
      [] OTHER -> n[f]]

\* v[i] as parse_left_f rewrites it.
IsElement(n) ==
  /\ n.op = "MUL" /\ n.node.kind = "AST_BINARY" /\ n.node.left.kind = "AST_BINARY"
  /\ n.node.left.right \in {Num(8), Atom("INT", 0)}

Sized(n) ==
  <<n.name>> \o (CASE n.size = 1 -> <<>>
                   [] n.size = int_lit("INT") -> <<"O_BRACKET", "INT", "C_BRACKET">>
                   [] n.size = int_lit("STRING") -> <<"O_BRACKET", "STRING", "C_BRACKET">>)

\* The texts of nodes in a row, and with a comma before all but the first.
RECURSIVE Text(_), Texts(_), Rest(_)
Texts(ns) == IF ns = <<>> THEN <<>> ELSE Text(Head(ns)) \o Texts(Tail(ns))
Rest(ns) == IF ns = <<>> THEN <<>> ELSE <<"COMMA">> \o Text(Head(ns)) \o Rest(Tail(ns))
List(ns) == IF ns = <<>> THEN <<>> ELSE Text(Head(ns)) \o Rest(Tail(ns))
Between(open, text, close) == <<open>> \o text \o <<close>>
Operand(n) == IF n.kind = "AST_BINARY" THEN Between("O_PREN", Text(n), "C_PREN") ELSE Text(n)
Controlled(n) == Between("O_PREN", Text(n.Condition), "C_PREN") \o Text(n.body)
Text(n) ==
  CASE n.kind = "NULL"       -> <<>>
    [] n.kind = "IDENTIFIER" -> <<n.value>>
    [] n.kind \in {"INT", "STRING"} -> <<n.kind>>
    [] n.kind = "AST_ATOM"   -> <<n.tok>>
    [] n.kind = "AST_UNARY"  ->
         IF IsElement(n)
           THEN Text(n.node.right.node) \o Between("O_BRACKET", Text(n.node.left.left), "C_BRACKET")
           ELSE <<n.op>> \o Operand(n.node)
    [] n.kind = "AST_BINARY" -> Operand(n.left) \o <<n.op>> \o Operand(n.right)
    [] n.kind = "AST_FUNCTION_CALL" ->
         <<n.name>> \o Between("O_PREN", List(n.args), "C_PREN")
    [] n.kind = "AST_EXPR"   -> Text(n.node) \o <<"SEMICOLON">>
    [] n.kind = "AST_RETURN" -> Between("RETURN", Text(n.node), "SEMICOLON")
    [] n.kind = "AST_AUTO"   -> Between("AUTO", Sized(n), "SEMICOLON")
    [] n.kind = "AST_EXTRN"  -> Between("EXTRN", <<n.name>>, "SEMICOLON")
    [] n.kind = "AST_GOTO"   -> Between("GOTO", <<n.name>>, "SEMICOLON")
    [] n.kind = "AST_LABLE"  -> <<n.name, "COLON">>
    [] n.kind = "AST_SCOPE"  -> Between("O_BRACE", Texts(n.body), "C_BRACE")
    [] n.kind = "AST_ELSE"   -> <<"ELSE">> \o Text(Block(n.body))
    [] n.kind = "AST_IF"     -> <<"IF">> \o Controlled(n) \o Text(n.chain)
    [] n.kind = "AST_ELSE_IF" -> <<"ELSE", "IF">> \o Controlled(n) \o Text(n.chain)
    [] n.kind = "AST_WHILE"  -> <<"WHILE">> \o Controlled(n)
    [] n.kind = "AST_GLOBAL" -> Sized(n) \o <<"SEMICOLON">>
    [] n.kind = "AST_FUNCTION" ->
         <<n.name>> \o Between("O_PREN", List([i \in DOMAIN n.params |-> Var(n.params[i])]), "C_PREN")
           \o Text(n.body)

ProgramText(p) == Texts(p)

-----------------------------------------------------------------------------
\* The top-level list, once the file has been parsed.
Trees == [i \in DOMAIN Top.got |-> Plain(Top.got[i])]
Silent == status = "done" /\ ~ diagnosed

\* The tokens that carry meaning of their own; a declaration's keyword, which
\* a list of names shares, and all that separates or encloses, do not.
Bare(text) ==
  SelectSeq(text, LAMBDA t : t \notin {"AUTO", "EXTRN", "SEMICOLON", "COMMA", "COLON", "O_PREN",
                                       "C_PREN", "O_BRACKET", "C_BRACKET"})

\* What the parser accepts without a diagnostic it keeps: the names, literals,
\* operators, keywords and braces of the file are those of its trees, in order,
\* although lists may lack commas and any token may stand for some names.  One
\* thing is lost: a global's size that is no literal, which becomes 0.
SilenceKeepsTheText ==
  Silent /\ (\A i \in DOMAIN Top.got : Top.got[i].kind = "AST_GLOBAL" => Top.got[i].size # 0) =>
    Bare(ProgramText(Top.got)) = Bare(input)

=============================================================================
