------------------------------- MODULE BRules -------------------------------
(***************************************************************************)
(* When is a tree well formed?  The rules a B programmer states: a name is   *)
(* used after its declaration in the innermost block that declares it, only  *)
(* a variable or a dereference is assigned, incremented or has its address   *)
(* taken, and every goto has its label in the function.                      *)
(***************************************************************************)
EXTENDS BTrees

IsLvalue(e, known) ==
  \/ e.kind = "IDENTIFIER" /\ e.value \in known
  \/ e.kind = "AST_UNARY" /\ e.op = "MUL"

RECURSIVE ExprWellFormed(_, _)
ExprWellFormed(e, known) ==
  CASE e.kind \in {"INT", "STRING"} -> TRUE
    [] e.kind = "IDENTIFIER" -> e.value \in known
    [] e.kind = "AST_UNARY" ->
         /\ e.op \in {"BIT_AND", "INC", "DEC"} => IsLvalue(e.node, known)
         /\ e.op # "ADD"
         /\ ExprWellFormed(e.node, known)
    [] e.kind = "AST_BINARY" ->
         /\ e.op = "ASSIGN" => IsLvalue(e.left, known)
         /\ ExprWellFormed(e.left, known) /\ ExprWellFormed(e.right, known)
    [] e.kind = "AST_FUNCTION_CALL" ->
         \A i \in DOMAIN e.args : ExprWellFormed(e.args[i], known)
    [] OTHER -> FALSE

AutosOf(body) ==
  {body[i].name : i \in {j \in DOMAIN body : body[j].kind = "AST_AUTO"}}

RECURSIVE BodyWellFormed(_, _, _), StmtWellFormed(_, _, _)
StmtWellFormed(s, known, lables) ==
  /\ \A e \in ExprsOf(s) : ExprWellFormed(e, known)
  /\ s.kind \in {"AST_SCOPE", "AST_ELSE"} =>
       BodyWellFormed(s.body, known \ AutosOf(s.body), lables)
  /\ s.kind \in {"AST_IF", "AST_ELSE_IF", "AST_WHILE"} =>
       StmtWellFormed(s.body, known, lables)
  /\ s.kind \in {"AST_IF", "AST_ELSE_IF"} /\ s.chain # NoChain =>
       StmtWellFormed(s.chain, known, lables)
  /\ s.kind = "AST_GOTO" => s.name \in lables
BodyWellFormed(body, known, lables) ==
  \/ body = <<>>
  \/ /\ StmtWellFormed(Head(body), known, lables)
     /\ BodyWellFormed(Tail(body),
          IF Head(body).kind = "AST_AUTO" THEN known \cup {Head(body).name} ELSE known,
          lables)

ProgramWellFormed(p) ==
  \A i \in DOMAIN p : p[i].kind = "AST_FUNCTION" =>
    StmtWellFormed(p[i].body, GlobalsOf(p) \cup Range(p[i].params), LablesIn(p[i].body))

-----------------------------------------------------------------------------
\* The labels and gotos of a statement, each with the autos in force there: the
\* places of those declared before it in the blocks around it.
RECURSIVE Marks(_, _, _)
Marks(s, place, autos) ==
  LET Before(i) == {Append(place, j) : j \in {k \in 1 .. i - 1 : s.body[k].kind = "AST_AUTO"}} IN
    CASE s.kind \in {"AST_LABLE", "AST_GOTO"} -> {[kind |-> s.kind, name |-> s.name, autos |-> autos]}
      [] s.kind \in {"AST_SCOPE", "AST_ELSE"} ->
           UNION {Marks(s.body[i], Append(place, i), autos \cup Before(i)) : i \in DOMAIN s.body}
      [] s.kind = "AST_WHILE" -> Marks(s.body, Append(place, 1), autos)
      [] s.kind \in {"AST_IF", "AST_ELSE_IF"} ->
           Marks(s.body, Append(place, 1), autos) \cup Marks(s.chain, Append(place, 2), autos)
      [] OTHER -> {}

\* No goto skips an auto that is in force where it arrives.
JumpsKeepScopes(p) ==
  \A i \in DOMAIN p : p[i].kind = "AST_FUNCTION" =>
    \A g, l \in Marks(p[i].body, <<>>, {}) :
      g.kind = "AST_GOTO" /\ l.kind = "AST_LABLE" /\ g.name = l.name => l.autos \subseteq g.autos
=============================================================================
