----------------------------- MODULE FileTrees -----------------------------
(***************************************************************************)
(* What StmtParser owes the generator: the assumptions of IrGen on the trees *)
(* it is given, for the nodes as the parser makes them (an AST_ATOM keeps    *)
(* its token).                                                               *)
(***************************************************************************)
EXTENDS StmtParser

\* One node, and the sorts of the nodes it points to.
ExprFits(e) ==
  /\ e.kind \in {"AST_ATOM", "AST_UNARY", "AST_BINARY", "AST_FUNCTION_CALL"}
  /\ e.kind = "AST_FUNCTION_CALL" => e.name \in Names
StmtFits(s) ==
  /\ s.kind \in {"AST_RETURN", "AST_SCOPE", "AST_AUTO", "AST_EXTRN", "AST_EXPR", "AST_IF",
                 "AST_ELSE_IF", "AST_ELSE", "AST_WHILE", "AST_LABLE", "AST_GOTO"}
  /\ s.kind \in {"AST_SCOPE", "AST_ELSE"} =>
       \A i \in 1 .. Len(s.body) : s.body[i].kind \notin {"AST_ELSE_IF", "AST_ELSE"}
  /\ s.kind \in {"AST_IF", "AST_ELSE_IF", "AST_WHILE"} => s.body.kind = "AST_SCOPE"
  /\ s.kind \in {"AST_IF", "AST_ELSE_IF"} =>
       s.chain.kind \in {"NULL", "AST_ELSE_IF", "AST_ELSE"}

\* A set with everything below its members, and the labels among them.
Closed(S)   == \A s \in S : StmtsUnder(s) \subseteq S
LabelsOf(S) == {s.name : s \in {t \in S : t.kind = "AST_LABLE"}}

\* Everything in a statement, and in an expression, MaxDepth levels down.
Inside(s) == Closure({s}, StmtsUnder)
Parts(s)  == Closure(ExprsOf(s), ExprsUnder)

\* main hands the generator what the parser made of any file, also of one it
\* complained about: every child in it is of the sort the generator reads it
\* as, and a function's table has the labels of its body, all of them and no
\* other's.  One thing is not promised: a function's body may be any one
\* statement, and ir_scope does not look whether it is a scope.
TreesFitGenerator ==
  status = "done" =>
    \A i \in 1 .. Len(Top.got) :
      \E d \in {Top.got[i]} :
        /\ d.kind \in {"AST_FUNCTION", "AST_GLOBAL", "AST_EXTRN"}
        /\ d.kind = "AST_FUNCTION" =>
             \E S \in {Inside(d.body)} :
               /\ d.body.kind \notin {"AST_ELSE_IF", "AST_ELSE"}
               /\ LabelsOf(S) \subseteq d.lables
               /\ Closed(S) => d.lables = LabelsOf(S)
               /\ \A s \in S : StmtFits(s) /\ \A e \in Parts(s) : ExprFits(e)
=============================================================================
