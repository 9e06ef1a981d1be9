---------------------------- MODULE MCExprParser ----------------------------
(***************************************************************************)
(* Statements for the expression parser: every list of at most four tokens  *)
(* that can begin one, every chain of operators of all levels, and longer   *)
(* ones with calls and indexes.                                             *)
(***************************************************************************)
EXTENDS ExprGrammar

Alphabet == {"IDENTIFIER", "INC", "ASSIGN", "MUL", "O_PREN", "C_PREN", "O_BRACKET", "C_BRACKET",
             "COMMA"}
MaxWord == 4
Words == UNION {[1 .. n -> Alphabet] : n \in 1 .. MaxWord}

\* x op x op x op x, with an operator of each level.
Chained == {"ASSIGN", "BIT_OR", "BIT_AND", "LESSER", "EQUAL", "BITSHIFT_L", "SUB", "MUL"}
Chain(a, b, c) == <<"IDENTIFIER", a, "INT", b, "IDENTIFIER", c, "IDENTIFIER">>
Chains == {Chain(a, b, c) : a, b, c \in Chained}

\* f(A, B) op v[C]
Short == {<<>>, <<"INT">>, <<"IDENTIFIER", "ADD", "INT">>, <<"SUB", "IDENTIFIER">>,
          <<"IDENTIFIER", "O_PREN", "C_PREN">>, <<"IDENTIFIER", "O_BRACKET", "INT", "C_BRACKET">>,
          <<"O_PREN", "INT", "C_PREN">>, <<"IDENTIFIER", "ASSIGN", "INT">>, <<"INT", "SEMICOLON">>}
Nested(a, b, c, op) ==
  <<"IDENTIFIER", "O_PREN">> \o a \o <<"COMMA">> \o b \o <<"C_PREN", op, "IDENTIFIER", "O_BRACKET">>
    \o c \o <<"C_BRACKET">>
Nests == {Nested(a, b, c, op) : a, b, c \in Short, op \in {"ADD", "ASSIGN"}}

\* A statement with what follows it in the file, and words the file ends with.
Statements == {w \o <<"SEMICOLON", "C_BRACE">> : w \in Words \cup Chains \cup Nests} \cup Words
MCInputs == Statements
=============================================================================
