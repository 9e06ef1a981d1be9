------------------------------ MODULE MCExample ------------------------------
(* Expression statements of res/example.b. *)
EXTENDS ExprGrammar

\* :84 i = col = 0;    :86 v[i++] = 1;    :90 a = n + 1;    :91 c = i = 0;
MCInputs ==
  {<<"IDENTIFIER", "ASSIGN", "IDENTIFIER", "ASSIGN", "INT", "SEMICOLON", "WHILE">>,
   <<"IDENTIFIER", "O_BRACKET", "IDENTIFIER", "INC", "C_BRACKET", "ASSIGN", "INT",
     "SEMICOLON", "C_BRACE">>,
   <<"IDENTIFIER", "ASSIGN", "IDENTIFIER", "ADD", "INT", "SEMICOLON", "IDENTIFIER">>}
=============================================================================
