---------------------------- MODULE MCStmtParser ----------------------------
(***************************************************************************)
(* Files for the parser: the texts of the programs of BPool, declarations,  *)
(* files with one token damaged, and all short beginnings of a file and of a *)
(* function.                                                                *)
(***************************************************************************)
EXTENDS FileText, BPool

Programs == {p \in Pool : Other \notin ExprsIn({p})} \cup
  {<<Global("a", 1), Global("b", n), Function("f", <<>>, <<Vector("a", 2), Extrn("g")>>)>> :
     n \in 1 .. 3}
Known     == {<<ProgramText(p), p>> : p \in Programs}
Sentences == {ProgramText(p) : p \in Programs}

\* Lists of declarations, which ProgramText writes one by one.
Lists ==
  {<<"a", "COMMA", "b", "O_BRACKET", "INT", "C_BRACKET", "SEMICOLON">>,
   <<"EXTRN", "a", "COMMA", "b", "SEMICOLON", "g", "SEMICOLON">>,
   <<"f", "O_PREN", "p", "COMMA", "q", "C_PREN", "O_BRACE", "EXTRN", "a", "COMMA", "b", "SEMICOLON",
     "AUTO", "a", "COMMA", "b", "O_BRACKET", "INT", "C_BRACKET", "SEMICOLON", "C_BRACE">>}

\* One of each statement, short enough to damage everywhere.
Fun(body) == <<"f", "O_PREN", "p", "C_PREN", "O_BRACE">> \o body \o <<"C_BRACE">>
Whole ==
  Lists \cup
  {Fun(<<"L", "COLON", "GOTO", "L", "SEMICOLON">>),
   Fun(<<"RETURN", "O_PREN", "p", "C_PREN", "SEMICOLON">>),
   Fun(<<"WHILE", "O_PREN", "p", "C_PREN", "O_BRACE", "p", "ASSIGN", "INT", "SEMICOLON", "C_BRACE">>),
   Fun(<<"IF", "O_PREN", "p", "C_PREN", "O_BRACE", "C_BRACE", "ELSE", "O_BRACE", "C_BRACE">>),
   Fun(<<"IF", "O_PREN", "p", "C_PREN", "O_BRACE", "C_BRACE",
         "ELSE", "IF", "O_PREN", "INT", "C_PREN", "O_BRACE", "C_BRACE">>),
   Fun(<<"f", "O_PREN", "p", "COMMA", "STRING", "C_PREN", "SEMICOLON">>)}
Damage == {"a", "INT", "O_PREN", "C_PREN", "O_BRACE", "C_BRACE", "O_BRACKET", "COMMA", "SEMICOLON",
           "COLON", "ASSIGN", "AUTO", "ELSE", "GOTO"}
Damaged ==
  UNION {{RemoveAt(w, i) : i \in DOMAIN w}
           \cup {ReplaceAt(w, i, t) : i \in DOMAIN w, t \in Damage}
           \cup {InsertAt(w, i, t) : i \in DOMAIN w, t \in Damage} : w \in Whole}

\* All beginnings of a file, and of a function's body.
Begins == {"a", "f", "INT", "EXTRN", "O_PREN", "C_PREN", "O_BRACE", "C_BRACE", "COMMA", "SEMICOLON",
           "O_BRACKET", "C_BRACKET"}
Inner  == Damage \cup {"EXTRN", "IF", "WHILE", "RETURN", "INC"}
Short(S, n) == UNION {[1 .. k -> S] : k \in 0 .. n}
Beginnings ==
  Short(Begins, 4) \cup {<<"f", "O_PREN", "C_PREN", "O_BRACE">> \o w : w \in Short(Inner, 3)}
    \cup {<<"f", "O_PREN", "C_PREN">> \o w : w \in Short(Inner, 2)}

MCInputs == Sentences \cup Whole \cup Damaged \cup Beginnings

-----------------------------------------------------------------------------
\* The parser reads back every program from its text: each declaration, each
\* statement of a block and each part of an if chain stands where the text has
\* it, once, the table of labels is the function's own, and nothing is reported.
SentencesBecomeTrees ==
  status # "running" =>
    \A k \in Known : k[1] = input => Silent /\ Trees = k[2]
=============================================================================
