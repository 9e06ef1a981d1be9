------------------------------ MODULE MCLexer ------------------------------
(***************************************************************************)
(* Files for the lexer: every text of four characters from an alphabet with *)
(* one or more of each class, every quoted text, number and comment of five, *)
(* and every pair of words of the language.                                 *)
(***************************************************************************)
EXTENDS Lexer

Upto(S, n) == UNION {[1 .. k -> S] : k \in 0 .. n}

Mixed    == {" ", "\n", "a", "0", "'", "\"", "*", "/", "<", "=", "(", "0xE9"}
Quoted   == {"*", "n", "0", "e", "\"", "'", "\n", "0xE9", NUL}
Numbers  == {"0", "1", "8", "a", "b", "x"}
Comments == {"/", "*", "\n", "a"}

Words ==
  DOMAIN Keywords \cup DOMAIN Double \cup {<<s>> : s \in DOMAIN Single}
    \cup {<<"i">>, <<"i", "f", "1">>, <<"_", "e">>, <<"0", "X", "f", "F">>, <<"4", "0", "9", "6">>,
          <<"\"", "*", "(", "*", ")", "\"">>, <<"'", "*", "t", "a", "'">>, <<"#">>}

\* Named in two steps, as in MCIrGen.
Files ==
  Upto(Mixed, 4)
    \cup {<<"\"">> \o s : s \in Upto(Quoted, 4)} \cup {<<"a", "'">> \o s : s \in Upto(Quoted, 3)}
    \cup {<<"0">> \o s : s \in Upto(Numbers, 4)} \cup Upto(Comments, 5)
    \cup {v \o gap \o u : u, v \in Words, gap \in {<<>>, <<" ">>, <<"\n">>}}
    \cup {<<"\"", "a", "\"", "b", "\"", "*", "*", "\"", x, "'", "c", "'">> : x \in {"a", "1", "\""}}

Chars == UNION {{s[k] : k \in DOMAIN s} : s \in Files}
            \cup {"{", "}", "\t", "\n", EOT, NUL}
\* The chars a character constant of these files begins with, escaped or not,
\* have a code of their own, and the byte 0xE9 a negative one.
Coded  == <<"*", "n", "0", "e", "\"", "'", "\n", "a", "\t", EOT>>
CodeOf ==
  [x \in Chars |->
    CASE x = NUL -> 0
      [] x = "0xE9" -> -23
      [] \E k \in DOMAIN Coded : Coded[k] = x -> CHOOSE k \in DOMAIN Coded : Coded[k] = x
      [] OTHER -> 65]
MCTexts == Files
MCCode  == CodeOf
=============================================================================
