------------------------------- MODULE BChars -------------------------------
(***************************************************************************)
(* The alphabet and the tables of the lexer.  A character is a string of    *)
(* length one; four have names.  A byte from 0x80 on is in no class: the C  *)
(* locale's tables say so for a negative plain char too.                    *)
(***************************************************************************)
EXTENDS Integers, SequencesExt

NUL == "NUL"    \* what follows the buffer's last byte
EOT == "EOT"

Spaces    == {" ", "\t", "\n", "\r", "\f", "VT"}
Octals    == {"0", "1", "2", "3", "4", "5", "6", "7"}
Digits    == Octals \cup {"8", "9"}
HexDigits == Digits \cup {"a", "b", "c", "d", "e", "f", "A", "B", "C", "D", "E", "F"}
Alpha ==
  {"a", "b", "c", "d", "e", "f", "g", "h", "i", "j", "k", "l", "m", "n", "o", "p", "q", "r", "s",
   "t", "u", "v", "w", "x", "y", "z", "A", "B", "C", "D", "E", "F", "G", "H", "I", "J", "K", "L",
   "M", "N", "O", "P", "Q", "R", "S", "T", "U", "V", "W", "X", "Y", "Z", "_"}
WordChars == Alpha \cup Digits
Quotes    == {"'", "\""}

\* A function given by its pairs.
Table(pairs) == [k \in {p[1] : p \in pairs} |-> (CHOOSE p \in pairs : p[1] = k)[2]]

\* What the switch of lexer knows: alone, and followed by a second character.
Single ==
  Table({<<"{", "O_BRACE">>, <<"}", "C_BRACE">>, <<"[", "O_BRACKET">>, <<"]", "C_BRACKET">>,
         <<"(", "O_PREN">>, <<")", "C_PREN">>, <<";", "SEMICOLON">>, <<":", "COLON">>,
         <<"?", "Q_MARK">>, <<"&", "BIT_AND">>, <<"|", "BIT_OR">>, <<",", "COMMA">>, <<"*", "MUL">>,
         <<"/", "DEV">>, <<"%", "MOD">>, <<"+", "ADD">>, <<"-", "SUB">>, <<"!", "NOT">>,
         <<"=", "ASSIGN">>, <<"<", "LESSER">>, <<">", "GREATER">>})
Double ==
  Table({<<<<"+", "+">>, "INC">>, <<<<"-", "-">>, "DEC">>, <<<<"!", "=">>, "NOT_EQUAL">>,
         <<<<"=", "=">>, "EQUAL">>, <<<<"<", "=">>, "LESSER_EQUAL">>, <<<<"<", "<">>, "BITSHIFT_L">>,
         <<<<">", "=">>, "GREATER_EQUAL">>, <<<<">", ">">>, "BITSHIFT_R">>})

\* get_keyword_kind, and IDENTIFIER for the words it does not find.
Keywords ==
  Table({<<<<"e", "x", "t", "r", "n">>, "EXTRN">>, <<<<"a", "u", "t", "o">>, "AUTO">>,
         <<<<"i", "f">>, "IF">>, <<<<"e", "l", "s", "e">>, "ELSE">>,
         <<<<"w", "h", "i", "l", "e">>, "WHILE">>, <<<<"g", "o", "t", "o">>, "GOTO">>,
         <<<<"r", "e", "t", "u", "r", "n">>, "RETURN">>})
WordKind(word) == IF word \in DOMAIN Keywords THEN Keywords[word] ELSE "IDENTIFIER"

\* What *x stands for in a quoted constant.
Escapes ==
  Table({<<"0", NUL>>, <<"e", EOT>>, <<"(", "{">>, <<")", "}">>, <<"t", "\t">>, <<"\"", "\"">>,
         <<"n", "\n">>, <<"*", "*">>, <<"'", "'">>})

DigitValue(d) ==
  CASE d \in {"a", "A"} -> 10 [] d \in {"b", "B"} -> 11 [] d \in {"c", "C"} -> 12
    [] d \in {"d", "D"} -> 13 [] d \in {"e", "E"} -> 14 [] d \in {"f", "F"} -> 15
    [] OTHER -> CHOOSE n \in 0 .. 9 : ToString(n) = d

\* strtoull on digits that all are of the base, and its limit.
strtoull(d, base, limit) ==
  LET place(k) == DigitValue(d[k]) * base ^ (Len(d) - k)
  IN Min({limit, MapThenSumSet(place, DOMAIN d)})

\* The chars of s up to the first that is not in S, and up to a NUL.
Prefix(s, S) ==
  SubSeq(s, 1, Max({n \in 0 .. Len(s) : \A k \in 1 .. n : s[k] \in S}))
CString(s) == Prefix(s, {s[k] : k \in DOMAIN s} \ {NUL})
=============================================================================
