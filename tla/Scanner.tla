------------------------------- MODULE Scanner -------------------------------
(***************************************************************************)
(* What the lexer promises: the text is cut into the longest tokens, blanks  *)
(* and comments fall out, and each token has the spelling, the meaning and   *)
(* the line of its piece of the text.  One step takes one token or one gap.  *)
(***************************************************************************)
EXTENDS BChars

CONSTANTS
  Texts,     \* the files
  Code,      \* the value of a char, which is signed
  WordMod    \* 2^64: one more than the largest size_t

VARIABLES
  text,      \* the file
  at,        \* how much of it has been read
  toks,      \* its tokens so far
  state      \* "running", "done" or "failed"

\* The piece of text between two positions.
Piece(from, to) == SubSeq(text, from + 1, to)

IsWord(s) == s[1] \in Alpha /\ \A k \in DOMAIN s : s[k] \in WordChars

Radix(s) ==
  IF s[1] # "0" THEN 10 ELSE IF Len(s) = 1 THEN 8
  ELSE IF s[2] \in {"x", "X"} THEN 16 ELSE IF s[2] \in {"b", "B"} THEN 2 ELSE 8
\* The digits after a prefix; those after an 8 or 9 in an octal count for nothing.
Numeral(s) == IF Radix(s) \in {2, 16} THEN SubSeq(s, 3, Len(s)) ELSE s
IsNumber(s) ==
  /\ s[1] \in Digits
  /\ \A k \in DOMAIN Numeral(s) :
       Numeral(s)[k] \in (CASE Radix(s) = 16 -> HexDigits [] Radix(s) = 2 -> {"0", "1"}
                            [] OTHER -> Digits)
ValueOf(s) ==
  strtoull(IF Radix(s) = 8 THEN Prefix(s, Octals) ELSE Numeral(s), Radix(s), WordMod - 1)

\* s[k] follows a star that does not itself follow such a star.
Escaped(s, k) ==
  LET stars == {n \in 0 .. k - 2 : \A j \in k - n .. k - 1 : s[j] = "*"} IN Max(stars) % 2 = 1
IsQuoted(s) ==
  /\ Len(s) >= 2 /\ s[1] \in Quotes /\ s[Len(s)] = s[1]
  /\ \A k \in 2 .. Len(s) : s[k] \notin {NUL, "\n"} /\ (s[k] = s[1] => (k = Len(s)) # Escaped(s, k))
EscapesKnown(s) == \A k \in 2 .. Len(s) - 1 : Escaped(s, k) => s[k] \in DOMAIN Escapes
\* What stands between the quotes, as far as a C string goes: of an escape the
\* second char counts, and every other.
Kept(s) == {k \in 2 .. Len(s) - 1 : s[k] = "*" => Escaped(s, k)}
Rank(s, k) == Cardinality({j \in Kept(s) : j <= k})
Meant(s, k) == IF Escaped(s, k) THEN Escapes[s[k]] ELSE s[k]
Quoted(s) ==
  CString([n \in 1 .. Cardinality(Kept(s)) |-> Meant(s, CHOOSE k \in Kept(s) : Rank(s, k) = n)])

IsToken(s) ==
  \/ Len(s) = 1 /\ s[1] \notin Spaces \cup Quotes
  \/ s \in DOMAIN Double \/ IsWord(s) \/ IsNumber(s) \/ IsQuoted(s)

\* The first char of a char constant as a size_t; an empty one has value 0.
CharValue(chars) == (IF chars = <<>> THEN 0 ELSE Code[chars[1]]) % WordMod
Strings(tokens) == Cardinality({k \in DOMAIN tokens : tokens[k].kind = "STRING"})
Lines(s) == 1 + Cardinality({k \in DOMAIN s : s[k] = "\n"})

Token(kind, lexeme, int_lit) ==
  [kind |-> kind, lexeme |-> lexeme, int_lit |-> int_lit, ln |-> Lines(Piece(0, at))]
TokenOf(s) ==
  CASE IsWord(s)   -> Token(WordKind(s), s, 0)
    [] IsNumber(s) -> Token("INT", s, ValueOf(s))
    [] IsQuoted(s) /\ s[1] = "'"  -> Token("INT", Quoted(s), CharValue(Quoted(s)))
    [] IsQuoted(s) /\ s[1] = "\"" -> Token("STRING", Quoted(s), Strings(toks) + 1)
    [] s \in DOMAIN Double -> Token(Double[s], <<>>, 0)
    [] OTHER -> Token(IF s[1] \in DOMAIN Single THEN Single[s[1]] ELSE "UNKNOWN", <<>>, 0)

-----------------------------------------------------------------------------
Init == text \in Texts /\ at = 0 /\ toks = <<>> /\ state = "running"

Rest == Piece(at, Len(text))
InComment == Len(Rest) >= 2 /\ SubSeq(Rest, 1, 2) = <<"/", "*">>
\* Where the pieces that start here and are tokens end.
Ends == {e \in at + 1 .. Len(text) : IsToken(Piece(at, e))}

Blank ==
  /\ state = "running" /\ at < Len(text) /\ text[at + 1] \in Spaces
  /\ at' = at + 1
  /\ UNCHANGED <<text, toks, state>>

\* A comment ends with the first star and slash, its own star included, or
\* with the file.
Comment ==
  /\ state = "running" /\ InComment
  /\ LET closes == {e \in at + 3 .. Len(text) : Piece(e - 2, e) = <<"*", "/">>}
     IN at' = Min(closes \cup {Len(text)})
  /\ UNCHANGED <<text, toks, state>>

Take ==
  /\ state = "running" /\ ~ InComment /\ Ends # {}
  /\ LET s == Piece(at, Max(Ends)) IN
       /\ IsQuoted(s) => EscapesKnown(s)
       /\ toks' = Append(toks, TokenOf(s))
       /\ at' = Max(Ends)
  /\ UNCHANGED <<text, state>>

\* A quote that nothing closes on its line, or an escape that means nothing.
Fail ==
  /\ state = "running" /\ at < Len(text) /\ text[at + 1] \in Quotes
  /\ Ends = {} \/ ~ EscapesKnown(Piece(at, Max(Ends)))
  /\ state' = "failed"
  /\ UNCHANGED <<text, at, toks>>

Finish ==
  /\ state = "running" /\ at = Len(text)
  /\ state' = "done"
  /\ UNCHANGED <<text, at, toks>>

Next == Blank \/ Comment \/ Take \/ Fail \/ Finish
vars == <<text, at, toks, state>>
Spec == Init /\ [][Next]_vars
=============================================================================
