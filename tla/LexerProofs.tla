----------------------------- MODULE LexerProofs -----------------------------
(***************************************************************************)
(* The lexer's promises about its buffer, its lines and its store, and that  *)
(* it implements Scanner, for every file.                                   *)
(***************************************************************************)
EXTENDS Lexer, FiniteSetTheorems, SequenceTheorems, WellFoundedInduction, TLAPS

Numbers == DOMAIN DigitsOf

\* The position, with what each loop knows of the chars it began with: a word
\* or a number is not empty when it ends, quoted text follows its quote.
PosInv ==
  /\ TypeOK
  /\ start <= i
  /\ mode = "get_word" => i > start \/ c \in WordChars
  /\ mode \in Numbers => i > start \/ c \in DigitsOf[mode]
  /\ mode \in {"get_string", "unescape"} => start >= 1 /\ q \in Quotes
  /\ mode = "unescape" => i > start

-----------------------------------------------------------------------------
(* The alphabet                                                             *)

LEMMA TextIsChars == ASSUME TypeOK PROVE text \in Seq(STRING)
  BY TextsAssumption DEF TypeOK

LEMMA NumberModes == Numbers = {"hex", "binary", "octal", "decimal"}
  BY DEF Numbers, DigitsOf

\* No class of chars that a loop takes has the end of the buffer or of a line.
LEMMA Classes ==
  /\ NUL \notin WordChars /\ "\n" \notin WordChars
  /\ NUL \notin Quotes /\ "\n" \notin Quotes
  /\ \A m \in Numbers : NUL \notin DigitsOf[m] /\ "\n" \notin DigitsOf[m]
<1>1. NUL \notin WordChars /\ "\n" \notin WordChars
  BY DEF NUL, WordChars, Alpha, Digits, Octals
<1>2. NUL \notin Quotes /\ "\n" \notin Quotes
  BY DEF NUL, Quotes
<1>3. ASSUME NEW m \in Numbers PROVE NUL \notin DigitsOf[m] /\ "\n" \notin DigitsOf[m]
  BY NumberModes DEF DigitsOf, NUL, HexDigits, Digits, Octals
<1> QED BY <1>1, <1>2, <1>3

\* The second char of a double symbol is neither.
LEMMA Doubles == \A p \in DOMAIN Double : p[2] # NUL /\ p[2] # "\n"
<1>1. DOMAIN Double = {<<"+", "+">>, <<"-", "-">>, <<"!", "=">>, <<"=", "=">>, <<"<", "=">>,
                       <<"<", "<">>, <<">", "=">>, <<">", ">">>}
  BY DEF Double, Table
<1> QED BY <1>1 DEF NUL

\* What is not NUL stands in the buffer.
LEMMA Peak ==
  ASSUME TypeOK, NEW n \in Nat, peak(n) # NUL
  PROVE  i + n < buf_len /\ peak(n) = text[i + n + 1]
  BY DEF peak

-----------------------------------------------------------------------------
(* The position                                                             *)

LEMMA PosInit == Init => PosInv
<1> SUFFICES ASSUME Init PROVE PosInv OBVIOUS
<1>1. text \in Seq(STRING) /\ Len(text) \in Nat BY TextsAssumption DEF Init
<1>2. mode = "lexer" /\ mode \in Modes /\ mode \notin Numbers BY NumberModes DEF Init, Modes
<1>3. diagnosed \in BOOLEAN BY DEF Init
<1>4. text \in Texts /\ i = 0 /\ ln = 1 /\ cn = 1 /\ t_cn = 1 /\ start = 0 /\ r = 0 /\ w = 0 /\ used = 0
  BY DEF Init
<1>5. TypeOK BY <1>1, <1>2, <1>3, <1>4 DEF TypeOK, buf_len
<1> QED BY <1>1, <1>2, <1>4, <1>5 DEF PosInv

LEMMA PosStep == ASSUME PosInv, Next PROVE PosInv'
<1> USE DEF PosInv, buf_len, To, Stay
<1>t. TypeOK /\ text \in Seq(STRING) /\ Len(text) \in Nat
  BY TextIsChars
<1>m. /\ Numbers = {"hex", "binary", "octal", "decimal"}
      /\ Modes = {"lexer", "get_word", "get_string", "unescape", "comment", "done", "exit"} \cup Numbers
  BY NumberModes DEF Modes, Numbers
<1>1. CASE Blank
  BY <1>1, <1>t, <1>m DEF Blank, AtToken, Over, TypeOK, rest
<1>2. CASE BeginWord
  <2>1. c' = c BY <1>2 DEF BeginWord, c, peak, rest
  <2>2. c \in WordChars BY <1>2 DEF BeginWord, WordChars
  <2> QED BY <1>2, <1>t, <1>m, <2>1, <2>2 DEF BeginWord, AtToken, TypeOK, rest
<1>3. CASE BeginDigits
  <2>1. CASE c # "0" /\ mode' = "decimal" /\ UNCHANGED <<i, cn>>
    <3>1. c' = c BY <1>3, <2>1 DEF BeginDigits, c, peak, rest
    <3>2. c \in DigitsOf["decimal"] BY <1>3 DEF BeginDigits, DigitsOf
    <3> QED BY <1>3, <1>t, <1>m, <2>1, <3>1, <3>2 DEF BeginDigits, AtToken, TypeOK, rest
  <2>2. CASE c = "0" /\ peak(1) \in {"x", "X", "b", "B"} /\ mode' \in {"hex", "binary"} /\ consume(2)
    <3>1. i + 1 < Len(text) BY <1>t, <2>2, Peak DEF NUL
    <3> QED BY <1>3, <1>t, <1>m, <2>2, <3>1 DEF BeginDigits, AtToken, TypeOK, rest, consume
  <2>3. CASE c = "0" /\ mode' = "octal" /\ consume(1)
    BY <1>3, <1>t, <1>m, <2>3 DEF BeginDigits, AtToken, TypeOK, rest, consume
  <2> QED BY <1>3, <2>1, <2>2, <2>3 DEF BeginDigits
<1>4. CASE BeginString
  <2>1. text[i + 1] \in Quotes BY <1>4, <1>t DEF BeginString, AtToken, c, peak, TypeOK
  <2> QED BY <1>4, <1>t, <1>m, <2>1 DEF BeginString, AtToken, TypeOK, rest, consume, q
<1>5. CASE BeginComment
  BY <1>5, <1>t, <1>m DEF BeginComment, AtToken, TypeOK, rest
<1>6. CASE Symbol
  <2>1. CASE <<c, peak(1)>> \in DOMAIN Double
    <3>1. i + 1 < Len(text) BY <1>t, <2>1, Doubles, Peak
    <3> QED BY <1>6, <1>t, <1>m, <2>1, <3>1 DEF Symbol, AtToken, TypeOK, consume
  <2>2. CASE <<c, peak(1)>> \notin DOMAIN Double
    BY <1>6, <1>t, <1>m, <2>2 DEF Symbol, AtToken, TypeOK, consume
  <2> QED BY <2>1, <2>2
<1>7. CASE Finish
  BY <1>7, <1>t, <1>m DEF Finish, TypeOK, scan, rest
<1>8. CASE WordChar
  <2>1. i < Len(text) BY <1>8, <1>t, Peak, Classes DEF WordChar, c, TypeOK
  <2> QED BY <1>8, <1>t, <1>m, <2>1 DEF WordChar, TypeOK, rest, consume
<1>9. CASE EndWord
  BY <1>9, <1>t, <1>m DEF EndWord, TypeOK, scan, Allocate, Substr
<1>10. CASE Digit
  <2>1. i < Len(text) BY <1>10, <1>t, Peak, Classes DEF Digit, c, TypeOK, Numbers
  <2>2. diagnosed' \in BOOLEAN BY <1>10 DEF Digit
  <2>3. /\ i' = i + 1 /\ cn' = cn + 1
        /\ UNCHANGED <<ln, t_cn, start, mode, text, r, w, used>>
    BY <1>10 DEF Digit, consume
  <2>4. mode \in Numbers BY <1>10 DEF Digit, Numbers
  <2> QED BY <1>t, <1>m, <2>1, <2>2, <2>3, <2>4 DEF TypeOK
<1>11. CASE EndDigits
  BY <1>11, <1>t, <1>m DEF EndDigits, TypeOK, scan, Allocate, Substr
<1>12. CASE StringChar
  <2>1. i < Len(text) /\ (c = "*" => i + 1 < Len(text))
    BY <1>12, <1>t DEF StringChar, Cut, c, peak, TypeOK
  <2>2. q' = q BY <1>12 DEF StringChar, q, rest
  <2> QED BY <1>12, <1>t, <1>m, <2>1, <2>2 DEF StringChar, TypeOK, rest, consume
<1>13. CASE Unterminated
  BY <1>13, <1>t, <1>m DEF Unterminated, TypeOK, scan
<1>14. CASE CloseString
  <2>1. i < Len(text) BY <1>14, <1>t, Classes DEF CloseString, c, peak, TypeOK
  <2>2. q' = q BY <1>14 DEF CloseString, q
  <2>3. used' \in Nat BY <1>14, <1>t, <1>m DEF CloseString, Allocate, Substr, TypeOK
  <2> QED BY <1>14, <1>t, <1>m, <2>1, <2>2, <2>3 DEF CloseString, TypeOK, consume
<1>15. CASE PlainChar
  BY <1>15, <1>t, <1>m DEF PlainChar, TypeOK, scan, q
<1>16. CASE Escape
  BY <1>16, <1>t, <1>m DEF Escape, TypeOK, scan, q
<1>17. CASE UnknownEscape
  BY <1>17, <1>t, <1>m DEF UnknownEscape, TypeOK, scan
<1>18. CASE EndString
  BY <1>18, <1>t, <1>m DEF EndString, TypeOK, scan
<1>19. CASE CommentChar
  BY <1>19, <1>t, <1>m DEF CommentChar, TypeOK, Over, rest
<1>20. CASE EndComment
  <2>1. Closing => i + 1 < Len(text) BY <1>t, Peak DEF Closing, NUL
  <2> QED BY <1>20, <1>t, <1>m, <2>1 DEF EndComment, TypeOK, rest, consume
<1> QED
  BY <1>1, <1>2, <1>3, <1>4, <1>5, <1>6, <1>7, <1>8, <1>9, <1>10, <1>11, <1>12, <1>13, <1>14,
     <1>15, <1>16, <1>17, <1>18, <1>19, <1>20 DEF Next

LEMMA PosStutter == ASSUME PosInv, UNCHANGED vars PROVE PosInv'
  BY DEF PosInv, TypeOK, vars, scan, rest, c, peak, q, buf_len

LEMMA PosAlways == Spec => []PosInv
  BY PosInit, PosStep, PosStutter, PTL DEF Spec

\* The index never leaves the buffer and its terminator, whatever the file is
\* cut off in the middle of: every loop of lexer.c looks at a char before it
\* goes over it, escapes and two-char symbols look at two.
THEOREM StaysInBuffer == Spec => []TypeOK
<1>1. PosInv => TypeOK BY DEF PosInv
<1> QED BY PosAlways, <1>1, PTL

-----------------------------------------------------------------------------
(* The lines                                                                *)

NewLines(n) == Cardinality({k \in 1 .. n : text[k] = "\n"})

LEMMA CountNext ==
  ASSUME NEW n \in Nat
  PROVE  /\ NewLines(n) \in Nat
         /\ NewLines(n + 1) = IF text[n + 1] = "\n" THEN NewLines(n) + 1 ELSE NewLines(n)
<1> DEFINE S == {k \in 1 .. n : text[k] = "\n"}
           T == {k \in 1 .. n + 1 : text[k] = "\n"}
<1>1. IsFiniteSet(S)
  <2>1. IsFiniteSet(1 .. n) BY FS_Interval
  <2> QED BY <2>1, FS_Subset
<1>2. Cardinality(S) \in Nat BY <1>1, FS_CardinalityType
<1>3. CASE text[n + 1] = "\n"
  <2>1. T = S \cup {n + 1} /\ n + 1 \notin S BY <1>3
  <2>2. Cardinality(T) = Cardinality(S) + 1 BY <2>1, <1>1, FS_AddElement
  <2> QED BY <1>2, <1>3, <2>2 DEF NewLines
<1>4. CASE text[n + 1] # "\n"
  <2>1. T = S BY <1>4
  <2> QED BY <1>2, <1>4, <2>1 DEF NewLines
<1> QED BY <1>3, <1>4

\* A step that goes over n chars, none of which ends the line.
LEMMA SameLine ==
  ASSUME PosInv, LinesCounted, text' = text, ln' = ln, NEW n \in 0 .. 2, i' = i + n,
         n >= 1 => c # "\n", n = 2 => peak(1) # "\n", i + n <= Len(text)
  PROVE  LinesCounted'
<1>t. i \in Nat /\ text \in Seq(STRING) /\ Len(text) \in Nat /\ ln \in Nat
  BY TextIsChars DEF PosInv, TypeOK
<1>1. ln = 1 + NewLines(i) BY DEF LinesCounted, NewLines
<1>2. n >= 1 => c = text[i + 1] BY <1>t DEF c, peak, buf_len
<1>3. n = 2 => peak(1) = text[i + 2] BY <1>t DEF peak, buf_len
<1>4. n >= 1 => NewLines(i + 1) = NewLines(i) BY <1>t, <1>2, CountNext
<1>5. n = 2 => NewLines(i + 2) = NewLines(i + 1)
  <2> HAVE n = 2
  <2>1. i + 1 \in Nat /\ (i + 1) + 1 = i + 2 /\ text[i + 2] # "\n" BY <1>t, <1>3
  <2> QED BY <2>1, CountNext
<1>6. NewLines(i + n) = NewLines(i)
  <2>1. CASE n = 0
    <3>1. i + n = i BY <1>t, <2>1
    <3> QED BY <3>1
  <2>2. CASE n = 1 BY <1>4, <2>2
  <2>3. CASE n = 2 BY <1>4, <1>5, <2>3
  <2> QED BY <2>1, <2>2, <2>3
<1>7. LinesCounted' <=> ln = 1 + NewLines(i + n) BY DEF LinesCounted, NewLines
<1> QED BY <1>1, <1>6, <1>7

\* A step over one char that may.
LEMMA NextLine ==
  ASSUME PosInv, LinesCounted, text' = text, i < Len(text), NEW step, Over(step)
  PROVE  LinesCounted'
<1>t. i \in Nat /\ text \in Seq(STRING) /\ Len(text) \in Nat /\ ln \in Nat
  BY TextIsChars DEF PosInv, TypeOK
<1>1. ln = 1 + NewLines(i) BY DEF LinesCounted, NewLines
<1>2. c = text[i + 1] BY <1>t DEF c, peak, buf_len
<1>3. NewLines(i) \in Nat BY <1>t, CountNext
<1>4. NewLines(i + 1) = IF text[i + 1] = "\n" THEN NewLines(i) + 1 ELSE NewLines(i)
  BY <1>t, CountNext
<1>5. i' = i + 1 /\ ln' = IF text[i + 1] = "\n" THEN ln + 1 ELSE ln BY <1>2 DEF Over
<1>6. LinesCounted' <=> ln' = 1 + NewLines(i + 1) BY <1>5 DEF LinesCounted, NewLines
<1> QED BY <1>t, <1>1, <1>3, <1>4, <1>5, <1>6

LEMMA LinesStep == ASSUME PosInv, LinesCounted, Next PROVE LinesCounted'
<1>t. /\ i \in Nat /\ text \in Seq(STRING) /\ Len(text) \in Nat
      /\ Numbers = {"hex", "binary", "octal", "decimal"}
  BY TextIsChars, NumberModes DEF PosInv, TypeOK
<1>p. PosInv' /\ i <= Len(text)
  BY <1>t, PosStep DEF PosInv, TypeOK, buf_len
<1>0. ASSUME UNCHANGED <<text, i, ln>> PROVE LinesCounted' BY <1>0 DEF LinesCounted
<1>a. ASSUME text' = text, ln' = ln, NEW n \in 1 .. 2, consume(n), c # "\n",
             n = 2 => peak(1) # "\n"
      PROVE  LinesCounted'
  <2>1. i' = i + n /\ i' <= Len(text) BY <1>a, <1>p DEF consume, PosInv, TypeOK, buf_len
  <2> QED BY <1>a, <2>1, SameLine
<1>1. CASE Blank BY <1>1, <1>t, NextLine DEF Blank, AtToken, rest, buf_len
<1>2. CASE BeginWord BY <1>2, <1>0 DEF BeginWord, Stay, rest
<1>3. CASE BeginDigits
  <2>1. text' = text /\ ln' = ln BY <1>3 DEF BeginDigits, rest
  <2>2. CASE UNCHANGED <<i, cn>> BY <2>1, <2>2, <1>0
  <2>3. CASE c = "0" /\ peak(1) \in {"x", "X", "b", "B"} /\ consume(2)
    <3>1. c # "\n" /\ peak(1) # "\n" BY <2>3
    <3> QED BY <2>1, <2>3, <3>1, <1>a
  <2>4. CASE c = "0" /\ consume(1)
    <3>1. c # "\n" BY <2>4
    <3> QED BY <2>1, <2>4, <3>1, <1>a
  <2> QED BY <1>3, <2>2, <2>3, <2>4 DEF BeginDigits, Stay
<1>4. CASE BeginString
  <2>1. c # "\n" BY <1>4, Classes DEF BeginString
  <2> QED BY <1>4, <2>1, <1>a DEF BeginString, rest
<1>5. CASE BeginComment BY <1>5, <1>0 DEF BeginComment, Stay, rest
<1>6. CASE Symbol
  <2>1. c # "\n" BY <1>6 DEF Symbol, Spaces
  <2>2. text' = text /\ ln' = ln BY <1>6 DEF Symbol
  <2>3. CASE <<c, peak(1)>> \in DOMAIN Double /\ consume(2)
    <3>1. peak(1) # "\n" BY <2>3, Doubles
    <3> QED BY <2>1, <2>2, <2>3, <3>1, <1>a
  <2>4. CASE consume(1) BY <2>1, <2>2, <2>4, <1>a
  <2> QED BY <1>6, <2>3, <2>4 DEF Symbol
<1>7. CASE Finish BY <1>7, <1>0 DEF Finish, scan, rest
<1>8. CASE WordChar
  <2>1. c # "\n" BY <1>8, Classes DEF WordChar
  <2> QED BY <1>8, <2>1, <1>a DEF WordChar, rest
<1>9. CASE EndWord BY <1>9, <1>0 DEF EndWord, scan
<1>10. CASE Digit
  <2>1. c # "\n" BY <1>10, Classes DEF Digit, Numbers
  <2> QED BY <1>10, <2>1, <1>a DEF Digit
<1>11. CASE EndDigits BY <1>11, <1>0 DEF EndDigits, scan
<1>12. CASE StringChar
  <2>1. text' = text /\ ln' = ln /\ c # "\n" BY <1>12 DEF StringChar, Cut, rest
  <2>2. CASE c = "*"
    <3>1. consume(2) /\ peak(1) # "\n" BY <1>12, <2>2 DEF StringChar, Cut
    <3> QED BY <2>1, <3>1, <1>a
  <2>3. CASE c # "*"
    <3>1. consume(1) BY <1>12, <2>3 DEF StringChar
    <3> QED BY <2>1, <3>1, <1>a
  <2> QED BY <2>2, <2>3
<1>13. CASE Unterminated BY <1>13, <1>0 DEF Unterminated, scan
<1>14. CASE CloseString
  <2>1. c # "\n" BY <1>14, Classes DEF CloseString, PosInv
  <2> QED BY <1>14, <2>1, <1>a DEF CloseString
<1>15. CASE PlainChar BY <1>15, <1>0 DEF PlainChar, scan
<1>16. CASE Escape BY <1>16, <1>0 DEF Escape, scan
<1>17. CASE UnknownEscape BY <1>17, <1>0 DEF UnknownEscape, scan
<1>18. CASE EndString BY <1>18, <1>0 DEF EndString, scan
<1>19. CASE CommentChar BY <1>19, <1>t, NextLine DEF CommentChar, rest, buf_len
<1>20. CASE EndComment
  <2>1. text' = text /\ ln' = ln BY <1>20 DEF EndComment, rest
  <2>2. CASE UNCHANGED <<i, cn>> BY <2>1, <2>2, <1>0
  <2>3. CASE Closing /\ consume(2)
    <3>1. c # "\n" /\ peak(1) # "\n" BY <2>3 DEF Closing
    <3> QED BY <2>1, <2>3, <3>1, <1>a
  <2> QED BY <1>20, <2>2, <2>3 DEF EndComment, Stay
<1> QED
  BY <1>1, <1>2, <1>3, <1>4, <1>5, <1>6, <1>7, <1>8, <1>9, <1>10, <1>11, <1>12, <1>13, <1>14,
     <1>15, <1>16, <1>17, <1>18, <1>19, <1>20 DEF Next

LEMMA LinesInit == Init => LinesCounted
<1> SUFFICES ASSUME Init PROVE LinesCounted OBVIOUS
<1>1. i = 0 /\ ln = 1 BY DEF Init
<1>2. {k \in 1 .. i : text[k] = "\n"} = {} BY <1>1
<1>3. Cardinality({k \in 1 .. i : text[k] = "\n"}) = 0 BY <1>2, FS_EmptySet
<1> QED BY <1>1, <1>3 DEF LinesCounted

\* The line the lexer stands in is the line of the file, at every moment: a
\* diagnostic or a token names a line that is there.
THEOREM LinesAreCounted == Spec => []LinesCounted
<1>1. Init => PosInv /\ LinesCounted BY PosInit, LinesInit
<1>2. PosInv /\ LinesCounted /\ [Next]_vars => (PosInv /\ LinesCounted)'
  <2> SUFFICES ASSUME PosInv, LinesCounted, [Next]_vars PROVE (PosInv /\ LinesCounted)' OBVIOUS
  <2>1. CASE Next BY <2>1, PosStep, LinesStep
  <2>2. CASE UNCHANGED vars
    <3>1. LinesCounted' BY <2>2 DEF LinesCounted, vars, scan, rest
    <3> QED BY <2>2, <3>1, PosStutter
  <2> QED BY <2>1, <2>2
<1> QED BY <1>1, <1>2, PTL DEF Spec

-----------------------------------------------------------------------------
(* The store                                                                *)

Bytes == STRING \cup {NUL} \cup {Escapes[e] : e \in DOMAIN Escapes}

\* Where the part of the file begins that has no block yet.
Paid == CASE mode \in Numbers \cup {"get_word"} -> start
          [] mode = "get_string" -> start - 1
          [] OTHER -> i

\* StoreBounded alone is not inductive: a lexeme is paid for by the chars since
\* it began.  Nor is ShortensInPlace: that the second loop of get_string stops
\* at the block's end, though an escape moves its read index by two, rests on
\* the terminator still standing there.
StoreInv ==
  /\ store \in Seq(Bytes)
  /\ used <= Len(store) /\ Len(store) <= used + 1
  /\ used <= 2 * Paid
  /\ mode = "unescape" =>
       /\ w <= r /\ r <= strlen /\ strlen <= used
       /\ Len(store) = used
       /\ r < strlen => store[used] = NUL

LEMMA NulIsByte == NUL \in Bytes
  BY DEF Bytes

LEMMA MaxOfTwo ==
  ASSUME NEW a \in Nat, NEW b \in Nat
  PROVE  Max({a, b}) = IF a >= b THEN a ELSE b
  BY DEF Max

\* A new block ends the store.
LEMMA NewBlock ==
  ASSUME PosInv, StoreInv, Allocate
  PROVE  /\ store' \in Seq(Bytes)
         /\ used' = used + (i - start) + 1
         /\ Len(store') = used' /\ store'[used'] = NUL
<1>t. /\ i \in Nat /\ start \in Nat /\ start <= i /\ i <= Len(text) /\ used \in Nat
      /\ text \in Seq(STRING) /\ Len(text) \in Nat /\ Len(store) \in Nat /\ used <= Len(store)
      /\ store \in Seq(Bytes)
  BY TextIsChars, LenProperties DEF PosInv, TypeOK, buf_len, StoreInv
<1> DEFINE word == SubSeq(text, start + 1, i)
           kept == SubSeq(store, 1, used)
<1>1. word \in Seq(Bytes) /\ Len(word) = i - start
  <2>1. \A k \in start + 1 .. i : text[k] \in Bytes BY <1>t, ElementOfSeq DEF Bytes
  <2> HIDE DEF Bytes
  <2>2. start + 1 \in Int /\ i \in Int BY <1>t
  <2>3. word \in Seq(Bytes) /\ Len(word) = IF start + 1 <= i THEN i - (start + 1) + 1 ELSE 0
    BY <2>1, <2>2, SubSeqProperties
  <2> QED BY <1>t, <2>3
<1>2. kept \in Seq(Bytes) /\ Len(kept) = used
  <2>1. \A k \in 1 .. used : store[k] \in Bytes BY <1>t, ElementOfSeq
  <2>2. kept \in Seq(Bytes) /\ Len(kept) = IF 1 <= used THEN used - 1 + 1 ELSE 0
    BY <1>t, <2>1, SubSeqProperties
  <2> QED BY <1>t, <2>2
<1>3. NUL \in Bytes BY NulIsByte
<1> HIDE DEF word, kept
<1>4. /\ Append(word, NUL) \in Seq(Bytes) /\ Len(Append(word, NUL)) = i - start + 1
      /\ Append(word, NUL)[i - start + 1] = NUL
  BY <1>t, <1>1, <1>3
<1>5. Substr = Append(word, NUL) BY DEF Substr, word
<1>6. store' = kept \o Append(word, NUL) /\ used' = used + Len(Append(word, NUL))
  BY <1>5 DEF Allocate, kept
<1> DEFINE block == Append(word, NUL)
<1> HIDE DEF block
<1>7. block \in Seq(Bytes) /\ Len(block) = i - start + 1 /\ block[i - start + 1] = NUL
  BY <1>4 DEF block
<1> DEFINE n == i - start + 1
<1>n. n \in Nat /\ n >= 1 /\ n = i - start + 1 BY <1>t
<1> HIDE DEF n
<1>8. /\ kept \o block \in Seq(Bytes) /\ Len(kept \o block) = used + n
      /\ (kept \o block)[used + n] = block[n]
  <2>1. Len(block) = n /\ Len(kept) = used BY <1>n, <1>7, <1>2
  <2>2. kept \o block \in Seq(Bytes) /\ Len(kept \o block) = used + n
    BY ZenonT(30), <1>2, <1>7, <2>1, ConcatProperties
  <2>3. used + n \in 1 .. Len(kept) + Len(block) /\ ~ (used + n <= Len(kept)) /\ (used + n) - Len(kept) = n
    BY <1>t, <1>n, <2>1
  <2>4. (kept \o block)[used + n] = block[(used + n) - Len(kept)]
    BY <1>2, <1>7, <2>3, ConcatProperties
  <2> QED BY <2>2, <2>3, <2>4
<1>9. store' = kept \o block /\ used' = used + Len(block) BY <1>6 DEF block
<1>10. used + n = used + (i - start) + 1 BY <1>t, <1>n
<1> QED BY <1>n, <1>7, <1>8, <1>9, <1>10

\* A write behind the read index, inside the block.
LEMMA PutInside ==
  ASSUME PosInv, StoreInv, mode = "unescape", r < strlen, NEW x \in Bytes, Put(x),
         w = strlen - 1 => x = NUL
  PROVE  store' \in Seq(Bytes) /\ Len(store') = used /\ store'[used] = NUL
<1>t. /\ w \in Nat /\ r \in Nat /\ used \in Nat /\ strlen \in Nat /\ w <= r /\ strlen <= used
      /\ store \in Seq(Bytes) /\ Len(store) = used /\ store[used] = NUL
  BY DEF PosInv, TypeOK, StoreInv, strlen
<1> DEFINE at == string + w + 1
<1>1. at \in 1 .. used /\ (at = used => w = strlen - 1) BY <1>t DEF string
<1> HIDE DEF at
<1>2. Max({Len(store), at}) = used BY <1>t, <1>1, MaxOfTwo
<1>3. store' = [k \in 1 .. used |-> IF k = at THEN x ELSE store[k]] BY <1>2 DEF Put, at
<1>4. \A k \in 1 .. used : store[k] \in Bytes BY <1>t, ElementOfSeq
<1>5. store' \in Seq(Bytes) /\ Len(store') = used BY <1>t, <1>3, <1>4
<1> QED BY <1>t, <1>1, <1>3, <1>5

LEMMA StoreStep == ASSUME PosInv, StoreInv, Next PROVE StoreInv'
<1>t. /\ i \in Nat /\ start \in Nat /\ used \in Nat /\ r \in Nat /\ w \in Nat /\ start <= i
      /\ Numbers = {"hex", "binary", "octal", "decimal"} /\ Len(store) \in Nat
  BY NumberModes, LenProperties DEF PosInv, TypeOK, StoreInv
<1>0. ASSUME UNCHANGED <<store, used>>, mode' # "unescape", Paid <= Paid', Paid' \in Nat, Paid \in Nat
      PROVE  StoreInv'
  <2>1. store \in Seq(Bytes) /\ used <= Len(store) /\ Len(store) <= used + 1 /\ used <= 2 * Paid
    BY DEF StoreInv
  <2>2. \A a, b, u \in Nat : a <= b /\ u <= 2 * a => u <= 2 * b OBVIOUS
  <2>4. used <= 2 * Paid'
    <3>1. Paid \in Nat /\ Paid' \in Nat /\ used \in Nat BY <1>0, <1>t
    <3> QED BY <1>0, <2>1, <2>2, <3>1, Zenon
  <2>3. store' = store /\ used' = used BY <1>0
  <2> QED BY <1>0, <2>1, <2>3, <2>4 DEF StoreInv
<1>a. ASSUME Allocate, mode' = "lexer", i' = i, Paid = start, i > start
      PROVE  StoreInv'
  <2>1. Paid' = i BY <1>a, <1>t DEF Paid
  <2>2. used <= 2 * start BY <1>a DEF StoreInv
  <2>3. /\ store' \in Seq(Bytes) /\ used' = used + (i - start) + 1 /\ Len(store') = used'
    BY <1>a, NewBlock
  <2>4. used' <= 2 * i /\ used' \in Nat BY <1>a, <1>t, <2>2, <2>3
  <2> QED BY <1>a, <2>1, <2>3, <2>4 DEF StoreInv
<1>1. CASE Blank BY <1>1, <1>0, <1>t DEF Blank, AtToken, Over, rest, Paid
<1>2. CASE BeginWord BY <1>2, <1>0, <1>t DEF BeginWord, AtToken, Stay, To, rest, Paid
<1>3. CASE BeginDigits
  <2>1. start' = i /\ UNCHANGED <<store, used>> /\ mode' \in Numbers /\ mode = "lexer"
    BY <1>3, <1>t DEF BeginDigits, AtToken, To, rest
  <2> QED BY <1>0, <1>t, <2>1 DEF Paid
<1>4. CASE BeginString
  BY <1>4, <1>0, <1>t DEF BeginString, AtToken, To, rest, Paid
<1>5. CASE BeginComment
  BY <1>5, <1>0, <1>t DEF BeginComment, AtToken, Stay, To, rest, Paid
<1>6. CASE Symbol
  BY <1>6, <1>0, <1>t DEF Symbol, AtToken, consume, Paid
<1>7. CASE Finish BY <1>7, <1>0, <1>t DEF Finish, To, scan, rest, Paid
<1>8. CASE WordChar BY <1>8, <1>0, <1>t DEF WordChar, rest, Paid
<1>9. CASE EndWord
  <2>1. i > start BY <1>9 DEF EndWord, PosInv
  <2> QED BY <1>9, <1>a, <1>t, <2>1 DEF EndWord, To, scan, Paid
<1>10. CASE Digit BY <1>10, <1>0, <1>t DEF Digit, Paid, Numbers
<1>11. CASE EndDigits
  <2>1. i > start /\ mode \in Numbers BY <1>11 DEF EndDigits, PosInv, Numbers
  <2>2. Paid = start BY <2>1, <1>t DEF Paid
  <2> QED BY <1>11, <1>a, <2>1, <2>2 DEF EndDigits, To, scan
<1>12. CASE StringChar BY <1>12, <1>0, <1>t DEF StringChar, rest, Paid, PosInv
<1>13. CASE Unterminated
  BY <1>13, <1>0, <1>t DEF Unterminated, To, scan, Paid, PosInv
<1>14. CASE CloseString
  <2>1. /\ start' = start /\ i' = i + 1 /\ mode = "get_string" /\ mode' = "unescape" /\ r' = 0
        /\ w' = 0 /\ Allocate
    BY <1>14 DEF CloseString, consume, To
  <2>2. /\ store' \in Seq(Bytes) /\ used' = used + (i - start) + 1
        /\ Len(store') = used' /\ store'[used'] = NUL
    BY <2>1, NewBlock
  <2>3. strlen' = (i + 1) - start
    <3>1. start' = start /\ i' = i + 1 BY <2>1
    <3> QED BY <3>1 DEF strlen
  <2>4. used <= 2 * (start - 1) /\ start >= 1 BY <2>1, <1>t DEF StoreInv, Paid, PosInv
  <2>5. Paid' = i + 1 BY <2>1, <1>t DEF Paid
  <2>6. used' <= 2 * (i + 1) /\ used' \in Nat /\ (i + 1) - start <= used' /\ 0 <= (i + 1) - start
    BY <1>t, <2>2, <2>4
  <2> QED BY <2>1, <2>2, <2>3, <2>5, <2>6 DEF StoreInv
<1>15. CASE PlainChar
  <2>1. /\ UNCHANGED <<i, start, mode, used>> /\ mode = "unescape" /\ r < strlen
        /\ r' = r + 1 /\ w' = w + 1 /\ Put(Char(r))
    BY <1>15 DEF PlainChar, scan
  <2>2. strlen \in Nat /\ strlen <= used /\ w <= r /\ r <= strlen /\ Len(store) = used
        /\ store[used] = NUL
    BY <1>t, <2>1 DEF StoreInv, strlen
  <2>3. string + r + 1 \in 1 .. Len(store) BY <1>t, <2>1, <2>2 DEF string
  <2>4. Char(r) \in Bytes BY <2>3, ElementOfSeq DEF Char, StoreInv
  <2>5. w = strlen - 1 => string + r + 1 = used BY <1>t, <2>1, <2>2 DEF string
  <2>6. w = strlen - 1 => Char(r) = NUL BY <2>2, <2>5 DEF Char
  <2>7. store' \in Seq(Bytes) /\ Len(store') = used /\ store'[used] = NUL
    BY <2>1, <2>4, <2>6, PutInside
  <2>8. strlen' = strlen /\ Paid' = Paid BY <2>1 DEF strlen, Paid
  <2> QED BY <1>t, <2>1, <2>2, <2>7, <2>8 DEF StoreInv
<1>16. CASE Escape
  <2>1. /\ UNCHANGED <<i, start, mode, used>> /\ mode = "unescape" /\ r < strlen
        /\ r' = r + 2 /\ w' = w + 1 /\ Char(r) = "*"
        /\ Char(r + 1) \in DOMAIN Escapes /\ Put(Escapes[Char(r + 1)])
    BY <1>16 DEF Escape, scan
  <2>2. strlen \in Nat /\ strlen <= used /\ w <= r /\ r <= strlen /\ Len(store) = used
        /\ store[used] = NUL
    BY <1>t, <2>1 DEF StoreInv, strlen
  <2>3. r # strlen - 1
    <3>1. SUFFICES ASSUME r = strlen - 1 PROVE FALSE OBVIOUS
    <3>2. string + r + 1 = used BY <1>t, <2>2, <3>1 DEF string
    <3> QED BY <2>1, <2>2, <3>2 DEF Char, NUL
  <2>4. Escapes[Char(r + 1)] \in Bytes BY <2>1 DEF Bytes
  <2>5. w # strlen - 1 /\ r + 2 <= strlen BY <1>t, <2>1, <2>2, <2>3
  <2>6. store' \in Seq(Bytes) /\ Len(store') = used /\ store'[used] = NUL
    BY <2>1, <2>4, <2>5, PutInside
  <2>7. strlen' = strlen /\ Paid' = Paid BY <2>1 DEF strlen, Paid
  <2> QED BY <1>t, <2>1, <2>2, <2>5, <2>6, <2>7 DEF StoreInv
<1>17. CASE UnknownEscape
  BY <1>17, <1>0, <1>t DEF UnknownEscape, To, scan, Paid
<1>18. CASE EndString
  <2>1. /\ UNCHANGED <<i, start, used>> /\ mode = "unescape" /\ mode' = "lexer" /\ r >= strlen
        /\ Put(NUL)
    BY <1>18 DEF EndString, scan, To
  <2>2. strlen \in Nat /\ strlen <= used /\ w <= r /\ r = strlen /\ Len(store) = used
    BY <1>t, <2>1 DEF StoreInv, strlen
  <2> DEFINE at == string + w + 1
             n  == IF used >= at THEN used ELSE at
  <2>3. at \in Nat /\ 1 <= at /\ at <= used + 1 BY <1>t, <2>2 DEF string
  <2> HIDE DEF at
  <2>4. Max({Len(store), at}) = n BY <1>t, <2>2, <2>3, MaxOfTwo
  <2> HIDE DEF n
  <2>5. store' = [k \in 1 .. n |-> IF k = at THEN NUL ELSE store[k]]
    BY <2>1, <2>4 DEF Put, at
  <2>6. n \in Nat /\ used <= n /\ n <= used + 1 /\ \A k \in 1 .. n : k = at \/ k \in 1 .. used
    BY <1>t, <2>3 DEF n
  <2>7. NUL \in Bytes /\ \A k \in 1 .. used : store[k] \in Bytes
    BY <2>2, NulIsByte, ElementOfSeq DEF StoreInv
  <2>8. store' \in Seq(Bytes) /\ Len(store') = n BY <2>5, <2>6, <2>7
  <2>9. Paid' = i /\ Paid = i BY <2>1, <1>t DEF Paid
  <2> QED BY <1>t, <2>1, <2>6, <2>8, <2>9 DEF StoreInv
<1>19. CASE CommentChar
  BY <1>19, <1>0, <1>t DEF CommentChar, Over, rest, Paid
<1>20. CASE EndComment
  BY <1>20, <1>0, <1>t DEF EndComment, consume, Stay, To, rest, Paid
<1> QED
  BY <1>1, <1>2, <1>3, <1>4, <1>5, <1>6, <1>7, <1>8, <1>9, <1>10, <1>11, <1>12, <1>13, <1>14,
     <1>15, <1>16, <1>17, <1>18, <1>19, <1>20 DEF Next

LEMMA StoreInit == Init => StoreInv
<1> SUFFICES ASSUME Init PROVE StoreInv OBVIOUS
<1>1. store = <<>> /\ used = 0 /\ i = 0 /\ mode = "lexer" BY DEF Init
<1>2. Paid = 0 BY <1>1, NumberModes DEF Paid
<1>3. store \in Seq(Bytes) /\ Len(store) = 0 BY <1>1
<1> QED BY <1>1, <1>2, <1>3 DEF StoreInv

LEMMA StoreAlways == Spec => [](PosInv /\ StoreInv)
<1>1. Init => PosInv /\ StoreInv BY PosInit, StoreInit
<1>2. PosInv /\ StoreInv /\ [Next]_vars => (PosInv /\ StoreInv)'
  <2> SUFFICES ASSUME PosInv, StoreInv, [Next]_vars PROVE (PosInv /\ StoreInv)' OBVIOUS
  <2>1. CASE Next BY <2>1, PosStep, StoreStep
  <2>2. CASE UNCHANGED vars
    <3>1. UNCHANGED <<store, used, mode, i, start, r, w>> BY <2>2 DEF vars, scan, rest
    <3>2. strlen' = strlen /\ Paid' = Paid BY <3>1 DEF strlen, Paid
    <3>3. StoreInv' BY <3>1, <3>2 DEF StoreInv
    <3> QED BY <2>2, <3>3, PosStutter
  <2> QED BY <2>1, <2>2
<1> QED BY <1>1, <1>2, PTL DEF Spec

\* However a quoted constant mixes escapes, stars and quotes, the loop that
\* rewrites it never overtakes its own reading nor leaves its block, except for
\* the terminator written last, which may be the byte after the block.
THEOREM UnescapeStaysInBlock == Spec => []ShortensInPlace
<1>1. PosInv /\ StoreInv => ShortensInPlace
  BY LenProperties DEF PosInv, TypeOK, StoreInv, ShortensInPlace
<1> QED BY StoreAlways, <1>1, PTL

\* Two bytes of str_arena for each byte of the file are enough for any file.
THEOREM TwoBytesEnough == Spec => []StoreBounded
<1>1. PosInv /\ StoreInv => StoreBounded
  <2> SUFFICES ASSUME PosInv, StoreInv PROVE StoreBounded OBVIOUS
  <2>1. Paid <= i /\ i \in Nat /\ Paid \in Int
    BY NumberModes DEF PosInv, TypeOK, Paid
  <2> QED BY <2>1 DEF StoreInv, StoreBounded, PosInv, TypeOK
<1> QED BY StoreAlways, <1>1, PTL

-----------------------------------------------------------------------------
(* Least and greatest numbers                                               *)

LEMMA LeastNat ==
  ASSUME NEW T, T \subseteq Nat, T # {}
  PROVE  \E x \in T : \A y \in T : x <= y
<1> DEFINE R == OpToRel(<, Nat)
<1>1. IsWellFoundedOn(R, Nat) BY NatLessThanWellFounded
<1>2. \A y, x \in Nat : y < x => <<y, x>> \in R BY DEF OpToRel
<1> HIDE DEF R
<1>3. PICK x \in T : \A y \in T : ~ (<<y, x>> \in R) BY <1>1, WFMin
<1>4. \A y \in T : ~ (y < x) BY <1>2, <1>3
<1> QED BY <1>4

LEMMA GreatestNat ==
  ASSUME NEW S, S \subseteq Nat, NEW b \in Nat, \A x \in S : x <= b, S # {}
  PROVE  \E x \in S : \A y \in S : y <= x
<1> DEFINE T == {b - x : x \in S}
<1>1. T \subseteq Nat /\ T # {}
  <2>1. \A x \in S : b - x \in Nat OBVIOUS
  <2>2. PICK x \in S : TRUE OBVIOUS
  <2>3. b - x \in T OBVIOUS
  <2> QED BY <2>1, <2>3
<1> HIDE DEF T
<1>2. PICK m \in T : \A y \in T : m <= y BY <1>1, LeastNat
<1>3. PICK x \in S : m = b - x BY DEF T
<1>4. \A y \in S : b - y \in T BY DEF T
<1>5. \A y \in S : b - x <= b - y BY <1>2, <1>3, <1>4
<1> QED BY <1>5

LEMMA MaxIs ==
  ASSUME NEW S, S \subseteq Int, NEW m \in S, \A x \in S : x <= m
  PROVE  Max(S) = m
<1>1. \E x \in S : \A y \in S : x >= y OBVIOUS
<1>2. Max(S) \in S /\ \A y \in S : Max(S) >= y BY <1>1, Zenon DEF Max
<1>3. Max(S) \in Int /\ m \in Int BY <1>2
<1>4. Max(S) >= m /\ Max(S) <= m BY <1>2
<1> QED BY <1>3, <1>4

LEMMA MinIs ==
  ASSUME NEW S, S \subseteq Int, NEW m \in S, \A x \in S : m <= x
  PROVE  Min(S) = m
<1>1. \E x \in S : \A y \in S : x <= y OBVIOUS
<1>2. Min(S) \in S /\ \A y \in S : Min(S) <= y BY <1>1, Zenon DEF Min
<1>3. Min(S) \in Int /\ m \in Int BY <1>2
<1>4. Min(S) <= m /\ m <= Min(S) BY <1>2
<1> QED BY <1>3, <1>4

LEMMA CardinalityIs == ASSUME NEW S PROVE Scan!Cardinality(S) = Cardinality(S)
  BY DEF Scan!Cardinality, Cardinality

-----------------------------------------------------------------------------
(* Which chars of a quoted text are escaped                                 *)

\* The stars right before s[k], as Escaped counts them.
Stars(s, k) == {n \in 0 .. k - 2 : \A j \in k - n .. k - 1 : s[j] = "*"}

LEMMA EscapedIs == ASSUME NEW s, NEW k PROVE Scan!Escaped(s, k) <=> Max(Stars(s, k)) % 2 = 1
  BY DEF Scan!Escaped, Stars, Scan!Max, Max

LEMMA StarsEnd ==
  ASSUME NEW s, NEW k \in Nat, k >= 2
  PROVE  \E m \in Stars(s, k) : (\A n \in Stars(s, k) : n <= m) /\ Max(Stars(s, k)) = m /\ m \in Nat
<1>1. Stars(s, k) \subseteq Nat /\ 0 \in Stars(s, k) /\ \A n \in Stars(s, k) : n <= k - 2
  BY DEF Stars
<1>2. k - 2 \in Nat OBVIOUS
<1>3. PICK m \in Stars(s, k) : \A n \in Stars(s, k) : n <= m BY <1>1, <1>2, GreatestNat
<1>4. Stars(s, k) \subseteq Int BY <1>1
<1>5. Max(Stars(s, k)) = m BY <1>3, <1>4, MaxIs
<1> QED BY <1>1, <1>3, <1>5

\* The first char after the quote is not.
LEMMA EscapedFirst == ASSUME NEW s PROVE ~ Scan!Escaped(s, 2)
<1>1. Stars(s, 2) = {0} BY DEF Stars
<1>2. Max({0}) = 0 BY MaxIs
<1> QED BY <1>1, <1>2, EscapedIs

\* Any other is when a star stands before it that is not.
LEMMA EscapedNext ==
  ASSUME NEW s, NEW k \in Nat, k >= 2
  PROVE  Scan!Escaped(s, k + 1) <=> s[k] = "*" /\ ~ Scan!Escaped(s, k)
<1>1. CASE s[k] # "*"
  <2>1. \A n \in Stars(s, k + 1) : n = 0
    <3> TAKE n \in Stars(s, k + 1)
    <3>1. n \in 0 .. (k + 1) - 2 /\ \A j \in (k + 1) - n .. (k + 1) - 1 : s[j] = "*" BY DEF Stars
    <3>2. n >= 1 => k \in (k + 1) - n .. (k + 1) - 1 BY <3>1
    <3> QED BY <1>1, <3>1, <3>2
  <2>2. PICK m \in Stars(s, k + 1) : Max(Stars(s, k + 1)) = m BY StarsEnd
  <2>3. Max(Stars(s, k + 1)) = 0 BY <2>1, <2>2
  <2>4. ~ Scan!Escaped(s, k + 1) BY <2>3, EscapedIs
  <2> QED BY <1>1, <2>4
<1>2. CASE s[k] = "*"
  <2>1. PICK m \in Stars(s, k) : /\ \A n \in Stars(s, k) : n <= m
                                 /\ Max(Stars(s, k)) = m /\ m \in Nat
    BY StarsEnd
  <2>2. m + 1 \in Stars(s, k + 1)
    <3>1. m \in 0 .. k - 2 /\ \A j \in k - m .. k - 1 : s[j] = "*" BY DEF Stars
    <3>2. \A j \in (k + 1) - (m + 1) .. (k + 1) - 1 : j = k \/ j \in k - m .. k - 1 BY <3>1
    <3>3. \A j \in (k + 1) - (m + 1) .. (k + 1) - 1 : s[j] = "*" BY <1>2, <3>1, <3>2
    <3>4. m + 1 \in 0 .. (k + 1) - 2 BY <3>1
    <3> QED BY <3>3, <3>4 DEF Stars
  <2>3. ASSUME NEW n \in Stars(s, k + 1) PROVE n <= m + 1
    <3>1. n \in 0 .. (k + 1) - 2 /\ \A j \in (k + 1) - n .. (k + 1) - 1 : s[j] = "*" BY DEF Stars
    <3>2. CASE n >= 1
      <4>1. \A j \in k - (n - 1) .. k - 1 : j \in (k + 1) - n .. (k + 1) - 1 BY <3>1
      <4>2. n - 1 \in 0 .. k - 2 BY <3>1, <3>2
      <4>3. n - 1 \in Stars(s, k) BY <3>1, <4>1, <4>2 DEF Stars
      <4> QED BY <2>1, <3>1, <4>3
    <3> QED BY <2>1, <3>1, <3>2
  <2>4. Stars(s, k + 1) \subseteq Int BY DEF Stars
  <2>5. Max(Stars(s, k + 1)) = m + 1 BY <2>2, <2>3, <2>4, MaxIs
  <2>6. (m + 1) % 2 = 1 <=> ~ (m % 2 = 1) BY <2>1
  <2> QED BY <1>2, <2>1, <2>5, <2>6, EscapedIs
<1> QED BY <1>1, <1>2

\* It depends on what stands before alone.
LEMMA EscapedBefore ==
  ASSUME NEW s, NEW t, NEW k \in Nat, \A j \in 2 .. k - 1 : s[j] = t[j]
  PROVE  Scan!Escaped(s, k) <=> Scan!Escaped(t, k)
<1>1. \A n \in 0 .. k - 2 : \A j \in k - n .. k - 1 : j \in 2 .. k - 1 OBVIOUS
<1>2. Stars(s, k) = Stars(t, k) BY <1>1 DEF Stars
<1> QED BY <1>2, EscapedIs

-----------------------------------------------------------------------------
(* Which chars of it count                                                  *)

LEMMA KeptFinite ==
  ASSUME NEW s, Len(s) \in Nat
  PROVE  /\ IsFiniteSet(Scan!Kept(s)) /\ Scan!Kept(s) \subseteq 2 .. Len(s) - 1
         /\ Cardinality(Scan!Kept(s)) \in Nat
<1>1. Scan!Kept(s) \subseteq 2 .. Len(s) - 1 BY DEF Scan!Kept
<1>2. IsFiniteSet(2 .. Len(s) - 1) BY FS_Interval
<1>3. IsFiniteSet(Scan!Kept(s)) BY <1>1, <1>2, FS_Subset
<1> QED BY <1>1, <1>3, FS_CardinalityType

LEMMA RankFirst == ASSUME NEW s, Len(s) \in Nat PROVE Scan!Rank(s, 1) = 0
<1>1. {j \in Scan!Kept(s) : j <= 1} = {} BY KeptFinite
<1> QED BY <1>1, FS_EmptySet, CardinalityIs DEF Scan!Rank

LEMMA RankNext ==
  ASSUME NEW s, Len(s) \in Nat, NEW m \in Nat
  PROVE  /\ Scan!Rank(s, m) \in Nat
         /\ Scan!Rank(s, m + 1) = IF m + 1 \in Scan!Kept(s) THEN Scan!Rank(s, m) + 1 ELSE Scan!Rank(s, m)
<1> DEFINE K == Scan!Kept(s)
           A == {j \in K : j <= m}
           B == {j \in K : j <= m + 1}
<1>1. IsFiniteSet(K) /\ K \subseteq Int BY KeptFinite
<1>j. \A j \in K : j <= m + 1 <=> j <= m \/ j = m + 1 BY <1>1
<1>0. ~ (m + 1 <= m) OBVIOUS
<1> HIDE DEF K
<1>2. IsFiniteSet(A) BY <1>1, FS_Subset
<1>3. Cardinality(A) \in Nat BY <1>2, FS_CardinalityType
<1>4. Scan!Rank(s, m) = Cardinality(A) /\ Scan!Rank(s, m + 1) = Cardinality(B)
  BY CardinalityIs DEF Scan!Rank, K
<1>5. CASE m + 1 \in K
  <2>1. B = A \cup {m + 1} /\ m + 1 \notin A BY <1>j, <1>0, <1>5
  <2>2. Cardinality(B) = Cardinality(A) + 1 BY <1>2, <2>1, FS_AddElement
  <2> QED BY <1>3, <1>4, <1>5, <2>2 DEF K
<1>6. CASE m + 1 \notin K
  <2>1. B = A BY <1>j, <1>6
  <2> QED BY <1>3, <1>4, <1>6, <2>1 DEF K
<1> QED BY <1>5, <1>6

LEMMA RankAll ==
  ASSUME NEW s, Len(s) \in Nat, NEW m \in Nat, m >= Len(s) - 1
  PROVE  Scan!Rank(s, m) = Cardinality(Scan!Kept(s))
<1>1. {j \in Scan!Kept(s) : j <= m} = Scan!Kept(s) BY KeptFinite
<1> QED BY <1>1, CardinalityIs DEF Scan!Rank
-----------------------------------------------------------------------------
(* C strings                                                                *)

LEMMA Slice ==
  ASSUME NEW S, NEW s \in Seq(S), NEW m \in Nat, m >= 1, NEW n \in Nat, m <= n + 1, n <= Len(s)
  PROVE  /\ SubSeq(s, m, n) \in Seq(S)
         /\ Len(SubSeq(s, m, n)) = n - m + 1
         /\ \A k \in 1 .. n - m + 1 : SubSeq(s, m, n)[k] = s[m + k - 1]
<1>1. Len(s) \in Nat /\ \A k \in 1 .. Len(s) : s[k] \in S BY LenProperties, ElementOfSeq
<1>2. \A k \in m .. n : k \in 1 .. Len(s) BY <1>1
<1>3. m \in Int /\ n \in Int /\ \A k \in m .. n : s[k] \in S BY <1>1, <1>2
<1>4. /\ SubSeq(s, m, n) \in Seq(S)
      /\ Len(SubSeq(s, m, n)) = IF m <= n THEN n - m + 1 ELSE 0
      /\ \A k \in 1 .. n - m + 1 : SubSeq(s, m, n)[k] = s[m + k - 1]
  BY <1>3, SubSeqProperties
<1>5. (IF m <= n THEN n - m + 1 ELSE 0) = n - m + 1 OBVIOUS
<1> QED BY <1>4, <1>5

\* How many chars of s come before its first NUL, as Prefix looks for them.
Chars(s) == {n \in 0 .. Len(s) : \A k \in 1 .. n : s[k] \in {s[j] : j \in DOMAIN s} \ {NUL}}

LEMMA CharsAre ==
  ASSUME NEW S, NEW s \in Seq(S)
  PROVE  /\ CString(s) = SubSeq(s, 1, Max(Chars(s)))
         /\ \A n \in 0 .. Len(s) : n \in Chars(s) <=> \A k \in 1 .. n : s[k] # NUL
         /\ Chars(s) \subseteq 0 .. Len(s) /\ Len(s) \in Nat
<1>1. CString(s) = SubSeq(s, 1, Max(Chars(s))) BY DEF CString, Prefix, Chars
<1>2. Len(s) \in Nat /\ DOMAIN s = 1 .. Len(s) BY LenProperties
<1>3. \A n \in 0 .. Len(s) : \A k \in 1 .. n : k \in DOMAIN s BY <1>2
<1>4. \A n \in 0 .. Len(s) : n \in Chars(s) <=> \A k \in 1 .. n : s[k] # NUL BY <1>3 DEF Chars
<1>5. Chars(s) \subseteq 0 .. Len(s) BY DEF Chars
<1> QED BY <1>1, <1>2, <1>4, <1>5

\* A C string ends with its first NUL, or else with the sequence.
LEMMA CStringCut ==
  ASSUME NEW S, NEW s \in Seq(S), NEW z \in 1 .. Len(s), s[z] = NUL, \A k \in 1 .. z - 1 : s[k] # NUL
  PROVE  CString(s) = SubSeq(s, 1, z - 1)
<1>1. Len(s) \in Nat BY LenProperties
<1>2. z - 1 \in 0 .. Len(s) /\ \A n \in 0 .. Len(s) : n > z - 1 => z \in 1 .. n BY <1>1
<1>3. z - 1 \in Chars(s) BY <1>2, CharsAre
<1>4. \A n \in Chars(s) : n \in 0 .. Len(s) /\ ~ (z \in 1 .. n) BY CharsAre
<1>5. \A n \in Chars(s) : n <= z - 1 BY <1>1, <1>2, <1>4
<1>6. Chars(s) \subseteq Int BY <1>1, <1>4
<1>7. Max(Chars(s)) = z - 1 BY <1>3, <1>5, <1>6, MaxIs
<1> QED BY <1>7, CharsAre

LEMMA CStringWhole ==
  ASSUME NEW S, NEW s \in Seq(S), \A k \in 1 .. Len(s) : s[k] # NUL
  PROVE  CString(s) = s
<1>1. Len(s) \in Nat /\ Len(s) \in 0 .. Len(s) BY LenProperties
<1>2. Len(s) \in Chars(s) BY <1>1, CharsAre
<1>3. \A n \in Chars(s) : n <= Len(s) BY <1>1, CharsAre
<1>4. Chars(s) \subseteq Int BY <1>1, CharsAre
<1>5. Max(Chars(s)) = Len(s) BY <1>2, <1>3, <1>4, MaxIs
<1> QED BY <1>5, CharsAre, SubSeqFull

LEMMA FirstNul ==
  ASSUME NEW s, NEW n \in Nat, NEW m \in 1 .. n, s[m] = NUL
  PROVE  \E z \in 1 .. m : s[z] = NUL /\ \A k \in 1 .. z - 1 : s[k] # NUL
<1> DEFINE T == {k \in 1 .. m : s[k] = NUL}
<1>1. T \subseteq Nat /\ m \in T OBVIOUS
<1>2. PICK z \in T : \A y \in T : z <= y BY <1>1, LeastNat
<1>3. z \in 1 .. m /\ s[z] = NUL OBVIOUS
<1>4. \A k \in 1 .. z - 1 : k \in 1 .. m /\ ~ (z <= k) BY <1>3
<1>5. \A k \in 1 .. z - 1 : s[k] # NUL BY <1>2, <1>4
<1> QED BY <1>3, <1>5

\* What follows a NUL is not of the string.
LEMMA CStringSame ==
  ASSUME NEW S, NEW s \in Seq(S), NEW t \in Seq(S), NEW m \in 1 .. Len(s), m <= Len(t),
         s[m] = NUL, \A k \in 1 .. m : s[k] = t[k]
  PROVE  CString(s) = CString(t)
<1>1. Len(s) \in Nat /\ Len(t) \in Nat BY LenProperties
<1>2. PICK z \in 1 .. m : s[z] = NUL /\ \A k \in 1 .. z - 1 : s[k] # NUL BY <1>1, FirstNul
<1>3. z \in 1 .. Len(s) /\ z \in 1 .. Len(t) /\ \A k \in 1 .. z : k \in 1 .. m BY <1>1
<1>4. t[z] = NUL /\ \A k \in 1 .. z - 1 : k \in 1 .. z /\ t[k] # NUL BY <1>2, <1>3
<1>5. CString(s) = SubSeq(s, 1, z - 1) BY <1>2, <1>3, CStringCut
<1>6. CString(t) = SubSeq(t, 1, z - 1) BY <1>3, <1>4, CStringCut
<1>7. z - 1 \in Nat /\ 1 <= (z - 1) + 1 /\ z - 1 <= Len(s) /\ z - 1 <= Len(t) BY <1>1, <1>3
<1>8. /\ SubSeq(s, 1, z - 1) \in Seq(S) /\ Len(SubSeq(s, 1, z - 1)) = z - 1
      /\ \A k \in 1 .. z - 1 : SubSeq(s, 1, z - 1)[k] = s[k]
  BY <1>7, Slice
<1>9. /\ SubSeq(t, 1, z - 1) \in Seq(S) /\ Len(SubSeq(t, 1, z - 1)) = z - 1
      /\ \A k \in 1 .. z - 1 : SubSeq(t, 1, z - 1)[k] = t[k]
  BY <1>7, Slice
<1>10. \A k \in 1 .. z - 1 : SubSeq(s, 1, z - 1)[k] = SubSeq(t, 1, z - 1)[k]
  BY <1>3, <1>4, <1>8, <1>9
<1> QED BY <1>5, <1>6, <1>8, <1>9, <1>10, SeqEqual

\* A terminator put behind chars makes a C string of them.
LEMMA CStringOfChars ==
  ASSUME NEW S, NEW f \in Seq(S), NEW u \in Seq(S), Len(f) < Len(u), u[Len(f) + 1] = NUL,
         \A k \in 1 .. Len(f) : u[k] = f[k]
  PROVE  CString(u) = CString(f)
<1>1. Len(f) \in Nat /\ Len(u) \in Nat BY LenProperties
<1>2. CASE \E m \in 1 .. Len(f) : f[m] = NUL
  <2>1. PICK m \in 1 .. Len(f) : f[m] = NUL BY <1>2
  <2>2. m <= Len(u) /\ \A k \in 1 .. m : k \in 1 .. Len(f) BY <1>1
  <2> QED BY <2>1, <2>2, CStringSame
<1>3. CASE \A m \in 1 .. Len(f) : f[m] # NUL
  <2>1. CString(f) = f BY <1>3, CStringWhole
  <2>2. Len(f) + 1 \in 1 .. Len(u) /\ (Len(f) + 1) - 1 = Len(f) BY <1>1
  <2>3. CString(u) = SubSeq(u, 1, Len(f)) BY <1>3, <2>2, CStringCut
  <2>4. /\ SubSeq(u, 1, Len(f)) \in Seq(S) /\ Len(SubSeq(u, 1, Len(f))) = Len(f)
        /\ \A k \in 1 .. Len(f) : SubSeq(u, 1, Len(f))[k] = u[k]
    BY <1>1, Slice
  <2>5. SubSeq(u, 1, Len(f)) = f BY <2>4, SeqEqual
  <2> QED BY <2>1, <2>3, <2>5
<1> QED BY <1>2, <1>3

LEMMA CStringHead ==
  ASSUME NEW S, NEW u \in Seq(S), NEW m \in 1 .. Len(u), u[m] = NUL
  PROVE  IF u[1] = NUL THEN CString(u) = <<>> ELSE CString(u) # <<>> /\ CString(u)[1] = u[1]
<1>1. Len(u) \in Nat BY LenProperties
<1>2. PICK z \in 1 .. m : u[z] = NUL /\ \A k \in 1 .. z - 1 : u[k] # NUL BY <1>1, FirstNul
<1>3. z \in 1 .. Len(u) BY <1>1
<1>4. CString(u) = SubSeq(u, 1, z - 1) BY <1>2, <1>3, CStringCut
<1>5. CASE u[1] = NUL
  <2>1. ~ (1 \in 1 .. z - 1) BY <1>2, <1>5
  <2>2. z = 1 BY <1>3, <2>1
  <2> QED BY <1>4, <1>5, <2>2, SubSeqEmpty
<1>6. CASE u[1] # NUL
  <2>1. z # 1 BY <1>2, <1>6
  <2>2. z - 1 \in Nat /\ z - 1 >= 1 /\ z - 1 <= Len(u) /\ 1 <= (z - 1) + 1 BY <1>1, <1>3, <2>1
  <2>3. /\ SubSeq(u, 1, z - 1) \in Seq(S) /\ Len(SubSeq(u, 1, z - 1)) = z - 1
        /\ \A k \in 1 .. z - 1 : SubSeq(u, 1, z - 1)[k] = u[k]
    BY <2>2, Slice
  <2>4. SubSeq(u, 1, z - 1)[1] = u[1] /\ SubSeq(u, 1, z - 1) # <<>> BY <2>2, <2>3
  <2> QED BY <1>4, <1>6, <2>4
<1> QED BY <1>5, <1>6
-----------------------------------------------------------------------------
(* The loop over escapes, and what Scanner says is meant                    *)

LEMMA SameEscapes == Scan!Escapes = Escapes /\ Scan!NUL = NUL /\ Scan!Quotes = Quotes
  BY DEF Scan!Escapes, Escapes, Scan!NUL, NUL, Scan!EOT, EOT, Scan!Quotes, Quotes, Scan!Table, Table

\* The loop has read rd chars of the quoted text s and written wr to its block,
\* which stands in st behind b.  What it has yet to read stands in the block as
\* in the text; what it has read it has written, char by char what is meant;
\* and it stands on no escaped char.
Unescaped(s, n, b, st, rd, wr) ==
  /\ \A k \in rd .. n - 2 : st[b + k + 1] = s[k + 2]
  /\ rd < n => ~ Scan!Escaped(s, rd + 2)
  /\ \A k \in 2 .. rd + 1 : k <= n /\ Scan!Escaped(s, k) => s[k] \in DOMAIN Escapes
  /\ wr = IF rd < n THEN Scan!Rank(s, rd + 1) ELSE Cardinality(Scan!Kept(s)) + 1
  /\ \A k \in Scan!Kept(s) : k <= rd + 1 =>
       Scan!Rank(s, k) \in 1 .. wr /\ st[b + Scan!Rank(s, k)] = Scan!Meant(s, k)
  /\ \A m \in 1 .. Cardinality(Scan!Kept(s)) :
       m <= wr => \E k \in Scan!Kept(s) : k <= rd + 1 /\ Scan!Rank(s, k) = m
  /\ rd >= n => st[b + Cardinality(Scan!Kept(s)) + 1] = NUL

\* Behind b only the char at wr has changed, as far as the n chars of the block.
Writes(st, u, b, n, wr) == \A k \in 1 .. b + n : k # b + wr + 1 => u[k] = st[k]

LEMMA UnescapedStart ==
  ASSUME NEW s, NEW n \in Nat, Len(s) = n + 1, n >= 1, NEW b \in Nat, NEW st,
         \A k \in 0 .. n - 2 : st[b + k + 1] = s[k + 2]
  PROVE  Unescaped(s, n, b, st, 0, 0)
<1>1. ~ Scan!Escaped(s, 2) /\ Scan!Rank(s, 1) = 0
  <2>1. Len(s) \in Nat OBVIOUS
  <2> QED BY <2>1, EscapedFirst, RankFirst
<1>2. 0 + 2 = 2 /\ 0 + 1 = 1 /\ 0 < n /\ ~ (0 >= n) OBVIOUS
<1>3. \A k \in Scan!Kept(s) : ~ (k <= 1)
  <2>1. Len(s) \in Nat OBVIOUS
  <2> QED BY <2>1, KeptFinite
<1>4. \A k \in 2 .. 1 : FALSE OBVIOUS
<1>5. \A m \in 1 .. Cardinality(Scan!Kept(s)) : ~ (m <= 0) OBVIOUS
<1> QED BY <1>1, <1>2, <1>3, <1>4, <1>5 DEF Unescaped

\* What the write leaves as it is.
Behind(s, n, b, u, rd, wr) ==
  /\ \A k \in rd + 1 .. n - 2 : u[b + k + 1] = s[k + 2]
  /\ \A k \in Scan!Kept(s) : k <= rd + 1 =>
       Scan!Rank(s, k) \in 1 .. wr /\ u[b + Scan!Rank(s, k)] = Scan!Meant(s, k)

\* A write behind the part that is read.
LEMMA UnescapedWrite ==
  ASSUME NEW s, NEW n, NEW b, NEW st, NEW rd, NEW wr, NEW u,
         n \in Nat, b \in Nat, rd \in Nat, wr \in Nat, wr <= rd, rd < n,
         Unescaped(s, n, b, st, rd, wr), Writes(st, u, b, n, wr)
  PROVE  Behind(s, n, b, u, rd, wr)
<1>1. ASSUME NEW k \in rd + 1 .. n - 2 PROVE u[b + k + 1] = s[k + 2]
  <2>1. k \in rd .. n - 2 /\ b + k + 1 \in 1 .. b + n /\ b + k + 1 # b + wr + 1 OBVIOUS
  <2>2. st[b + k + 1] = s[k + 2] BY <2>1 DEF Unescaped
  <2> QED BY <2>1, <2>2 DEF Writes
<1>2. ASSUME NEW k \in Scan!Kept(s), k <= rd + 1
      PROVE  Scan!Rank(s, k) \in 1 .. wr /\ u[b + Scan!Rank(s, k)] = Scan!Meant(s, k)
  <2> DEFINE a == Scan!Rank(s, k)
  <2>1. a \in 1 .. wr /\ st[b + a] = Scan!Meant(s, k) BY <1>2 DEF Unescaped
  <2> HIDE DEF a
  <2>2. b + a \in 1 .. b + n /\ b + a # b + wr + 1 BY <2>1
  <2>3. u[b + a] = Scan!Meant(s, k) BY <2>1, <2>2 DEF Writes
  <2> QED BY <2>1, <2>3 DEF a
<1> QED BY <1>1, <1>2 DEF Behind

\* A char that is not a star is meant as it stands.
LEMMA UnescapedPlain ==
  ASSUME NEW s, NEW n \in Nat, Len(s) = n + 1, NEW b \in Nat, NEW st,
         NEW rd \in Nat, NEW wr \in Nat, wr <= rd, Unescaped(s, n, b, st, rd, wr),
         rd < n - 1, s[rd + 2] # "*", NEW u,
         u[b + wr + 1] = s[rd + 2], Writes(st, u, b, n, wr)
  PROVE  Unescaped(s, n, b, u, rd + 1, wr + 1)
<1> DEFINE K == Scan!Kept(s)
           R(k) == Scan!Rank(s, k)
<1>l. Len(s) \in Nat OBVIOUS
<1>0. rd + 2 \in Nat /\ rd + 2 >= 2 /\ rd < n /\ rd + 1 \in Nat OBVIOUS
<1>1. /\ \A k \in rd + 1 .. n - 2 : u[b + k + 1] = s[k + 2]
      /\ \A k \in K : k <= rd + 1 => R(k) \in 1 .. wr /\ u[b + R(k)] = Scan!Meant(s, k)
  <2>1. Behind(s, n, b, u, rd, wr) BY <1>0, UnescapedWrite
  <2> QED BY <2>1 DEF Behind
<1>2. ~ Scan!Escaped(s, rd + 2) /\ wr = R(rd + 1) BY <1>0 DEF Unescaped
<1>3. ~ Scan!Escaped(s, (rd + 1) + 2)
  <2>1. (rd + 1) + 2 = (rd + 2) + 1 OBVIOUS
  <2> QED BY <1>0, <2>1, EscapedNext
<1>4. rd + 2 \in K
  <2>1. rd + 2 \in 2 .. Len(s) - 1
    <3>1. rd + 2 \in 2 .. n /\ Len(s) - 1 = n OBVIOUS
    <3> QED BY <3>1
  <2> QED BY <2>1 DEF Scan!Kept
<1>5. R(rd + 2) = wr + 1
  <2>1. (rd + 1) + 1 = rd + 2 OBVIOUS
  <2>2. R(rd + 2) = R(rd + 1) + 1 BY <1>0, <1>4, <2>1, <1>l, RankNext
  <2> QED BY <1>2, <2>2
<1>6. Scan!Meant(s, rd + 2) = s[rd + 2] BY <1>2 DEF Scan!Meant
<1>7. K \subseteq Int /\ Cardinality(K) \in Nat BY <1>l, KeptFinite
<1> HIDE DEF K, R
<1>8. \A k \in 2 .. (rd + 1) + 1 : k <= n /\ Scan!Escaped(s, k) => s[k] \in DOMAIN Escapes
  <2>1. \A k \in 2 .. (rd + 1) + 1 : k = rd + 2 \/ k \in 2 .. rd + 1 OBVIOUS
  <2>2. \A k \in 2 .. rd + 1 : k <= n /\ Scan!Escaped(s, k) => s[k] \in DOMAIN Escapes
    BY DEF Unescaped
  <2> QED BY <1>2, <2>1, <2>2
<1>9. \A k \in K : k <= (rd + 1) + 1 => k <= rd + 1 \/ k = rd + 2 BY <1>7
<1>10. \A k \in K : k <= (rd + 1) + 1 => R(k) \in 1 .. wr + 1 /\ u[b + R(k)] = Scan!Meant(s, k)
  <2> SUFFICES ASSUME NEW k \in K, k <= (rd + 1) + 1
               PROVE  R(k) \in 1 .. wr + 1 /\ u[b + R(k)] = Scan!Meant(s, k)
    OBVIOUS
  <2>1. CASE k = rd + 2
    <3>1. b + (wr + 1) = b + wr + 1 OBVIOUS
    <3> QED BY <1>5, <1>6, <2>1, <3>1
  <2>2. CASE k <= rd + 1 BY <1>1, <2>2
  <2> QED BY <1>9, <2>1, <2>2
<1>11. \A m \in 1 .. Cardinality(K) : m <= wr + 1 => \E k \in K : k <= (rd + 1) + 1 /\ R(k) = m
  <2> SUFFICES ASSUME NEW m \in 1 .. Cardinality(K), m <= wr + 1
               PROVE  \E k \in K : k <= (rd + 1) + 1 /\ R(k) = m
    OBVIOUS
  <2>1. CASE m = wr + 1
    <3>1. rd + 2 <= (rd + 1) + 1 OBVIOUS
    <3> QED BY <1>4, <1>5, <2>1, <3>1
  <2>2. CASE m <= wr
    <3>1. PICK k \in K : k <= rd + 1 /\ R(k) = m BY <2>2 DEF Unescaped, K, R
    <3>2. k <= (rd + 1) + 1 BY <1>7, <3>1
    <3> QED BY <3>1, <3>2
  <2> QED BY <1>7, <2>1, <2>2
<1>12. rd + 1 < n /\ ~ (rd + 1 >= n) /\ (rd + 1) + 1 = rd + 2 OBVIOUS
<1> QED BY <1>1, <1>3, <1>5, <1>8, <1>10, <1>11, <1>12 DEF Unescaped, K, R

\* Of an escape the second char is, as the table has it.
LEMMA UnescapedEscape ==
  ASSUME NEW s, NEW n \in Nat, Len(s) = n + 1, NEW b \in Nat, NEW st,
         NEW rd \in Nat, NEW wr \in Nat, wr <= rd, Unescaped(s, n, b, st, rd, wr), rd < n - 2, s[rd + 2] = "*", s[rd + 3] \in DOMAIN Escapes,
         NEW u, u[b + wr + 1] = Escapes[s[rd + 3]],
         Writes(st, u, b, n, wr)
  PROVE  Unescaped(s, n, b, u, rd + 2, wr + 1)
<1> DEFINE K == Scan!Kept(s)
           R(k) == Scan!Rank(s, k)
<1>l. Len(s) \in Nat OBVIOUS
<1>0. /\ rd + 2 \in Nat /\ rd + 2 >= 2 /\ rd < n /\ rd + 1 \in Nat
      /\ (rd + 2) + 1 = rd + 3 /\ rd + 3 \in Nat /\ rd + 3 >= 2
  OBVIOUS
<1>1. /\ \A k \in rd + 1 .. n - 2 : u[b + k + 1] = s[k + 2]
      /\ \A k \in K : k <= rd + 1 => R(k) \in 1 .. wr /\ u[b + R(k)] = Scan!Meant(s, k)
  <2>1. Behind(s, n, b, u, rd, wr) BY <1>0, UnescapedWrite
  <2> QED BY <2>1 DEF Behind
<1>2. ~ Scan!Escaped(s, rd + 2) /\ wr = R(rd + 1) BY <1>0 DEF Unescaped
<1>3. Scan!Escaped(s, rd + 3) /\ ~ Scan!Escaped(s, (rd + 2) + 2)
  <2>1. (rd + 2) + 2 = (rd + 3) + 1 OBVIOUS
  <2>2. Scan!Escaped(s, rd + 3) BY <1>0, <1>2, EscapedNext
  <2> QED BY <1>0, <2>1, <2>2, EscapedNext
<1>4. rd + 2 \notin K /\ rd + 3 \in K
  <2>1. rd + 3 \in 2 .. Len(s) - 1
    <3>1. rd + 3 \in 2 .. n /\ Len(s) - 1 = n OBVIOUS
    <3> QED BY <3>1
  <2> QED BY <1>2, <1>3, <2>1 DEF Scan!Kept
<1>5. R(rd + 3) = wr + 1
  <2>1. (rd + 1) + 1 = rd + 2 OBVIOUS
  <2>2. R(rd + 2) = R(rd + 1) BY <1>0, <1>4, <2>1, <1>l, RankNext
  <2>3. R(rd + 3) = R(rd + 2) + 1 BY <1>0, <1>4, <1>l, RankNext
  <2> QED BY <1>2, <2>2, <2>3
<1>6. Scan!Meant(s, rd + 3) = Escapes[s[rd + 3]] BY <1>3, SameEscapes DEF Scan!Meant
<1>7. K \subseteq Int /\ Cardinality(K) \in Nat BY <1>l, KeptFinite
<1> HIDE DEF K, R
<1>8. \A k \in 2 .. (rd + 2) + 1 : k <= n /\ Scan!Escaped(s, k) => s[k] \in DOMAIN Escapes
  <2>1. \A k \in 2 .. (rd + 2) + 1 : k = rd + 3 \/ k = rd + 2 \/ k \in 2 .. rd + 1 OBVIOUS
  <2>2. \A k \in 2 .. rd + 1 : k <= n /\ Scan!Escaped(s, k) => s[k] \in DOMAIN Escapes
    BY DEF Unescaped
  <2> QED BY <1>2, <2>1, <2>2
<1>9. \A k \in K : k <= (rd + 2) + 1 => k <= rd + 1 \/ k = rd + 2 \/ k = rd + 3
  <2> TAKE k \in K
  <2>1. k \in Int BY <1>7
  <2> QED BY <2>1
<1>10. \A k \in K : k <= (rd + 2) + 1 => R(k) \in 1 .. wr + 1 /\ u[b + R(k)] = Scan!Meant(s, k)
  <2> SUFFICES ASSUME NEW k \in K, k <= (rd + 2) + 1
               PROVE  R(k) \in 1 .. wr + 1 /\ u[b + R(k)] = Scan!Meant(s, k)
    OBVIOUS
  <2>1. CASE k = rd + 3
    <3>1. b + (wr + 1) = b + wr + 1 /\ wr + 1 \in 1 .. wr + 1 OBVIOUS
    <3>2. R(k) = wr + 1 /\ Scan!Meant(s, k) = Escapes[s[rd + 3]] BY <1>5, <1>6, <2>1
    <3>3. u[b + (wr + 1)] = Escapes[s[rd + 3]] BY <3>1
    <3> QED BY <3>1, <3>2, <3>3
  <2>2. CASE k <= rd + 1 BY <1>1, <2>2
  <2> QED BY <1>4, <1>9, <2>1, <2>2
<1>11. \A m \in 1 .. Cardinality(K) : m <= wr + 1 => \E k \in K : k <= (rd + 2) + 1 /\ R(k) = m
  <2> SUFFICES ASSUME NEW m \in 1 .. Cardinality(K), m <= wr + 1
               PROVE  \E k \in K : k <= (rd + 2) + 1 /\ R(k) = m
    OBVIOUS
  <2>1. CASE m = wr + 1
    <3>1. rd + 3 <= (rd + 2) + 1 OBVIOUS
    <3> QED BY <1>4, <1>5, <2>1, <3>1
  <2>2. CASE m <= wr
    <3>1. PICK k \in K : k <= rd + 1 /\ R(k) = m BY <2>2 DEF Unescaped, K, R
    <3>2. k <= (rd + 2) + 1 BY <1>7, <3>1
    <3> QED BY <3>1, <3>2
  <2> QED BY <1>7, <2>1, <2>2
<1>12. /\ rd + 2 < n /\ ~ (rd + 2 >= n)
       /\ \A k \in rd + 2 .. n - 2 : k \in rd + 1 .. n - 2
  OBVIOUS
<1> QED BY <1>0, <1>1, <1>3, <1>5, <1>8, <1>10, <1>11, <1>12 DEF Unescaped, K, R

\* The loop's last round moves the terminator.
LEMMA UnescapedLast ==
  ASSUME NEW s, NEW n \in Nat, Len(s) = n + 1, NEW b \in Nat, NEW st,
         NEW rd \in Nat, NEW wr \in Nat, wr <= rd, Unescaped(s, n, b, st, rd, wr), rd = n - 1, NEW u,
         u[b + wr + 1] = NUL, Writes(st, u, b, n, wr)
  PROVE  Unescaped(s, n, b, u, rd + 1, wr + 1)
<1> DEFINE K == Scan!Kept(s)
           R(k) == Scan!Rank(s, k)
<1>l. Len(s) \in Nat OBVIOUS
<1>0. rd < n /\ rd + 1 \in Nat /\ rd + 1 >= Len(s) - 1 OBVIOUS
<1>1. \A k \in K : k <= rd + 1 => R(k) \in 1 .. wr /\ u[b + R(k)] = Scan!Meant(s, k)
  <2>1. Behind(s, n, b, u, rd, wr) BY <1>0, UnescapedWrite
  <2> QED BY <2>1 DEF Behind
<1>2. wr = R(rd + 1) BY <1>0 DEF Unescaped
<1>3. wr = Cardinality(K) BY <1>0, <1>2, <1>l, RankAll
<1>4. \A k \in K : k <= rd + 1 /\ k \in Int
  <2>1. Len(s) - 1 = n OBVIOUS
  <2> QED BY <1>l, <2>1, KeptFinite
<1> HIDE DEF K, R
<1>5. \A k \in K : R(k) \in 1 .. wr + 1 /\ u[b + R(k)] = Scan!Meant(s, k) BY <1>1, <1>4
<1>6. \A m \in 1 .. Cardinality(K) : \E k \in K : k <= (rd + 1) + 1 /\ R(k) = m
  <2> TAKE m \in 1 .. Cardinality(K)
  <2>1. m <= wr BY <1>3
  <2>2. PICK k \in K : k <= rd + 1 /\ R(k) = m BY <2>1 DEF Unescaped, K, R
  <2>3. k <= (rd + 1) + 1 BY <1>4, <2>2
  <2> QED BY <2>2, <2>3
<1>7. \A k \in 2 .. (rd + 1) + 1 : k <= n /\ Scan!Escaped(s, k) => s[k] \in DOMAIN Escapes
  <2>1. \A k \in 2 .. (rd + 1) + 1 : k <= n => k \in 2 .. rd + 1 OBVIOUS
  <2>2. \A k \in 2 .. rd + 1 : k <= n /\ Scan!Escaped(s, k) => s[k] \in DOMAIN Escapes
    BY DEF Unescaped
  <2> QED BY <2>1, <2>2
<1>8. ~ (rd + 1 < n) /\ (rd + 1) + 1 = rd + 2 /\ \A k \in rd + 1 .. n - 2 : FALSE OBVIOUS
<1> QED BY <1>3, <1>5, <1>6, <1>7, <1>8 DEF Unescaped, K, R

\* When it has ended, the block holds what is meant, as far as a C string goes.
Rewritten(s, n, b, u, v) ==
  /\ Scan!EscapesKnown(s) /\ CString(v) = Scan!Quoted(s)
  /\ \E m \in 1 .. Len(v) : v[m] = NUL
  /\ v \in Seq(Bytes) /\ v[1] = u[b + 1]
  /\ \E m \in 1 .. n : u[b + m] = NUL

LEMMA UnescapedEnd ==
  ASSUME NEW s, NEW n, NEW b, NEW st, NEW wr, NEW u, n \in Nat, Len(s) = n + 1, n >= 1,
         b \in Nat, wr \in Nat, u \in Seq(Bytes), b + n <= Len(u),
         Unescaped(s, n, b, st, n, wr), Writes(st, u, b, n, wr)
  PROVE  Rewritten(s, n, b, u, SubSeq(u, b + 1, Len(u)))
<1> DEFINE K == Scan!Kept(s)
           card == Cardinality(K)
           pick(m) == CHOOSE k \in K : Scan!Rank(s, k) = m
           f == [m \in 1 .. card |-> Scan!Meant(s, pick(m))]
           v == SubSeq(u, b + 1, Len(u))
<1>0. Len(u) \in Nat /\ Len(s) \in Nat /\ Len(s) - 1 = n /\ ~ (n < n) BY LenProperties
<1>1. Scan!EscapesKnown(s)
  <2>1. \A k \in 2 .. Len(s) - 1 : k \in 2 .. n + 1 /\ k <= n BY <1>0
  <2>2. \A k \in 2 .. n + 1 : k <= n /\ Scan!Escaped(s, k) => s[k] \in DOMAIN Escapes
    BY DEF Unescaped
  <2> QED BY <2>1, <2>2, SameEscapes DEF Scan!EscapesKnown
<1>2. K \subseteq 2 .. n /\ card \in Nat BY <1>0, KeptFinite
<1>3. wr = card + 1 BY <1>0 DEF Unescaped
<1>4. card + 1 <= n
  <2>1. IsFiniteSet(2 .. n) /\ Cardinality(2 .. n) = IF 2 > n THEN 0 ELSE n - 2 + 1
    BY FS_Interval
  <2>2. card <= Cardinality(2 .. n) BY <1>2, <2>1, FS_Subset
  <2> QED BY <1>2, <2>1, <2>2
<1>5. \A k \in 1 .. b + card + 1 : u[k] = st[k]
  <2>1. \A k \in 1 .. b + card + 1 : k \in 1 .. b + n /\ k # b + wr + 1 BY <1>2, <1>3, <1>4
  <2> QED BY <2>1 DEF Writes
<1>6. ASSUME NEW m \in 1 .. card PROVE u[b + m] = Scan!Meant(s, pick(m))
  <2>1. m <= wr BY <1>2, <1>3
  <2>2. \E k \in K : Scan!Rank(s, k) = m BY <2>1 DEF Unescaped
  <2>3. pick(m) \in K /\ Scan!Rank(s, pick(m)) = m BY <2>2
  <2> HIDE DEF pick
  <2>4. pick(m) <= n + 1 BY <1>2, <2>3
  <2>5. st[b + m] = Scan!Meant(s, pick(m)) BY <2>3, <2>4 DEF Unescaped
  <2>6. b + m \in 1 .. b + card + 1 BY <1>2
  <2> QED BY <1>5, <2>5, <2>6
<1>7. u[b + card + 1] = NUL
  <2>1. st[b + card + 1] = NUL BY <1>0 DEF Unescaped
  <2>2. b + card + 1 \in 1 .. b + card + 1 BY <1>2
  <2> QED BY <1>5, <2>1, <2>2
<1>8. Scan!Quoted(s) = CString(f)
  <2>1. Scan!CString(f) = CString(f)
    BY DEF Scan!CString, CString, Scan!Prefix, Prefix, Scan!Max, Max, Scan!NUL, NUL
  <2> QED BY <2>1, CardinalityIs DEF Scan!Quoted
<1> HIDE DEF card, pick, K
<1>9. b + 1 >= 1 /\ b + 1 \in Nat /\ b + 1 <= Len(u) + 1 /\ Len(u) <= Len(u) BY <1>0
<1>10. /\ v \in Seq(Bytes) /\ Len(v) = Len(u) - (b + 1) + 1
       /\ \A k \in 1 .. Len(u) - (b + 1) + 1 : v[k] = u[(b + 1) + k - 1]
  BY <1>0, <1>9, Slice
<1> HIDE DEF v
<1>11. /\ card < Len(v) /\ v[card + 1] = NUL /\ card + 1 \in 1 .. Len(v) /\ v[1] = u[b + 1]
       /\ \A m \in 1 .. card : v[m] = u[b + m]
  <2>1. card + 1 <= Len(u) - (b + 1) + 1 BY <1>0, <1>2, <1>4
  <2>2. card + 1 \in 1 .. Len(u) - (b + 1) + 1 /\ (b + 1) + (card + 1) - 1 = b + card + 1 BY <1>2, <2>1
  <2>3. 1 \in 1 .. Len(u) - (b + 1) + 1 /\ (b + 1) + 1 - 1 = b + 1 BY <1>2, <2>1
  <2>4. \A m \in 1 .. card : m \in 1 .. Len(u) - (b + 1) + 1 /\ (b + 1) + m - 1 = b + m BY <1>0, <1>2, <2>1
  <2>5. Len(v) = Len(u) - (b + 1) + 1 BY <1>10
  <2>6. card < Len(v) /\ card + 1 \in 1 .. Len(v) BY <1>0, <1>2, <2>1, <2>5
  <2>7. v[card + 1] = u[b + card + 1]
    <3>1. v[card + 1] = u[(b + 1) + (card + 1) - 1] BY ZenonT(30), <1>10, <2>2
    <3> QED BY <2>2, <3>1
  <2>8. v[1] = u[b + 1] BY <1>10, <2>3
  <2>9. \A m \in 1 .. card : v[m] = u[b + m] BY <1>10, <2>4
  <2> QED BY <1>7, <2>6, <2>7, <2>8, <2>9
<1>12. f \in Seq(Bytes) /\ Len(f) = card /\ \A m \in 1 .. card : f[m] = v[m]
  <2>1. \A m \in 1 .. card : f[m] = v[m] BY <1>6, <1>11
  <2>2. \A m \in 1 .. card : v[m] \in Bytes
    <3>1. \A m \in 1 .. card : m \in 1 .. Len(v) BY <1>0, <1>2, <1>10, <1>11
    <3> QED BY <1>10, <3>1, ElementOfSeq
  <2>3. \A m \in 1 .. card : f[m] \in Bytes BY <2>1, <2>2
  <2>4. f = [m \in 1 .. card |-> f[m]] OBVIOUS
  <2> HIDE DEF f
  <2>5. f \in [1 .. card -> Bytes] BY <2>3, <2>4
  <2>6. f \in Seq(Bytes) /\ Len(f) = card BY <1>2, <2>5
  <2> QED BY <2>1, <2>6
<1> HIDE DEF f
<1>13. CString(v) = CString(f)
  <2>1. \A m \in 1 .. Len(f) : v[m] = f[m] BY <1>12
  <2>2. Len(f) < Len(v) /\ v[Len(f) + 1] = NUL /\ f \in Seq(Bytes) BY <1>11, <1>12
  <2> QED BY <1>10, <2>1, <2>2, CStringOfChars
<1>14. \E m \in 1 .. n : u[b + m] = NUL
  <2>1. card + 1 \in 1 .. n /\ b + (card + 1) = b + card + 1 BY <1>2, <1>4
  <2> QED BY <1>7, <2>1
<1> QED BY <1>1, <1>8, <1>10, <1>11, <1>13, <1>14 DEF v, Rewritten

-----------------------------------------------------------------------------
(* What each loop has gone over                                             *)

\* get_word has a word.
WordTaken ==
  mode = "get_word" =>
    /\ start < buf_len /\ text[start + 1] \in Alpha
    /\ \A k \in start + 1 .. i : text[k] \in WordChars

\* get_digit has a number, with the prefix its loop is for.
NumberTaken ==
  /\ mode \in {"hex", "binary"} =>
       /\ start + 2 <= i /\ text[start + 1] = "0"
       /\ text[start + 2] \in (IF mode = "hex" THEN {"x", "X"} ELSE {"b", "B"})
       /\ \A k \in start + 3 .. i : text[k] \in DigitsOf[mode]
  /\ mode = "octal" =>
       /\ start + 1 <= i /\ text[start + 1] = "0"
       /\ start + 2 <= buf_len => text[start + 2] \notin {"x", "X", "b", "B"}
  /\ mode = "decimal" => start < buf_len /\ text[start + 1] \in Digits \ {"0"}
  /\ mode \in {"octal", "decimal"} => \A k \in start + 1 .. i : text[k] \in Digits

\* get_string has met its quote only escaped, and does not look at an escaped
\* char.
After == SubSeq(text, start, buf_len)
StringTaken ==
  mode = "get_string" =>
    /\ \A k \in start + 1 .. i :
         ~ Cut(text[k]) /\ (text[k] = q => Scan!Escaped(After, k - start + 1))
    /\ ~ Scan!Escaped(After, i - start + 2)

\* No comment has ended before the lexer sees it end.
CommentTaken ==
  mode = "comment" =>
    /\ start + 2 <= buf_len /\ text[start + 1] = "/" /\ text[start + 2] = "*"
    /\ \A k \in start + 3 .. i + 1 : k <= buf_len => ~ (text[k - 1] = "*" /\ text[k] = "/")

\* The loop over escapes rewrites quoted text.
Lit == SubSeq(text, start, i)
Unescaping ==
  mode = "unescape" => Scan!IsQuoted(Lit) /\ Unescaped(Lit, strlen, string, store, r, w)

\* The loops are entered at a token's first char and left by its end.
LEMMA Moves ==
  ASSUME PosInv, Next
  PROVE  /\ text' = text
         /\ mode' = "get_word" => BeginWord \/ WordChar
         /\ mode' \in Numbers => BeginDigits \/ Digit
         /\ mode' = "get_string" => BeginString \/ StringChar
         /\ mode' = "comment" => BeginComment \/ CommentChar
         /\ mode' = "unescape" => CloseString \/ PlainChar \/ Escape
<1> USE NumberModes
<1>1. CASE Blank BY <1>1 DEF Blank, AtToken, rest
<1>2. CASE BeginWord BY <1>2 DEF BeginWord, To, rest
<1>3. CASE BeginDigits
  <2>1. text' = text /\ mode' \in Numbers BY <1>3 DEF BeginDigits, To, rest
  <2> QED BY <1>3, <2>1
<1>4. CASE BeginString BY <1>4 DEF BeginString, To, rest
<1>5. CASE BeginComment BY <1>5 DEF BeginComment, To, rest
<1>6. CASE Symbol BY <1>6 DEF Symbol, AtToken
<1>7. CASE Finish BY <1>7 DEF Finish, To, rest
<1>8. CASE WordChar BY <1>8 DEF WordChar, rest
<1>9. CASE EndWord BY <1>9 DEF EndWord, To
<1>10. CASE Digit
  <2>1. text' = text /\ mode' \in Numbers BY <1>10 DEF Digit, Numbers
  <2> QED BY <1>10, <2>1
<1>11. CASE EndDigits BY <1>11 DEF EndDigits, To
<1>12. CASE StringChar BY <1>12 DEF StringChar, rest
<1>13. CASE Unterminated BY <1>13 DEF Unterminated, To
<1>14. CASE CloseString BY <1>14 DEF CloseString, To
<1>15. CASE PlainChar BY <1>15 DEF PlainChar
<1>16. CASE Escape BY <1>16 DEF Escape
<1>17. CASE UnknownEscape BY <1>17 DEF UnknownEscape, To
<1>18. CASE EndString BY <1>18 DEF EndString, To
<1>19. CASE CommentChar BY <1>19 DEF CommentChar, rest
<1>20. CASE EndComment BY <1>20 DEF EndComment, To, rest
<1> QED
  BY <1>1, <1>2, <1>3, <1>4, <1>5, <1>6, <1>7, <1>8, <1>9, <1>10, <1>11, <1>12, <1>13, <1>14,
     <1>15, <1>16, <1>17, <1>18, <1>19, <1>20 DEF Next

\* The two chars the lexer looks at, where they are of the file.
LEMMA Looked ==
  ASSUME PosInv
  PROVE  /\ i \in Nat /\ start \in Nat /\ start <= i /\ i <= Len(text) /\ Len(text) \in Nat
         /\ text \in Seq(STRING)
         /\ i < Len(text) => c = text[i + 1]
         /\ ~ (i < Len(text)) => c = NUL
         /\ i + 1 < Len(text) => peak(1) = text[i + 2]
         /\ ~ (i + 1 < Len(text)) => peak(1) = NUL
<1>1. /\ i \in Nat /\ start \in Nat /\ start <= i /\ i <= Len(text) /\ Len(text) \in Nat
      /\ text \in Seq(STRING)
  BY TextIsChars DEF PosInv, TypeOK, buf_len
<1>2. i + 0 = i /\ (i + 0) + 1 = i + 1 /\ (i + 1) + 1 = i + 2 BY <1>1
<1> QED BY <1>1, <1>2 DEF c, peak, buf_len

LEMMA WordStep == ASSUME PosInv, WordTaken, Next PROVE WordTaken'
<1> SUFFICES ASSUME mode' = "get_word" PROVE WordTaken' BY DEF WordTaken
<1>t. /\ i \in Nat /\ start \in Nat /\ Len(text) \in Nat /\ text' = text
      /\ i < Len(text) => c = text[i + 1]
      /\ ~ (i < Len(text)) => c = NUL
  BY Looked, Moves
<1>1. CASE BeginWord
  <2>1. start' = i /\ i' = i /\ i < Len(text) /\ c \in Alpha
    BY <1>1 DEF BeginWord, AtToken, Stay, buf_len
  <2>2. \A k \in i + 1 .. i : FALSE BY <1>t
  <2> QED BY <1>t, <2>1, <2>2 DEF WordTaken, buf_len
<1>2. CASE WordChar
  <2>1. mode = "get_word" /\ start' = start /\ i' = i + 1 /\ c \in WordChars
    BY <1>2 DEF WordChar, consume
  <2>2. c = text[i + 1] BY <1>t, <2>1, Classes
  <2>3. \A k \in start + 1 .. i + 1 : k \in start + 1 .. i \/ k = i + 1 BY <1>t
  <2>4. \A k \in start + 1 .. i + 1 : text[k] \in WordChars BY <2>1, <2>2, <2>3 DEF WordTaken
  <2> QED BY <1>t, <2>1, <2>4 DEF WordTaken, buf_len
<1> QED BY <1>1, <1>2, Moves

LEMMA NumberStep == ASSUME PosInv, NumberTaken, Next PROVE NumberTaken'
<1> SUFFICES ASSUME mode' \in Numbers PROVE NumberTaken' BY NumberModes DEF NumberTaken
<1>t. /\ i \in Nat /\ start \in Nat /\ Len(text) \in Nat /\ text' = text
      /\ i < Len(text) => c = text[i + 1]
      /\ ~ (i < Len(text)) => c = NUL
      /\ i + 1 < Len(text) => peak(1) = text[i + 2]
      /\ ~ (i + 1 < Len(text)) => peak(1) = NUL
  BY Looked, Moves
<1>1. CASE BeginDigits
  <2>1. start' = i /\ i < Len(text) /\ c \in Digits /\ c = text[i + 1]
    BY <1>1, <1>t DEF BeginDigits, AtToken, buf_len
  <2>2. CASE c # "0" /\ To("decimal") /\ Stay
    <3>1. i' = i /\ mode' = "decimal" BY <2>2 DEF Stay, To
    <3>2. \A k \in i + 1 .. i : FALSE BY <1>t
    <3> QED BY <1>t, <2>1, <2>2, <3>1, <3>2 DEF NumberTaken, buf_len
  <2>3. CASE c = "0" /\ peak(1) \in {"x", "X"} /\ To("hex") /\ consume(2)
    <3>1. i' = i + 2 /\ mode' = "hex" BY <2>3 DEF consume, To
    <3>2. peak(1) = text[i + 2] BY <1>t, <2>3 DEF NUL
    <3>3. \A k \in i + 3 .. i + 2 : FALSE BY <1>t
    <3> QED BY <1>t, <2>1, <2>3, <3>1, <3>2, <3>3 DEF NumberTaken
  <2>4. CASE c = "0" /\ peak(1) \in {"b", "B"} /\ To("binary") /\ consume(2)
    <3>1. i' = i + 2 /\ mode' = "binary" BY <2>4 DEF consume, To
    <3>2. peak(1) = text[i + 2] BY <1>t, <2>4 DEF NUL
    <3>3. \A k \in i + 3 .. i + 2 : FALSE BY <1>t
    <3> QED BY <1>t, <2>1, <2>4, <3>1, <3>2, <3>3 DEF NumberTaken
  <2>5. CASE c = "0" /\ peak(1) \notin {"x", "X", "b", "B"} /\ To("octal") /\ consume(1)
    <3>1. i' = i + 1 /\ mode' = "octal" BY <2>5 DEF consume, To
    <3>2. i + 2 <= Len(text) => peak(1) = text[i + 2] BY <1>t
    <3>3. \A k \in i + 1 .. i + 1 : text[k] \in Digits BY <1>t, <2>1
    <3> QED BY <1>t, <2>1, <2>5, <3>1, <3>2, <3>3 DEF NumberTaken, buf_len
  <2> QED BY <1>1, <2>2, <2>3, <2>4, <2>5 DEF BeginDigits
<1>2. CASE Digit
  <2>1. /\ mode' = mode /\ start' = start /\ i' = i + 1 /\ mode \in Numbers /\ c \in DigitsOf[mode]
    BY <1>2 DEF Digit, consume, Numbers
  <2>2. text[i + 1] \in DigitsOf[mode] BY <1>t, <2>1, Classes
  <2>3. \A n \in Nat : \A k \in n .. i + 1 : k \in n .. i \/ k = i + 1 BY <1>t
  <2>4. start + 3 \in Nat /\ start + 1 \in Nat BY <1>t
  <2>5. mode \in {"hex", "binary"} =>
          /\ start + 2 <= i + 1
          /\ \A k \in start + 3 .. i + 1 : text[k] \in DigitsOf[mode]
    BY <1>t, <2>2, <2>3, <2>4 DEF NumberTaken
  <2>6. mode \in {"octal", "decimal"} => \A k \in start + 1 .. i + 1 : text[k] \in Digits
    <3>1. mode \in {"octal", "decimal"} => DigitsOf[mode] = Digits BY DEF DigitsOf
    <3> QED BY <2>2, <2>3, <2>4, <3>1 DEF NumberTaken
  <2>7. mode = "octal" => start + 1 <= i + 1 BY <1>t DEF NumberTaken
  <2> QED BY <1>t, <2>1, <2>5, <2>6, <2>7 DEF NumberTaken, buf_len
<1> QED BY <1>1, <1>2, Moves

LEMMA CommentStep == ASSUME PosInv, CommentTaken, Next PROVE CommentTaken'
<1> SUFFICES ASSUME mode' = "comment" PROVE CommentTaken' BY DEF CommentTaken
<1>t. /\ i \in Nat /\ start \in Nat /\ Len(text) \in Nat /\ text' = text
      /\ i < Len(text) => c = text[i + 1]
      /\ i + 1 < Len(text) => peak(1) = text[i + 2]
      /\ ~ (i + 1 < Len(text)) => peak(1) = NUL
  BY Looked, Moves
<1>1. CASE BeginComment
  <2>1. start' = i /\ i' = i /\ i < Len(text) /\ c = "/" /\ peak(1) = "*"
    BY <1>1 DEF BeginComment, AtToken, Stay, IsComment, buf_len
  <2>2. \A k \in i + 3 .. i + 1 : FALSE BY <1>t
  <2>3. i + 2 <= Len(text) /\ peak(1) = text[i + 2] BY <1>t, <2>1 DEF NUL
  <2> QED BY <1>t, <2>1, <2>2, <2>3 DEF CommentTaken, buf_len
<1>2. CASE CommentChar
  <2>1. /\ mode = "comment" /\ start' = start /\ i' = i + 1 /\ i < Len(text)
        /\ ~ (c = "*" /\ peak(1) = "/")
    BY <1>2 DEF CommentChar, Over, Closing, buf_len
  <2>2. i + 2 <= Len(text) => ~ (text[i + 1] = "*" /\ text[i + 2] = "/") BY <1>t, <2>1
  <2>3. \A k \in start + 3 .. (i + 1) + 1 : k \in start + 3 .. i + 1 \/ k = i + 2 BY <1>t
  <2>4. (i + 2) - 1 = i + 1 BY <1>t
  <2>5. ASSUME NEW k \in start + 3 .. (i + 1) + 1, k <= Len(text)
        PROVE  ~ (text[k - 1] = "*" /\ text[k] = "/")
    <3>1. CASE k \in start + 3 .. i + 1 BY <2>1, <2>5, <3>1 DEF CommentTaken, buf_len
    <3>2. CASE k = i + 2 BY <2>2, <2>4, <2>5, <3>2
    <3> QED BY <2>3, <3>1, <3>2
  <2> QED BY <1>t, <2>1, <2>5 DEF CommentTaken, buf_len
<1> QED BY <1>1, <1>2, Moves

\* A place in the text, as the index of a char in a piece of it.
LEMMA AfterIs ==
  ASSUME PosInv, start >= 1
  PROVE  \A k \in start .. Len(text) : After[k - start + 1] = text[k]
<1>t. /\ start \in Nat /\ start <= Len(text) /\ Len(text) \in Nat /\ text \in Seq(STRING)
      /\ start <= Len(text) + 1 /\ Len(text) <= Len(text)
  BY Looked
<1>1. \A k \in 1 .. Len(text) - start + 1 : After[k] = text[start + k - 1]
  BY <1>t, Slice DEF After, buf_len
<1>2. \A k \in start .. Len(text) :
        k - start + 1 \in 1 .. Len(text) - start + 1 /\ start + (k - start + 1) - 1 = k
  BY <1>t
<1> QED BY <1>1, <1>2

LEMMA StringStep == ASSUME PosInv, StringTaken, Next PROVE StringTaken'
<1> SUFFICES ASSUME mode' = "get_string" PROVE StringTaken' BY DEF StringTaken
<1>t. /\ i \in Nat /\ start \in Nat /\ Len(text) \in Nat /\ text' = text /\ start <= i
      /\ i < Len(text) => c = text[i + 1]
      /\ ~ (i < Len(text)) => c = NUL
      /\ i + 1 < Len(text) => peak(1) = text[i + 2]
      /\ ~ (i + 1 < Len(text)) => peak(1) = NUL
  BY Looked, Moves
<1>1. CASE BeginString
  <2>1. start' = i + 1 /\ i' = i + 1 BY <1>1 DEF BeginString, consume
  <2>2. \A k \in start' + 1 .. i' : FALSE BY <1>t, <2>1
  <2>3. i' - start' + 2 = 2 BY <1>t, <2>1
  <2>4. ~ Scan!Escaped(After', i' - start' + 2) BY <2>3, EscapedFirst
  <2> QED BY <2>2, <2>4 DEF StringTaken
<1>2. CASE StringChar
  <2>1. /\ mode = "get_string" /\ start' = start /\ c # q /\ ~ Cut(c)
        /\ ~ (c = "*" /\ Cut(peak(1))) /\ consume(IF c = "*" THEN 2 ELSE 1)
    BY <1>2 DEF StringChar
  <2>2. start >= 1 BY <2>1 DEF PosInv
  <2>3. i < Len(text) /\ c = text[i + 1] BY <1>t, <2>1 DEF Cut
  <2> DEFINE p == i - start + 2
             s == After
  <2>4. p \in Nat /\ p >= 2 /\ p + 1 = i - start + 3 /\ p + 1 \in Nat /\ p + 1 >= 2 BY <1>t
  <2>5. s[p] = text[i + 1]
    <3>1. i + 1 \in start .. Len(text) /\ (i + 1) - start + 1 = p BY <1>t, <2>3
    <3> QED BY <2>2, <3>1, AfterIs
  <2>6. ~ Scan!Escaped(s, p) BY <2>1 DEF StringTaken
  <2>7. q' = q /\ After' = s BY <1>t, <2>1 DEF q, After, buf_len
  <2>8. \A k \in start + 1 .. i :
          ~ Cut(text[k]) /\ (text[k] = q => Scan!Escaped(s, k - start + 1))
    BY <2>1 DEF StringTaken
  <2> HIDE DEF s
  <2>9. CASE c = "*"
    <3>1. i' = i + 2 BY <2>1, <2>9 DEF consume
    <3>2. i + 1 < Len(text) /\ ~ Cut(text[i + 2]) BY <1>t, <2>1, <2>9 DEF Cut
    <3>3. Scan!Escaped(s, p + 1) BY <2>3, <2>4, <2>5, <2>6, <2>9, EscapedNext
    <3>4. ~ Scan!Escaped(s, (p + 1) + 1) BY <2>4, <3>3, EscapedNext
    <3>5. \A k \in start + 1 .. i + 2 : k \in start + 1 .. i \/ k = i + 1 \/ k = i + 2 BY <1>t
    <3>6. (i + 2) - start + 1 = p + 1 /\ (i + 2) - start + 2 = (p + 1) + 1 BY <1>t
    <3>7. ASSUME NEW k \in start + 1 .. i + 2
          PROVE  ~ Cut(text[k]) /\ (text[k] = q => Scan!Escaped(s, k - start + 1))
      <4>1. CASE k \in start + 1 .. i BY <2>8, <4>1
      <4>2. CASE k = i + 1 BY <2>1, <2>3, <4>2
      <4>3. CASE k = i + 2 BY <3>2, <3>3, <3>6, <4>3
      <4> QED BY <3>5, <4>1, <4>2, <4>3
    <3> QED BY <1>t, <2>1, <2>7, <3>1, <3>4, <3>6, <3>7 DEF StringTaken, Cut
  <2>10. CASE c # "*"
    <3>1. i' = i + 1 BY <2>1, <2>10 DEF consume
    <3>2. ~ Scan!Escaped(s, p + 1) BY <2>3, <2>4, <2>5, <2>10, EscapedNext
    <3>3. \A k \in start + 1 .. i + 1 : k \in start + 1 .. i \/ k = i + 1 BY <1>t
    <3>4. (i + 1) - start + 2 = p + 1 BY <1>t
    <3>5. ASSUME NEW k \in start + 1 .. i + 1
          PROVE  ~ Cut(text[k]) /\ (text[k] = q => Scan!Escaped(s, k - start + 1))
      <4>1. CASE k \in start + 1 .. i BY <2>8, <4>1
      <4>2. CASE k = i + 1 BY <2>1, <2>3, <4>2
      <4> QED BY <3>3, <4>1, <4>2
    <3> QED BY <1>t, <2>1, <2>7, <3>1, <3>2, <3>4, <3>5 DEF StringTaken, Cut
  <2> QED BY <2>9, <2>10
<1> QED BY <1>1, <1>2, Moves

-----------------------------------------------------------------------------
(* What the store holds                                                     *)

\* A new block leaves the others and is filled with the chars read.
LEMMA NewBlockChars ==
  ASSUME PosInv, StoreInv, Allocate
  PROVE  /\ \A k \in 1 .. used : store'[k] = store[k]
         /\ \A k \in 1 .. i - start : store'[used + k] = text[start + k]
<1>t. /\ i \in Nat /\ start \in Nat /\ start <= i /\ i <= Len(text) /\ used \in Nat
      /\ text \in Seq(STRING) /\ Len(store) \in Nat /\ used <= Len(store) /\ store \in Seq(Bytes)
  BY Looked, LenProperties DEF PosInv, TypeOK, StoreInv
<1>b. text \in Seq(Bytes) /\ NUL \in Bytes BY <1>t, NulIsByte, LenProperties DEF Bytes
<1> DEFINE word == SubSeq(text, start + 1, i)
           kept == SubSeq(store, 1, used)
           block == Append(word, NUL)
           n == i - start
<1>n. n \in Nat /\ n = i - start /\ i - (start + 1) + 1 = n /\ used - 1 + 1 = used BY <1>t
<1>1. word \in Seq(Bytes) /\ Len(word) = n /\ \A k \in 1 .. n : word[k] = text[start + k]
  <2>1. start + 1 \in Nat /\ start + 1 >= 1 /\ start + 1 <= i + 1 BY <1>t
  <2>2. /\ word \in Seq(Bytes) /\ Len(word) = i - (start + 1) + 1
        /\ \A k \in 1 .. i - (start + 1) + 1 : word[k] = text[(start + 1) + k - 1]
    BY <1>t, <1>b, <2>1, Slice
  <2>3. \A k \in 1 .. n : (start + 1) + k - 1 = start + k BY <1>t
  <2> QED BY <1>n, <2>2, <2>3
<1>2. kept \in Seq(Bytes) /\ Len(kept) = used /\ \A k \in 1 .. used : kept[k] = store[k]
  <2>1. /\ kept \in Seq(Bytes) /\ Len(kept) = used - 1 + 1
        /\ \A k \in 1 .. used - 1 + 1 : kept[k] = store[1 + k - 1]
    BY <1>t, Slice
  <2>2. \A k \in 1 .. used : 1 + k - 1 = k OBVIOUS
  <2> QED BY <1>n, <2>1, <2>2
<1>3. store' = kept \o block BY DEF Allocate, Substr
<1> HIDE DEF word, kept, n
<1>4. block \in Seq(Bytes) /\ Len(block) = n + 1 /\ \A k \in 1 .. n : block[k] = word[k]
  BY <1>n, <1>b, <1>1, AppendProperties
<1> HIDE DEF block
<1>5. \A k \in 1 .. Len(kept) + Len(block) :
        (kept \o block)[k] = IF k <= Len(kept) THEN kept[k] ELSE block[k - Len(kept)]
  BY <1>2, <1>4, ConcatProperties
<1>6. \A k \in 1 .. used : store'[k] = store[k]
  <2>1. \A k \in 1 .. used : k \in 1 .. Len(kept) + Len(block) /\ k <= Len(kept)
    BY <1>t, <1>n, <1>2, <1>4
  <2> QED BY <1>2, <1>3, <1>5, <2>1
<1>7. \A k \in 1 .. n : store'[used + k] = text[start + k]
  <2> TAKE k \in 1 .. n
  <2>1. /\ used + k \in 1 .. Len(kept) + Len(block) /\ ~ (used + k <= Len(kept))
        /\ (used + k) - Len(kept) = k
    BY <1>t, <1>n, <1>2, <1>4
  <2>2. store'[used + k] = block[(used + k) - Len(kept)] BY <1>3, <1>5, <2>1
  <2> QED BY <1>1, <1>4, <2>1, <2>2
<1> QED BY <1>n, <1>6, <1>7

\* The block that is rewritten ends what is in use.
LEMMA Rewriting ==
  ASSUME PosInv, StoreInv, mode = "unescape"
  PROVE  /\ string \in Nat /\ strlen \in Nat /\ strlen >= 1 /\ string + strlen = used
         /\ i \in Nat /\ start \in Nat /\ start >= 1 /\ i - start + 1 = strlen + 1
         /\ r \in Nat /\ w \in Nat /\ w <= r /\ r <= strlen /\ used \in Nat
         /\ store \in Seq(Bytes) /\ Len(store) = used /\ (r < strlen => store[used] = NUL)
  BY DEF PosInv, TypeOK, StoreInv, string, strlen

LEMMA PutChars ==
  ASSUME PosInv, StoreInv, mode = "unescape", NEW x, Put(x)
  PROVE  Writes(store, store', string, strlen, w) /\ store'[string + w + 1] = x
<1>t. /\ string \in Nat /\ strlen \in Nat /\ w \in Nat /\ w <= strlen /\ used \in Nat
      /\ string + strlen = used /\ Len(store) = used
  BY Rewriting
<1> DEFINE at == string + w + 1
<1>1. at \in Nat /\ at >= 1 BY <1>t
<1> HIDE DEF at
<1>2. Max({Len(store), at}) = IF used >= at THEN used ELSE at BY <1>t, <1>1, MaxOfTwo
<1>3. store' = [k \in 1 .. Max({Len(store), at}) |-> IF k = at THEN x ELSE store[k]]
  BY DEF Put, at
<1>4. at \in 1 .. Max({Len(store), at}) /\ \A k \in 1 .. used : k \in 1 .. Max({Len(store), at})
  BY <1>t, <1>1, <1>2
<1>5. store'[at] = x /\ \A k \in 1 .. used : k # at => store'[k] = store[k] BY <1>3, <1>4
<1> QED BY <1>t, <1>5 DEF Writes, at

LEMMA LitIs ==
  ASSUME PosInv, start >= 1
  PROVE  /\ Lit \in Seq(STRING) /\ Len(Lit) = i - start + 1
         /\ \A k \in 1 .. i - start + 1 : Lit[k] = text[start + k - 1]
<1>1. /\ start \in Nat /\ start <= i + 1 /\ i \in Nat /\ i <= Len(text) /\ text \in Seq(STRING)
  BY Looked
<1> QED BY <1>1, Slice DEF Lit

\* The quoted text is complete when get_string's first loop has ended.
LEMMA QuotedStep ==
  ASSUME PosInv, StoreInv, StringTaken, CloseString, PosInv'
  PROVE  Unescaping'
<1>t. /\ i \in Nat /\ start \in Nat /\ Len(text) \in Nat /\ start <= i
      /\ i < Len(text) => c = text[i + 1]
      /\ ~ (i < Len(text)) => c = NUL
      /\ text' = text /\ start' = start /\ i' = i + 1 /\ r' = 0 /\ w' = 0
      /\ mode = "get_string" /\ mode' = "unescape" /\ c = q /\ Allocate
  BY Looked DEF CloseString, consume, To
<1>q. q \in Quotes /\ q = text[start] /\ start >= 1 /\ q # NUL /\ q # "\n"
  BY <1>t, Classes DEF PosInv, q
<1>1. i < Len(text) /\ text[i + 1] = q BY <1>t, <1>q
<1> DEFINE s == Lit'
           n == i - start + 1
<1>n. n \in Nat /\ n >= 1 /\ i' - start' + 1 = n + 1 /\ i' - start' = n BY <1>t
<1>2. Len(s) = n + 1 /\ \A k \in 1 .. n + 1 : s[k] = text[start + k - 1]
  <2>1. /\ s \in Seq(STRING) /\ Len(s) = i' - start' + 1
        /\ \A k \in 1 .. i' - start' + 1 : s[k] = text'[start' + k - 1]
    <3>1. /\ start' \in Nat /\ start' >= 1 /\ start' <= i' + 1 /\ i' \in Nat /\ i' <= Len(text')
          /\ text' \in Seq(STRING)
      BY <1>t, <1>q, <1>1, Looked
    <3> QED BY <3>1, Slice DEF Lit
  <2> QED BY <1>t, <1>n, <2>1
<1> HIDE DEF s
<1>3. s[1] = q /\ s[Len(s)] = q
  <2>1. /\ 1 \in 1 .. n + 1 /\ n + 1 \in 1 .. n + 1
        /\ start + 1 - 1 = start /\ start + (n + 1) - 1 = i + 1
    BY <1>t, <1>n
  <2> QED BY <1>q, <1>1, <1>2, <2>1
<1>4. ASSUME NEW k \in 2 .. n + 1
      PROVE  Scan!Escaped(s, k) <=> Scan!Escaped(After, k)
  <2>1. ASSUME NEW j \in 2 .. k - 1 PROVE s[j] = After[j]
    <3>1. /\ j \in 1 .. n + 1 /\ start + j - 1 \in start .. Len(text)
          /\ (start + j - 1) - start + 1 = j
      BY <1>t, <1>n, <1>1
    <3> QED BY <1>q, <1>2, <3>1, AfterIs
  <2> QED BY <2>1, EscapedBefore
<1>5. Scan!IsQuoted(s)
  <2>1. Len(s) >= 2 /\ s[1] \in Quotes /\ s[Len(s)] = s[1] BY <1>q, <1>n, <1>2, <1>3
  <2>2. ASSUME NEW k \in 2 .. n + 1
        PROVE  s[k] \notin {NUL, "\n"} /\ (s[k] = q => (k = n + 1) # Scan!Escaped(s, k))
    <3>0. k = n + 1 \/ (start + k - 1 \in start + 1 .. i /\ k # n + 1) BY <1>t, <1>n
    <3>1. CASE k = n + 1
      <4>1. k = i - start + 2 BY <1>t, <3>1
      <4>2. ~ Scan!Escaped(s, k) BY <1>t, <1>4, <4>1 DEF StringTaken
      <4>3. s[k] = q BY <1>2, <1>3, <3>1
      <4> QED BY <1>q, <3>1, <4>2, <4>3
    <3>2. CASE start + k - 1 \in start + 1 .. i /\ k # n + 1
      <4>1. s[k] = text[start + k - 1] /\ (start + k - 1) - start + 1 = k BY <1>t, <1>n, <1>2
      <4>2. ~ Cut(s[k]) /\ (s[k] = q => Scan!Escaped(After, k))
        BY <1>t, <3>2, <4>1 DEF StringTaken
      <4> QED BY <1>4, <3>2, <4>2 DEF Cut
    <3> QED BY <3>0, <3>1, <3>2
  <2>3. Scan!NUL = NUL /\ Scan!Quotes = Quotes BY SameEscapes
  <2> QED BY <1>2, <1>3, <2>1, <2>2, <2>3 DEF Scan!IsQuoted
<1>6. used \in Nat /\ used' = used + n /\ strlen' = n /\ string' = used
  <2>1. used \in Nat /\ used' = used + (i - start) + 1 BY <1>t, NewBlock DEF PosInv, TypeOK
  <2>2. used' = used + n BY <1>t, <2>1
  <2>3. strlen' = n BY <1>n DEF strlen
  <2>4. string' = used' - strlen' BY DEF string
  <2> QED BY <1>n, <2>1, <2>2, <2>3, <2>4
<1>7. ASSUME NEW k \in 0 .. n - 2 PROVE store'[used + k + 1] = s[k + 2]
  <2>1. /\ k + 1 \in 1 .. i - start /\ used + (k + 1) = used + k + 1
        /\ start + (k + 2) - 1 = start + (k + 1) /\ k + 2 \in 1 .. n + 1
    BY <1>t, <1>n, <1>6
  <2>2. store'[used + (k + 1)] = text[start + (k + 1)] BY <1>t, <2>1, NewBlockChars
  <2>3. s[k + 2] = text[start + (k + 2) - 1] BY <1>2, <2>1
  <2> QED BY <2>1, <2>2, <2>3
<1> HIDE DEF n
<1>8. Unescaped(s, n, used, store', 0, 0) BY <1>n, <1>2, <1>6, <1>7, UnescapedStart
<1>9. Unescaped(s, strlen', string', store', r', w') BY <1>t, <1>6, <1>8
<1> QED BY <1>5, <1>9 DEF Unescaping, s

\* The loop stands in quoted text, before its closing quote or on it.
LEMMA UnescapingAt ==
  ASSUME PosInv, StoreInv, Unescaping, mode = "unescape", r < strlen
  PROVE  /\ Scan!IsQuoted(Lit) /\ Unescaped(Lit, strlen, string, store, r, w)
         /\ Len(Lit) = strlen + 1
         /\ r = strlen - 1 => Char(r) = NUL
         /\ r <= strlen - 2 => Char(r) = Lit[r + 2]
         /\ r <= strlen - 3 => Char(r + 1) = Lit[r + 3]
         /\ Char(r) = "*" => /\ r <= strlen - 3 /\ Lit[r + 2] = "*"
                             /\ Scan!Escaped(Lit, r + 3)
<1>t. /\ string \in Nat /\ strlen \in Nat /\ strlen >= 1 /\ string + strlen = used
      /\ start >= 1 /\ i - start + 1 = strlen + 1 /\ r \in Nat /\ store[used] = NUL
  BY Rewriting
<1>1. Scan!IsQuoted(Lit) /\ Unescaped(Lit, strlen, string, store, r, w) BY DEF Unescaping
<1>2. Len(Lit) = strlen + 1 BY <1>t, LitIs
<1>3. r = strlen - 1 => Char(r) = NUL
  <2> HAVE r = strlen - 1
  <2>1. string + r + 1 = used BY <1>t
  <2> QED BY <1>t, <2>1 DEF Char
<1>4. r <= strlen - 2 => Char(r) = Lit[r + 2]
  <2> HAVE r <= strlen - 2
  <2>1. r \in r .. strlen - 2 BY <1>t
  <2> QED BY <1>1, <2>1 DEF Unescaped, Char
<1>5. r <= strlen - 3 => Char(r + 1) = Lit[r + 3]
  <2> HAVE r <= strlen - 3
  <2>1. r + 1 \in r .. strlen - 2 /\ (r + 1) + 2 = r + 3 BY <1>t
  <2>2. store[string + (r + 1) + 1] = Lit[(r + 1) + 2] BY <1>1, <2>1 DEF Unescaped
  <2> QED BY <2>1, <2>2 DEF Char
<1>6. ASSUME Char(r) = "*"
      PROVE  r <= strlen - 3 /\ Lit[r + 2] = "*" /\ Scan!Escaped(Lit, r + 3)
  <2>1. r # strlen - 1 BY <1>3, <1>6 DEF NUL
  <2>2. r <= strlen - 2 BY <1>t, <2>1
  <2>3. Lit[r + 2] = "*" BY <1>4, <1>6, <2>2
  <2>4. ~ Scan!Escaped(Lit, r + 2) BY <1>1 DEF Unescaped
  <2>5. r + 2 \in Nat /\ r + 2 >= 2 /\ (r + 2) + 1 = r + 3 BY <1>t
  <2>6. Scan!Escaped(Lit, r + 3) BY <2>3, <2>4, <2>5, EscapedNext
  <2>7. ~ Scan!Escaped(Lit, strlen + 1)
    <3>1. strlen + 1 \in 2 .. strlen + 1 BY <1>t
    <3>2. Lit[strlen + 1] = Lit[1] BY <1>1, <1>2 DEF Scan!IsQuoted
    <3> QED BY <1>1, <1>2, <3>1, <3>2 DEF Scan!IsQuoted
  <2>8. r # strlen - 2
    <3> SUFFICES ASSUME r = strlen - 2 PROVE FALSE OBVIOUS
    <3>1. r + 3 = strlen + 1 BY <1>t
    <3> QED BY <2>6, <2>7, <3>1
  <2>9. r <= strlen - 3 BY <1>t, <2>2, <2>8
  <2> QED BY <2>3, <2>6, <2>9
<1> QED BY <1>1, <1>2, <1>3, <1>4, <1>5, <1>6

LEMMA UnescapingStep ==
  ASSUME PosInv, StoreInv, StringTaken, Unescaping, Next
  PROVE  Unescaping'
<1> SUFFICES ASSUME mode' = "unescape" PROVE Unescaping' BY DEF Unescaping
<1>1. CASE CloseString BY <1>1, QuotedStep, PosStep
<1> SUFFICES ASSUME PlainChar \/ Escape PROVE Unescaping' BY <1>1, Moves
<1>2. mode = "unescape" /\ r < strlen /\ w' = w + 1
      /\ UNCHANGED <<i, start, text, used>>
  BY DEF PlainChar, Escape, scan
<1>t. /\ string \in Nat /\ strlen \in Nat /\ strlen >= 1
      /\ r \in Nat /\ w \in Nat /\ w <= r
  BY <1>2, Rewriting
<1>3. Lit' = Lit /\ strlen' = strlen /\ string' = string BY <1>2 DEF Lit, strlen, string
<1>4. /\ Scan!IsQuoted(Lit) /\ Unescaped(Lit, strlen, string, store, r, w)
      /\ Len(Lit) = strlen + 1
      /\ r = strlen - 1 => Char(r) = NUL
      /\ r <= strlen - 2 => Char(r) = Lit[r + 2]
      /\ r <= strlen - 3 => Char(r + 1) = Lit[r + 3]
      /\ Char(r) = "*" => r <= strlen - 3 /\ Lit[r + 2] = "*"
  BY <1>2, UnescapingAt
<1> DEFINE s == Lit
           n == strlen
           b == string
           st == store
           u == store'
<1>5. /\ n \in Nat /\ b \in Nat /\ Len(s) = n + 1 /\ n >= 1 /\ r < n
      /\ Unescaped(s, n, b, st, r, w)
  BY <1>2, <1>t, <1>4
<1>6. CASE PlainChar
  <2>1. r' = r + 1 /\ Char(r) # "*" /\ Put(Char(r)) BY <1>6 DEF PlainChar
  <2>2. Writes(st, u, b, n, w) /\ u[b + w + 1] = Char(r) BY <1>2, <2>1, PutChars
  <2>3. CASE r = n - 1
    <3>1. u[b + w + 1] = NUL BY <1>4, <2>2, <2>3
    <3> HIDE DEF s, n, b, st, u
    <3>2. Unescaped(s, n, b, u, r + 1, w + 1)
      BY <1>t, <1>5, <2>2, <2>3, <3>1, UnescapedLast
    <3> QED BY <1>2, <1>3, <1>4, <2>1, <3>2 DEF Unescaping, s, n, b, u
  <2>4. CASE r < n - 1
    <3>1. r <= n - 2 BY <1>t, <2>4
    <3>2. u[b + w + 1] = s[r + 2] /\ s[r + 2] # "*" BY <1>4, <2>1, <2>2, <3>1
    <3> HIDE DEF s, n, b, st, u
    <3>3. Unescaped(s, n, b, u, r + 1, w + 1)
      BY <1>t, <1>5, <2>2, <2>4, <3>2, UnescapedPlain
    <3> QED BY <1>2, <1>3, <1>4, <2>1, <3>3 DEF Unescaping, s, n, b, u
  <2> QED BY <1>2, <1>t, <2>3, <2>4
<1>7. CASE Escape
  <2>1. /\ r' = r + 2 /\ Char(r) = "*" /\ Char(r + 1) \in DOMAIN Escapes
        /\ Put(Escapes[Char(r + 1)])
    BY <1>7 DEF Escape
  <2>2. Writes(st, u, b, n, w) /\ u[b + w + 1] = Escapes[Char(r + 1)] BY <1>2, <2>1, PutChars
  <2>3. r <= n - 3 /\ s[r + 2] = "*" /\ Char(r + 1) = s[r + 3] BY <1>4, <2>1
  <2>4. r < n - 2 BY <1>t, <2>3
  <2>5. u[b + w + 1] = Escapes[s[r + 3]] /\ s[r + 3] \in DOMAIN Escapes BY <2>1, <2>2, <2>3
  <2> HIDE DEF s, n, b, st, u
  <2>6. Unescaped(s, n, b, u, r + 2, w + 1)
    BY <1>t, <1>5, <2>2, <2>3, <2>4, <2>5, UnescapedEscape
  <2> QED BY <1>2, <1>3, <1>4, <2>1, <2>6 DEF Unescaping, s, n, b, u
<1> QED BY <1>6, <1>7

-----------------------------------------------------------------------------
(* The lexemes of the tokens                                                *)

Lexed(st, block) == CString(SubSeq(st, block, Len(st)))
View(tok, st) ==
  [kind |-> tok.kind, int_lit |-> tok.int_lit, ln |-> tok.ln,
   lexeme |-> IF tok.lexeme = 0 THEN <<>> ELSE Lexed(st, tok.lexeme)]

\* Where the blocks end that nothing writes to any more, and a block there with
\* its terminator.
Finished == IF mode = "unescape" THEN string ELSE used
Whole(st, block, end) == block \in 1 .. end /\ \E n \in block .. end : st[n] = NUL

BlocksKept ==
  /\ \E S : tokens \in Seq(S)
  /\ \A k \in DOMAIN tokens :
       tokens[k].lexeme = 0 \/ Whole(store, tokens[k].lexeme, Finished)

LEMMA LexedSame ==
  ASSUME NEW st \in Seq(Bytes), NEW u \in Seq(Bytes), NEW end \in Nat, end <= Len(st),
         end <= Len(u), \A k \in 1 .. end : u[k] = st[k], NEW block, Whole(st, block, end)
  PROVE  Lexed(u, block) = Lexed(st, block)
<1>1. /\ Len(st) \in Nat /\ Len(u) \in Nat /\ block \in Nat /\ block >= 1 /\ block <= end
      /\ block <= Len(st) + 1 /\ block <= Len(u) + 1
  BY LenProperties DEF Whole
<1>2. PICK n \in block .. end : st[n] = NUL BY DEF Whole
<1> DEFINE s == SubSeq(st, block, Len(st))
           t == SubSeq(u, block, Len(u))
           m == n - block + 1
<1>3. /\ s \in Seq(Bytes) /\ Len(s) = Len(st) - block + 1
      /\ \A k \in 1 .. Len(st) - block + 1 : s[k] = st[block + k - 1]
  BY <1>1, Slice
<1>4. /\ t \in Seq(Bytes) /\ Len(t) = Len(u) - block + 1
      /\ \A k \in 1 .. Len(u) - block + 1 : t[k] = u[block + k - 1]
  BY <1>1, Slice
<1> HIDE DEF s, t
<1>5. m \in 1 .. Len(s) /\ m <= Len(t) /\ block + m - 1 = n BY <1>1, <1>2, <1>3, <1>4
<1>6. s[m] = NUL
  <2>1. m \in 1 .. Len(st) - block + 1 BY <1>3, <1>5
  <2> QED BY <1>2, <1>3, <1>5, <2>1
<1>7. ASSUME NEW k \in 1 .. m PROVE s[k] = t[k]
  <2>1. k \in 1 .. Len(st) - block + 1 /\ k \in 1 .. Len(u) - block + 1 BY <1>1, <1>2
  <2>2. block + k - 1 \in 1 .. end BY <1>1, <1>2
  <2> QED BY <1>3, <1>4, <2>1, <2>2
<1> HIDE DEF m
<1>8. CString(s) = CString(t) BY <1>3, <1>4, <1>5, <1>6, <1>7, CStringSame
<1> QED BY <1>8 DEF Lexed, s, t

\* The lexeme of a word or a number.
LEMMA LexedNew ==
  ASSUME PosInv, StoreInv, Allocate, \A k \in start + 1 .. i : text[k] # NUL
  PROVE  /\ Lexed(store', used + 1) = SubSeq(text, start + 1, i)
         /\ Whole(store', used + 1, used') /\ used + 1 # 0
<1>t. /\ i \in Nat /\ start \in Nat /\ start <= i /\ i <= Len(text) /\ used \in Nat
      /\ text \in Seq(STRING)
  BY Looked DEF PosInv, TypeOK
<1>b. text \in Seq(Bytes) BY <1>t, LenProperties DEF Bytes
<1> DEFINE u == store'
           n == i - start
           s == SubSeq(text, start + 1, i)
           v == SubSeq(u, used + 1, Len(u))
<1>n. n \in Nat /\ i - (start + 1) + 1 = n BY <1>t
<1>1. /\ u \in Seq(Bytes) /\ used' = used + n + 1 /\ Len(u) = used + n + 1
      /\ u[used + n + 1] = NUL
  <2>1. used + (i - start) + 1 = used + n + 1 BY <1>t
  <2> QED BY <2>1, NewBlock
<1>2. \A k \in 1 .. n : u[used + k] = text[start + k] BY NewBlockChars
<1>3. s \in Seq(Bytes) /\ Len(s) = n /\ \A k \in 1 .. n : s[k] = text[start + k]
  <2>1. start + 1 \in Nat /\ start + 1 >= 1 /\ start + 1 <= i + 1 BY <1>t
  <2>2. /\ s \in Seq(Bytes) /\ Len(s) = i - (start + 1) + 1
        /\ \A k \in 1 .. i - (start + 1) + 1 : s[k] = text[(start + 1) + k - 1]
    BY <1>t, <1>b, <2>1, Slice
  <2>3. \A k \in 1 .. n : (start + 1) + k - 1 = start + k BY <1>t
  <2> QED BY <1>n, <2>2, <2>3
<1>4. \A k \in 1 .. n : s[k] # NUL
  <2> TAKE k \in 1 .. n
  <2>1. start + k \in start + 1 .. i BY <1>t
  <2> QED BY <1>3, <2>1
<1> HIDE DEF u, s, n
<1>5. /\ v \in Seq(Bytes) /\ Len(v) = n + 1 /\ v[n + 1] = NUL
      /\ \A k \in 1 .. n : v[k] = s[k]
  <2>1. /\ used + 1 \in Nat /\ used + 1 >= 1 /\ used + 1 <= Len(u) + 1 /\ Len(u) \in Nat
        /\ Len(u) <= Len(u) /\ Len(u) - (used + 1) + 1 = n + 1
    BY <1>t, <1>n, <1>1
  <2>2. /\ v \in Seq(Bytes) /\ Len(v) = Len(u) - (used + 1) + 1
        /\ \A k \in 1 .. Len(u) - (used + 1) + 1 : v[k] = u[(used + 1) + k - 1]
    BY <1>1, <2>1, Slice
  <2>3. \A k \in 1 .. n + 1 : (used + 1) + k - 1 = used + k BY <1>t, <1>n
  <2>4. \A k \in 1 .. n + 1 : v[k] = u[used + k] BY <2>1, <2>2, <2>3
  <2>5. n + 1 \in 1 .. n + 1 /\ used + (n + 1) = used + n + 1 BY <1>t, <1>n
  <2>6. \A k \in 1 .. n : k \in 1 .. n + 1 BY <1>n
  <2> QED BY <1>1, <1>2, <1>3, <2>1, <2>2, <2>4, <2>5, <2>6
<1> HIDE DEF v
<1>6. CString(v) = CString(s)
  <2>1. Len(s) < Len(v) /\ v[Len(s) + 1] = NUL BY <1>n, <1>3, <1>5
  <2>2. \A k \in 1 .. Len(s) : v[k] = s[k] BY <1>3, <1>5
  <2> QED BY <1>3, <1>5, <2>1, <2>2, CStringOfChars
<1>7. CString(s) = s BY <1>3, <1>4, CStringWhole
<1>8. Lexed(store', used + 1) = s BY <1>6, <1>7 DEF Lexed, v, u
<1>9. Whole(u, used + 1, used')
  <2>1. used + 1 \in 1 .. used' /\ used + n + 1 \in used + 1 .. used' BY <1>t, <1>n, <1>1
  <2> QED BY <1>1, <2>1 DEF Whole
<1>10. used + 1 # 0 BY <1>t
<1> QED BY <1>8, <1>9, <1>10 DEF s, u

\* The lexeme of a quoted constant.
LEMMA LexedQuoted ==
  ASSUME PosInv, StoreInv, Unescaping, EndString, StoreInv'
  PROVE  /\ Scan!IsQuoted(Lit) /\ Scan!EscapesKnown(Lit)
         /\ Lexed(store', string + 1) = Scan!Quoted(Lit)
         /\ Whole(store', string + 1, used) /\ string + 1 # 0
         /\ IF store'[string + 1] = NUL THEN Scan!Quoted(Lit) = <<>>
            ELSE Scan!Quoted(Lit) # <<>> /\ Scan!Quoted(Lit)[1] = store'[string + 1]
<1>1. mode = "unescape" /\ r >= strlen /\ Put(NUL) /\ used' = used BY DEF EndString
<1>t. /\ string \in Nat /\ strlen \in Nat /\ strlen >= 1 /\ string + strlen = used /\ start >= 1
      /\ r <= strlen /\ r \in Nat /\ w \in Nat /\ i - start + 1 = strlen + 1 /\ used \in Nat
  BY <1>1, Rewriting
<1>2. Scan!IsQuoted(Lit) /\ Unescaped(Lit, strlen, string, store, r, w) BY <1>1 DEF Unescaping
<1> DEFINE s == Lit
           n == strlen
           b == string
           u == store'
           v == SubSeq(u, b + 1, Len(u))
<1>3. /\ n \in Nat /\ n >= 1 /\ b \in Nat /\ w \in Nat /\ Len(s) = n + 1
      /\ Unescaped(s, n, b, store, n, w)
  <2>1. r = strlen BY <1>1, <1>t
  <2> QED BY <1>t, <1>2, <2>1, LitIs
<1>4. Writes(store, u, b, n, w) BY <1>1, PutChars
<1>5. u \in Seq(Bytes) /\ b + n <= Len(u)
  <2>1. store' \in Seq(Bytes) /\ used' <= Len(store') BY DEF StoreInv
  <2> QED BY <1>1, <1>t, <2>1
<1> HIDE DEF s, n, b, u
<1>6. /\ Scan!EscapesKnown(s) /\ CString(v) = Scan!Quoted(s)
      /\ \E m \in 1 .. Len(v) : v[m] = NUL
      /\ v \in Seq(Bytes) /\ v[1] = u[b + 1]
      /\ \E m \in 1 .. n : u[b + m] = NUL
  <2>1. Rewritten(s, n, b, u, v) BY <1>3, <1>4, <1>5, UnescapedEnd
  <2> QED BY <2>1 DEF Rewritten
<1>7. Lexed(u, b + 1) = Scan!Quoted(s) BY <1>6 DEF Lexed
<1>8. Whole(u, b + 1, b + n) /\ b + 1 # 0
  <2>1. PICK m \in 1 .. n : u[b + m] = NUL BY <1>6
  <2>2. b + 1 \in 1 .. b + n /\ b + m \in b + 1 .. b + n /\ b + 1 # 0 BY <1>3
  <2> QED BY <2>1, <2>2 DEF Whole
<1> HIDE DEF v
<1>9. IF u[b + 1] = NUL THEN Scan!Quoted(s) = <<>>
      ELSE Scan!Quoted(s) # <<>> /\ Scan!Quoted(s)[1] = u[b + 1]
  <2>1. IF v[1] = NUL THEN CString(v) = <<>> ELSE CString(v) # <<>> /\ CString(v)[1] = v[1]
    BY <1>6, CStringHead
  <2> QED BY <1>6, <2>1
<1> QED BY <1>t, <1>2, <1>6, <1>7, <1>8, <1>9 DEF s, n, b, u

\* No step writes to a finished block.
LEMMA FinishedKept ==
  ASSUME PosInv, StoreInv, StoreInv', Next
  PROVE  /\ Finished \in Nat /\ Finished' \in Nat /\ Finished <= Finished'
         /\ Finished <= Len(store)
         /\ Finished <= Len(store') /\ store \in Seq(Bytes) /\ store' \in Seq(Bytes)
         /\ \A k \in 1 .. Finished : store'[k] = store[k]
<1>t. /\ i \in Nat /\ start \in Nat /\ start <= i /\ used \in Nat /\ used <= Len(store)
      /\ store \in Seq(Bytes) /\ store' \in Seq(Bytes)
      /\ used' \in Nat /\ used' <= Len(store')
      /\ Numbers = {"hex", "binary", "octal", "decimal"}
  BY Looked, NumberModes, PosStep DEF PosInv, TypeOK, StoreInv
<1>0. ASSUME UNCHANGED <<store, used>>, mode # "unescape", mode' # "unescape"
      PROVE  /\ Finished \in Nat /\ Finished' \in Nat /\ Finished <= Finished'
             /\ Finished <= Len(store)
             /\ Finished <= Len(store') /\ \A k \in 1 .. Finished : store'[k] = store[k]
  BY <1>0, <1>t DEF Finished
<1>a. ASSUME Allocate, mode # "unescape", mode' # "unescape" \/ string' = used
      PROVE  /\ Finished \in Nat /\ Finished' \in Nat /\ Finished <= Finished'
             /\ Finished <= Len(store)
             /\ Finished <= Len(store') /\ \A k \in 1 .. Finished : store'[k] = store[k]
  <2>1. used' = used + (i - start) + 1 BY <1>a, NewBlock
  <2>2. \A k \in 1 .. used : store'[k] = store[k] BY <1>a, NewBlockChars
  <2>3. used <= used' /\ used <= Len(store')
    <3>1. Len(store') \in Nat BY <1>t, LenProperties
    <3> QED BY <1>t, <2>1, <3>1
  <2> QED BY <1>a, <1>t, <2>1, <2>2, <2>3 DEF Finished
<1>b. ASSUME NEW x, Put(x), mode = "unescape", UNCHANGED <<used, i, start>>
      PROVE  /\ Finished \in Nat /\ Finished' \in Nat /\ Finished <= Finished'
             /\ Finished <= Len(store)
             /\ Finished <= Len(store') /\ \A k \in 1 .. Finished : store'[k] = store[k]
  <2>1. /\ string \in Nat /\ strlen \in Nat /\ string + strlen = used /\ w \in Nat
        /\ Len(store) = used
    BY <1>b, Rewriting
  <2>2. Writes(store, store', string, strlen, w) BY <1>b, PutChars
  <2>3. \A k \in 1 .. string : k \in 1 .. string + strlen /\ k # string + w + 1 BY <2>1
  <2>4. \A k \in 1 .. string : store'[k] = store[k] BY <2>2, <2>3 DEF Writes
  <2>5. string' = string BY <1>b DEF string, strlen
  <2>6. string <= used /\ string <= Len(store')
    <3>1. Len(store') \in Nat /\ used <= Len(store') BY <1>t, <1>b, LenProperties
    <3> QED BY <2>1, <3>1
  <2> QED BY <1>b, <2>1, <2>4, <2>5, <2>6 DEF Finished
<1>1. CASE Blank BY <1>1, <1>0, <1>t DEF Blank, AtToken, rest
<1>2. CASE BeginWord BY <1>2, <1>0, <1>t DEF BeginWord, AtToken, To, rest
<1>3. CASE BeginDigits
  <2>1. UNCHANGED <<store, used>> /\ mode' \in Numbers /\ mode = "lexer"
    BY <1>3, <1>t DEF BeginDigits, AtToken, To, rest
  <2> QED BY <1>0, <1>t, <2>1
<1>4. CASE BeginString BY <1>4, <1>0, <1>t DEF BeginString, AtToken, To, rest
<1>5. CASE BeginComment BY <1>5, <1>0, <1>t DEF BeginComment, AtToken, To, rest
<1>6. CASE Symbol BY <1>6, <1>0, <1>t DEF Symbol, AtToken
<1>7. CASE Finish BY <1>7, <1>0, <1>t DEF Finish, To, rest
<1>8. CASE WordChar BY <1>8, <1>0, <1>t DEF WordChar, rest
<1>9. CASE EndWord BY <1>9, <1>a, <1>t DEF EndWord, To
<1>10. CASE Digit BY <1>10, <1>0, <1>t DEF Digit, Numbers
<1>11. CASE EndDigits BY <1>11, <1>a, <1>t DEF EndDigits, To, Numbers
<1>12. CASE StringChar BY <1>12, <1>0, <1>t DEF StringChar, rest
<1>13. CASE Unterminated BY <1>13, <1>0, <1>t DEF Unterminated, To
<1>14. CASE CloseString
  <2>1. Allocate /\ mode = "get_string" /\ start' = start /\ i' = i + 1
    BY <1>14 DEF CloseString, consume
  <2>2. used' = used + (i - start) + 1 BY <2>1, NewBlock
  <2>3. string' = used' - (i' - start') BY DEF string, strlen
  <2>4. string' = used BY <1>t, <2>1, <2>2, <2>3
  <2> QED BY <1>a, <1>t, <2>1, <2>4
<1>15. CASE PlainChar BY <1>15, <1>b, <1>t DEF PlainChar, scan
<1>16. CASE Escape BY <1>16, <1>b, <1>t DEF Escape, scan
<1>17. CASE UnknownEscape
  <2>1. /\ string \in Nat /\ strlen \in Nat /\ string + strlen = used /\ mode = "unescape"
        /\ mode' = "exit" /\ UNCHANGED <<store, used>>
    BY <1>17, Rewriting DEF UnknownEscape, To
  <2> QED BY <1>t, <2>1 DEF Finished
<1>18. CASE EndString BY <1>18, <1>b, <1>t DEF EndString, scan
<1>19. CASE CommentChar BY <1>19, <1>0, <1>t DEF CommentChar, rest
<1>20. CASE EndComment BY <1>20, <1>0, <1>t DEF EndComment, To, rest
<1> QED
  BY <1>t, <1>1, <1>2, <1>3, <1>4, <1>5, <1>6, <1>7, <1>8, <1>9, <1>10, <1>11, <1>12, <1>13, <1>14,
     <1>15, <1>16, <1>17, <1>18, <1>19, <1>20 DEF Next

LEMMA ViewsKept ==
  ASSUME PosInv, StoreInv, StoreInv', BlocksKept, Next, NEW k \in DOMAIN tokens
  PROVE  /\ View(tokens[k], store') = View(tokens[k], store)
         /\ tokens[k].lexeme = 0 \/ Whole(store', tokens[k].lexeme, Finished')
<1> DEFINE block == tokens[k].lexeme
<1>1. CASE block = 0 BY <1>1 DEF View
<1>2. CASE Whole(store, block, Finished)
  <2>1. /\ Finished \in Nat /\ Finished' \in Nat /\ Finished <= Finished'
        /\ Finished <= Len(store)
        /\ Finished <= Len(store') /\ store \in Seq(Bytes) /\ store' \in Seq(Bytes)
        /\ \A j \in 1 .. Finished : store'[j] = store[j]
    BY FinishedKept
  <2> HIDE DEF block
  <2>2. Lexed(store', block) = Lexed(store, block) BY <1>2, <2>1, LexedSame
  <2>3. Whole(store', block, Finished')
    <3> DEFINE end == Finished
               u == store'
    <3>1. PICK n \in block .. end : store[n] = NUL BY <1>2 DEF Whole
    <3>2. block \in 1 .. end BY <1>2 DEF Whole
    <3>3. n \in 1 .. end /\ n \in block .. Finished' /\ block \in 1 .. Finished'
      BY <2>1, <3>2
    <3>4. u[n] = NUL BY <2>1, <3>1, <3>3
    <3> QED BY <3>3, <3>4 DEF Whole
  <2> QED BY <2>2, <2>3 DEF View, block
<1> QED BY <1>1, <1>2 DEF BlocksKept

LEMMA SameTokens ==
  ASSUME PosInv, StoreInv, StoreInv', BlocksKept, Next, tokens' = tokens
  PROVE  BlocksKept' /\ Seen' = Seen
<1>1. Seen = [k \in DOMAIN tokens |-> View(tokens[k], store)] BY DEF Seen, View, Lexed
<1>2. Seen' = [k \in DOMAIN tokens |-> View(tokens[k], store')] BY DEF Seen, View, Lexed
<1>3. Seen' = Seen BY <1>1, <1>2, ViewsKept
<1>4. \E S : tokens' \in Seq(S) BY DEF BlocksKept
<1>5. \A k \in DOMAIN tokens : tokens[k].lexeme = 0 \/ Whole(store', tokens[k].lexeme, Finished')
  BY ViewsKept
<1> QED BY <1>3, <1>4, <1>5 DEF BlocksKept

LEMMA MoreTokens ==
  ASSUME PosInv, StoreInv, StoreInv', BlocksKept, Next, NEW tok, tokens' = Append(tokens, tok),
         tok.lexeme = 0 \/ Whole(store', tok.lexeme, Finished')
  PROVE  BlocksKept' /\ Seen' = Append(Seen, View(tok, store'))
<1>1. Seen = [k \in DOMAIN tokens |-> View(tokens[k], store)] BY DEF Seen, View, Lexed
<1>2. Seen' = [k \in DOMAIN tokens' |-> View(tokens'[k], store')]  BY DEF Seen, View, Lexed
<1>3. PICK S : tokens \in Seq(S) BY DEF BlocksKept
<1> DEFINE T == S \cup {tok}
           new == Append(tokens, tok)
           n == Len(tokens)
<1>4. n \in Nat /\ DOMAIN tokens = 1 .. n /\ tokens \in Seq(T) /\ tok \in T
  BY <1>3, LenProperties
<1>5. /\ new \in Seq(T) /\ DOMAIN new = 1 .. n + 1 /\ new[n + 1] = tok
      /\ \A k \in 1 .. n : new[k] = tokens[k]
  BY <1>4, AppendProperties, LenProperties
<1> HIDE DEF T, new, n
<1>6. tokens' = new BY DEF new
<1>7. BlocksKept'
  <2>1. ASSUME NEW k \in 1 .. n + 1
        PROVE  new[k].lexeme = 0 \/ Whole(store', new[k].lexeme, Finished')
    <3>1. CASE k = n + 1 BY <1>5, <3>1
    <3>2. CASE k \in 1 .. n BY <1>4, <1>5, <3>2, ViewsKept
    <3> QED BY <1>4, <3>1, <3>2
  <2> QED BY <1>5, <1>6, <2>1 DEF BlocksKept
<1>8. Seen' = Append(Seen, View(tok, store'))
  <2> DEFINE V == {View(new[k], store') : k \in 1 .. n + 1}
             old == Seen
             x == View(tok, store')
             more == Append(old, x)
  <2>1. ASSUME NEW k \in 1 .. n PROVE old[k] = View(new[k], store')
    BY <1>1, <1>4, <1>5, ViewsKept
  <2>2. old = [k \in 1 .. n |-> View(new[k], store')] BY <1>1, <1>4, <2>1
  <2>3. x = View(new[n + 1], store') BY <1>5
  <2>4. \A k \in 1 .. n : View(new[k], store') \in V BY <1>4
  <2>5. x \in V BY <1>4, <2>3
  <2> HIDE DEF V, old, x
  <2>6. old \in Seq(V) /\ Len(old) = n BY <1>4, <2>2, <2>4
  <2>7. /\ more \in Seq(V) /\ Len(more) = n + 1 /\ more[n + 1] = x
        /\ \A k \in 1 .. n : more[k] = old[k] /\ DOMAIN more = 1 .. n + 1
    BY <2>5, <2>6, AppendProperties, LenProperties
  <2>8. more \in [1 .. n + 1 -> V] BY <2>7, LenProperties
  <2> HIDE DEF more
  <2>9. \A k \in 1 .. n + 1 : more[k] = View(new[k], store')
    <3> TAKE k \in 1 .. n + 1
    <3>1. CASE k = n + 1 BY <2>3, <2>7, <3>1
    <3>2. CASE k \in 1 .. n BY <2>2, <2>7, <3>2
    <3> QED BY <1>4, <3>1, <3>2
  <2>10. more = [k \in 1 .. n + 1 |-> View(new[k], store')] BY <2>8, <2>9
  <2>11. Seen' = more BY <1>2, <1>5, <1>6, <2>10
  <2> QED BY <2>11 DEF more, old, x
<1> QED BY <1>7, <1>8

-----------------------------------------------------------------------------
(* Which pieces of text are tokens                                          *)

\* Scanner has the tables and the functions that Lexer has.
LEMMA SameClasses ==
  /\ Scan!Alpha = Alpha /\ Scan!Octals = Octals /\ Scan!Digits = Digits
  /\ Scan!HexDigits = HexDigits /\ Scan!WordChars = WordChars /\ Scan!Spaces = Spaces
<1>1. Scan!Alpha = Alpha BY DEF Scan!Alpha, Alpha
<1>2. Scan!Octals = Octals BY DEF Scan!Octals, Octals
<1>3. Scan!Digits = Digits BY <1>2 DEF Scan!Digits, Digits
<1>4. Scan!HexDigits = HexDigits BY <1>3 DEF Scan!HexDigits, HexDigits
<1>5. Scan!WordChars = WordChars BY <1>1, <1>3 DEF Scan!WordChars, WordChars
<1>6. Scan!Spaces = Spaces BY DEF Scan!Spaces, Spaces
<1> QED BY <1>1, <1>2, <1>3, <1>4, <1>5, <1>6

LEMMA SameTables ==
  /\ Scan!Double = Double /\ Scan!Single = Single
  /\ \A word : Scan!WordKind(word) = WordKind(word)
<1>1. Scan!Double = Double BY DEF Scan!Double, Double, Scan!Table, Table
<1>2. Scan!Single = Single BY DEF Scan!Single, Single, Scan!Table, Table
<1>3. Scan!Keywords = Keywords BY DEF Scan!Keywords, Keywords, Scan!Table, Table
<1>4. \A word : Scan!WordKind(word) = WordKind(word) BY <1>3 DEF Scan!WordKind, WordKind
<1> QED BY <1>1, <1>2, <1>4

LEMMA SameMax == \A S : Scan!Max(S) = Max(S) /\ Scan!Min(S) = Min(S)
  BY DEF Scan!Max, Max, Scan!Min, Min

LEMMA SamePrefix == \A s, S : Scan!Prefix(s, S) = Prefix(s, S)
  BY SameMax DEF Scan!Prefix, Prefix

LEMMA SameValue == \A d, base, limit : Scan!strtoull(d, base, limit) = strtoull(d, base, limit)
  BY DEF Scan!strtoull, strtoull, Scan!Min, Min, Scan!MapThenSumSet, MapThenSumSet,
         Scan!MapThenFoldSet, MapThenFoldSet, Scan!DigitValue, DigitValue

\* The classes that decide how a token begins are apart.
LEMMA Apart ==
  /\ Alpha \cap Digits = {} /\ Quotes \cap WordChars = {} /\ Spaces \cap WordChars = {}
  /\ Spaces \cap Quotes = {}
  /\ \A p \in DOMAIN Double : p[1] \notin WordChars \cup Quotes
  /\ "/" \notin WordChars \cup Quotes /\ "\n" \notin WordChars
<1>1. Alpha \cap Digits = {} BY DEF Alpha, Digits, Octals
<1>2. Quotes \cap WordChars = {} BY DEF Quotes, WordChars, Alpha, Digits, Octals
<1>3. Spaces \cap WordChars = {} BY DEF Spaces, WordChars, Alpha, Digits, Octals
<1>4. Spaces \cap Quotes = {} BY DEF Spaces, Quotes
<1>5. \A p \in DOMAIN Double : p[1] \notin WordChars \cup Quotes
  <2>1. DOMAIN Double = {<<"+", "+">>, <<"-", "-">>, <<"!", "=">>, <<"=", "=">>, <<"<", "=">>,
                         <<"<", "<">>, <<">", "=">>, <<">", ">">>}
    BY DEF Double, Table
  <2>2. {"+", "-", "!", "=", "<", ">"} \cap (WordChars \cup Quotes) = {}
    BY DEF Quotes, WordChars, Alpha, Digits, Octals
  <2>3. \A p \in DOMAIN Double : p[1] \in {"+", "-", "!", "=", "<", ">"} BY <2>1
  <2> QED BY <2>2, <2>3
<1>6. "/" \notin WordChars \cup Quotes /\ "\n" \notin WordChars
  BY DEF Quotes, WordChars, Alpha, Digits, Octals
<1> QED BY <1>1, <1>2, <1>3, <1>4, <1>5, <1>6

\* The first char says which token it can be.
LEMMA TokenKind ==
  ASSUME NEW S, NEW s \in Seq(S)
  PROVE  /\ s[1] \in Alpha => (Scan!IsToken(s) <=> Scan!IsWord(s))
         /\ s[1] \in Digits => (Scan!IsToken(s) <=> Scan!IsNumber(s))
         /\ s[1] \in Quotes => (Scan!IsToken(s) <=> Scan!IsQuoted(s))
         /\ s[1] \notin Spaces \cup WordChars \cup Quotes =>
              (Scan!IsToken(s) <=> Len(s) = 1 \/ s \in DOMAIN Double)
<1> USE SameClasses, SameTables, SameEscapes
<1>0. Alpha \subseteq WordChars /\ Digits \subseteq WordChars BY DEF WordChars
<1>1. Scan!IsWord(s) => s[1] \in Alpha BY DEF Scan!IsWord
<1>2. Scan!IsNumber(s) => s[1] \in Digits BY DEF Scan!IsNumber
<1>3. Scan!IsQuoted(s) => s[1] \in Quotes BY DEF Scan!IsQuoted
<1>4. s \in DOMAIN Double => s[1] \notin WordChars \cup Quotes BY Apart
<1>5. ASSUME Len(s) = 1
      PROVE  /\ s[1] \in Alpha => Scan!IsWord(s)
             /\ s[1] \in Digits => Scan!IsNumber(s)
  <2>1. \A k \in DOMAIN s : s[k] = s[1] BY <1>5, LenProperties
  <2>2. s[1] \in Alpha => Scan!IsWord(s) BY <1>0, <2>1 DEF Scan!IsWord
  <2>3. s[1] \in Digits => Scan!Radix(s) \in {10, 8} BY <1>5 DEF Scan!Radix
  <2>4. s[1] \in Digits => Scan!Numeral(s) = s BY <2>3 DEF Scan!Numeral
  <2>5. s[1] \in Digits => Scan!IsNumber(s) BY <2>1, <2>3, <2>4 DEF Scan!IsNumber
  <2> QED BY <2>2, <2>5
<1>6. s[1] \in Alpha => (Scan!IsToken(s) <=> Scan!IsWord(s))
  BY <1>0, <1>1, <1>2, <1>3, <1>4, <1>5, Apart DEF Scan!IsToken
<1>7. s[1] \in Digits => (Scan!IsToken(s) <=> Scan!IsNumber(s))
  BY <1>0, <1>1, <1>2, <1>3, <1>4, <1>5, Apart DEF Scan!IsToken
<1>8. s[1] \in Quotes => (Scan!IsToken(s) <=> Scan!IsQuoted(s))
  BY <1>0, <1>1, <1>2, <1>3, <1>4, <1>5, Apart DEF Scan!IsToken
<1>9. s[1] \notin Spaces \cup WordChars \cup Quotes =>
        (Scan!IsToken(s) <=> Len(s) = 1 \/ s \in DOMAIN Double)
  BY <1>0, <1>1, <1>2, <1>3 DEF Scan!IsToken
<1> QED BY <1>6, <1>7, <1>8, <1>9

-----------------------------------------------------------------------------
(* The longest token that starts at a place                                 *)

LEMMA PieceIs ==
  ASSUME PosInv, NEW a \in Nat, NEW e \in Nat, a <= e, e <= Len(text)
  PROVE  /\ Scan!Piece(a, e) = SubSeq(text, a + 1, e) /\ Scan!Piece(a, e) \in Seq(STRING)
         /\ Len(Scan!Piece(a, e)) = e - a
         /\ \A k \in 1 .. e - a : Scan!Piece(a, e)[k] = text[a + k]
<1> DEFINE s == SubSeq(text, a + 1, e)
<1>1. /\ text \in Seq(STRING) /\ a + 1 \in Nat /\ a + 1 >= 1 /\ a + 1 <= e + 1
      /\ e - (a + 1) + 1 = e - a
  BY Looked
<1>2. /\ s \in Seq(STRING) /\ Len(s) = e - (a + 1) + 1
      /\ \A k \in 1 .. e - (a + 1) + 1 : s[k] = text[(a + 1) + k - 1]
  BY <1>1, Slice
<1>3. \A k \in 1 .. e - a : (a + 1) + k - 1 = a + k OBVIOUS
<1>4. Scan!Piece(a, e) = s BY DEF Scan!Piece
<1> HIDE DEF s
<1> QED BY <1>1, <1>2, <1>3, <1>4 DEF s

LEMMA Pair ==
  ASSUME NEW S, NEW s \in Seq(S), NEW m \in Nat, m >= 1, m + 1 <= Len(s)
  PROVE  SubSeq(s, m, m + 1) = <<s[m], s[m + 1]>>
<1> DEFINE t == SubSeq(s, m, m + 1)
           u == <<s[m], s[m + 1]>>
<1>1. /\ t \in Seq(S) /\ Len(t) = (m + 1) - m + 1
      /\ \A k \in 1 .. (m + 1) - m + 1 : t[k] = s[m + k - 1]
  BY Slice
<1>2. (m + 1) - m + 1 = 2 /\ m + 1 - 1 = m /\ m + 2 - 1 = m + 1 OBVIOUS
<1>3. Len(t) = 2 /\ t[1] = s[m] /\ t[2] = s[m + 1] BY <1>1, <1>2
<1>4. m \in 1 .. Len(s) /\ m + 1 \in 1 .. Len(s) BY LenProperties
<1>5. u \in Seq(S) /\ Len(u) = 2 /\ u[1] = s[m] /\ u[2] = s[m + 1] BY <1>4, ElementOfSeq
<1> HIDE DEF t, u
<1>6. \A k \in 1 .. Len(t) : t[k] = u[k]
  <2>1. \A k \in 1 .. 2 : k = 1 \/ k = 2 OBVIOUS
  <2> QED BY <1>3, <1>5, <2>1
<1>7. t = u BY <1>1, <1>3, <1>5, <1>6, SeqEqual
<1> QED BY <1>7 DEF t, u

LEMMA CommentIs ==
  ASSUME PosInv, Read \in 0 .. Len(text)
  PROVE  Scan!InComment <=> /\ Read + 2 <= Len(text)
                            /\ text[Read + 1] = "/" /\ text[Read + 2] = "*"
<1> DEFINE a == Read
           s == Scan!Rest
<1>0. Len(text) \in Nat /\ a \in Nat /\ a <= Len(text) BY Looked
<1> HIDE DEF a
<1>1. s = Scan!Piece(a, Len(text)) BY DEF Scan!Rest, a
<1>2. s \in Seq(STRING) /\ Len(s) = Len(text) - a /\ \A k \in 1 .. Len(text) - a : s[k] = text[a + k]
  <2> DEFINE e == Len(text)
             p == Scan!Piece(a, e)
  <2>1. e \in Nat /\ a <= e /\ e <= Len(text) BY <1>0
  <2> HIDE DEF e
  <2>2. p \in Seq(STRING) /\ Len(p) = e - a /\ \A k \in 1 .. e - a : p[k] = text[a + k]
    BY <1>0, <2>1, PieceIs
  <2>3. s = p BY <1>1 DEF e
  <2> HIDE DEF s, p
  <2> QED BY <2>2, <2>3 DEF e
<1> HIDE DEF s
<1>3. Len(s) >= 2 <=> a + 2 <= Len(text) BY <1>0, <1>2
<1>4. ASSUME Len(s) >= 2 PROVE SubSeq(s, 1, 2) = <<text[a + 1], text[a + 2]>>
  <2>1. 1 \in 1 .. Len(text) - a /\ 2 \in 1 .. Len(text) - a BY <1>0, <1>2, <1>4
  <2>2. 1 + 1 = 2 /\ 1 \in Nat /\ 1 >= 1 /\ 1 + 1 <= Len(s) BY <1>4
  <2>3. SubSeq(s, 1, 1 + 1) = <<s[1], s[1 + 1]>> BY <1>2, <2>2, Pair
  <2> QED BY <1>2, <2>1, <2>2, <2>3
<1>5. Scan!InComment <=> Len(s) >= 2 /\ SubSeq(s, 1, 2) = <<"/", "*">>
  BY DEF Scan!InComment, s
<1>6. \A x, y : <<x, y>> = <<"/", "*">> <=> x = "/" /\ y = "*" OBVIOUS
<1> QED BY <1>3, <1>4, <1>5, <1>6 DEF a

\* The line of a token none of whose chars ends a line.
LEMMA LineOf ==
  ASSUME PosInv, LinesCounted, Read \in 0 .. i, \A k \in Read + 1 .. i : text[k] # "\n"
  PROVE  Scan!Lines(Scan!Piece(0, Read)) = ln
<1> DEFINE a == Read
           s == Scan!Piece(0, a)
<1>0. i \in Nat /\ Len(text) \in Nat /\ i <= Len(text) /\ a \in Nat /\ a <= i /\ a <= Len(text)
  BY Looked
<1>1. \A k \in a + 1 .. i : text[k] # "\n" OBVIOUS
<1> HIDE DEF a
<1>2. s \in Seq(STRING) /\ Len(s) = a - 0 /\ \A k \in 1 .. a - 0 : s[k] = text[0 + k]
  BY <1>0, PieceIs
<1> HIDE DEF s
<1>3. DOMAIN s = 1 .. a /\ \A k \in 1 .. a : s[k] = text[k]
  <2>1. a - 0 = a /\ \A k \in 1 .. a : 0 + k = k BY <1>0
  <2> QED BY <1>2, <2>1, LenProperties
<1>4. {k \in DOMAIN s : s[k] = "\n"} = {k \in 1 .. i : text[k] = "\n"}
  <2>1. \A k \in 1 .. i : k \in 1 .. a \/ k \in a + 1 .. i BY <1>0
  <2>2. \A k \in 1 .. a : k \in 1 .. i BY <1>0
  <2> QED BY <1>1, <1>3, <2>1, <2>2
<1>5. Scan!Lines(s) = 1 + Cardinality({k \in DOMAIN s : s[k] = "\n"})
  BY CardinalityIs DEF Scan!Lines
<1>6. ln = 1 + Cardinality({k \in 1 .. i : text[k] = "\n"}) BY DEF LinesCounted
<1> QED BY <1>4, <1>5, <1>6 DEF s, a

LEMMA Longest ==
  ASSUME Read \in Nat, Len(text) \in Nat, NEW e \in Read + 1 .. Len(text),
         Scan!IsToken(Scan!Piece(Read, e)),
         \A f \in e + 1 .. Len(text) : ~ Scan!IsToken(Scan!Piece(Read, f))
  PROVE  Scan!Ends # {} /\ Scan!Max(Scan!Ends) = e
<1> DEFINE E == Scan!Ends
           a == Read
<1>1. E = {f \in a + 1 .. Len(text) : Scan!IsToken(Scan!Piece(a, f))} BY DEF Scan!Ends
<1>2. a \in Nat /\ e \in a + 1 .. Len(text) OBVIOUS
<1>3. e \in E BY <1>1
<1>4. ASSUME NEW f \in E PROVE f <= e
  <2>1. f \in a + 1 .. Len(text) /\ Scan!IsToken(Scan!Piece(a, f)) BY <1>1
  <2>2. f \notin e + 1 .. Len(text) BY <2>1
  <2> QED BY <1>2, <2>1, <2>2
<1>5. E \subseteq Int BY <1>1, <1>2
<1> HIDE DEF E
<1>6. Max(E) = e BY <1>3, <1>4, <1>5, MaxIs
<1> QED BY <1>3, <1>6, SameMax DEF E

LEMMA Taken ==
  ASSUME Outcome = "running", Outcome' = "running", text' = text, ~ Scan!InComment,
         Scan!Ends # {}, Scan!Max(Scan!Ends) = Read',
         Scan!IsQuoted(Scan!Piece(Read, Read')) => Scan!EscapesKnown(Scan!Piece(Read, Read')),
         Seen' = Append(Seen, Scan!TokenOf(Scan!Piece(Read, Read')))
  PROVE  Scan!Next
  BY DEF Scan!Next, Scan!Take

\* What is taken from each kind of piece: no other arm of TokenOf is open to it.
LEMMA Arms ==
  ASSUME NEW s
  PROVE  /\ s[1] \in Alpha /\ Scan!IsWord(s) =>
              Scan!TokenOf(s) = Scan!Token(Scan!WordKind(s), s, 0)
         /\ s[1] \in Digits /\ Scan!IsNumber(s) =>
              Scan!TokenOf(s) = Scan!Token("INT", s, Scan!ValueOf(s))
         /\ s[1] = "'" /\ Scan!IsQuoted(s) =>
              Scan!TokenOf(s) = Scan!Token("INT", Scan!Quoted(s), Scan!CharValue(Scan!Quoted(s)))
         /\ s[1] = "\"" /\ Scan!IsQuoted(s) =>
              Scan!TokenOf(s) = Scan!Token("STRING", Scan!Quoted(s), Scan!Strings(Seen) + 1)
         /\ s[1] \notin WordChars \cup Quotes /\ s \in DOMAIN Double =>
              Scan!TokenOf(s) = Scan!Token(Double[s], <<>>, 0)
         /\ s[1] \notin WordChars \cup Quotes /\ s \notin DOMAIN Double =>
              Scan!TokenOf(s) =
                Scan!Token(IF s[1] \in DOMAIN Single THEN Single[s[1]] ELSE "UNKNOWN", <<>>, 0)
<1> DEFINE W == Scan!IsWord(s)
           N == Scan!IsNumber(s)
           A == Scan!IsQuoted(s) /\ s[1] = "'"
           B == Scan!IsQuoted(s) /\ s[1] = "\""
           D == s \in DOMAIN Double
           w1 == Scan!Token(Scan!WordKind(s), s, 0)
           n1 == Scan!Token("INT", s, Scan!ValueOf(s))
           a1 == Scan!Token("INT", Scan!Quoted(s), Scan!CharValue(Scan!Quoted(s)))
           b1 == Scan!Token("STRING", Scan!Quoted(s), Scan!Strings(Seen) + 1)
           d1 == Scan!Token(Double[s], <<>>, 0)
           o1 == Scan!Token(IF s[1] \in DOMAIN Single THEN Single[s[1]] ELSE "UNKNOWN", <<>>, 0)
<1>1. Scan!TokenOf(s) = CASE W -> w1 [] N -> n1 [] A -> a1 [] B -> b1 [] D -> d1 [] OTHER -> o1
  BY SameTables, Zenon DEF Scan!TokenOf
<1>2. /\ W => s[1] \in Alpha /\ s[1] \in WordChars
      /\ N => s[1] \in Digits /\ s[1] \in WordChars
      /\ A => s[1] = "'" /\ s[1] \in Quotes
      /\ B => s[1] = "\"" /\ s[1] \in Quotes
      /\ D => s[1] \notin WordChars \cup Quotes
  BY SameClasses, Apart, Zenon DEF Scan!IsWord, Scan!IsNumber, WordChars, Quotes
<1>3. "'" # "\"" OBVIOUS
<1>4. \A x : ~ (x \in Alpha /\ x \in Digits) /\ ~ (x \in Quotes /\ x \in WordChars) BY Apart
<1> HIDE DEF W, N, A, B, D, w1, n1, a1, b1, d1, o1
<1>5. /\ W => ~ N /\ ~ A /\ ~ B /\ ~ D
      /\ N => ~ A /\ ~ B /\ ~ D
      /\ A => ~ B /\ ~ D
      /\ B => ~ D
  BY <1>2, <1>3, <1>4
<1>6. /\ W => Scan!TokenOf(s) = w1
      /\ N => Scan!TokenOf(s) = n1
      /\ A => Scan!TokenOf(s) = a1
      /\ B => Scan!TokenOf(s) = b1
      /\ D => Scan!TokenOf(s) = d1
      /\ ~ W /\ ~ N /\ ~ A /\ ~ B /\ ~ D => Scan!TokenOf(s) = o1
  BY <1>1, <1>5
<1>7. s[1] \notin WordChars \cup Quotes => ~ W /\ ~ N /\ ~ A /\ ~ B BY <1>2
<1> QED BY <1>6, <1>7, Zenon DEF W, N, A, B, D, w1, n1, a1, b1, d1, o1

-----------------------------------------------------------------------------
(* A word or a number is taken                                              *)

\* A token with a block of its own is the one Scanner takes.
LEMMA WithBlock ==
  ASSUME PosInv, StoreInv, StoreInv', BlocksKept, Next, mode' = "lexer",
         NEW kind, NEW int_lit, NEW block, add_token(kind, block, int_lit),
         block # 0, Whole(store', block, used')
  PROVE  /\ BlocksKept'
         /\ Seen' = Append(Seen, [kind |-> kind, int_lit |-> int_lit, ln |-> ln,
                                  lexeme |-> Lexed(store', block)])
<1> DEFINE tok == [kind |-> kind, lexeme |-> block, int_lit |-> int_lit, ln |-> ln, cn |-> t_cn]
<1>1. tokens' = Append(tokens, tok) BY DEF add_token
<1>2. tok.lexeme = block /\ tok.kind = kind /\ tok.int_lit = int_lit /\ tok.ln = ln OBVIOUS
<1> HIDE DEF tok
<1>3. Finished' = used' BY DEF Finished
<1>4. BlocksKept' /\ Seen' = Append(Seen, View(tok, store'))
  BY <1>1, <1>2, <1>3, MoreTokens
<1>5. View(tok, store') = [kind |-> kind, int_lit |-> int_lit, ln |-> ln,
                           lexeme |-> Lexed(store', block)]
  BY <1>2 DEF View
<1> QED BY <1>4, <1>5

LEMMA WordTake ==
  ASSUME PosInv, StoreInv, StoreInv', LinesCounted, WordTaken, BlocksKept, EndWord
  PROVE  Scan!Next /\ BlocksKept'
<1>t. /\ i \in Nat /\ start \in Nat /\ start <= i /\ i <= Len(text) /\ Len(text) \in Nat
      /\ i < Len(text) => c = text[i + 1]
      /\ ~ (i < Len(text)) => c = NUL
  BY Looked
<1>1. /\ mode = "get_word" /\ mode' = "lexer" /\ i' = i /\ text' = text /\ c \notin WordChars
      /\ Allocate /\ add_token(WordKind(SubSeq(text, start + 1, i)), used + 1, 0) /\ Next
  BY DEF EndWord, To, scan, Next
<1>2. Read = start /\ Read' = i /\ Outcome = "running" /\ Outcome' = "running"
  BY <1>1 DEF Read, Outcome
<1>3. i > start BY <1>1 DEF PosInv
<1>4. /\ text[start + 1] \in Alpha /\ \A k \in start + 1 .. i : text[k] \in WordChars
  BY <1>1 DEF WordTaken
<1> DEFINE s == Scan!Piece(start, i)
<1>5. /\ s = SubSeq(text, start + 1, i) /\ s \in Seq(STRING)
      /\ Len(s) = i - start /\ \A k \in 1 .. i - start : s[k] = text[start + k]
  BY <1>t, PieceIs
<1>6. ASSUME NEW e \in start + 1 .. Len(text)
      PROVE  Scan!IsToken(Scan!Piece(start, e)) <=> e <= i
  <2> DEFINE p == Scan!Piece(start, e)
  <2>1. p \in Seq(STRING) /\ Len(p) = e - start /\ \A k \in 1 .. e - start : p[k] = text[start + k]
    <3>1. e \in Nat /\ start <= e /\ e <= Len(text) BY <1>t
    <3> QED BY <1>t, <3>1, PieceIs
  <2>2. DOMAIN p = 1 .. e - start BY <2>1, LenProperties
  <2> HIDE DEF p
  <2>3. p[1] \in Alpha
    <3>1. 1 \in 1 .. e - start BY <1>t
    <3> QED BY <1>4, <2>1, <3>1
  <2>4. Scan!IsToken(p) <=> \A k \in 1 .. e - start : text[start + k] \in WordChars
    <3>1. Scan!IsToken(p) <=> Scan!IsWord(p) BY <2>1, <2>3, TokenKind
    <3> QED BY <2>1, <2>2, <2>3, <3>1, SameClasses DEF Scan!IsWord
  <2>5. CASE e <= i
    <3>1. \A k \in 1 .. e - start : start + k \in start + 1 .. i BY <1>t, <2>5
    <3> QED BY <1>4, <2>4, <2>5, <3>1 DEF p
  <2>6. CASE ~ (e <= i)
    <3>1. i - start + 1 \in 1 .. e - start /\ start + (i - start + 1) = i + 1 /\ i < Len(text)
      BY <1>t, <2>6
    <3>2. text[start + (i - start + 1)] \notin WordChars BY <1>t, <1>1, <3>1
    <3> QED BY <2>4, <2>6, <3>1, <3>2 DEF p
  <2> QED BY <2>5, <2>6
<1>7. Scan!Ends # {} /\ Scan!Max(Scan!Ends) = i
  <2>1. i \in Read + 1 .. Len(text) /\ Scan!IsToken(Scan!Piece(Read, i))
    BY <1>t, <1>2, <1>3, <1>6
  <2>2. \A f \in i + 1 .. Len(text) : ~ Scan!IsToken(Scan!Piece(Read, f))
    <3>1. \A f \in i + 1 .. Len(text) : f \in start + 1 .. Len(text) /\ ~ (f <= i) BY <1>t
    <3> QED BY <1>2, <1>6, <3>1
  <2> QED BY <1>t, <1>2, <2>1, <2>2, Longest
<1>8. ~ Scan!InComment
  <2>1. text[start + 1] # "/" BY <1>4, Apart DEF WordChars
  <2> QED BY <1>t, <1>2, <2>1, CommentIs
<1>9. s[1] \in Alpha /\ Scan!IsWord(s) /\ ~ Scan!IsQuoted(s)
  <2>1. 1 \in 1 .. i - start BY <1>t, <1>3
  <2>2. s[1] \in Alpha BY <1>4, <1>5, <2>1
  <2>3. Scan!IsToken(s) BY <1>t, <1>3, <1>6
  <2>4. Scan!IsWord(s) BY <1>5, <2>2, <2>3, TokenKind
  <2> QED BY <2>2, <2>4, Apart, SameEscapes DEF Scan!IsQuoted, WordChars
<1>10. \A k \in start + 1 .. i : text[k] # NUL /\ text[k] # "\n" BY <1>4, Classes
<1>11. BlocksKept' /\ Seen' = Append(Seen, [kind |-> WordKind(s), int_lit |-> 0, ln |-> ln,
                                            lexeme |-> s])
  <2>1. /\ Lexed(store', used + 1) = s /\ Whole(store', used + 1, used') /\ used + 1 # 0
    BY <1>1, <1>5, <1>10, LexedNew
  <2>2. add_token(WordKind(s), used + 1, 0) BY <1>1, <1>5
  <2> HIDE DEF s
  <2>3. /\ BlocksKept'
        /\ Seen' = Append(Seen, [kind |-> WordKind(s), int_lit |-> 0, ln |-> ln,
                                 lexeme |-> Lexed(store', used + 1)])
    BY <1>1, <2>1, <2>2, WithBlock
  <2> QED BY <2>1, <2>3
<1>12. Scan!Lines(Scan!Piece(0, Read)) = ln
  <2>1. Read \in 0 .. i BY <1>t, <1>2
  <2> QED BY <1>2, <1>10, <2>1, LineOf
<1>13. Scan!TokenOf(s) = [kind |-> WordKind(s), int_lit |-> 0, ln |-> ln, lexeme |-> s]
  <2> HIDE DEF s
  <2>1. Scan!TokenOf(s) = Scan!Token(Scan!WordKind(s), s, 0) BY <1>9, Arms
  <2>2. Scan!WordKind(s) = WordKind(s) BY SameTables
  <2> QED BY <1>12, <2>1, <2>2 DEF Scan!Token
<1> QED BY <1>1, <1>2, <1>7, <1>8, <1>9, <1>11, <1>13, Taken

Base == [hex |-> 16, binary |-> 2, octal |-> 8, decimal |-> 10]

\* What get_digit has gone over, and more of the text behind it, as a number.
LEMMA NumberIs ==
  ASSUME PosInv, NumberTaken, mode \in Numbers, NEW e \in Nat, i <= e, start < e,
         e <= Len(text), NEW p, p = Scan!Piece(start, e)
  PROVE  /\ p \in Seq(STRING) /\ p[1] \in Digits /\ text[start + 1] \in Digits
         /\ Scan!Radix(p) = Base[mode]
         /\ Scan!Numeral(p) = IF mode \in {"hex", "binary"} THEN SubSeq(p, 3, Len(p)) ELSE p
         /\ Scan!IsNumber(p) <=> \A k \in i + 1 .. e : text[k] \in DigitsOf[mode]
         /\ \A k \in start + 1 .. i : text[k] # NUL /\ text[k] # "\n"
<1>t. /\ i \in Nat /\ start \in Nat /\ start <= i /\ start <= e /\ Len(text) \in Nat
      /\ mode \in {"hex", "binary", "octal", "decimal"}
  BY Looked, NumberModes
<1> DEFINE n == e - start
<1>1. p \in Seq(STRING) /\ Len(p) = n /\ \A k \in 1 .. n : p[k] = text[start + k]
  BY <1>t, PieceIs
<1>n. n \in Nat /\ n >= 1 BY <1>t
<1>d. DOMAIN p = 1 .. n BY <1>1, LenProperties
<1> HIDE DEF n
<1>2. p[1] = text[start + 1] BY <1>n, <1>1
<1>3. n >= 2 => p[2] = text[start + 2] BY <1>n, <1>1
<1>c. "0" \in Digits /\ NUL \notin Digits /\ "\n" \notin Digits
      /\ \A x \in {"x", "X", "b", "B"} : x # NUL /\ x # "\n"
  BY DEF Digits, Octals, NUL
<1>4. CASE mode \in {"hex", "binary"}
  <2>1. /\ start + 2 <= i /\ text[start + 1] = "0"
        /\ text[start + 2] \in (IF mode = "hex" THEN {"x", "X"} ELSE {"b", "B"})
        /\ \A k \in start + 3 .. i : text[k] \in DigitsOf[mode]
    BY <1>4 DEF NumberTaken
  <2>2. n >= 2 /\ ~ (n = 1) BY <1>t, <2>1 DEF n
  <2>3. Scan!Radix(p) = Base[mode]
    <3>1. p[1] = "0" /\ ~ (Len(p) = 1)
          /\ p[2] \in (IF mode = "hex" THEN {"x", "X"} ELSE {"b", "B"})
      BY <1>1, <1>2, <1>3, <2>1, <2>2
    <3> QED BY <1>4, <3>1 DEF Scan!Radix, Base
  <2>4. Scan!Radix(p) \in {2, 16} BY <1>4, <2>3 DEF Base
  <2>5. Scan!Numeral(p) = SubSeq(p, 3, Len(p)) BY <2>4 DEF Scan!Numeral
  <2> DEFINE d == Scan!Numeral(p)
  <2>6. d \in Seq(STRING) /\ Len(d) = n - 2 /\ \A k \in 1 .. n - 2 : d[k] = text[start + (k + 2)]
    <3>1. 3 \in Nat /\ 3 >= 1 /\ n \in Nat /\ 3 <= n + 1 /\ n <= Len(p) BY <1>1, <1>n, <2>2
    <3>2. /\ SubSeq(p, 3, n) \in Seq(STRING) /\ Len(SubSeq(p, 3, n)) = n - 3 + 1
          /\ \A k \in 1 .. n - 3 + 1 : SubSeq(p, 3, n)[k] = p[3 + k - 1]
      BY <1>1, <3>1, Slice
    <3>3. n - 3 + 1 = n - 2 /\ \A k \in 1 .. n - 2 : 3 + k - 1 = k + 2 /\ k + 2 \in 1 .. n
      BY <1>n, <2>2
    <3>4. d = SubSeq(p, 3, n) BY <1>1, <2>5
    <3> HIDE DEF d
    <3>5. Len(d) = n - 2 /\ \A k \in 1 .. n - 2 : d[k] = p[k + 2] BY <3>2, <3>3, <3>4
    <3> QED BY <1>1, <3>2, <3>3, <3>4, <3>5
  <2>7. DOMAIN d = 1 .. n - 2 BY <2>6, LenProperties
  <2> HIDE DEF d
  <2>8. Scan!IsNumber(p) <=> \A k \in 1 .. n - 2 : d[k] \in DigitsOf[mode]
    <3> DEFINE digits == CASE Scan!Radix(p) = 16 -> HexDigits [] Scan!Radix(p) = 2 -> {"0", "1"}
                           [] OTHER -> Digits
    <3>1. digits = DigitsOf[mode]
      <4>1. CASE mode = "hex"
        <5>1. Scan!Radix(p) = 16 /\ ~ (Scan!Radix(p) = 2) BY <2>3, <4>1 DEF Base
        <5>2. digits = HexDigits BY <5>1
        <5> QED BY <4>1, <5>2 DEF DigitsOf
      <4>2. CASE mode = "binary"
        <5>1. Scan!Radix(p) = 2 /\ ~ (Scan!Radix(p) = 16) BY <2>3, <4>2 DEF Base
        <5>2. digits = {"0", "1"} BY <5>1
        <5> QED BY <4>2, <5>2 DEF DigitsOf
      <4> QED BY <1>4, <4>1, <4>2
    <3> QED BY <1>2, <1>c, <2>1, <2>7, <3>1, SameClasses DEF Scan!IsNumber, d
  <2>9. (\A k \in 1 .. n - 2 : d[k] \in DigitsOf[mode])
          <=> \A k \in i + 1 .. e : text[k] \in DigitsOf[mode]
    <3>1. \A k \in 1 .. n - 2 :
            start + (k + 2) \in start + 3 .. i \/ start + (k + 2) \in i + 1 .. e
      BY <1>t, <2>1 DEF n
    <3>2. \A k \in i + 1 .. e : k - start - 2 \in 1 .. n - 2 /\ start + ((k - start - 2) + 2) = k
      BY <1>t, <2>1 DEF n
    <3>3. \A k \in 1 .. n - 2 : d[k] = text[start + (k + 2)] BY <2>6
    <3>4. ASSUME \A k \in i + 1 .. e : text[k] \in DigitsOf[mode], NEW k \in 1 .. n - 2
          PROVE  d[k] \in DigitsOf[mode]
      BY <2>1, <3>1, <3>3, <3>4
    <3>5. ASSUME \A k \in 1 .. n - 2 : d[k] \in DigitsOf[mode], NEW k \in i + 1 .. e
          PROVE  text[k] \in DigitsOf[mode]
      <4> DEFINE j == k - start - 2
      <4>1. j \in 1 .. n - 2 /\ start + (j + 2) = k BY <3>2
      <4> HIDE DEF j
      <4>2. d[j] = text[k] BY <3>3, <4>1
      <4> QED BY <3>5, <4>1, <4>2
    <3> QED BY <3>4, <3>5
  <2>10. ASSUME NEW k \in start + 1 .. i PROVE text[k] # NUL /\ text[k] # "\n"
    <3>1. k = start + 1 \/ k = start + 2 \/ k \in start + 3 .. i BY <1>t
    <3>2. text[start + 2] \in {"x", "X", "b", "B"} BY <2>1
    <3> QED BY <1>c, <2>1, <3>1, <3>2, Classes
  <2> QED BY <1>1, <1>2, <1>4, <1>c, <2>1, <2>3, <2>5, <2>8, <2>9, <2>10
<1>5. CASE mode \in {"octal", "decimal"}
  <2>1. /\ \A k \in start + 1 .. i : text[k] \in Digits
        /\ text[start + 1] \in Digits
        /\ mode = "octal" => /\ text[start + 1] = "0"
                             /\ start + 2 <= Len(text) => text[start + 2] \notin {"x", "X", "b", "B"}
        /\ mode = "decimal" => text[start + 1] # "0"
    BY <1>5, <1>c DEF NumberTaken, buf_len
  <2>2. Scan!Radix(p) = Base[mode]
    <3>1. mode = "decimal" => p[1] # "0" BY <1>2, <2>1
    <3>2. mode = "octal" => p[1] = "0" /\ (Len(p) = 1 \/ p[2] \notin {"x", "X", "b", "B"})
      <4>1. n = 1 \/ (n >= 2 /\ start + 2 <= Len(text)) BY <1>t, <1>n DEF n
      <4> QED BY <1>1, <1>2, <1>3, <2>1, <4>1
    <3> QED BY <1>5, <3>1, <3>2 DEF Scan!Radix, Base
  <2>3. Scan!Radix(p) \notin {2, 16} /\ DigitsOf[mode] = Digits BY <1>5, <2>2 DEF Base, DigitsOf
  <2>4. Scan!Numeral(p) = p BY <2>3 DEF Scan!Numeral
  <2>5. Scan!IsNumber(p) <=> \A k \in 1 .. n : p[k] \in Digits
    <3>1. (CASE Scan!Radix(p) = 16 -> HexDigits [] Scan!Radix(p) = 2 -> {"0", "1"}
             [] OTHER -> Digits) = Digits
      BY <2>3
    <3> QED BY <1>2, <1>d, <2>1, <2>4, <3>1, SameClasses DEF Scan!IsNumber
  <2>6. (\A k \in 1 .. n : p[k] \in Digits) <=> \A k \in i + 1 .. e : text[k] \in Digits
    <3>1. \A k \in 1 .. n : start + k \in start + 1 .. i \/ start + k \in i + 1 .. e
      BY <1>t DEF n
    <3>2. \A k \in i + 1 .. e : k - start \in 1 .. n /\ start + (k - start) = k BY <1>t DEF n
    <3> QED BY <1>1, <2>1, <3>1, <3>2
  <2>7. mode \notin {"hex", "binary"} BY <1>5
  <2> QED BY <1>1, <1>2, <1>c, <2>1, <2>2, <2>3, <2>4, <2>5, <2>6, <2>7
<1> QED BY <1>t, <1>4, <1>5

LEMMA NumberValue ==
  ASSUME mode \in Numbers, NEW s, Scan!Radix(s) = Base[mode],
         Scan!Numeral(s) = IF mode \in {"hex", "binary"} THEN SubSeq(s, 3, Len(s)) ELSE s
  PROVE  IntLit(s) = Scan!ValueOf(s)
<1>1. \A d, base, limit : Scan!strtoull(d, base, limit) = strtoull(d, base, limit) BY SameValue
<1>2. Scan!Prefix(s, Scan!Octals) = Prefix(s, Octals) BY SamePrefix, SameClasses
<1>3. Scan!ValueOf(s) = strtoull(IF Scan!Radix(s) = 8 THEN Prefix(s, Octals) ELSE Scan!Numeral(s),
                                 Scan!Radix(s), WordMod - 1)
  BY <1>1, <1>2, Zenon DEF Scan!ValueOf
<1>4. CASE mode = "hex" BY <1>3, <1>4 DEF IntLit, Base
<1>5. CASE mode = "binary" BY <1>3, <1>5 DEF IntLit, Base
<1>6. CASE mode = "octal" BY <1>3, <1>6 DEF IntLit, Base
<1>7. CASE mode = "decimal" BY <1>3, <1>7 DEF IntLit, Base
<1> QED BY <1>4, <1>5, <1>6, <1>7, NumberModes

LEMMA NumberTake ==
  ASSUME PosInv, StoreInv, StoreInv', LinesCounted, NumberTaken, BlocksKept, EndDigits
  PROVE  Scan!Next /\ BlocksKept'
<1>t. /\ i \in Nat /\ start \in Nat /\ start <= i /\ i <= Len(text) /\ Len(text) \in Nat
      /\ i < Len(text) => c = text[i + 1]
  BY Looked
<1>1. /\ mode \in Numbers /\ mode' = "lexer" /\ i' = i /\ text' = text /\ c \notin DigitsOf[mode]
      /\ Allocate /\ add_token("INT", used + 1, IntLit(SubSeq(text, start + 1, i))) /\ Next
  BY DEF EndDigits, To, scan, Next, Numbers
<1>2. Read = start /\ Read' = i /\ Outcome = "running" /\ Outcome' = "running"
  BY <1>1, NumberModes DEF Read, Outcome
<1>3. i > start BY <1>1 DEF PosInv
<1> DEFINE s == Scan!Piece(start, i)
<1>5. s = SubSeq(text, start + 1, i) BY <1>t, PieceIs
<1>6. ASSUME NEW e \in i .. Len(text)
      PROVE  /\ text[start + 1] \in Digits /\ Scan!Piece(start, e)[1] \in Digits
             /\ Scan!Radix(Scan!Piece(start, e)) = Base[mode]
             /\ LET p == Scan!Piece(start, e)
                IN Scan!Numeral(p) = IF mode \in {"hex", "binary"} THEN SubSeq(p, 3, Len(p)) ELSE p
             /\ Scan!IsToken(Scan!Piece(start, e)) <=> e = i
             /\ Scan!IsNumber(Scan!Piece(start, e)) <=> e = i
             /\ \A k \in start + 1 .. i : text[k] # NUL /\ text[k] # "\n"
  <2> DEFINE p == Scan!Piece(start, e)
  <2>0. e \in Nat /\ i <= e /\ start < e /\ e <= Len(text) BY <1>t, <1>3
  <2>1. p = Scan!Piece(start, e) OBVIOUS
  <2> HIDE DEF p
  <2>2. /\ p \in Seq(STRING)
        /\ p[1] \in Digits /\ text[start + 1] \in Digits /\ Scan!Radix(p) = Base[mode]
        /\ Scan!Numeral(p) = IF mode \in {"hex", "binary"} THEN SubSeq(p, 3, Len(p)) ELSE p
        /\ Scan!IsNumber(p) <=> \A k \in i + 1 .. e : text[k] \in DigitsOf[mode]
        /\ \A k \in start + 1 .. i : text[k] # NUL /\ text[k] # "\n"
    BY <1>1, <2>0, <2>1, NumberIs
  <2>3. Scan!IsNumber(p) <=> e = i
    <3>1. CASE e = i
      <4>1. \A k \in i + 1 .. e : FALSE BY <1>t, <3>1
      <4> QED BY <2>2, <3>1, <4>1
    <3>2. CASE e # i
      <4>1. i + 1 \in i + 1 .. e /\ i < Len(text) BY <1>t, <2>0, <3>2
      <4>2. text[i + 1] \notin DigitsOf[mode] BY <1>t, <1>1, <4>1
      <4> QED BY <2>2, <3>2, <4>1, <4>2
    <3> QED BY <3>1, <3>2
  <2>4. Scan!IsToken(p) <=> Scan!IsNumber(p) BY <2>2, TokenKind
  <2> QED BY <2>1, <2>2, <2>3, <2>4
<1>7. i \in i .. Len(text) BY <1>t
<1>8. Scan!Ends # {} /\ Scan!Max(Scan!Ends) = i
  <2>1. i \in Read + 1 .. Len(text) /\ Scan!IsToken(Scan!Piece(Read, i))
    BY <1>t, <1>2, <1>3, <1>6, <1>7
  <2>2. \A f \in i + 1 .. Len(text) : ~ Scan!IsToken(Scan!Piece(Read, f))
    <3>1. \A f \in i + 1 .. Len(text) : f \in i .. Len(text) /\ f # i BY <1>t
    <3> QED BY <1>2, <1>6, <3>1
  <2> QED BY <1>t, <1>2, <2>1, <2>2, Longest
<1>9. ~ Scan!InComment
  <2>1. text[start + 1] # "/" BY <1>6, <1>7, Apart DEF WordChars
  <2> QED BY <1>t, <1>2, <2>1, CommentIs
<1>10. /\ s[1] \in Digits /\ Scan!IsNumber(s) /\ Scan!Radix(s) = Base[mode]
       /\ Scan!Numeral(s) = IF mode \in {"hex", "binary"} THEN SubSeq(s, 3, Len(s)) ELSE s
       /\ \A k \in start + 1 .. i : text[k] # NUL /\ text[k] # "\n"
  BY <1>6, <1>7
<1> HIDE DEF s
<1>11. ~ Scan!IsQuoted(s) BY <1>10, Apart, SameEscapes DEF Scan!IsQuoted, WordChars
<1>12. IntLit(s) = Scan!ValueOf(s) BY <1>1, <1>10, NumberValue
<1>13. BlocksKept' /\ Seen' = Append(Seen, [kind |-> "INT", int_lit |-> IntLit(s), ln |-> ln,
                                            lexeme |-> s])
  <2>1. /\ Lexed(store', used + 1) = s /\ Whole(store', used + 1, used') /\ used + 1 # 0
    BY <1>1, <1>5, <1>10, LexedNew
  <2>2. add_token("INT", used + 1, IntLit(s)) BY <1>1, <1>5
  <2> DEFINE val == IntLit(s)
  <2> HIDE DEF val
  <2>3. /\ BlocksKept'
        /\ Seen' = Append(Seen, [kind |-> "INT", int_lit |-> val, ln |-> ln,
                                 lexeme |-> Lexed(store', used + 1)])
    BY <1>1, <2>1, <2>2, WithBlock DEF val
  <2> QED BY <2>1, <2>3 DEF val
<1>14. Scan!Lines(Scan!Piece(0, Read)) = ln
  <2>1. Read \in 0 .. i BY <1>t, <1>2
  <2> QED BY <1>2, <1>10, <2>1, LineOf
<1>15. Scan!TokenOf(s) = [kind |-> "INT", int_lit |-> IntLit(s), ln |-> ln, lexeme |-> s]
  <2>1. Scan!TokenOf(s) = Scan!Token("INT", s, Scan!ValueOf(s)) BY <1>10, Arms
  <2> QED BY <1>12, <1>14, <2>1 DEF Scan!Token
<1> QED BY <1>1, <1>2, <1>8, <1>9, <1>11, <1>13, <1>15, Taken DEF s

-----------------------------------------------------------------------------
(* Quoted text is taken                                                     *)

\* The quoted text that get_string has read is the longest token where it starts.
LEMMA QuotedEnds ==
  ASSUME PosInv, StoreInv, LinesCounted, Unescaping, mode = "unescape"
  PROVE  /\ Read = start - 1 /\ Lit = Scan!Piece(Read, i) /\ Lit \in Seq(STRING)
         /\ Scan!IsQuoted(Lit) /\ Lit[1] = q /\ q \in Quotes
         /\ Scan!Ends # {} /\ Scan!Max(Scan!Ends) = i /\ ~ Scan!InComment
         /\ Scan!Lines(Scan!Piece(0, Read)) = ln
         /\ Read < Len(text) /\ text[Read + 1] \in Quotes
<1>t. /\ i \in Nat /\ start \in Nat /\ start >= 1 /\ start <= i /\ i <= Len(text)
      /\ Len(text) \in Nat /\ text \in Seq(STRING) /\ i > start /\ q \in Quotes
  BY Looked DEF PosInv
<1>1. Read = start - 1 /\ Scan!IsQuoted(Lit) BY DEF Read, Unescaping
<1> DEFINE a == start - 1
           n == i - start + 1
           s == Lit
<1>n. a \in Nat /\ a + 1 = start /\ n \in Nat /\ n >= 2 /\ i - a = n /\ a <= i /\ a < i BY <1>t
<1>2. s \in Seq(STRING) /\ Len(s) = n /\ \A k \in 1 .. n : s[k] = text[start + k - 1]
  BY <1>t, LitIs
<1>3. s = Scan!Piece(a, i)
  <2>1. Scan!Piece(a, i) = SubSeq(text, a + 1, i) BY <1>t, <1>n, PieceIs
  <2> QED BY <1>n, <2>1 DEF Lit
<1> HIDE DEF a, n, s
<1>4. /\ s[1] = q /\ s[n] = q
      /\ \A k \in 2 .. n : s[k] # "\n" /\ (s[k] = q => (k = n) # Scan!Escaped(s, k))
  <2>1. 1 \in 1 .. n /\ start + 1 - 1 = start BY <1>t, <1>n
  <2>2. s[1] = q BY <1>2, <2>1 DEF q
  <2>3. Scan!IsQuoted(s) BY <1>1 DEF s
  <2> QED BY <1>2, <2>2, <2>3 DEF Scan!IsQuoted
<1>5. ~ Scan!Escaped(s, n)
  <2>1. n \in 2 .. n BY <1>n
  <2> QED BY <1>4, <2>1
<1>6. ASSUME NEW f \in i + 1 .. Len(text) PROVE ~ Scan!IsToken(Scan!Piece(a, f))
  <2> DEFINE p == Scan!Piece(a, f)
  <2>1. f \in Nat /\ a <= f /\ f <= Len(text) /\ f - a >= n + 1 BY <1>t, <1>n
  <2>2. p \in Seq(STRING) /\ Len(p) = f - a /\ \A k \in 1 .. f - a : p[k] = text[a + k]
    BY <1>n, <2>1, PieceIs
  <2> HIDE DEF p
  <2>3. \A k \in 1 .. n : p[k] = s[k]
    <3>1. \A k \in 1 .. n : k \in 1 .. f - a /\ a + k = start + k - 1 BY <1>t, <1>n, <2>1
    <3> QED BY <1>2, <2>2, <3>1
  <2>4. p[1] = q /\ p[n] = q /\ 1 \in 1 .. n /\ n \in 1 .. n BY <1>n, <1>4, <2>3
  <2>5. Scan!IsToken(p) <=> Scan!IsQuoted(p) BY <1>t, <2>2, <2>4, TokenKind
  <2>6. Scan!Escaped(p, n) <=> Scan!Escaped(s, n)
    <3>1. \A j \in 2 .. n - 1 : p[j] = s[j] BY <1>n, <2>3
    <3> QED BY <1>n, <3>1, EscapedBefore
  <2>7. ~ Scan!IsQuoted(p)
    <3>1. n \in 2 .. Len(p) /\ n # Len(p) BY <1>n, <2>1, <2>2
    <3>2. Scan!IsQuoted(p) => (n = Len(p)) # Scan!Escaped(p, n)
      BY <2>4, <3>1, Zenon DEF Scan!IsQuoted
    <3>3. ~ Scan!Escaped(p, n) BY <1>5, <2>6
    <3>4. Scan!Escaped(p, n) \in BOOLEAN BY DEF Scan!Escaped
    <3> QED BY <3>1, <3>2, <3>3, <3>4
  <2> QED BY <2>5, <2>7 DEF p
<1>7. Scan!Ends # {} /\ Scan!Max(Scan!Ends) = i
  <2>1. Scan!IsToken(s) BY <1>1 DEF Scan!IsToken, s
  <2>2. i \in Read + 1 .. Len(text) /\ Read \in Nat BY <1>t, <1>1, <1>n DEF a
  <2>3. Scan!IsToken(Scan!Piece(Read, i)) BY <1>1, <1>3, <2>1 DEF a
  <2>4. \A f \in i + 1 .. Len(text) : ~ Scan!IsToken(Scan!Piece(Read, f)) BY <1>1, <1>6 DEF a
  <2> QED BY <1>t, <2>2, <2>3, <2>4, Longest
<1>8. ~ Scan!InComment
  <2>1. text[start] # "/" BY <1>t, Apart DEF q
  <2>2. Read \in 0 .. Len(text) /\ Read + 1 = start BY <1>t, <1>1
  <2> QED BY <2>1, <2>2, CommentIs
<1>9. Scan!Lines(Scan!Piece(0, Read)) = ln
  <2>1. ASSUME NEW k \in Read + 1 .. i PROVE text[k] # "\n"
    <3>1. k - start + 1 \in 1 .. n /\ start + (k - start + 1) - 1 = k BY <1>t, <1>1 DEF n
    <3>2. s[k - start + 1] = text[k] BY <1>2, <3>1
    <3>3. k - start + 1 = 1 \/ k - start + 1 \in 2 .. n BY <1>t, <3>1
    <3> QED BY <1>t, <1>4, <3>2, <3>3, Classes
  <2>2. Read \in 0 .. i BY <1>t, <1>1
  <2> QED BY <2>1, <2>2, LineOf
<1>10. Read < Len(text) /\ text[Read + 1] \in Quotes
  <2>1. Read + 1 = start /\ Read < Len(text) BY <1>t, <1>1
  <2> QED BY <1>t, <2>1 DEF q
<1> QED BY <1>t, <1>1, <1>2, <1>3, <1>4, <1>7, <1>8, <1>9, <1>10 DEF s, a

LEMMA StringTake ==
  ASSUME PosInv, StoreInv, StoreInv', LinesCounted, Unescaping, BlocksKept, EndString
  PROVE  Scan!Next /\ BlocksKept'
<1> DEFINE dq == "\""
           strings == {k \in DOMAIN tokens : tokens[k].kind = "STRING"}
           b == string
           u == store'
           val == Code[u[b + 1]] % WordMod
<1>1. /\ mode = "unescape" /\ used' = used /\ mode' = "lexer" /\ i' = i /\ text' = text /\ Next
  BY Zenon DEF EndString, To, scan, Next
<1>2. \/ q = dq /\ add_token("STRING", b + 1, 1 + Cardinality(strings))
      \/ q = "'" /\ add_token("INT", b + 1, val)
  BY Zenon DEF EndString
<1>3. /\ Read = start - 1 /\ Lit = Scan!Piece(Read, i) /\ Lit[1] = q /\ q \in Quotes
      /\ Scan!Ends # {} /\ Scan!Max(Scan!Ends) = i /\ ~ Scan!InComment
      /\ Scan!Lines(Scan!Piece(0, Read)) = ln
  BY <1>1, QuotedEnds
<1>4. /\ Scan!IsQuoted(Lit) /\ Scan!EscapesKnown(Lit)
      /\ Lexed(u, b + 1) = Scan!Quoted(Lit)
      /\ Whole(u, b + 1, used) /\ b + 1 # 0
      /\ IF u[b + 1] = NUL THEN Scan!Quoted(Lit) = <<>>
         ELSE Scan!Quoted(Lit) # <<>> /\ Scan!Quoted(Lit)[1] = u[b + 1]
  BY LexedQuoted
<1>5. Read' = i /\ Outcome = "running" /\ Outcome' = "running" BY <1>1 DEF Read, Outcome
<1>6. Scan!Strings(Seen) = Cardinality(strings)
  <2>1. DOMAIN Seen = DOMAIN tokens /\ \A k \in DOMAIN tokens : Seen[k].kind = tokens[k].kind
    BY DEF Seen
  <2>2. {k \in DOMAIN Seen : Seen[k].kind = "STRING"} = strings BY <2>1
  <2> QED BY <2>2, CardinalityIs DEF Scan!Strings
<1>7. Cardinality(strings) \in Nat
  <2>1. PICK S : tokens \in Seq(S) BY DEF BlocksKept
  <2>2. DOMAIN tokens = 1 .. Len(tokens) /\ Len(tokens) \in Nat BY <2>1, LenProperties
  <2>3. IsFiniteSet(1 .. Len(tokens)) /\ strings \subseteq 1 .. Len(tokens)
    BY <2>2, FS_Interval
  <2> QED BY <2>3, FS_Subset, FS_CardinalityType
<1>8. Scan!CharValue(Scan!Quoted(Lit)) = val
  <2>1. Scan!CharValue(Scan!Quoted(Lit)) =
          (IF Scan!Quoted(Lit) = <<>> THEN 0 ELSE Code[Scan!Quoted(Lit)[1]]) % WordMod
    BY DEF Scan!CharValue
  <2> QED BY <1>4, <2>1, CodeAssumption
<1>9. \A kind, x : Scan!Token(kind, Scan!Quoted(Lit), x) =
        [kind |-> kind, int_lit |-> x, ln |-> ln, lexeme |-> Scan!Quoted(Lit)]
  BY <1>3 DEF Scan!Token
<1>10. ASSUME NEW kind, NEW x, add_token(kind, b + 1, x),
              Scan!TokenOf(Lit) = Scan!Token(kind, Scan!Quoted(Lit), x)
       PROVE  Scan!Next /\ BlocksKept'
  <2>1. u = store' /\ Whole(store', b + 1, used') BY <1>1, <1>4
  <2> HIDE DEF u, b
  <2>2. /\ BlocksKept'
        /\ Seen' = Append(Seen, [kind |-> kind, int_lit |-> x, ln |-> ln,
                                 lexeme |-> Lexed(store', b + 1)])
    BY <1>1, <1>4, <1>10, <2>1, WithBlock
  <2>3. Seen' = Append(Seen, Scan!TokenOf(Lit)) BY <1>4, <1>9, <1>10, <2>1, <2>2
  <2> QED BY <1>1, <1>3, <1>4, <1>5, <2>2, <2>3, Taken
<1>11. CASE q = dq /\ add_token("STRING", b + 1, 1 + Cardinality(strings))
  <2>1. Scan!TokenOf(Lit) = Scan!Token("STRING", Scan!Quoted(Lit), Scan!Strings(Seen) + 1)
    BY <1>3, <1>4, <1>11, Arms, Zenon
  <2> HIDE DEF strings, dq
  <2>2. Scan!Strings(Seen) + 1 = 1 + Cardinality(strings) BY <1>6, <1>7
  <2> QED BY <1>10, <1>11, <2>1, <2>2
<1>12. CASE q = "'" /\ add_token("INT", b + 1, val)
  <2>1. Scan!TokenOf(Lit) = Scan!Token("INT", Scan!Quoted(Lit), val)
    BY <1>3, <1>4, <1>8, <1>12, Arms, Zenon
  <2> HIDE DEF val
  <2> QED BY <1>10, <1>12, <2>1
<1> QED BY <1>2, <1>11, <1>12, Zenon

-----------------------------------------------------------------------------
(* A symbol is taken                                                        *)

LEMMA DoubleLength == \A p \in DOMAIN Double : Len(p) = 2
<1>1. DOMAIN Double = {<<"+", "+">>, <<"-", "-">>, <<"!", "=">>, <<"=", "=">>, <<"<", "=">>,
                       <<"<", "<">>, <<">", "=">>, <<">", ">">>}
  BY DEF Double, Table
<1> QED BY <1>1

LEMMA SymbolEnds ==
  ASSUME PosInv, AtToken, c \notin Spaces \cup WordChars \cup Quotes,
         NEW e, e = i + (IF <<c, peak(1)>> \in DOMAIN Double THEN 2 ELSE 1),
         NEW s, s = Scan!Piece(i, e)
  PROVE  /\ Read = i /\ Scan!Ends # {} /\ Scan!Max(Scan!Ends) = e
         /\ s \in Seq(STRING) /\ s[1] = c
         /\ s \in DOMAIN Double <=> <<c, peak(1)>> \in DOMAIN Double
         /\ s \in DOMAIN Double => s = <<c, peak(1)>>
<1> DEFINE two == <<c, peak(1)>>
<1>t. /\ i \in Nat /\ Len(text) \in Nat /\ i < Len(text) /\ text \in Seq(STRING)
      /\ c = text[i + 1]
      /\ i + 1 < Len(text) => peak(1) = text[i + 2]
      /\ ~ (i + 1 < Len(text)) => peak(1) = NUL
  BY Looked DEF AtToken, buf_len
<1>1. two \in DOMAIN Double => i + 1 < Len(text)
  <2>1. two[2] = peak(1) OBVIOUS
  <2> QED BY <1>t, <2>1, Doubles
<1>2. ASSUME i + 1 < Len(text) PROVE Scan!Piece(i, i + 2) = two
  <2>1. /\ i + 1 \in Nat /\ i + 1 >= 1 /\ (i + 1) + 1 = i + 2 /\ (i + 1) + 1 <= Len(text)
        /\ i + 2 \in Nat /\ i <= i + 2 /\ i + 2 <= Len(text)
    BY <1>t, <1>2
  <2>2. SubSeq(text, i + 1, (i + 1) + 1) = <<text[i + 1], text[(i + 1) + 1]>>
    BY <1>t, <2>1, Pair
  <2>3. Scan!Piece(i, i + 2) = SubSeq(text, i + 1, i + 2) BY <1>t, <2>1, PieceIs
  <2> QED BY <1>t, <1>2, <2>1, <2>2, <2>3
<1> HIDE DEF two
<1>3. ASSUME NEW f \in i + 1 .. Len(text)
      PROVE  /\ Scan!Piece(i, f) \in Seq(STRING) /\ Scan!Piece(i, f)[1] = c
             /\ Scan!Piece(i, f) \in DOMAIN Double <=> f = i + 2 /\ two \in DOMAIN Double
             /\ Scan!IsToken(Scan!Piece(i, f)) <=> f = i + 1 \/ (f = i + 2 /\ two \in DOMAIN Double)
  <2> DEFINE p == Scan!Piece(i, f)
  <2>1. f \in Nat /\ i <= f /\ f <= Len(text) /\ 1 \in 1 .. f - i BY <1>t
  <2>2. p \in Seq(STRING) /\ Len(p) = f - i /\ \A k \in 1 .. f - i : p[k] = text[i + k]
    BY <1>t, <2>1, PieceIs
  <2> HIDE DEF p
  <2>3. p[1] = c BY <1>t, <2>1, <2>2
  <2>4. p \in DOMAIN Double <=> f = i + 2 /\ two \in DOMAIN Double
    <3>1. p \in DOMAIN Double => f = i + 2
      <4>1. p \in DOMAIN Double => Len(p) = 2 BY DoubleLength
      <4> QED BY <1>t, <2>1, <2>2, <4>1
    <3>2. f = i + 2 => p = two
      <4>1. f = i + 2 => i + 1 < Len(text) BY <1>t, <2>1
      <4> QED BY <1>2, <4>1 DEF p
    <3> QED BY <3>1, <3>2
  <2>5. Scan!IsToken(p) <=> Len(p) = 1 \/ p \in DOMAIN Double BY <2>2, <2>3, TokenKind
  <2>6. Len(p) = 1 <=> f = i + 1 BY <1>t, <2>1, <2>2
  <2> QED BY <2>2, <2>3, <2>4, <2>5, <2>6 DEF p
<1>4. e = IF two \in DOMAIN Double THEN i + 2 ELSE i + 1 BY <1>t DEF two
<1>5. e \in i + 1 .. Len(text) BY <1>t, <1>1, <1>4
<1>6. Read = i BY DEF Read, AtToken
<1>7. Scan!IsToken(Scan!Piece(i, e)) BY <1>t, <1>3, <1>4, <1>5
<1>8. ASSUME NEW f \in e + 1 .. Len(text) PROVE ~ Scan!IsToken(Scan!Piece(i, f))
  <2>1. f \in i + 1 .. Len(text) /\ f # i + 1 /\ ~ (f = i + 2 /\ two \in DOMAIN Double)
    BY <1>t, <1>4, <1>5
  <2> QED BY <1>3, <2>1
<1>9. Scan!Ends # {} /\ Scan!Max(Scan!Ends) = e BY <1>t, <1>5, <1>6, <1>7, <1>8, Longest
<1>10. s \in DOMAIN Double <=> two \in DOMAIN Double
  <2>1. e = i + 2 <=> two \in DOMAIN Double BY <1>t, <1>4
  <2> QED BY <1>3, <1>5, <2>1
<1>11. s \in DOMAIN Double => s = two BY <1>1, <1>2, <1>4, <1>10
<1> QED BY <1>3, <1>5, <1>6, <1>9, <1>10, <1>11 DEF two

LEMMA SymbolTake ==
  ASSUME PosInv, StoreInv, StoreInv', LinesCounted, BlocksKept, Symbol
  PROVE  Scan!Next /\ BlocksKept'
<1> DEFINE two == <<c, peak(1)>>
           double == two \in DOMAIN Double
           kind == IF double THEN Double[two]
                   ELSE IF c \in DOMAIN Single THEN Single[c] ELSE "UNKNOWN"
           tok == [kind |-> kind, lexeme |-> 0, int_lit |-> 0, ln |-> ln, cn |-> cn]
           e == i + (IF double THEN 2 ELSE 1)
           s == Scan!Piece(i, e)
<1>t. /\ i \in Nat /\ Len(text) \in Nat /\ i < Len(text)
      /\ i < Len(text) => c = text[i + 1]
      /\ i + 1 < Len(text) => peak(1) = text[i + 2]
  BY Looked DEF Symbol, AtToken, buf_len
<1>1. /\ AtToken /\ c \notin Spaces \cup WordChars \cup Quotes /\ ~ IsComment /\ mode = "lexer"
      /\ text' = text /\ mode' = "lexer" /\ Next
  BY DEF Symbol, AtToken, Next
<1>2. tokens' = Append(tokens, tok) /\ i' = e BY DEF Symbol, consume
<1>3. /\ Read = i /\ Scan!Ends # {} /\ Scan!Max(Scan!Ends) = e
      /\ s \in Seq(STRING) /\ s[1] = c
      /\ s \in DOMAIN Double <=> double
      /\ s \in DOMAIN Double => s = two
  <2>1. e = i + (IF <<c, peak(1)>> \in DOMAIN Double THEN 2 ELSE 1) /\ s = Scan!Piece(i, e)
    OBVIOUS
  <2> HIDE DEF e, s
  <2> QED BY <1>1, <2>1, SymbolEnds
<1> HIDE DEF e, s, double, kind, two
<1>4. Read' = e /\ Outcome = "running" /\ Outcome' = "running" BY <1>1, <1>2 DEF Read, Outcome
<1>5. ~ Scan!InComment
  <2>1. Read \in 0 .. Len(text) BY <1>t, <1>3
  <2>2. i + 2 <= Len(text) => i + 1 < Len(text) BY <1>t
  <2> QED BY <1>t, <1>1, <1>3, <2>1, <2>2, CommentIs DEF IsComment
<1>6. Scan!Lines(Scan!Piece(0, Read)) = ln
  <2>1. Read \in 0 .. i /\ \A k \in Read + 1 .. i : FALSE BY <1>t, <1>3
  <2> QED BY <2>1, LineOf
<1>7. tok.kind = kind /\ tok.lexeme = 0 /\ tok.int_lit = 0 /\ tok.ln = ln OBVIOUS
<1> HIDE DEF tok
<1>8. BlocksKept' /\ Seen' = Append(Seen, View(tok, store')) BY <1>1, <1>2, <1>7, MoreTokens
<1>9. Scan!TokenOf(s) = Scan!Token(kind, <<>>, 0)
  <2>1. s[1] \notin WordChars \cup Quotes BY <1>1, <1>3
  <2>2. CASE s \in DOMAIN Double
    <3>1. Scan!TokenOf(s) = Scan!Token(Double[s], <<>>, 0) BY <2>1, <2>2, Arms
    <3> QED BY <1>3, <2>2, <3>1 DEF kind
  <2>3. CASE s \notin DOMAIN Double
    <3>1. Scan!TokenOf(s) =
            Scan!Token(IF s[1] \in DOMAIN Single THEN Single[s[1]] ELSE "UNKNOWN", <<>>, 0)
      BY <2>1, <2>3, Arms
    <3> QED BY <1>3, <2>3, <3>1 DEF kind
  <2> QED BY <2>2, <2>3
<1>10. View(tok, store') = Scan!Token(kind, <<>>, 0) BY <1>6, <1>7 DEF View, Scan!Token
<1>11. ~ Scan!IsQuoted(s) BY <1>1, <1>3, SameEscapes DEF Scan!IsQuoted
<1> QED BY <1>1, <1>3, <1>4, <1>5, <1>8, <1>9, <1>10, <1>11, Taken DEF s

-----------------------------------------------------------------------------
(* The lexer gives up                                                       *)

LEMMA Failed ==
  ASSUME Outcome = "running", Outcome' = "failed", text' = text, Read' = Read, Seen' = Seen,
         Read < Len(text), text[Read + 1] \in Quotes,
         Scan!Ends = {} \/ ~ Scan!EscapesKnown(Scan!Piece(Read, Scan!Max(Scan!Ends)))
  PROVE  Scan!Next
  BY SameEscapes DEF Scan!Next, Scan!Fail

LEMMA UnterminatedFails ==
  ASSUME PosInv, StringTaken, Unterminated, Seen' = Seen
  PROVE  Scan!Next
<1>t. /\ i \in Nat /\ start \in Nat /\ start <= i /\ i <= Len(text) /\ Len(text) \in Nat
      /\ i < Len(text) => c = text[i + 1]
      /\ i + 1 < Len(text) => peak(1) = text[i + 2]
  BY Looked
<1>1. /\ mode = "get_string" /\ c # q /\ (Cut(c) \/ (c = "*" /\ Cut(peak(1))))
      /\ mode' = "exit" /\ text' = text /\ start' = start
  BY DEF Unterminated, To, scan
<1>2. start >= 1 /\ q \in Quotes /\ q = text[start] BY <1>1 DEF PosInv, q
<1>3. /\ Read = start - 1 /\ Read' = Read /\ Outcome = "running" /\ Outcome' = "failed"
      /\ Read \in Nat /\ Read + 1 = start
  BY <1>t, <1>1, <1>2 DEF Read, Outcome
<1> DEFINE a == start - 1
<1>a. a \in Nat /\ a + 1 = start BY <1>t, <1>2
<1>4. ASSUME NEW e \in start .. Len(text) PROVE ~ Scan!IsToken(Scan!Piece(a, e))
  <2> DEFINE p == Scan!Piece(a, e)
             m == e - a
  <2>m. m \in Nat /\ m >= 1 /\ a <= e /\ e \in Nat /\ e <= Len(text) BY <1>t, <1>a
  <2>1. p \in Seq(STRING) /\ Len(p) = m /\ \A k \in 1 .. m : p[k] = text[a + k]
    BY <1>a, <2>m, PieceIs
  <2> HIDE DEF p
  <2>2. p[1] = q BY <1>2, <1>a, <2>m, <2>1
  <2>3. Scan!IsToken(p) <=> Scan!IsQuoted(p) BY <1>2, <2>1, <2>2, TokenKind
  <2>4. SUFFICES ASSUME Scan!IsQuoted(p) PROVE FALSE BY <2>3 DEF p
  <2>5. /\ m >= 2 /\ p[m] = q
        /\ \A k \in 2 .. m : ~ Cut(p[k]) /\ (p[k] = q => (k = m) # Scan!Escaped(p, k))
    BY <2>1, <2>2, <2>4, SameEscapes DEF Scan!IsQuoted, Cut
  <2>6. ~ Scan!Escaped(p, m)
    <3>1. m \in 2 .. m BY <2>m, <2>5
    <3>2. (m = m) # Scan!Escaped(p, m) BY <2>5, <3>1, Zenon
    <3>3. Scan!Escaped(p, m) \in BOOLEAN BY DEF Scan!Escaped
    <3> QED BY <3>2, <3>3
  <2>7. CASE e <= i
    <3>1. e \in start + 1 .. i /\ e - start + 1 = m /\ m \in 1 .. m /\ a + m = e
      BY <1>t, <1>a, <2>m, <2>5, <2>7
    <3>2. text[e] = q BY <2>1, <2>5, <3>1
    <3>3. Scan!Escaped(After, m) BY <1>1, <3>1, <3>2 DEF StringTaken
    <3>4. ASSUME NEW j \in 2 .. m - 1 PROVE p[j] = After[j]
      <4>1. j \in 1 .. m /\ a + j \in start .. Len(text) /\ (a + j) - start + 1 = j
        BY <1>t, <1>a, <2>m, <3>1
      <4>2. After[(a + j) - start + 1] = text[a + j] BY <1>2, <4>1, AfterIs
      <4> QED BY <2>1, <4>1, <4>2
    <3>5. Scan!Escaped(p, m) <=> Scan!Escaped(After, m) BY <2>m, <3>4, EscapedBefore
    <3> QED BY <2>6, <3>3, <3>5
  <2>8. CASE i < e
    <3> DEFINE k == i + 1 - a
    <3>1. k \in 2 .. m /\ k \in 1 .. m /\ a + k = i + 1 /\ i < Len(text)
      BY <1>t, <1>a, <2>m, <2>8
    <3>2. p[k] = c BY <1>t, <2>1, <3>1
    <3>3. c = "*" /\ Cut(peak(1)) BY <1>1, <2>5, <3>1, <3>2
    <3>4. k # m BY <1>1, <2>5, <3>2
    <3>5. k + 1 \in 2 .. m /\ k + 1 \in 1 .. m /\ a + (k + 1) = i + 2 /\ i + 1 < Len(text)
      BY <1>t, <1>a, <2>m, <3>1, <3>4
    <3>6. p[k + 1] = peak(1) BY <1>t, <2>1, <3>5
    <3> QED BY <2>5, <3>3, <3>5, <3>6
  <2> QED BY <1>t, <2>m, <2>7, <2>8
<1>5. Scan!Ends = {} BY <1>3, <1>4 DEF Scan!Ends
<1>6. Read < Len(text) /\ text[Read + 1] \in Quotes BY <1>t, <1>2, <1>3
<1> QED BY <1>1, <1>3, <1>5, <1>6, Failed

LEMMA UnknownEscapeFails ==
  ASSUME PosInv, StoreInv, LinesCounted, Unescaping, UnknownEscape, Seen' = Seen
  PROVE  Scan!Next
<1>1. /\ mode = "unescape" /\ r < strlen /\ Char(r) = "*" /\ Char(r + 1) \notin DOMAIN Escapes
      /\ mode' = "exit" /\ text' = text /\ start' = start
  BY DEF UnknownEscape, To, scan
<1>2. /\ Read = start - 1 /\ Lit = Scan!Piece(Read, i) /\ Scan!Max(Scan!Ends) = i
      /\ Read < Len(text) /\ text[Read + 1] \in Quotes
  BY <1>1, QuotedEnds
<1>3. Read' = Read /\ Outcome = "running" /\ Outcome' = "failed" BY <1>1 DEF Read, Outcome
<1>4. ~ Scan!EscapesKnown(Lit)
  <2>1. /\ r \in Nat /\ strlen \in Nat /\ r <= strlen - 3 /\ Len(Lit) = strlen + 1
        /\ Scan!Escaped(Lit, r + 3) /\ Char(r + 1) = Lit[r + 3]
    BY <1>1, UnescapingAt, Rewriting
  <2>2. r + 3 \in 2 .. Len(Lit) - 1 BY <2>1
  <2> QED BY <1>1, <2>1, <2>2, SameEscapes DEF Scan!EscapesKnown
<1> QED BY <1>1, <1>2, <1>3, <1>4, Failed

-----------------------------------------------------------------------------
(* What is between the tokens                                               *)

LEMMA BlankIs ==
  ASSUME PosInv, Blank, Seen' = Seen
  PROVE  Scan!Next
<1>1. /\ mode = "lexer" /\ mode' = "lexer" /\ i' = i + 1 /\ text' = text
      /\ i < Len(text) /\ c \in Spaces
  BY DEF Blank, AtToken, Over, buf_len, rest
<1>2. Read = i /\ Read' = i + 1 /\ Outcome = "running" /\ Outcome' = "running"
  BY <1>1 DEF Read, Outcome
<1>3. text[Read + 1] \in Scan!Spaces BY <1>1, <1>2, Looked, SameClasses
<1>4. Scan!Blank BY <1>1, <1>2, <1>3 DEF Scan!Blank
<1> QED BY <1>4 DEF Scan!Next

LEMMA FinishIs ==
  ASSUME PosInv, Finish, Seen' = Seen
  PROVE  Scan!Next
<1>1. mode = "lexer" /\ mode' = "done" /\ i' = i /\ text' = text /\ i >= Len(text)
  BY DEF Finish, To, buf_len, scan, rest
<1>2. Read = i /\ Read' = i /\ Outcome = "running" /\ Outcome' = "done" /\ i = Len(text)
  BY <1>1, Looked DEF Read, Outcome
<1>3. Scan!Finish BY <1>1, <1>2 DEF Scan!Finish
<1> QED BY <1>3 DEF Scan!Next

\* The comment ends where the search for its end, which began at its slash and
\* not behind its star, has come to.
LEMMA EndCommentIs ==
  ASSUME PosInv, CommentTaken, EndComment, Seen' = Seen
  PROVE  Scan!Next
<1>t. /\ i \in Nat /\ start \in Nat /\ start <= i /\ i <= Len(text) /\ Len(text) \in Nat
      /\ text \in Seq(STRING)
      /\ i < Len(text) => c = text[i + 1]
      /\ i + 1 < Len(text) => peak(1) = text[i + 2]
      /\ ~ (i + 1 < Len(text)) => peak(1) = NUL
  BY Looked
<1>1. /\ mode = "comment" /\ mode' = "lexer" /\ text' = text
      /\ (i < Len(text) /\ Closing /\ i' = i + 2) \/ (i >= Len(text) /\ i' = i)
  BY DEF EndComment, To, rest, consume, Stay, buf_len
<1>2. Read = start /\ Read' = i' /\ Outcome = "running" /\ Outcome' = "running"
  BY <1>1 DEF Read, Outcome
<1>3. /\ start + 2 <= Len(text) /\ text[start + 1] = "/" /\ text[start + 2] = "*"
      /\ \A k \in start + 3 .. i + 1 : k <= Len(text) => ~ (text[k - 1] = "*" /\ text[k] = "/")
  BY <1>1 DEF CommentTaken, buf_len
<1>4. Scan!InComment
  <2>1. Read \in 0 .. Len(text) BY <1>t, <1>2
  <2> QED BY <1>2, <1>3, <2>1, CommentIs
<1> DEFINE closes == {e \in Read + 3 .. Len(text) : Scan!Piece(e - 2, e) = <<"*", "/">>}
<1>5. \A e : e \in closes <=>
               e \in start + 3 .. Len(text) /\ text[e - 1] = "*" /\ text[e] = "/"
  <2>1. ASSUME NEW e \in start + 3 .. Len(text)
        PROVE  Scan!Piece(e - 2, e) = <<"*", "/">> <=> text[e - 1] = "*" /\ text[e] = "/"
    <3>1. /\ e \in Nat /\ e - 2 \in Nat /\ e - 2 <= e /\ e <= Len(text) /\ (e - 2) + 1 = e - 1
          /\ e - 1 \in Nat /\ e - 1 >= 1 /\ (e - 1) + 1 = e /\ (e - 1) + 1 <= Len(text)
      BY <1>t
    <3>2. Scan!Piece(e - 2, e) = SubSeq(text, (e - 2) + 1, e) BY <1>t, <3>1, PieceIs
    <3>3. SubSeq(text, e - 1, (e - 1) + 1) = <<text[e - 1], text[(e - 1) + 1]>>
      BY <1>t, <3>1, Pair
    <3>4. Scan!Piece(e - 2, e) = <<text[e - 1], text[e]>> BY <3>1, <3>2, <3>3
    <3>5. \A x, y : <<x, y>> = <<"*", "/">> <=> x = "*" /\ y = "/" OBVIOUS
    <3> QED BY <3>4, <3>5
  <2> QED BY <1>2, <2>1
<1>6. closes \subseteq Int BY <1>t, <1>5
<1> HIDE DEF closes
<1>m. ASSUME NEW m \in closes \cup {Len(text)}, \A e \in closes : m <= e, m <= Len(text)
      PROVE  Min(closes \cup {Len(text)}) = m
  <2> DEFINE T == closes \cup {Len(text)}
  <2>1. \A e \in T : e \in closes \/ e = Len(text) OBVIOUS
  <2>2. m \in T /\ \A e \in T : e \in Int /\ m <= e
    <3>1. m \in T OBVIOUS
    <3>2. Len(text) \in Int BY <1>t
    <3> HIDE DEF T
    <3>3. ASSUME NEW e \in T PROVE e \in Int /\ m <= e BY <1>6, <1>m, <2>1, <3>2
    <3> QED BY <3>1, <3>3
  <2> HIDE DEF T
  <2>3. T \subseteq Int BY <2>2
  <2>4. Min(T) = m BY <2>2, <2>3, MinIs
  <2> QED BY <2>4 DEF T
<1>7. Min(closes \cup {Len(text)}) = i'
  <2>1. CASE i < Len(text) /\ Closing /\ i' = i + 2
    <3>1. i + 1 < Len(text) /\ text[i + 1] = "*" /\ text[i + 2] = "/"
      BY <1>t, <2>1 DEF Closing, NUL
    <3>2. i # start BY <1>3, <3>1
    <3>3. i + 2 \in start + 3 .. Len(text) /\ (i + 2) - 1 = i + 1 BY <1>t, <3>1, <3>2
    <3>4. i + 2 \in closes BY <1>5, <3>1, <3>3
    <3>5. ASSUME NEW e \in closes PROVE i + 2 <= e
      <4>1. e \in start + 3 .. Len(text) /\ text[e - 1] = "*" /\ text[e] = "/" BY <1>5
      <4>2. e \notin start + 3 .. i + 1 BY <1>t, <1>3, <4>1
      <4> QED BY <1>t, <4>1, <4>2
    <3>6. i + 2 <= Len(text) BY <1>t, <3>3
    <3> QED BY <1>m, <2>1, <3>4, <3>5, <3>6
  <2>2. CASE i >= Len(text) /\ i' = i
    <3>1. i = Len(text) BY <1>t, <2>2
    <3>2. ASSUME NEW e \in closes PROVE FALSE
      <4>1. e \in start + 3 .. Len(text) /\ text[e - 1] = "*" /\ text[e] = "/" BY <1>5
      <4>2. e \in start + 3 .. i + 1 /\ e <= Len(text) BY <1>t, <3>1, <4>1
      <4> QED BY <1>3, <4>1, <4>2
    <3>3. i <= Len(text) /\ i \in {Len(text)} BY <1>t, <3>1
    <3> QED BY <1>m, <2>2, <3>2, <3>3
  <2> QED BY <1>1, <2>1, <2>2
<1>8. Scan!Comment
  <2>1. Read' = Scan!Min(closes \cup {Len(text)}) BY <1>2, <1>7, SameMax
  <2> QED BY <1>1, <1>2, <1>4, <2>1 DEF Scan!Comment, closes
<1> QED BY <1>8 DEF Scan!Next

-----------------------------------------------------------------------------
(* The lexer implements Scanner                                             *)

\* What the loops have gone over, what the store holds: the state between two
\* of Scanner's.
LexInv ==
  /\ PosInv /\ StoreInv /\ LinesCounted
  /\ WordTaken /\ NumberTaken /\ StringTaken /\ CommentTaken
  /\ Unescaping /\ BlocksKept

\* The steps inside a token or a comment read nothing as yet.
LEMMA InsideSteps ==
  ASSUME PosInv, BeginWord \/ BeginDigits \/ BeginString \/ BeginComment \/ WordChar \/ Digit
                   \/ StringChar \/ CloseString \/ PlainChar \/ Escape \/ CommentChar
  PROVE  text' = text /\ tokens' = tokens /\ Read' = Read /\ Outcome' = Outcome
<1>t. i \in Nat /\ start \in Nat /\ Numbers = {"hex", "binary", "octal", "decimal"}
  BY Looked, NumberModes
<1> USE DEF Read, Outcome
<1>1. CASE BeginWord BY <1>1 DEF BeginWord, AtToken, To, rest
<1>2. CASE BeginDigits
  <2>1. mode = "lexer" /\ start' = i /\ text' = text /\ tokens' = tokens
    BY <1>2 DEF BeginDigits, AtToken, rest
  <2>2. mode' \in Numbers BY <1>t, <1>2 DEF BeginDigits, To
  <2> QED BY <1>t, <2>1, <2>2
<1>3. CASE BeginString
  <2>1. /\ mode = "lexer" /\ mode' = "get_string" /\ start' = i + 1 /\ text' = text
        /\ tokens' = tokens
    BY <1>3 DEF BeginString, AtToken, To, rest
  <2>2. (i + 1) - 1 = i BY <1>t
  <2> QED BY <2>1, <2>2
<1>4. CASE BeginComment BY <1>4 DEF BeginComment, AtToken, To, rest
<1>5. CASE WordChar BY <1>5 DEF WordChar, rest
<1>6. CASE Digit
  <2>1. /\ mode \in Numbers /\ mode' = mode /\ start' = start
        /\ text' = text /\ tokens' = tokens
    BY <1>6 DEF Digit, Numbers
  <2> QED BY <1>t, <2>1
<1>7. CASE StringChar BY <1>7 DEF StringChar, rest
<1>8. CASE CloseString BY <1>8 DEF CloseString, To
<1>9. CASE PlainChar BY <1>9 DEF PlainChar, scan
<1>10. CASE Escape BY <1>10 DEF Escape, scan
<1>11. CASE CommentChar BY <1>11 DEF CommentChar, rest
<1> QED BY <1>1, <1>2, <1>3, <1>4, <1>5, <1>6, <1>7, <1>8, <1>9, <1>10, <1>11

\* A step is one of Scanner's or none, and leaves every block whole.
LEMMA StepScans ==
  ASSUME LexInv, StoreInv', Next
  PROVE  BlocksKept' /\ (Scan!Next \/ UNCHANGED Scan!vars)
<1> USE DEF LexInv
<1>0. ASSUME tokens' = tokens PROVE BlocksKept' /\ Seen' = Seen BY <1>0, SameTokens
<1>1. CASE Blank \/ Finish \/ EndComment \/ Unterminated \/ UnknownEscape
  <2>1. tokens' = tokens BY <1>1 DEF Blank, Finish, EndComment, Unterminated, UnknownEscape, rest
  <2> QED BY <1>0, <1>1, <2>1, BlankIs, FinishIs, EndCommentIs, UnterminatedFails,
             UnknownEscapeFails
<1>2. CASE BeginWord \/ BeginDigits \/ BeginString \/ BeginComment \/ WordChar \/ Digit
             \/ StringChar \/ CloseString \/ PlainChar \/ Escape \/ CommentChar
  BY <1>0, <1>2, InsideSteps DEF Scan!vars
<1>3. CASE EndWord BY <1>3, WordTake
<1>4. CASE EndDigits BY <1>4, NumberTake
<1>5. CASE EndString BY <1>5, StringTake
<1>6. CASE Symbol BY <1>6, SymbolTake
<1> QED BY <1>1, <1>2, <1>3, <1>4, <1>5, <1>6 DEF Next

LEMMA LexStart == Init => LexInv /\ Scan!Init
<1> SUFFICES ASSUME Init PROVE LexInv /\ Scan!Init OBVIOUS
<1>1. mode = "lexer" /\ i = 0 /\ text \in Texts /\ tokens = <<>> BY DEF Init
<1>2. WordTaken /\ NumberTaken /\ StringTaken /\ CommentTaken /\ Unescaping
  BY <1>1 DEF WordTaken, NumberTaken, StringTaken, CommentTaken, Unescaping
<1>3. BlocksKept
  <2>1. tokens \in Seq({}) /\ DOMAIN tokens = {} BY <1>1
  <2> QED BY <2>1 DEF BlocksKept
<1>4. Seen = <<>>
  <2>1. DOMAIN tokens = {} BY <1>1
  <2>2. DOMAIN Seen = {} /\ Seen = [k \in {} |-> View(tokens[k], store)]
    BY <2>1 DEF Seen, View, Lexed
  <2> QED BY <2>2
<1>5. Read = 0 /\ Outcome = "running" BY <1>1 DEF Read, Outcome
<1>6. Scan!Init BY <1>1, <1>4, <1>5 DEF Scan!Init
<1> QED BY <1>2, <1>3, <1>6, PosInit, StoreInit, LinesInit DEF LexInv

LEMMA LexStutter == ASSUME LexInv, UNCHANGED vars PROVE LexInv' /\ UNCHANGED Scan!vars
<1>1. /\ text' = text /\ i' = i /\ ln' = ln /\ start' = start /\ mode' = mode /\ r' = r
      /\ w' = w /\ store' = store /\ used' = used /\ tokens' = tokens
  BY DEF vars, scan, rest
<1>2. PosInv' BY PosStutter DEF LexInv
<1>3. StoreInv' BY <1>1 DEF LexInv, StoreInv, Paid, strlen, Numbers, DigitsOf
<1>4. LinesCounted' BY <1>1 DEF LexInv, LinesCounted
<1>5. c' = c /\ q' = q BY <1>1 DEF c, q, peak, buf_len
<1>6. WordTaken' /\ NumberTaken' BY <1>1 DEF LexInv, WordTaken, NumberTaken, buf_len
<1>7. StringTaken' BY <1>1, <1>5 DEF LexInv, StringTaken, After, buf_len
<1>8. CommentTaken' BY <1>1 DEF LexInv, CommentTaken, buf_len
<1>9. Unescaping' BY <1>1 DEF LexInv, Unescaping, Lit, strlen, string
<1>10. BlocksKept' BY <1>1 DEF LexInv, BlocksKept, Finished, string, strlen
<1>11. UNCHANGED Scan!vars BY <1>1 DEF Scan!vars, Seen, Read, Outcome
<1> QED BY <1>2, <1>3, <1>4, <1>6, <1>7, <1>8, <1>9, <1>10, <1>11 DEF LexInv

LEMMA LexStep == LexInv /\ [Next]_vars => LexInv' /\ [Scan!Next]_(Scan!vars)
<1> SUFFICES ASSUME LexInv, [Next]_vars
             PROVE  LexInv' /\ (Scan!Next \/ UNCHANGED Scan!vars)
  OBVIOUS
<1>1. CASE Next
  <2>1. PosInv' /\ StoreInv' /\ LinesCounted' BY <1>1, PosStep, StoreStep, LinesStep DEF LexInv
  <2>2. WordTaken' /\ NumberTaken' /\ StringTaken' /\ CommentTaken' /\ Unescaping'
    BY <1>1, WordStep, NumberStep, StringStep, CommentStep, UnescapingStep DEF LexInv
  <2>3. BlocksKept' /\ (Scan!Next \/ UNCHANGED Scan!vars) BY <1>1, <2>1, StepScans
  <2> QED BY <2>1, <2>2, <2>3 DEF LexInv
<1>2. CASE UNCHANGED vars BY <1>2, LexStutter
<1> QED BY <1>1, <1>2

LEMMA LexAlways == Spec => []LexInv
  BY LexStart, LexStep, PTL DEF Spec

\* The lexer implements Scanner, on every file and whatever values chars have:
\* it takes the longest token each time, words and numbers and quoted text
\* alike; strings are numbered in order, lines are those of the file; and the
\* lexemes, which lie end to end in one store and of which the quoted ones are
\* rewritten in place, stay what they were to the end.
THEOREM ScannerRefined == Spec => ScannerImplemented
<1>1. LexInv /\ LexInv' /\ [Next]_vars => [Scan!Next]_(Scan!vars) BY LexStep
<1>2. Init => Scan!Init BY LexStart
<1> QED BY LexAlways, <1>1, <1>2, PTL DEF Spec, ScannerImplemented, Scan!Spec
=============================================================================
