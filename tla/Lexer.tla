-------------------------------- MODULE Lexer --------------------------------
(***************************************************************************)
(* The lexer, src/lexer.c, a character at a time.  `mode' is the loop that   *)
(* runs: lexer's own, or the one of a function or branch it is in.           *)
(*                                                                         *)
(* Lexemes stand in a store, str_arena: its blocks follow each other without *)
(* padding, so that a byte written past a block is the next block's first.   *)
(* A token's lexeme is the place of its block, 0 for NULL.                   *)
(***************************************************************************)
EXTENDS BChars

CONSTANTS
  Texts,     \* the buffers
  Code,      \* the value of a char, which is signed
  WordMod    \* one more than the largest size_t

ASSUME TextsAssumption == \A t \in Texts : t \in Seq(STRING)
ASSUME CodeAssumption == Code[NUL] = 0

VARIABLES
  text,            \* buffer
  i, ln, cn, t_cn, \* the position, and the column where the token starts
  mode,            \* the running loop, or "done", or "exit" after exit(1)
  start,           \* where the word, number, quoted text or comment starts
  r, w,            \* read and write index of get_string's second loop
  store, used,     \* the bytes of str_arena, and how many are allocated
  tokens,
  diagnosed        \* a diagnostic has been printed

buf_len == Len(text)
scan == <<i, ln, cn, t_cn, start>>
rest == <<text, r, w, store, used, tokens, diagnosed>>
vars == <<scan, mode, rest>>

Init ==
  /\ text \in Texts
  /\ i = 0 /\ ln = 1 /\ cn = 1 /\ t_cn = 1 /\ start = 0
  /\ mode = "lexer"
  /\ r = 0 /\ w = 0 /\ store = <<>> /\ used = 0
  /\ tokens = <<>> /\ diagnosed = FALSE

peak(offset) == IF i + offset < buf_len THEN text[i + offset + 1] ELSE NUL
c == peak(0)

consume(n) == i' = i + n /\ cn' = cn + n
Stay == UNCHANGED <<i, cn>>
To(m) == mode' = m

Over_ButNoLine(step) ==
  /\ i' = i + 1
  /\ cn' = IF c = "\n" THEN 1 ELSE cn + step
  /\ ln' = ln

\* Over a char that may end the line: cn is 0 before it is consumed.
Over(step) ==
  /\ i' = i + 1
  /\ cn' = IF c = "\n" THEN 1 ELSE cn + step
  /\ ln' = IF c = "\n" THEN ln + 1 ELSE ln

Allocate_ButToTheEnd ==
  /\ store' = SubSeq(store, 1, used) \o Append(SubSeq(text, 1, i), NUL)
  /\ used' = used + i + 1

\* substr: a block with the bytes from start to i and a terminator.
Substr == Append(SubSeq(text, start + 1, i), NUL)
Allocate ==
  /\ store' = SubSeq(store, 1, used) \o Substr
  /\ used' = used + Len(Substr)

add_token(kind, lexeme, int_lit) ==
  tokens' = Append(tokens,
    [kind |-> kind, lexeme |-> lexeme, int_lit |-> int_lit, ln |-> ln, cn |-> t_cn])

-----------------------------------------------------------------------------
(* The head of lexer's loop                                                 *)

AtToken == mode = "lexer" /\ i < buf_len
IsComment == c = "/" /\ peak(1) = "*"

Blank ==
  /\ AtToken /\ c \in Spaces
  /\ t_cn' = cn
  /\ Over(2)
  /\ UNCHANGED <<mode, start, rest>>

BeginWord ==
  /\ AtToken /\ c \in Alpha
  /\ t_cn' = cn /\ start' = i
  /\ To("get_word") /\ Stay
  /\ UNCHANGED <<ln, rest>>

\* get_digit up to its loop, which the first two chars choose.
BeginDigits ==
  /\ AtToken /\ c \in Digits
  /\ t_cn' = cn /\ start' = i
  /\ \/ c # "0" /\ To("decimal") /\ Stay
     \/ c = "0" /\ peak(1) \in {"x", "X"} /\ To("hex") /\ consume(2)
     \/ c = "0" /\ peak(1) \in {"b", "B"} /\ To("binary") /\ consume(2)
     \/ c = "0" /\ peak(1) \notin {"x", "X", "b", "B"} /\ To("octal") /\ consume(1)
  /\ UNCHANGED <<ln, rest>>

BeginString ==
  /\ AtToken /\ c \in Quotes
  /\ t_cn' = cn /\ start' = i + 1
  /\ To("get_string") /\ consume(1)
  /\ UNCHANGED <<ln, rest>>

BeginComment ==
  /\ AtToken /\ IsComment
  /\ t_cn' = cn /\ start' = i
  /\ To("comment") /\ Stay
  /\ UNCHANGED <<ln, rest>>

\* The switch: two chars that make a token are taken together.
Symbol ==
  /\ AtToken /\ c \notin Spaces \cup WordChars \cup Quotes /\ ~ IsComment
  /\ t_cn' = cn
  /\ LET two  == <<c, peak(1)>>
         kind == IF two \in DOMAIN Double THEN Double[two]
                 ELSE IF c \in DOMAIN Single THEN Single[c] ELSE "UNKNOWN"
     IN /\ tokens' = Append(tokens,
             [kind |-> kind, lexeme |-> 0, int_lit |-> 0, ln |-> ln, cn |-> cn])
        /\ consume(IF two \in DOMAIN Double THEN 2 ELSE 1)
  /\ UNCHANGED <<text, mode, start, ln, r, w, store, used, diagnosed>>

Finish ==
  /\ mode = "lexer" /\ i >= buf_len
  /\ To("done")
  /\ UNCHANGED <<scan, rest>>

-----------------------------------------------------------------------------
(* get_word and get_digit                                                   *)

DigitsOf == [hex |-> HexDigits, binary |-> {"0", "1"}, octal |-> Digits, decimal |-> Digits]

WordChar ==
  /\ mode = "get_word" /\ c \in WordChars
  /\ consume(1)
  /\ UNCHANGED <<ln, t_cn, start, mode, rest>>

EndWord ==
  /\ mode = "get_word" /\ c \notin WordChars
  /\ Allocate
  /\ add_token(WordKind(SubSeq(text, start + 1, i)), used + 1, 0)
  /\ To("lexer")
  /\ UNCHANGED <<scan, text, r, w, diagnosed>>

Digit ==
  /\ mode \in DOMAIN DigitsOf /\ c \in DigitsOf[mode]
  /\ consume(1)
  /\ diagnosed' = (diagnosed \/ (mode = "octal" /\ c \notin Octals))
  /\ UNCHANGED <<ln, t_cn, start, mode, text, r, w, store, used, tokens>>

IntLit(num) ==
  CASE mode = "hex"     -> strtoull(SubSeq(num, 3, Len(num)), 16, WordMod - 1)
    [] mode = "binary"  -> strtoull(SubSeq(num, 3, Len(num)), 2, WordMod - 1)
    [] mode = "octal"   -> strtoull(Prefix(num, Octals), 8, WordMod - 1)
    [] mode = "decimal" -> strtoull(num, 10, WordMod - 1)

EndDigits ==
  /\ mode \in DOMAIN DigitsOf /\ c \notin DigitsOf[mode]
  /\ Allocate
  /\ add_token("INT", used + 1, IntLit(SubSeq(text, start + 1, i)))
  /\ To("lexer")
  /\ UNCHANGED <<scan, text, r, w, diagnosed>>

-----------------------------------------------------------------------------
(* get_string                                                               *)

q == text[start]
Cut(x) == x \in {NUL, "\n"}

StringChar_ButNulKept ==
  /\ mode = "get_string" /\ c # q /\ c # "\n" /\ ~ (c = "*" /\ peak(1) = "\n")
  /\ consume(IF c = "*" THEN 2 ELSE 1)
  /\ UNCHANGED <<ln, t_cn, start, mode, rest>>

StringChar_ButOneAtATime ==
  /\ mode = "get_string" /\ c # q /\ ~ Cut(c) /\ ~ (c = "*" /\ Cut(peak(1)))
  /\ consume(1)
  /\ UNCHANGED <<ln, t_cn, start, mode, rest>>

StringChar ==
  /\ mode = "get_string" /\ c # q /\ ~ Cut(c) /\ ~ (c = "*" /\ Cut(peak(1)))
  /\ consume(IF c = "*" THEN 2 ELSE 1)
  /\ UNCHANGED <<ln, t_cn, start, mode, rest>>

Unterminated ==
  /\ mode = "get_string" /\ c # q /\ (Cut(c) \/ (c = "*" /\ Cut(peak(1))))
  /\ diagnosed' = TRUE
  /\ To("exit")
  /\ UNCHANGED <<scan, text, r, w, store, used, tokens>>

CloseString_ButWriteKept ==
  /\ mode = "get_string" /\ c = q
  /\ Allocate
  /\ consume(1)
  /\ r' = 0 /\ w' = w
  /\ To("unescape")
  /\ UNCHANGED <<text, ln, t_cn, start, tokens, diagnosed>>

CloseString ==
  /\ mode = "get_string" /\ c = q
  /\ Allocate
  /\ consume(1)
  /\ r' = 0 /\ w' = 0
  /\ To("unescape")
  /\ UNCHANGED <<text, ln, t_cn, start, tokens, diagnosed>>

\* `strlen' counts the closing quote, `string' is the block just allocated.
strlen == i - start
string == used - strlen
Char(k) == store[string + k + 1]
\* string[w] = x; w may be one past the block.
Put(x) == store' = [k \in 1 .. Max({Len(store), string + w + 1}) |->
                      IF k = string + w + 1 THEN x ELSE store[k]]

PlainChar ==
  /\ mode = "unescape" /\ r < strlen /\ Char(r) # "*"
  /\ Put(Char(r))
  /\ r' = r + 1 /\ w' = w + 1
  /\ UNCHANGED <<scan, mode, text, used, tokens, diagnosed>>

Escape ==
  /\ mode = "unescape" /\ r < strlen /\ Char(r) = "*" /\ Char(r + 1) \in DOMAIN Escapes
  /\ Put(Escapes[Char(r + 1)])
  /\ r' = r + 2 /\ w' = w + 1
  /\ UNCHANGED <<scan, mode, text, used, tokens, diagnosed>>

UnknownEscape ==
  /\ mode = "unescape" /\ r < strlen /\ Char(r) = "*" /\ Char(r + 1) \notin DOMAIN Escapes
  /\ diagnosed' = TRUE
  /\ To("exit")
  /\ UNCHANGED <<scan, text, r, w, store, used, tokens>>

EndString ==
  /\ mode = "unescape" /\ r >= strlen
  /\ Put(NUL)
  /\ \/ /\ q = "\""
        /\ add_token("STRING", string + 1,
             1 + Cardinality({k \in DOMAIN tokens : tokens[k].kind = "STRING"}))
     \/ q = "'" /\ add_token("INT", string + 1, Code[store'[string + 1]] % WordMod)
  /\ diagnosed' = (diagnosed \/ (q = "'" /\ w > 2))
  /\ To("lexer")
  /\ UNCHANGED <<scan, text, r, w, used>>

-----------------------------------------------------------------------------
(* Comments: the search for the end begins at the opening slash             *)

Closing == c = "*" /\ peak(1) = "/"

CommentChar ==
  /\ mode = "comment" /\ i < buf_len /\ ~ Closing
  /\ Over(1)
  /\ UNCHANGED <<t_cn, start, mode, rest>>

EndComment_ButOnlyClosed ==
  /\ mode = "comment" /\ i < buf_len /\ Closing
  /\ consume(2)
  /\ To("lexer")
  /\ UNCHANGED <<ln, t_cn, start, rest>>

EndComment ==
  /\ mode = "comment"
  /\ \/ i < buf_len /\ Closing /\ consume(2)
     \/ i >= buf_len /\ Stay
  /\ To("lexer")
  /\ UNCHANGED <<ln, t_cn, start, rest>>

-----------------------------------------------------------------------------
Next ==
  \/ Blank \/ BeginWord \/ BeginDigits \/ BeginString \/ BeginComment \/ Symbol \/ Finish
  \/ WordChar \/ EndWord \/ Digit \/ EndDigits
  \/ StringChar \/ Unterminated \/ CloseString
  \/ PlainChar \/ Escape \/ UnknownEscape \/ EndString
  \/ CommentChar \/ EndComment

\* One thread that never waits.
Spec == Init /\ [][Next]_vars /\ WF_vars(Next)

-----------------------------------------------------------------------------
Modes == {"lexer", "get_word", "get_string", "unescape", "comment", "done", "exit"}
           \cup DOMAIN DigitsOf

\* Variables keep their types: the lexer never leaves its buffer, whatever the
\* file ends in the middle of.
TypeOK ==
  /\ text \in Texts
  /\ i \in 0 .. buf_len /\ start \in 0 .. buf_len
  /\ ln \in Nat \ {0} /\ cn \in Nat \ {0} /\ t_cn \in Nat \ {0}
  /\ mode \in Modes
  /\ r \in Nat /\ w \in Nat /\ used \in Nat
  /\ diagnosed \in BOOLEAN

\* The line of a diagnostic is the line of the file: the three loops that step
\* over a newline count it once, and a token cannot hold one.
LinesCounted == ln = 1 + Cardinality({k \in 1 .. i : text[k] = "\n"})

\* get_string shortens in place: its loop writes behind its read index and
\* neither reads nor writes outside its block; only the terminator that it adds
\* last may lie outside, in the byte after the last block.
ShortensInPlace ==
  /\ mode = "unescape" => w <= r /\ r <= strlen /\ Len(store) = used
  /\ Len(store) <= used + 1

\* What the lexemes take from str_arena: at most two bytes for each one of the
\* file, which is more than the three quarters init_lexer asks for.
StoreBounded == used <= 2 * i

\* The lexer comes to the end of every file.
Terminates == <>(mode \in {"done", "exit"})

-----------------------------------------------------------------------------
(* The longest tokens of Scanner                                            *)

\* How far the text has become tokens.
Read == IF mode \in {"lexer", "done"} THEN i
        ELSE IF mode \in {"get_string", "unescape", "exit"} THEN start - 1 ELSE start
\* The tokens as the parser sees them, each lexeme the C string at its place.
Seen ==
  [k \in DOMAIN tokens |->
    [kind |-> tokens[k].kind, int_lit |-> tokens[k].int_lit, ln |-> tokens[k].ln,
     lexeme |-> IF tokens[k].lexeme = 0 THEN <<>>
                ELSE CString(SubSeq(store, tokens[k].lexeme, Len(store)))]]
Outcome == CASE mode = "done" -> "done" [] mode = "exit" -> "failed" [] OTHER -> "running"

Scan == INSTANCE Scanner WITH at <- Read, toks <- Seen, state <- Outcome

\* The lexer cuts the file as Scanner does, token for token and to the end: the
\* escapes of a string, written in place over the store, and the byte they put
\* past its block change no lexeme, and no token swallows or leaves a char.
ScannerImplemented == Scan!Spec

\* "size_t cn; // comume number" (lexer.h:71): a token's cn is its column.
ColumnsTrue ==
  mode = "get_word" =>
    t_cn = start + 1 - Max({0} \cup {k \in 1 .. start : text[k] = "\n"})
=============================================================================
