----------------------------- MODULE StmtProofs -----------------------------
(***************************************************************************)
(* Proofs about StmtParser, for every list of tokens: p->tok never leaves    *)
(* the list, and the depth of the recursion is bounded by the tokens taken.  *)
(***************************************************************************)
EXTENDS FileTrees, SequenceTheorems, TLAPS

\* How far the depth of an activation of fn may exceed two for each token taken
\* so far.  An activation that is called before anything is taken has one more
\* than its caller, one called for a token has one less.
Slack(fn) ==
  CASE fn \in {"parser", "parse_if_s", "parse_while_s", "parse_return_s"} -> -1
    [] fn = "parse_expr_s" -> 1
    [] fn = "parse_expr_f" -> 2
    [] fn = "parse_left_f" -> 3
    [] OTHER -> 0

\* The records of stack s, whatever their three other fields hold.
Frameful(V) == [fn : FileFns, prec : V, at : V, got : V]
Shaped(s) == \E V : s \in Seq(Frameful(V))

\* Stack s is parser's and no deeper than t tokens pay for.
Fits(s, t) ==
  /\ Shaped(s) /\ s # <<>> /\ s[1].fn = "parser"
  /\ \A k \in 1 .. Len(s) : k <= 2 * t + Slack(s[k].fn)

FileInv ==
  /\ input \in Inputs /\ tok \in 1 .. Len(input) + 1
  /\ Fits(stack, tok)
  /\ diagnosed \in BOOLEAN
  /\ status \in {"running", "done", "exit", "crash"}
  /\ \A x \in t_lable_tab : KindOf(x) = "IDENTIFIER"

-----------------------------------------------------------------------------
(* Stacks                                                                   *)

LEMMA SlackIsInt == ASSUME NEW fn PROVE Slack(fn) \in -1 .. 3
  BY DEF Slack

LEMMA ShapedLen ==
  ASSUME NEW s, Shaped(s)
  PROVE  Len(s) \in Nat /\ \A k \in 1 .. Len(s) : s[k].fn \in FileFns
<1>1. PICK V : s \in Seq(Frameful(V)) BY DEF Shaped
<1>2. Len(s) \in Nat BY <1>1, LenProperties
<1>3. ASSUME NEW k \in 1 .. Len(s) PROVE s[k].fn \in FileFns
  <2>1. s[k] \in Frameful(V) BY <1>1, <1>3, ElementOfSeq
  <2> QED BY <2>1 DEF Frameful
<1> QED BY <1>2, <1>3

LEMMA FitsLen ==
  ASSUME NEW s, NEW t \in Nat, Fits(s, t)
  PROVE  Len(s) \in Nat \ {0} /\ Len(s) <= 2 * t + Slack(s[Len(s)].fn)
<1>1. Len(s) \in Nat BY ShapedLen DEF Fits
<1>2. PICK V : s \in Seq(Frameful(V)) BY DEF Fits, Shaped
<1>3. Len(s) # 0 BY <1>2, EmptySeq DEF Fits
<1> QED BY <1>1, <1>3 DEF Fits

LEMMA FitsMore ==
  ASSUME NEW s, NEW t \in Nat, NEW u \in Nat, t <= u, Fits(s, t)
  PROVE  Fits(s, u)
<1>1. ASSUME NEW k \in 1 .. Len(s) PROVE k <= 2 * u + Slack(s[k].fn)
  <2>1. k <= 2 * t + Slack(s[k].fn) BY <1>1 DEF Fits
  <2>2. Slack(s[k].fn) \in Int /\ k \in Int BY SlackIsInt, ShapedLen DEF Fits
  <2> QED BY <2>1, <2>2
<1> QED BY <1>1 DEF Fits

\* A stack with the same functions in the same places.
LEMMA FitsSame ==
  ASSUME NEW s, NEW z, NEW t \in Nat, Fits(s, t), Shaped(z), Len(z) = Len(s),
         \A k \in 1 .. Len(s) : z[k].fn = s[k].fn
  PROVE  Fits(z, t)
<1>1. Len(s) \in Nat \ {0} BY FitsLen
<1>2. z # <<>> BY <1>1
<1>3. z[1].fn = "parser" BY <1>1 DEF Fits
<1> QED BY <1>2, <1>3 DEF Fits

\* Another record on top.
LEMMA ShapedEdit ==
  ASSUME NEW s, Shaped(s), Len(s) # 0, NEW fn \in FileFns, NEW prec, NEW at, NEW got
  PROVE  LET e == [fn |-> fn, prec |-> prec, at |-> at, got |-> got]
             z == [s EXCEPT ![Len(s)] = e]
         IN /\ Shaped(z) /\ Len(z) = Len(s) /\ z[Len(s)] = e
            /\ \A k \in 1 .. Len(s) - 1 : z[k] = s[k]
<1> DEFINE e == [fn |-> fn, prec |-> prec, at |-> at, got |-> got]
           z == [s EXCEPT ![Len(s)] = e]
<1>1. PICK V : s \in Seq(Frameful(V)) BY DEF Shaped
<1> DEFINE W == V \cup {prec, at, got}
<1>2. e \in Frameful(W) BY DEF Frameful
<1>3. \A f \in Frameful(V) : f \in Frameful(W) BY DEF Frameful
<1> HIDE DEF e, W
<1>4. Len(s) \in Nat \ {0} /\ s = [k \in 1 .. Len(s) |-> s[k]] BY <1>1, LenProperties
<1>5. \A k \in 1 .. Len(s) : s[k] \in Frameful(W) BY <1>1, <1>3, ElementOfSeq
<1>6. z = [k \in 1 .. Len(s) |-> IF k = Len(s) THEN e ELSE s[k]] BY <1>4
<1>7. z \in Seq(Frameful(W)) /\ Len(z) = Len(s) BY <1>2, <1>4, <1>5, <1>6
<1>8. z[Len(s)] = e /\ \A k \in 1 .. Len(s) - 1 : z[k] = s[k] BY <1>4, <1>6
<1> QED BY <1>7, <1>8 DEF Shaped, e

\* The record on top is one, so that changing a field leaves its function.
LEMMA TopIsFrame ==
  ASSUME NEW s, Shaped(s), Len(s) # 0
  PROVE  LET f == s[Len(s)] IN f = [fn |-> f.fn, prec |-> f.prec, at |-> f.at, got |-> f.got]
<1>1. PICK V : s \in Seq(Frameful(V)) BY DEF Shaped
<1>2. s[Len(s)] \in Frameful(V) BY <1>1, LenProperties, ElementOfSeq
<1> QED BY <1>2 DEF Frameful

\* Changes of the record on top that leave its function alone.
LEMMA FitsEdit ==
  ASSUME NEW s, NEW t \in Nat, Fits(s, t), NEW prec, NEW at, NEW got
  PROVE  Fits([s EXCEPT ![Len(s)] =
                 [fn |-> s[Len(s)].fn, prec |-> prec, at |-> at, got |-> got]], t)
<1> DEFINE e == [fn |-> s[Len(s)].fn, prec |-> prec, at |-> at, got |-> got]
           z == [s EXCEPT ![Len(s)] = e]
<1>1. Shaped(s) /\ Len(s) \in Nat \ {0} BY FitsLen DEF Fits
<1>2. s[Len(s)].fn \in FileFns BY <1>1, ShapedLen
<1>3. /\ Shaped(z) /\ Len(z) = Len(s) /\ z[Len(s)] = e /\ \A k \in 1 .. Len(s) - 1 : z[k] = s[k]
  BY <1>1, <1>2, ShapedEdit
<1> HIDE DEF z
<1>4. \A k \in 1 .. Len(s) : z[k].fn = s[k].fn BY <1>1, <1>3
<1>5. Fits(z, t) BY <1>1, <1>3, <1>4, FitsSame
<1> QED BY <1>5 DEF z

LEMMA EditField ==
  ASSUME NEW s, NEW t \in Nat, Fits(s, t), NEW x
  PROVE  /\ Fits([s EXCEPT ![Len(s)].got = x], t)
         /\ Fits([s EXCEPT ![Len(s)].at = x], t)
         /\ Fits([s EXCEPT ![Len(s)].prec = x], t)
<1> DEFINE f == s[Len(s)]
<1>1. Shaped(s) /\ Len(s) \in Nat \ {0} BY FitsLen DEF Fits
<1>2. f = [fn |-> f.fn, prec |-> f.prec, at |-> f.at, got |-> f.got] BY <1>1, TopIsFrame
<1>3. Fits([s EXCEPT ![Len(s)].got = x], t)
  <2>1. [s EXCEPT ![Len(s)].got = x] =
          [s EXCEPT ![Len(s)] = [fn |-> f.fn, prec |-> f.prec, at |-> f.at, got |-> x]]
    <3>1. [f EXCEPT !.got = x] = [fn |-> f.fn, prec |-> f.prec, at |-> f.at, got |-> x]
      BY <1>2
    <3>2. [s EXCEPT ![Len(s)].got = x] = [s EXCEPT ![Len(s)] = [f EXCEPT !.got = x]]
      OBVIOUS
    <3> QED BY ONLY <3>1, <3>2
  <2>2. Fits([s EXCEPT ![Len(s)] = [fn |-> f.fn, prec |-> f.prec, at |-> f.at, got |-> x]], t)
    BY FitsEdit
  <2> QED BY ONLY <2>1, <2>2
<1>4. Fits([s EXCEPT ![Len(s)].at = x], t)
  <2>1. [s EXCEPT ![Len(s)].at = x] =
          [s EXCEPT ![Len(s)] = [fn |-> f.fn, prec |-> f.prec, at |-> x, got |-> f.got]]
    <3>1. [f EXCEPT !.at = x] = [fn |-> f.fn, prec |-> f.prec, at |-> x, got |-> f.got]
      BY <1>2
    <3>2. [s EXCEPT ![Len(s)].at = x] = [s EXCEPT ![Len(s)] = [f EXCEPT !.at = x]]
      OBVIOUS
    <3> QED BY ONLY <3>1, <3>2
  <2>2. Fits([s EXCEPT ![Len(s)] = [fn |-> f.fn, prec |-> f.prec, at |-> x, got |-> f.got]], t)
    BY FitsEdit
  <2> QED BY ONLY <2>1, <2>2
<1>5. Fits([s EXCEPT ![Len(s)].prec = x], t)
  <2>1. [s EXCEPT ![Len(s)].prec = x] =
          [s EXCEPT ![Len(s)] = [fn |-> f.fn, prec |-> x, at |-> f.at, got |-> f.got]]
    <3>1. [f EXCEPT !.prec = x] = [fn |-> f.fn, prec |-> x, at |-> f.at, got |-> f.got]
      BY <1>2
    <3>2. [s EXCEPT ![Len(s)].prec = x] = [s EXCEPT ![Len(s)] = [f EXCEPT !.prec = x]]
      OBVIOUS
    <3> QED BY ONLY <3>1, <3>2
  <2>2. Fits([s EXCEPT ![Len(s)] = [fn |-> f.fn, prec |-> x, at |-> f.at, got |-> f.got]], t)
    BY FitsEdit
  <2> QED BY ONLY <2>1, <2>2
<1> QED BY <1>3, <1>4, <1>5

LEMMA FitsGiven ==
  ASSUME NEW s, NEW t \in Nat, Fits(s, t), NEW node
  PROVE  Fits(Given(s, node), t) /\ Len(Given(s, node)) = Len(s)
<1> DEFINE x == Append(s[Len(s)].got, node)
<1>1. Given(s, node) = [s EXCEPT ![Len(s)].got = x] BY DEF Given
<1>2. Fits([s EXCEPT ![Len(s)].got = x], t)
  <2> HIDE DEF x
  <2> QED BY EditField
<1>3. Len(Given(s, node)) = Len(s)
  <2>1. PICK V : s \in Seq(Frameful(V)) BY DEF Fits, Shaped
  <2>2. Len(s) \in Nat /\ DOMAIN s = 1 .. Len(s) BY <2>1, LenProperties
  <2>3. PICK W : Given(s, node) \in Seq(Frameful(W)) BY <1>1, <1>2 DEF Fits, Shaped
  <2>4. DOMAIN Given(s, node) = DOMAIN s BY DEF Given
  <2> QED BY <2>2, <2>3, <2>4, LenProperties
<1> QED BY ONLY <1>1, <1>2, <1>3

\* A call: deeper by one than the activation on top.
LEMMA FitsAppend ==
  ASSUME NEW s, NEW t \in Nat, Fits(s, t), NEW fn \in FileFns, NEW prec, NEW at, NEW got,
         Len(s) + 1 <= 2 * t + Slack(fn)
  PROVE  LET z == Append(s, [fn |-> fn, prec |-> prec, at |-> at, got |-> got]) IN
           Fits(z, t) /\ Len(z) = Len(s) + 1
<1> DEFINE e == [fn |-> fn, prec |-> prec, at |-> at, got |-> got]
           z == Append(s, e)
<1>1. PICK V : s \in Seq(Frameful(V)) BY DEF Fits, Shaped
<1> DEFINE W == V \cup {prec, at, got}
<1>2. e \in Frameful(W) /\ e.fn = fn BY DEF Frameful
<1>3. \A f \in Frameful(V) : f \in Frameful(W) BY DEF Frameful
<1> HIDE DEF e, W
<1>4. \A k \in 1 .. Len(s) : s[k] \in Frameful(W) BY <1>1, <1>3, ElementOfSeq
<1>5. s \in Seq(Frameful(W)) BY <1>1, <1>4
<1>6. /\ z \in Seq(Frameful(W)) /\ Len(z) = Len(s) + 1 /\ z[Len(s) + 1] = e
      /\ \A k \in 1 .. Len(s) : z[k] = s[k]
  BY <1>2, <1>5, AppendProperties
<1>7. Len(s) \in Nat \ {0} BY FitsLen
<1> HIDE DEF z
<1>8. \A k \in 1 .. Len(z) : k <= 2 * t + Slack(z[k].fn)
  <2> SUFFICES ASSUME NEW k \in 1 .. Len(z) PROVE k <= 2 * t + Slack(z[k].fn) OBVIOUS
  <2>1. CASE k = Len(s) + 1 BY <1>2, <1>6, <2>1
  <2>2. CASE k # Len(s) + 1
    <3>1. k \in 1 .. Len(s) BY <1>6, <1>7, <2>2
    <3> QED BY <1>6, <3>1 DEF Fits
  <2> QED BY <2>1, <2>2
<1>9. z # <<>> /\ z[1].fn = "parser" BY <1>6, <1>7 DEF Fits
<1>10. Shaped(z) BY <1>6 DEF Shaped
<1>11. Fits(z, t) /\ Len(z) = Len(s) + 1
  BY <1>2, <1>6, <1>8, <1>9, <1>10 DEF Fits
<1> QED BY <1>11 DEF z, e

LEMMA FitsPush ==
  ASSUME NEW s, NEW t \in Nat, Fits(s, t), NEW fn \in FileFns, NEW prec, NEW at,
         Len(s) + 1 <= 2 * t + Slack(fn)
  PROVE  LET z == Append(s, Frame(fn, prec, at)) IN Fits(z, t) /\ Len(z) = Len(s) + 1
  BY FitsAppend DEF Frame

\* A return, which is never parser's.
LEMMA FitsFront ==
  ASSUME NEW s, NEW t \in Nat, Fits(s, t), s[Len(s)].fn # "parser"
  PROVE  Fits(Front(s), t) /\ Len(Front(s)) = Len(s) - 1
<1>1. PICK V : s \in Seq(Frameful(V)) BY DEF Fits, Shaped
<1>2. Len(s) \in Nat \ {0} BY FitsLen
<1>3. Len(s) # 1 BY DEF Fits
<1> DEFINE z == Front(s)
<1>4. z \in Seq(Frameful(V)) /\ Len(z) = Len(s) - 1 /\ \A k \in 1 .. Len(s) - 1 : z[k] = s[k]
  <2>1. \A k \in 1 .. Len(s) - 1 : s[k] \in Frameful(V) BY <1>1, <1>2, ElementOfSeq
  <2>2. z = SubSeq(s, 1, Len(s) - 1) BY DEF Front
  <2>3. Len(s) - 1 \in Int /\ 1 \in Int /\ 1 <= Len(s) - 1 BY <1>2, <1>3
  <2> QED BY <1>1, <1>2, <2>1, <2>2, <2>3, SubSeqProperties
<1> HIDE DEF z
<1>5. z # <<>> /\ z[1].fn = "parser" BY <1>2, <1>3, <1>4 DEF Fits
<1>6. Shaped(z) BY <1>4 DEF Shaped
<1>7. \A k \in 1 .. Len(z) : k <= 2 * t + Slack(z[k].fn)
  <2> SUFFICES ASSUME NEW k \in 1 .. Len(z) PROVE k <= 2 * t + Slack(z[k].fn) OBVIOUS
  <2>1. k \in 1 .. Len(s) - 1 /\ k \in 1 .. Len(s) BY <1>2, <1>4
  <2> QED BY <1>4, <2>1 DEF Fits
<1>8. Fits(z, t) /\ Len(z) = Len(s) - 1 BY <1>4, <1>5, <1>6, <1>7 DEF Fits
<1> QED BY <1>8 DEF z

LEMMA FitsReturned ==
  ASSUME NEW t \in Nat, Fits(stack, t), Top.fn # "parser", NEW node
  PROVE  Fits(Returned(node), t) /\ Len(Returned(node)) = Len(stack) - 1
<1>1. Fits(Front(stack), t) /\ Len(Front(stack)) = Len(stack) - 1 BY FitsFront DEF Top
<1> QED BY <1>1, FitsGiven DEF Returned

-----------------------------------------------------------------------------
(* Cursors                                                                  *)

\* Cursors at or beyond position n.
Cursors(n) == [tok : n .. Len(input) + 1, diagnosed : BOOLEAN, crash : SUBSET BOOLEAN]

LEMMA InputLen == ASSUME input \in Inputs PROVE Len(input) \in Nat
  BY InputsAssumption, LenProperties

LEMMA HereIn == ASSUME FileInv PROVE Here \in Cursors(tok)
  BY InputLen DEF FileInv, Here, Cursors

LEMMA CursorMoves ==
  ASSUME FileInv, NEW n \in Nat, NEW c \in Cursors(n)
  PROVE  /\ Dies(c) \in Cursors(n) /\ Reads(c) \in Cursors(n)
         /\ Skips(c) \in Cursors(n) /\ Takes(c) \in Cursors(n)
         /\ \A kind : Expects(c, kind) \in Cursors(n)
         /\ \A kind : May(c, kind) \in Cursors(n)
         /\ \A t : Keys(c, t) \in Cursors(n)
         /\ [c EXCEPT !.diagnosed = TRUE] \in Cursors(n)
<1>1. Len(input) \in Nat BY InputLen DEF FileInv
<1>2. ASSUME NEW d \in Cursors(n) PROVE Dies(d) \in Cursors(n)
  BY DEF Dies, Cursors
<1>3. ASSUME NEW d \in Cursors(n) PROVE Reads(d) \in Cursors(n)
  BY <1>2 DEF Reads
<1>4. ASSUME NEW d \in Cursors(n) PROVE Skips(d) \in Cursors(n)
  <2>1. CASE At(d) = "NULL" BY <2>1 DEF Skips
  <2>2. CASE At(d) # "NULL"
    <3>1. d.tok \in n .. Len(input) + 1 BY DEF Cursors
    <3>2. d.tok <= Len(input) BY <2>2 DEF At
    <3>3. d.tok + 1 \in n .. Len(input) + 1 BY <1>1, <3>1, <3>2
    <3>4. Skips(d) = [d EXCEPT !.tok = d.tok + 1] BY <2>2 DEF Skips
    <3> QED BY <3>3, <3>4 DEF Cursors
  <2> QED BY <2>1, <2>2
<1>5. Takes(c) \in Cursors(n) BY <1>3, <1>4 DEF Takes
<1>6. [c EXCEPT !.diagnosed = TRUE] \in Cursors(n) BY DEF Cursors
<1>7. ASSUME NEW kind PROVE Expects(c, kind) \in Cursors(n)
  BY <1>5, <1>6 DEF Expects
<1>8. ASSUME NEW kind PROVE May(c, kind) \in Cursors(n)
  BY <1>4 DEF May
<1>9. ASSUME NEW t PROVE Keys(c, t) \in Cursors(n)
  BY DEF Keys, Cursors
<1> QED BY <1>2, <1>3, <1>4, <1>5, <1>6, <1>7, <1>8, <1>9

\* A token that was looked at is really taken.
LEMMA SkipsSeen ==
  ASSUME FileInv, NEW kinds, See(kinds), "NULL" \notin kinds
  PROVE  Skips(Here) \in Cursors(tok + 1) /\ tok + 1 \in Nat
<1>1. Len(input) \in Nat /\ tok \in 1 .. Len(input) + 1 BY InputLen DEF FileInv
<1>2. ~ (tok > Len(input)) /\ KindOf(input[tok]) # "NULL" BY DEF See, AtEnd, Kind
<1>3. Here.tok = tok /\ Here.diagnosed \in BOOLEAN /\ Here.crash = {FALSE}
  BY DEF Here, FileInv
<1>4. At(Here) # "NULL" BY <1>1, <1>2, <1>3 DEF At
<1>5. Skips(Here) = [tok |-> tok + 1, diagnosed |-> Here.diagnosed, crash |-> {FALSE}]
  BY <1>3, <1>4 DEF Skips, Here
<1>6. tok + 1 \in tok + 1 .. Len(input) + 1 BY <1>1, <1>2
<1> QED BY <1>1, <1>3, <1>5, <1>6 DEF Cursors

\* Advance keeps the invariant if the stack fits what is surely taken.
LEMMA AdvanceKeeps ==
  ASSUME FileInv, NEW n \in Nat, tok <= n, NEW c \in Cursors(n), NEW s, Fits(s, n), Advance(c, s),
         \A x \in t_lable_tab' : KindOf(x) = "IDENTIFIER"
  PROVE  FileInv'
<1>1. PICK dies \in c.crash :
        IF dies THEN status' = "crash" /\ UNCHANGED <<tok, diagnosed, stack>>
        ELSE tok' = c.tok /\ diagnosed' = c.diagnosed /\ stack' = s /\ UNCHANGED status
  BY DEF Advance
<1>2. input' = input BY DEF Advance
<1>3. CASE dies BY <1>1, <1>2, <1>3 DEF FileInv
<1>4. CASE ~ dies
  <2>1. tok' = c.tok /\ diagnosed' = c.diagnosed /\ stack' = s /\ status' = status
    BY <1>1, <1>4
  <2>2. c.tok \in n .. Len(input) + 1 /\ c.diagnosed \in BOOLEAN BY DEF Cursors
  <2>3. Len(input) \in Nat /\ tok \in 1 .. Len(input) + 1 BY InputLen DEF FileInv
  <2>4. c.tok \in Nat /\ n <= c.tok /\ c.tok \in 1 .. Len(input) + 1 BY <2>2, <2>3
  <2>5. Fits(stack', tok') BY <2>1, <2>4, FitsMore
  <2> QED BY <1>2, <2>1, <2>2, <2>4, <2>5 DEF FileInv
<1> QED BY <1>3, <1>4

\* So do the steps of the expression parser, which set the variables themselves.
LEMMA MoveKeeps ==
  ASSUME FileInv, tok' \in {tok, tok + 1, tok + 2}, tok' <= Len(input) + 1, input' = input,
         Fits(stack', tok'), diagnosed' \in BOOLEAN,
         status' \in {"running", "done", "exit", "crash"}, t_lable_tab' = t_lable_tab
  PROVE  FileInv'
<1>1. Len(input) \in Nat /\ tok \in 1 .. Len(input) + 1 BY InputLen DEF FileInv
<1>2. tok' \in 1 .. Len(input) + 1 BY <1>1
<1> QED BY <1>2 DEF FileInv

-----------------------------------------------------------------------------
(* The steps                                                                *)

LEMMA Depth ==
  ASSUME FileInv, NEW fn, InCall(fn)
  PROVE  /\ Top.fn = fn /\ tok \in Nat /\ Fits(stack, tok)
         /\ Len(stack) \in Nat \ {0} /\ Len(stack) <= 2 * tok + Slack(fn)
<1>1. tok \in Nat BY InputLen DEF FileInv
<1>2. Fits(stack, tok) /\ Top.fn = fn BY DEF FileInv, InCall
<1> QED BY <1>1, <1>2, FitsLen DEF Top

\* Where a statement may stand nothing is owed.
LEMMA StatementDepth ==
  ASSUME FileInv, AtStatement
  PROVE  /\ Top.fn # "parser" /\ tok \in Nat /\ Fits(stack, tok)
         /\ Len(stack) \in Nat \ {0} /\ Len(stack) <= 2 * tok
<1>1. CASE InCall("parse_scope_f") BY <1>1, Depth DEF Slack
<1>2. CASE InCall("parse_function_s") BY <1>2, Depth DEF Slack
<1> QED BY <1>1, <1>2 DEF AtStatement, AwaitsBody

LEMMA FramesFit ==
  ASSUME FileInv, NEW n \in Nat, tok <= n, NEW fn \in FileFns, NEW prec, NEW at,
         Len(stack) + 1 <= 2 * n + Slack(fn)
  PROVE  Fits(Frames(fn, prec, at), n) /\ Len(Frames(fn, prec, at)) = Len(stack) + 1
<1>1. tok \in Nat /\ Fits(stack, tok) BY InputLen DEF FileInv
<1>2. Fits(stack, n) BY <1>1, FitsMore
<1> QED BY <1>2, FitsPush DEF Frames

LEMMA WithExprFits ==
  ASSUME FileInv, NEW n \in Nat, tok <= n, NEW fn \in FileFns, NEW prec, NEW at,
         Len(stack) + 1 <= 2 * n + Slack(fn), Len(stack) <= 2 * n
  PROVE  Fits(WithExpr(fn, prec, at), n)
<1>1. Fits(Frames(fn, prec, at), n) /\ Len(Frames(fn, prec, at)) = Len(stack) + 1 BY FramesFit
<1>2. Len(stack) \in Nat BY ShapedLen DEF FileInv, Fits
<1>3. "parse_expr_f" \in FileFns /\ Slack("parse_expr_f") = 2 BY DEF FileFns, Slack
<1>4. Len(Frames(fn, prec, at)) + 1 <= 2 * n + Slack("parse_expr_f") BY <1>1, <1>2, <1>3
<1> QED BY <1>1, <1>3, <1>4, FitsPush DEF WithExpr, Expr

LEMMA ScopeFits ==
  ASSUME FileInv, NEW n \in Nat, tok <= n, Len(stack) + 1 <= 2 * n
  PROVE  Fits(Append(stack, Scope), n)
<1>1. Append(stack, Scope) = Frames("parse_scope_f", 0, 0) BY DEF Scope, Frames
<1>2. "parse_scope_f" \in FileFns /\ Slack("parse_scope_f") = 0 BY DEF FileFns, Slack
<1> QED BY <1>1, <1>2, FramesFit

\* A round of auto or extrn: its node goes to the caller, and it may go on.
LEMMA ItemKeeps ==
  ASSUME FileInv, InCall("parse_auto_s") \/ InCall("parse_extrn_s"),
         NEW c \in Cursors(tok), NEW node, NEW more, DeclarationItem(c, node, more),
         t_lable_tab' = t_lable_tab
  PROVE  FileInv'
<1> DEFINE added == Returned(node)
           then  == IF Last(Front(stack)).fn = "parse_function_s" THEN Dies(c) ELSE c
           with  == IF more THEN Append(added, Top) ELSE added
<1>1. tok \in Nat /\ Fits(stack, tok) /\ Top.fn \in {"parse_auto_s", "parse_extrn_s"}
      /\ Len(stack) \in Nat \ {0} /\ Len(stack) <= 2 * tok
  BY Depth DEF Slack
<1>2. Advance(then, with) BY DEF DeclarationItem
<1>3. Dies(c) \in Cursors(tok) BY <1>1, CursorMoves
<1>4. then \in Cursors(tok) BY <1>3
<1>5. Fits(added, tok) /\ Len(added) = Len(stack) - 1 BY <1>1, FitsReturned
<1>6. Top.fn \in FileFns /\ Slack(Top.fn) = 0 BY <1>1 DEF FileFns, Slack
<1>7. Top = [fn |-> Top.fn, prec |-> Top.prec, at |-> Top.at, got |-> Top.got]
  BY <1>1, TopIsFrame DEF Top, Fits
<1>8. Fits(Append(added, Top), tok)
  <2>1. Len(added) + 1 <= 2 * tok + Slack(Top.fn) BY <1>1, <1>5, <1>6
  <2> HIDE DEF added
  <2>2. Fits(Append(added, [fn |-> Top.fn, prec |-> Top.prec, at |-> Top.at, got |-> Top.got]), tok)
    BY <1>1, <1>5, <1>6, <2>1, FitsAppend
  <2> QED BY <1>7, <2>2
<1>9. Fits(with, tok) BY <1>5, <1>8
<1>10. \A x \in t_lable_tab' : KindOf(x) = "IDENTIFIER" BY DEF FileInv
<1> HIDE DEF then, with
<1> QED BY <1>1, <1>2, <1>4, <1>9, <1>10, AdvanceKeeps

LEMMA DeclarationKeeps ==
  ASSUME FileInv, DeclarationStep, t_lable_tab' = t_lable_tab
  PROVE  FileInv'
<1>t. tok \in Nat /\ Here \in Cursors(tok) /\ Fits(stack, tok) /\ tok <= tok
  BY HereIn, InputLen DEF FileInv
<1>l. \A x \in t_lable_tab' : KindOf(x) = "IDENTIFIER" BY DEF FileInv
<1>f. Len(stack) \in Nat /\ "parse_global_s" \in FileFns /\ "parse_auto_s" \in FileFns
      /\ "parse_extrn_s" \in FileFns /\ Slack("parse_global_s") = 0 /\ Slack("parse_auto_s") = 0
      /\ Slack("parse_extrn_s") = 0 /\ Slack("parser") = -1 /\ Slack("parse_function_s") = 0
  BY <1>t, FitsLen DEF FileFns, Slack
<1>1. CASE BeginGlobal
  <2>1. Reads(Skips(Here)) \in Cursors(tok) BY <1>t, CursorMoves
  <2>2. Len(stack) <= 2 * tok - 1 BY <1>1, <1>f, Depth DEF BeginGlobal
  <2>3. Fits(Frames("parse_global_s", 0, tok), tok) BY <1>t, <1>f, <2>2, FramesFit
  <2>4. Advance(Reads(Skips(Here)), Frames("parse_global_s", 0, tok)) BY <1>1 DEF BeginGlobal
  <2> QED BY <1>t, <1>l, <2>1, <2>3, <2>4, AdvanceKeeps
<1>2. CASE Unexpected
  <2>1. [Skips(Here) EXCEPT !.diagnosed = TRUE] \in Cursors(tok) BY <1>t, CursorMoves
  <2>2. Advance([Skips(Here) EXCEPT !.diagnosed = TRUE], stack) BY <1>2 DEF Unexpected
  <2> QED BY <1>t, <1>l, <2>1, <2>2, AdvanceKeeps
<1>3. CASE EndOfFile BY <1>3 DEF EndOfFile, FileInv
<1>4. CASE GlobalItem
  <2>1. InCall("parse_global_s") BY <1>4 DEF GlobalItem
  <2>2. PICK sized \in {See({"O_BRACKET"})} :
        \E c \in {Keys(IF sized THEN Expects(Takes(Skips(Here)), "C_BRACKET") ELSE Here,
                       input[Top.at])} :
          LET more  == At(c) = "COMMA"
              added == Returned(Global(input[Top.at], IF sized THEN int_lit(input[tok + 1]) ELSE 1))
          IN Advance(IF more THEN Takes(Skips(c)) ELSE Expects(c, "SEMICOLON"),
                     IF more THEN Append(added, Frame("parse_global_s", 0, c.tok + 1)) ELSE added)
    BY <1>4 DEF GlobalItem
  <2> DEFINE size  == IF sized THEN Expects(Takes(Skips(Here)), "C_BRACKET") ELSE Here
             c     == Keys(size, input[Top.at])
             more  == At(c) = "COMMA"
             added == Returned(Global(input[Top.at], IF sized THEN int_lit(input[tok + 1]) ELSE 1))
             then  == IF more THEN Takes(Skips(c)) ELSE Expects(c, "SEMICOLON")
             with  == IF more THEN Append(added, Frame("parse_global_s", 0, c.tok + 1)) ELSE added
  <2>3. Advance(then, with) BY <2>2
  <2>4. size \in Cursors(tok)
    <3>1. Takes(Skips(Here)) \in Cursors(tok) BY <1>t, CursorMoves
    <3>2. Expects(Takes(Skips(Here)), "C_BRACKET") \in Cursors(tok) BY <1>t, <3>1, CursorMoves
    <3> QED BY <1>t, <3>2
  <2> HIDE DEF size
  <2>5. c \in Cursors(tok) BY <1>t, <2>4, CursorMoves
  <2> HIDE DEF c
  <2>6. then \in Cursors(tok)
    <3>1. Skips(c) \in Cursors(tok) /\ Expects(c, "SEMICOLON") \in Cursors(tok)
      BY <1>t, <2>5, CursorMoves
    <3> QED BY <1>t, <3>1, CursorMoves
  <2>7. Fits(added, tok) /\ Len(added) + 1 <= 2 * tok + Slack("parse_global_s")
    <3>1. Top.fn # "parser" BY <2>1, Depth
    <3>2. Fits(added, tok) /\ Len(added) = Len(stack) - 1 BY <1>t, <3>1, FitsReturned
    <3>3. Len(stack) <= 2 * tok BY <1>f, <2>1, Depth
    <3> QED BY <1>t, <1>f, <3>2, <3>3
  <2> HIDE DEF added
  <2>8. Fits(with, tok)
    <3>1. Fits(Append(added, Frame("parse_global_s", 0, c.tok + 1)), tok)
      BY <1>t, <1>f, <2>7, FitsPush
    <3> QED BY <2>7, <3>1
  <2> HIDE DEF then, with
  <2> QED BY <1>t, <1>l, <2>3, <2>6, <2>8, AdvanceKeeps
<1>5. CASE Parameter
  <2> DEFINE then == IF AtEnd THEN Dies(Here) ELSE May(Keys(Skips(Here), input[tok]), "COMMA")
  <2>1. Advance(then, Given(stack, input[tok])) BY <1>5 DEF Parameter
  <2>2. Dies(Here) \in Cursors(tok) /\ Skips(Here) \in Cursors(tok) BY <1>t, CursorMoves
  <2>3. Keys(Skips(Here), input[tok]) \in Cursors(tok) BY <1>t, <2>2, CursorMoves
  <2>4. May(Keys(Skips(Here), input[tok]), "COMMA") \in Cursors(tok) BY <1>t, <2>3, CursorMoves
  <2>5. then \in Cursors(tok) BY <2>2, <2>4
  <2>6. Fits(Given(stack, input[tok]), tok) BY <1>t, FitsGiven
  <2> HIDE DEF then
  <2> QED BY <1>t, <1>l, <2>1, <2>5, <2>6, AdvanceKeeps
<1>6. CASE EndParameters
  <2> DEFINE with == [stack EXCEPT ![Len(stack)].prec = Len(Top.got) + 1]
  <2>1. Advance(Skips(Here), with) BY <1>6 DEF EndParameters
  <2>2. Skips(Here) \in Cursors(tok) BY <1>t, CursorMoves
  <2>3. Fits(with, tok) BY <1>t, EditField
  <2> HIDE DEF with
  <2> QED BY <1>t, <1>l, <2>1, <2>2, <2>3, AdvanceKeeps
<1>7. CASE EndFunction
  <2> DEFINE node == FunctionNode(input[Top.at], Front(Top.got), t_lable_tab, Last(Top.got))
  <2>1. Advance(Here, Returned(node)) /\ Top.fn # "parser" BY <1>7, Depth DEF EndFunction
  <2> HIDE DEF node
  <2>2. Fits(Returned(node), tok) BY <1>t, <2>1, FitsReturned
  <2> QED BY <1>t, <1>l, <2>1, <2>2, AdvanceKeeps
<1>8. CASE BeginDeclaration
  <2>1. Skips(Here) \in Cursors(tok + 1) /\ tok + 1 \in Nat
    <3>1. See({"AUTO"}) \/ See({"EXTRN"}) BY <1>8 DEF BeginDeclaration, Statement
    <3> QED BY <3>1, SkipsSeen
  <2>2. AtStatement \/ InCall("parser") BY <1>8 DEF BeginDeclaration, Statement
  <2>3. Len(stack) <= 2 * tok
    <3>1. CASE AtStatement BY <3>1, StatementDepth
    <3>2. CASE InCall("parser") BY <1>t, <1>f, <3>2, Depth
    <3> QED BY <2>2, <3>1, <3>2
  <2>4. tok <= tok + 1 /\ Len(stack) + 1 <= 2 * (tok + 1) BY <1>t, <1>f, <2>3
  <2>5. /\ Fits(Frames("parse_auto_s", 0, tok), tok + 1)
        /\ Fits(Frames("parse_extrn_s", 0, tok), tok + 1)
    BY <1>f, <2>1, <2>4, FramesFit
  <2>6. \/ Advance(Skips(Here), Frames("parse_auto_s", 0, tok))
        \/ Advance(Skips(Here), Frames("parse_extrn_s", 0, tok))
    BY <1>8 DEF BeginDeclaration
  <2> QED BY <1>l, <2>1, <2>4, <2>5, <2>6, AdvanceKeeps
<1>9. CASE AutoItem
  <2> DEFINE named == Expects(Here, "IDENTIFIER")
             sized == At(named) = "O_BRACKET"
             size  == IF sized THEN Expects(Reads(Skips(named)), "INT") ELSE named
             end   == IF sized THEN Expects(size, "C_BRACKET") ELSE size
             c     == Keys(end, IF AtEnd THEN "INT" ELSE input[tok])
             more  == At(c) = "COMMA"
             then  == IF more THEN Skips(c) ELSE Expects(c, "SEMICOLON")
             node  == Vector(input[tok], IF sized THEN int_lit(input[named.tok + 1]) ELSE 1)
  <2>1. DeclarationItem(then, node, more) BY ZenonT(30), <1>9 DEF AutoItem
  <2>2. named \in Cursors(tok) BY <1>t, CursorMoves
  <2> HIDE DEF named
  <2>3. Expects(Reads(Skips(named)), "INT") \in Cursors(tok)
    <3>1. Skips(named) \in Cursors(tok) BY <1>t, <2>2, CursorMoves
    <3>2. Reads(Skips(named)) \in Cursors(tok) BY <1>t, <3>1, CursorMoves
    <3> QED BY <1>t, <3>2, CursorMoves
  <2>4. size \in Cursors(tok) BY <2>2, <2>3
  <2> HIDE DEF size
  <2>5. Expects(size, "C_BRACKET") \in Cursors(tok) BY <1>t, <2>4, CursorMoves
  <2>6. end \in Cursors(tok) BY <2>4, <2>5
  <2> HIDE DEF end
  <2>7. c \in Cursors(tok) BY <1>t, <2>6, CursorMoves
  <2> HIDE DEF c
  <2>8. Skips(c) \in Cursors(tok) /\ Expects(c, "SEMICOLON") \in Cursors(tok)
    BY <1>t, <2>7, CursorMoves
  <2>9. then \in Cursors(tok) BY <2>8
  <2>10. InCall("parse_auto_s") BY <1>9 DEF AutoItem
  <2> HIDE DEF then, more, node
  <2> QED BY <2>1, <2>9, <2>10, ItemKeeps
<1>10. CASE ExtrnItem
  <2> DEFINE c    == May(Takes(Here), "COMMA")
             then == May(c, "SEMICOLON")
             more == At(c) # "SEMICOLON"
  <2>1. DeclarationItem(then, Extrn(input[tok]), more) /\ InCall("parse_extrn_s")
    BY <1>10 DEF ExtrnItem
  <2>2. Takes(Here) \in Cursors(tok) BY <1>t, CursorMoves
  <2>3. c \in Cursors(tok) BY <1>t, <2>2, CursorMoves
  <2> HIDE DEF c
  <2>4. then \in Cursors(tok) BY <1>t, <2>3, CursorMoves
  <2> HIDE DEF then, more
  <2> QED BY <2>1, <2>4, ItemKeeps
<1> QED
  BY <1>1, <1>2, <1>3, <1>4, <1>5, <1>6, <1>7, <1>8, <1>9, <1>10 DEF DeclarationStep

\* The conditions of if and while: the activation and its expression.
LEMMA ConditionFits ==
  ASSUME FileInv, NEW n \in Nat, tok + 1 <= n, Len(stack) <= 2 * tok,
         NEW fn \in {"parse_if_s", "parse_while_s", "parse_return_s"}, NEW prec, NEW at
  PROVE  Fits(WithExpr(fn, prec, at), n)
<1>1. tok \in Nat /\ Len(stack) \in Nat BY InputLen, ShapedLen DEF FileInv, Fits
<1>2. fn \in FileFns /\ Slack(fn) = -1 BY DEF FileFns, Slack
<1>3. Len(stack) + 1 <= 2 * n + Slack(fn) /\ Len(stack) <= 2 * n /\ tok <= n BY <1>1, <1>2
<1> QED BY <1>2, <1>3, WithExprFits

LEMMA StatementKeeps ==
  ASSUME FileInv, StatementStep, t_lable_tab' = t_lable_tab
  PROVE  FileInv'
<1>t. /\ tok \in Nat /\ Here \in Cursors(tok) /\ Fits(stack, tok) /\ tok <= tok
      /\ Len(stack) \in Nat \ {0} /\ tok + 1 \in Nat /\ tok <= tok + 1 /\ tok + 1 <= tok + 1
  BY HereIn, InputLen, FitsLen DEF FileInv
<1>l. \A x \in t_lable_tab' : KindOf(x) = "IDENTIFIER" BY DEF FileInv
<1>s. ASSUME NEW kind, See({kind}), kind # "NULL" PROVE Skips(Here) \in Cursors(tok + 1)
  BY <1>s, SkipsSeen
<1>1. CASE NoStatement
  <2>1. Reads(Here) \in Cursors(tok) /\ Advance(Reads(Here), stack)
    BY <1>1, <1>t, CursorMoves DEF NoStatement
  <2> QED BY <1>t, <1>l, <2>1, AdvanceKeeps
<1>2. CASE EndScope
  <2>1. /\ Advance(Skips(Here), Returned(Block(Top.got)))
        /\ Skips(Here) \in Cursors(tok) /\ Top.fn # "parser"
    <3>1. InCall("parse_scope_f") /\ Advance(Skips(Here), Returned(Block(Top.got)))
      BY <1>2 DEF EndScope
    <3>2. Skips(Here) \in Cursors(tok) BY <1>t, CursorMoves
    <3> QED BY <3>1, <3>2, Depth
  <2>2. Fits(Returned(Block(Top.got)), tok) BY <1>t, <2>1, FitsReturned
  <2> QED BY <1>t, <1>l, <2>1, <2>2, AdvanceKeeps
<1>3. CASE OpenScope
  <2>1. /\ Advance(Skips(Here), Append(stack, Scope)) /\ AtStatement
        /\ Skips(Here) \in Cursors(tok + 1)
    BY <1>3, <1>s DEF OpenScope, Statement
  <2>2. Len(stack) + 1 <= 2 * (tok + 1) BY <1>t, <2>1, StatementDepth
  <2>3. Fits(Append(stack, Scope), tok + 1) BY <1>t, <2>2, ScopeFits
  <2> QED BY <1>t, <1>l, <2>1, <2>3, AdvanceKeeps
<1>4. CASE GotoStatement
  <2> DEFINE then == Expects(Takes(Skips(Here)), "SEMICOLON")
             node == Goto(input[tok + 1])
  <2>1. Advance(then, Given(stack, node)) BY <1>4 DEF GotoStatement
  <2>2. Skips(Here) \in Cursors(tok) BY <1>t, CursorMoves
  <2>3. Takes(Skips(Here)) \in Cursors(tok) BY <1>t, <2>2, CursorMoves
  <2>4. then \in Cursors(tok) BY <1>t, <2>3, CursorMoves
  <2> HIDE DEF then, node
  <2>5. Fits(Given(stack, node), tok) BY <1>t, FitsGiven
  <2> QED BY <1>t, <1>l, <2>1, <2>4, <2>5, AdvanceKeeps
<1>5. CASE CommaStatement
  <2> DEFINE then == IF AwaitsBody THEN Dies(Here) ELSE Skips(Here)
  <2>1. Advance(then, stack) BY <1>5 DEF CommaStatement
  <2>2. then \in Cursors(tok) BY <1>t, CursorMoves
  <2> HIDE DEF then
  <2> QED BY <1>t, <1>l, <2>1, <2>2, AdvanceKeeps
<1>6. CASE BeginReturn
  <2>1. /\ Advance(Skips(Here), WithExpr("parse_return_s", 0, tok)) /\ AtStatement
        /\ Skips(Here) \in Cursors(tok + 1)
    BY <1>6, <1>s DEF BeginReturn, Statement
  <2>2. Fits(WithExpr("parse_return_s", 0, tok), tok + 1)
    BY <1>t, <2>1, StatementDepth, ConditionFits
  <2> QED BY <1>t, <1>l, <2>1, <2>2, AdvanceKeeps
<1>7. CASE ExprStatement
  <2>1. Advance(Here, WithExpr("parse_expr_s", 0, tok)) /\ AtStatement
    BY <1>7 DEF ExprStatement
  <2>2. "parse_expr_s" \in FileFns /\ Slack("parse_expr_s") = 1 BY DEF FileFns, Slack
  <2>3. Len(stack) + 1 <= 2 * tok + Slack("parse_expr_s") /\ Len(stack) <= 2 * tok
    BY <1>t, <2>1, <2>2, StatementDepth
  <2>4. Fits(WithExpr("parse_expr_s", 0, tok), tok) BY <1>t, <2>2, <2>3, WithExprFits
  <2> QED BY <1>t, <1>l, <2>1, <2>4, AdvanceKeeps
<1>8. CASE EndSimpleStatement
  <2> DEFINE node == IF Top.fn = "parse_return_s" THEN Ret(Top.got[1]) ELSE Do(Top.got[1])
  <2>1. Advance(Expects(Here, "SEMICOLON"), Returned(node)) /\ Top.fn # "parser"
    BY <1>8, Depth DEF EndSimpleStatement
  <2> HIDE DEF node
  <2>2. Expects(Here, "SEMICOLON") \in Cursors(tok) BY <1>t, CursorMoves
  <2>3. Fits(Returned(node), tok) BY <1>t, <2>1, FitsReturned
  <2> QED BY <1>t, <1>l, <2>1, <2>2, <2>3, AdvanceKeeps
<1>9. CASE BeginCondition
  <2>1. AtStatement /\ (See({"IF"}) \/ See({"WHILE"})) BY <1>9 DEF BeginCondition, Statement
  <2>2. Skips(Here) \in Cursors(tok + 1) BY <2>1, <1>s
  <2>3. Expects(Skips(Here), "O_PREN") \in Cursors(tok + 1) BY <1>t, <2>2, CursorMoves
  <2>4. /\ Fits(WithExpr("parse_if_s", 0, tok), tok + 1)
        /\ Fits(WithExpr("parse_while_s", 0, tok), tok + 1)
    BY <1>t, <2>1, StatementDepth, ConditionFits
  <2>5. \/ Advance(Expects(Skips(Here), "O_PREN"), WithExpr("parse_if_s", 0, tok))
        \/ Advance(Expects(Skips(Here), "O_PREN"), WithExpr("parse_while_s", 0, tok))
    BY <1>9 DEF BeginCondition
  <2> QED BY <1>t, <1>l, <2>3, <2>4, <2>5, AdvanceKeeps
<1>10. CASE EndCondition
  <2> DEFINE then == Expects(Expects(Here, "C_PREN"), "O_BRACE")
  <2>1. Advance(then, Append(stack, Scope)) /\ (InCall("parse_if_s") \/ InCall("parse_while_s"))
    BY <1>10 DEF EndCondition
  <2>2. Expects(Here, "C_PREN") \in Cursors(tok) BY <1>t, CursorMoves
  <2>3. then \in Cursors(tok) BY <1>t, <2>2, CursorMoves
  <2> HIDE DEF then
  <2>4. Len(stack) + 1 <= 2 * tok
    <3>1. Len(stack) <= 2 * tok - 1 BY <2>1, Depth DEF Slack
    <3> QED BY <1>t, <3>1
  <2>5. Fits(Append(stack, Scope), tok) BY <1>t, <2>4, ScopeFits
  <2> QED BY <1>t, <1>l, <2>1, <2>3, <2>5, AdvanceKeeps
<1>11. CASE EndWhile
  <2> DEFINE node == While(Top.got[1], Top.got[2].body)
  <2>1. Advance(Here, Returned(node)) /\ Top.fn # "parser" BY <1>11, Depth DEF EndWhile
  <2> HIDE DEF node
  <2>2. Fits(Returned(node), tok) BY <1>t, <2>1, FitsReturned
  <2> QED BY <1>t, <1>l, <2>1, <2>2, AdvanceKeeps
<1>12. CASE ElseIfStatement
  <2> DEFINE then == Expects(Skips(Skips(Here)), "O_PREN")
  <2>1. /\ Advance(then, WithExpr("parse_if_s", 1, tok + 1))
        /\ InCall("parse_if_s") /\ See({"ELSE"})
    BY <1>12 DEF ElseIfStatement, AtElse
  <2>2. Skips(Here) \in Cursors(tok + 1) BY <2>1, <1>s
  <2>3. Skips(Skips(Here)) \in Cursors(tok + 1) BY <1>t, <2>2, CursorMoves
  <2>4. then \in Cursors(tok + 1) BY <1>t, <2>3, CursorMoves
  <2> HIDE DEF then
  <2>5. Len(stack) <= 2 * tok
    <3>1. Len(stack) <= 2 * tok - 1 BY <2>1, Depth DEF Slack
    <3> QED BY <1>t, <3>1
  <2>6. Fits(WithExpr("parse_if_s", 1, tok + 1), tok + 1) BY <1>t, <2>5, ConditionFits
  <2> QED BY <1>t, <1>l, <2>1, <2>4, <2>6, AdvanceKeeps
<1>13. CASE ElseStatement
  <2> DEFINE then == Expects(Skips(Here), "O_BRACE")
  <2>1. Advance(then, Append(stack, Scope)) /\ InCall("parse_if_s")
    BY <1>13 DEF ElseStatement, AtElse
  <2>2. Skips(Here) \in Cursors(tok) BY <1>t, CursorMoves
  <2>3. then \in Cursors(tok) BY <1>t, <2>2, CursorMoves
  <2> HIDE DEF then
  <2>4. Len(stack) + 1 <= 2 * tok
    <3>1. Len(stack) <= 2 * tok - 1 BY <2>1, Depth DEF Slack
    <3> QED BY <1>t, <3>1
  <2>5. Fits(Append(stack, Scope), tok) BY <1>t, <2>4, ScopeFits
  <2> QED BY <1>t, <1>l, <2>1, <2>3, <2>5, AdvanceKeeps
<1>14. CASE EndIf
  <2> DEFINE node == IfNode(IfKind(Top), Top.got[1], Top.got[2], ChainOf(Top.got))
  <2>1. Advance(Here, Returned(node)) /\ Top.fn # "parser" BY <1>14, Depth DEF EndIf
  <2> HIDE DEF node
  <2>2. Fits(Returned(node), tok) BY <1>t, <2>1, FitsReturned
  <2> QED BY <1>t, <1>l, <2>1, <2>2, AdvanceKeeps
<1> QED
  BY <1>1, <1>2, <1>3, <1>4, <1>5, <1>6, <1>7, <1>8, <1>9, <1>10, <1>11, <1>12, <1>13, <1>14
  DEF StatementStep

\* The two steps that change the table of labels.
LEMMA LablesKeep ==
  ASSUME FileInv, BeginFunction \/ LableStatement
  PROVE  FileInv'
<1>t. tok \in Nat /\ Here \in Cursors(tok) /\ Fits(stack, tok) /\ tok <= tok /\ Len(stack) \in Nat
  BY HereIn, InputLen, FitsLen DEF FileInv
<1>1. Skips(Here) \in Cursors(tok) BY <1>t, CursorMoves
<1>2. Skips(Skips(Here)) \in Cursors(tok) BY <1>t, <1>1, CursorMoves
<1>3. CASE BeginFunction
  <2>1. /\ Advance(Skips(Skips(Here)), Frames("parse_function_s", 0, tok)) /\ t_lable_tab' = {}
        /\ InCall("parser")
    BY <1>3 DEF BeginFunction
  <2>2. "parse_function_s" \in FileFns /\ Slack("parse_function_s") = 0 /\ Slack("parser") = -1
    BY DEF FileFns, Slack
  <2>3. Len(stack) + 1 <= 2 * tok + Slack("parse_function_s")
    <3>1. Len(stack) <= 2 * tok - 1 BY <2>1, <2>2, Depth
    <3> QED BY <1>t, <2>2, <3>1
  <2>4. Fits(Frames("parse_function_s", 0, tok), tok) BY <1>t, <2>2, <2>3, FramesFit
  <2> QED BY <1>t, <1>2, <2>1, <2>4, AdvanceKeeps
<1>4. CASE LableStatement
  <2>1. /\ t_lable_tab' = t_lable_tab \cup {input[tok]}
        /\ Advance(Skips(Skips(Here)), Given(stack, Lable(input[tok])))
        /\ KindOf(input[tok]) = "IDENTIFIER"
    BY <1>4 DEF LableStatement, IsLable, See, Kind
  <2>2. Fits(Given(stack, Lable(input[tok])), tok) BY <1>t, FitsGiven
  <2>3. \A x \in t_lable_tab' : KindOf(x) = "IDENTIFIER" BY <2>1 DEF FileInv
  <2> QED BY <1>t, <1>2, <2>1, <2>2, <2>3, AdvanceKeeps
<1> QED BY <1>3, <1>4

-----------------------------------------------------------------------------
(* The steps of the expression parser                                       *)

LEMMA ExpressionKeeps ==
  ASSUME FileInv, ExpressionStep, t_lable_tab' = t_lable_tab
  PROVE  FileInv'
<1>t. /\ tok \in Nat /\ Len(input) \in Nat /\ tok <= Len(input) + 1 /\ Fits(stack, tok)
      /\ Len(stack) \in Nat \ {0} /\ tok + 1 \in Nat /\ diagnosed \in BOOLEAN
      /\ status \in {"running", "done", "exit", "crash"}
      /\ tok <= tok + 1 /\ tok <= tok + 2 /\ tok + 2 \in Nat
  BY InputLen, FitsLen DEF FileInv
<1>f. /\ {"parse_expr_f", "parse_left_f", "parse_function_call_s"} \subseteq FileFns
      /\ Slack("parse_expr_f") = 2 /\ Slack("parse_left_f") = 3
      /\ Slack("parse_function_call_s") = 0
  BY DEF FileFns, Slack
\* A call of f after n - tok tokens, the running record's `at' set or not.
<1>c. ASSUME NEW n \in {tok, tok + 1, tok + 2}, n <= Len(input) + 1, tok' = n, input' = input,
             diagnosed' = diagnosed, status' = status, NEW s, Fits(s, n), NEW fn \in FileFns,
             NEW prec, NEW at, stack' = Append(s, Frame(fn, prec, at)),
             Len(s) + 1 <= 2 * n + Slack(fn)
      PROVE  FileInv'
  <2>1. n \in Nat BY <1>c, <1>t
  <2>2. Fits(stack', n) BY <1>c, <2>1, FitsPush
  <2> QED BY <1>c, <1>t, <2>2, MoveKeeps
<1>a. ASSUME NEW n \in Nat, tok <= n, NEW at
      PROVE  /\ Fits([stack EXCEPT ![Len(stack)].at = at], n)
             /\ Len([stack EXCEPT ![Len(stack)].at = at]) = Len(stack)
  <2>1. Fits(stack, n) BY <1>a, <1>t, FitsMore
  <2>2. Fits([stack EXCEPT ![Len(stack)].at = at], n) BY <1>a, <2>1, EditField
  <2>3. Len([stack EXCEPT ![Len(stack)].at = at]) = Len(stack)
    <3>1. PICK V : stack \in Seq(Frameful(V)) BY <1>t DEF Fits, Shaped
    <3>2. DOMAIN stack = 1 .. Len(stack) BY <3>1, LenProperties
    <3>3. PICK W : [stack EXCEPT ![Len(stack)].at = at] \in Seq(Frameful(W))
      BY <2>2 DEF Fits, Shaped
    <3>4. DOMAIN [stack EXCEPT ![Len(stack)].at = at] = DOMAIN stack OBVIOUS
    <3> QED BY <1>t, <3>2, <3>3, <3>4, LenProperties
  <2> QED BY <2>2, <2>3
\* A return of a tree.
<1>r. ASSUME tok' \in {tok, tok + 1}, tok' <= Len(input) + 1, input' = input,
             diagnosed' \in BOOLEAN, status' = status, NEW tree, Return(tree), Top.fn # "parser"
      PROVE  FileInv'
  <2>1. tok' \in Nat /\ tok <= tok' BY <1>r, <1>t
  <2>2. Fits(Returned(tree), tok) BY <1>r, <1>t, FitsReturned
  <2>3. Fits(stack', tok') BY <1>r, <1>t, <2>1, <2>2, FitsMore DEF Return
  <2> QED BY <1>r, <1>t, <2>3, MoveKeeps
<1>1. CASE LeftOperand
  <2>1. /\ InCall("parse_expr_f") /\ stack' = Append(stack, Frame("parse_left_f", PREC_NONE, 0))
        /\ UNCHANGED <<input, tok, diagnosed, status>>
    BY <1>1 DEF LeftOperand, Call
  <2>2. Len(stack) <= 2 * tok + 2 BY <2>1, <1>f, Depth
  <2> QED BY <1>t, <1>f, <2>1, <2>2, <1>c
<1>2. CASE RightOperand
  <2> DEFINE s == [stack EXCEPT ![Len(stack)].at = tok]
  <2>1. /\ InCall("parse_expr_f") /\ tok' = tok + 1 /\ ~ AtEnd
        /\ stack' = Append(s, Frame("parse_expr_f", RightPrec(OpPrec), 0))
        /\ UNCHANGED <<input, diagnosed, status>>
    <3>1. ~ AtEnd BY <1>2 DEF RightOperand, Continues, OpPrec, PREC_NONE
    <3> QED BY <1>2, <3>1 DEF RightOperand, AtOperator, CallAt, Expr
  <2>2. Len(stack) <= 2 * tok + 2 /\ tok + 1 <= Len(input) + 1
    BY <1>t, <1>f, <2>1, Depth DEF AtEnd
  <2>3. Fits(s, tok + 1) /\ Len(s) = Len(stack) BY <1>t, <1>a
  <2> HIDE DEF s
  <2> QED BY <1>t, <1>f, <2>1, <2>2, <2>3, <1>c
<1>3. CASE UnknownOperator
  <2>1. /\ status' = "exit" /\ UNCHANGED <<input, tok, stack, diagnosed>>
    BY <1>3 DEF UnknownOperator
  <2> QED BY <1>t, <2>1, MoveKeeps
<1>4. CASE Combine
  <2> DEFINE x == <<Bin(input[Top.at], stack[Len(stack)].got[1], stack[Len(stack)].got[2])>>
             s == [stack EXCEPT ![Len(stack)].got = x]
  <2>1. stack' = [s EXCEPT ![Len(stack)].at = 0] /\ UNCHANGED <<input, tok, diagnosed, status>>
    BY <1>4 DEF Combine
  <2> HIDE DEF x
  <2>2. Fits(s, tok) BY <1>t, EditField
  <2>3. Len(s) = Len(stack)
    <3>1. PICK V : stack \in Seq(Frameful(V)) BY <1>t DEF Fits, Shaped
    <3>2. PICK W : s \in Seq(Frameful(W)) BY <2>2 DEF Fits, Shaped
    <3>3. DOMAIN s = DOMAIN stack OBVIOUS
    <3> HIDE DEF s
    <3> QED BY <1>t, <3>1, <3>2, <3>3, LenProperties
  <2> HIDE DEF s
  <2>4. Fits([s EXCEPT ![Len(s)].at = 0], tok) BY <1>t, <2>2, EditField
  <2>5. Fits(stack', tok) BY <2>1, <2>3, <2>4
  <2> QED BY <1>t, <2>1, <2>5, MoveKeeps
<1>5. CASE EndExpr
  <2>1. /\ tok' \in {tok, tok + 1} /\ tok' <= Len(input) + 1 /\ input' = input
        /\ diagnosed' \in BOOLEAN /\ status' = status
    BY <1>5, <1>t DEF EndExpr
  <2>2. Return(Top.got[1]) /\ Top.fn # "parser"
    BY <1>5, Depth DEF EndExpr, AtOperator, AtOperand, AtArgument, TakesAtom
  <2> QED BY <2>1, <2>2, <1>r
<1>6. CASE OpenParen
  <2> DEFINE s == [stack EXCEPT ![Len(stack)].at = tok]
  <2>1. /\ InCall("parse_left_f") /\ tok' = tok + 1 /\ tok + 1 <= Len(input) + 1
        /\ stack' = Append(s, Frame("parse_expr_f", PREC_NONE, 0))
        /\ UNCHANGED <<input, diagnosed, status>>
    BY <1>6, <1>t DEF OpenParen, AtOperand, CallAt, Expr, See, AtEnd
  <2>2. Len(stack) <= 2 * tok + 3 BY <2>1, <1>f, Depth
  <2>3. Fits(s, tok + 1) /\ Len(s) = Len(stack) BY <1>t, <1>a
  <2> HIDE DEF s
  <2> QED BY <1>t, <1>f, <2>1, <2>2, <2>3, <1>c
<1>7. CASE CloseParen
  <2>1. /\ tok' \in {tok, tok + 1} /\ tok' <= Len(input) + 1 /\ input' = input
        /\ diagnosed' \in BOOLEAN /\ status' = status
    BY <1>7, <1>t DEF CloseParen, Expect, AtEnd
  <2>2. Return(Top.got[1]) /\ Top.fn # "parser"
    BY <1>7, Depth DEF CloseParen, AtOperator, AtOperand, AtArgument, TakesAtom
  <2> QED BY <2>1, <2>2, <1>r
<1>8. CASE UnaryOperator
  <2> DEFINE s == [stack EXCEPT ![Len(stack)].at = tok]
  <2>1. /\ InCall("parse_left_f") /\ tok' = tok + 1 /\ tok + 1 <= Len(input) + 1
        /\ stack' = Append(s, Frame("parse_left_f", PREC_NONE, 0))
        /\ UNCHANGED <<input, diagnosed, status>>
    BY <1>8, <1>t DEF UnaryOperator, AtOperand, CallAt, See, AtEnd
  <2>2. Len(stack) <= 2 * tok + 3 BY <2>1, <1>f, Depth
  <2>3. Fits(s, tok + 1) /\ Len(s) = Len(stack) BY <1>t, <1>a
  <2> HIDE DEF s
  <2> QED BY <1>t, <1>f, <2>1, <2>2, <2>3, <1>c
<1>9. CASE EndUnary
  <2>1. /\ tok' \in {tok, tok + 1} /\ tok' <= Len(input) + 1 /\ input' = input
        /\ diagnosed' \in BOOLEAN /\ status' = status
    BY <1>9, <1>t DEF EndUnary
  <2>2. Return(Un(input[Top.at], Top.got[1])) /\ Top.fn # "parser"
    BY <1>9, Depth DEF EndUnary, AtOperator, AtOperand, AtArgument, TakesAtom
  <2> QED BY <2>1, <2>2, <1>r
<1>10. CASE PlainAtom
  <2>1. /\ tok' \in {tok, tok + 1} /\ tok' <= Len(input) + 1 /\ input' = input
        /\ diagnosed' \in BOOLEAN /\ status' = status
    BY <1>10, <1>t DEF PlainAtom, TakesAtom
  <2>2. Return(Atom(input[tok], tok)) /\ Top.fn # "parser"
    BY <1>10, Depth DEF PlainAtom, AtOperator, AtOperand, AtArgument, TakesAtom
  <2> QED BY <2>1, <2>2, <1>r
<1>11. CASE OpenIndex
  <2> DEFINE s == [stack EXCEPT ![Len(stack)].at = tok]
  <2>1. /\ InCall("parse_left_f") /\ tok' = tok + 2 /\ tok + 2 <= Len(input) + 1
        /\ stack' = Append(s, Frame("parse_expr_f", PREC_NONE, 0))
        /\ UNCHANGED <<input, diagnosed, status>>
    BY <1>11, <1>t DEF OpenIndex, TakesAtom, AtOperand, CallAt, Expr
  <2>2. Len(stack) <= 2 * tok + 3 BY <2>1, <1>f, Depth
  <2>3. Fits(s, tok + 2) /\ Len(s) = Len(stack) BY <1>t, <1>a
  <2> HIDE DEF s
  <2> QED BY <1>t, <1>f, <2>1, <2>2, <2>3, <1>c
<1>12. CASE CloseIndex
  <2>1. /\ tok' \in {tok, tok + 1} /\ tok' <= Len(input) + 1 /\ input' = input
        /\ diagnosed' \in BOOLEAN /\ status' = status
    BY <1>12, <1>t DEF CloseIndex, Expect, AtEnd
  <2>2. Return(Index(Atom(input[Top.at], Top.at), Top.got[1])) /\ Top.fn # "parser"
    BY <1>12, Depth DEF CloseIndex, AtOperator, AtOperand, AtArgument, TakesAtom
  <2> QED BY <2>1, <2>2, <1>r
<1>13. CASE OpenCall
  <2> DEFINE e == [fn |-> "parse_function_call_s", prec |-> 0, at |-> tok, got |-> <<>>]
  <2>1. /\ InCall("parse_left_f") /\ tok' = tok + 2 /\ tok + 2 <= Len(input) + 1
        /\ stack' = [stack EXCEPT ![Len(stack)] = e]
        /\ UNCHANGED <<input, diagnosed, status>>
    BY <1>13, <1>t DEF OpenCall, AtOperand, IsCall, Frame
  <2>2. /\ Shaped(stack') /\ Len(stack') = Len(stack) /\ stack'[Len(stack)] = e
        /\ \A k \in 1 .. Len(stack) - 1 : stack'[k] = stack[k]
    <3> DEFINE z == [stack EXCEPT ![Len(stack)] = e]
    <3>1. "parse_function_call_s" \in FileFns /\ Shaped(stack) /\ Len(stack) # 0
      BY <1>t, <1>f DEF Fits
    <3>2. /\ Shaped(z) /\ Len(z) = Len(stack) /\ z[Len(stack)] = e
          /\ \A k \in 1 .. Len(stack) - 1 : z[k] = stack[k]
      BY <3>1, ShapedEdit
    <3> HIDE DEF z, e
    <3>3. stack' = z BY <2>1 DEF z
    <3> QED BY <3>2, <3>3
  <2>3. Len(stack) # 1 /\ Len(stack) <= 2 * tok + 3 BY <1>t, <1>f, <2>1, Depth DEF Fits, Top
  <2>4. Fits(stack, tok + 2) BY <1>t, FitsMore
  <2> HIDE DEF e
  <2>5. \A k \in 1 .. Len(stack') : k <= 2 * (tok + 2) + Slack(stack'[k].fn)
    <3> SUFFICES ASSUME NEW k \in 1 .. Len(stack)
                 PROVE  k <= 2 * (tok + 2) + Slack(stack'[k].fn)
      BY <2>2
    <3>1. CASE k = Len(stack)
      <4>1. stack'[k].fn = "parse_function_call_s" BY <2>2, <3>1 DEF e
      <4> QED BY <1>t, <1>f, <2>3, <3>1, <4>1
    <3>2. CASE k # Len(stack)
      <4>1. k \in 1 .. Len(stack) - 1 BY <1>t, <3>2
      <4> QED BY <2>2, <2>4, <4>1 DEF Fits
    <3> QED BY <3>1, <3>2
  <2>6. stack' # <<>> /\ stack'[1].fn = "parser" BY <1>t, <2>2, <2>3 DEF Fits
  <2>7. Fits(stack', tok') BY <2>1, <2>2, <2>5, <2>6 DEF Fits
  <2> QED BY <1>t, <2>1, <2>7, MoveKeeps
<1>14. CASE Argument
  <2>1. /\ InCall("parse_function_call_s") /\ stack' = Append(stack, Frame("parse_expr_f", PREC_NONE, 0))
        /\ UNCHANGED <<input, tok, diagnosed, status>>
    BY <1>14 DEF Argument, AtArgument, Call, Expr
  <2>2. Len(stack) <= 2 * tok BY <1>t, <2>1, <1>f, Depth
  <2> QED BY <1>t, <1>f, <2>1, <2>2, <1>c
<1>15. CASE AfterArgument
  <2> DEFINE x == Top.prec + 1
  <2>1. /\ tok' \in {tok, tok + 1} /\ tok' <= Len(input) + 1
        /\ stack' = [stack EXCEPT ![Len(stack)].prec = x]
        /\ UNCHANGED <<input, diagnosed, status>>
    BY <1>15, <1>t DEF AfterArgument, See, AtEnd, Top
  <2> HIDE DEF x
  <2>2. Fits(stack', tok) BY <1>t, <2>1, EditField
  <2>3. Fits(stack', tok') BY <1>t, <2>1, <2>2, FitsMore
  <2> QED BY <1>t, <2>1, <2>3, MoveKeeps
<1>16. CASE CloseCall
  <2>1. /\ tok' \in {tok, tok + 1} /\ tok' <= Len(input) + 1 /\ input' = input
        /\ diagnosed' \in BOOLEAN /\ status' = status
    BY <1>16, <1>t DEF CloseCall, See, AtEnd
  <2>2. Return(CallOf(input[Top.at], Top.at, Top.got)) /\ Top.fn # "parser"
    BY <1>16, Depth DEF CloseCall, AtOperator, AtOperand, AtArgument, TakesAtom
  <2> QED BY <2>1, <2>2, <1>r
<1>17. CASE Crash
  <2>1. status' = "crash" /\ UNCHANGED <<input, tok, stack, diagnosed>> BY <1>17 DEF Crash
  <2> QED BY <1>t, <2>1, MoveKeeps
<1> QED
  BY <1>1, <1>2, <1>3, <1>4, <1>5, <1>6, <1>7, <1>8, <1>9, <1>10, <1>11, <1>12, <1>13, <1>14,
     <1>15, <1>16, <1>17 DEF ExpressionStep

-----------------------------------------------------------------------------
LEMMA FileStart == FileInit => FileInv
<1> SUFFICES ASSUME FileInit PROVE FileInv OBVIOUS
<1> DEFINE e == Frame("parser", 0, 0)
<1>1. /\ input \in Inputs /\ tok = 1 /\ stack = <<e>> /\ diagnosed = FALSE
      /\ status = "running" /\ t_lable_tab = {}
  BY DEF FileInit
<1>2. e \in Frameful({0, <<>>}) /\ e.fn = "parser" BY DEF Frame, Frameful, FileFns
<1> HIDE DEF e
<1>3. <<e>> \in Seq(Frameful({0, <<>>})) /\ Len(<<e>>) = 1 /\ <<e>>[1] = e BY <1>2
<1>4. Fits(stack, 1) BY <1>1, <1>2, <1>3 DEF Fits, Shaped, Slack
<1>5. tok \in 1 .. Len(input) + 1 BY <1>1, InputLen
<1> QED BY <1>1, <1>4, <1>5 DEF FileInv

LEMMA FileAlways == FileSpec => []FileInv
<1>1. FileInv /\ [FileNext]_fileVars => FileInv'
  <2> SUFFICES ASSUME FileInv, [FileNext]_fileVars PROVE FileInv' OBVIOUS
  <2>1. CASE DeclarationStep /\ UNCHANGED t_lable_tab BY <2>1, DeclarationKeeps
  <2>2. CASE StatementStep /\ UNCHANGED t_lable_tab BY <2>2, StatementKeeps
  <2>3. CASE ExpressionStep /\ UNCHANGED t_lable_tab BY <2>3, ExpressionKeeps
  <2>4. CASE BeginFunction \/ LableStatement BY <2>4, LablesKeep
  <2>5. CASE UNCHANGED fileVars
    BY <2>5 DEF FileInv, Fits, fileVars, vars
  <2> QED BY <2>1, <2>2, <2>3, <2>4, <2>5 DEF FileNext
<1> QED BY FileStart, <1>1, PTL DEF FileSpec

\* The parser never looks past its list of tokens, and the activations it leaves
\* are those of its own functions, with parser at the bottom, for every list.
THEOREM ParserStaysInList == FileSpec => []FileTypeOK
<1>1. FileInv => FileTypeOK
  <2> SUFFICES ASSUME FileInv PROVE FileTypeOK OBVIOUS
  <2>1. PICK V : stack \in Seq(Frameful(V)) BY DEF FileInv, Fits, Shaped
  <2>2. DOMAIN stack = 1 .. Len(stack) BY <2>1, LenProperties
  <2>3. \A k \in DOMAIN stack : stack[k].fn \in FileFns BY <2>2, ShapedLen DEF FileInv, Fits
  <2> QED BY <2>3 DEF FileTypeOK, FileInv, Fits
<1> QED BY FileAlways, <1>1, PTL

\* Two activations for each token taken, and three: no file makes the recursive
\* parser call itself without going forward.
THEOREM RecursionIsPaidFor == FileSpec => []DepthBounded
<1>1. FileInv => DepthBounded
  <2> SUFFICES ASSUME FileInv PROVE DepthBounded OBVIOUS
  <2>1. tok \in Nat /\ Fits(stack, tok) BY InputLen DEF FileInv
  <2>2. Len(stack) \in Nat /\ Len(stack) <= 2 * tok + Slack(stack[Len(stack)].fn)
    BY <2>1, FitsLen
  <2>3. Slack(stack[Len(stack)].fn) \in -1 .. 3 BY SlackIsInt
  <2> QED BY <2>1, <2>2, <2>3 DEF DepthBounded
<1> QED BY FileAlways, <1>1, PTL

-----------------------------------------------------------------------------
(* The expression parser alone: what its activations hold                   *)

ExprFns == {"parse_expr_s", "parse_expr_f", "parse_left_f", "parse_function_call_s"}
ExprFrames(V) == [fn : ExprFns, prec : Nat, at : 0 .. Len(input), got : Seq(V)]

\* A stack of such activations, with that of parse_expr_s at the bottom.
Typed(s) ==
  /\ \E V : s \in Seq(ExprFrames(V))
  /\ s # <<>> /\ s[1].fn = "parse_expr_s"

ExprInv ==
  /\ input \in Inputs /\ tok \in 1 .. Len(input) + 1
  /\ Typed(stack)
  /\ diagnosed \in BOOLEAN
  /\ status \in {"running", "done", "exit", "crash"}

LEMMA WiderFrames ==
  ASSUME NEW V, NEW W, V \subseteq W, NEW f \in ExprFrames(V)
  PROVE  f \in ExprFrames(W)
<1>1. f.got \in Seq(W)
  <2>1. f.got \in Seq(V) BY DEF ExprFrames
  <2>2. \A i \in 1 .. Len(f.got) : f.got[i] \in W BY <2>1, ElementOfSeq
  <2> QED BY <2>1, <2>2
<1> QED BY <1>1 DEF ExprFrames

LEMMA SameLength ==
  ASSUME NEW A, NEW B, NEW s \in Seq(A), NEW z \in Seq(B), DOMAIN s = DOMAIN z
  PROVE  Len(s) = Len(z)
<1>1. Len(s) \in Nat /\ DOMAIN s = 1 .. Len(s) /\ Len(z) \in Nat /\ DOMAIN z = 1 .. Len(z)
  BY LenProperties
<1>2. ASSUME NEW a \in Nat, NEW b \in Nat, 1 .. a = 1 .. b, a < b PROVE FALSE
  <2>1. b \in 1 .. b /\ b \notin 1 .. a BY <1>2
  <2> QED BY <1>2, <2>1
<1>3. ASSUME NEW a \in Nat, NEW b \in Nat, 1 .. a = 1 .. b PROVE a = b
  <2>1. a < b \/ b < a \/ a = b OBVIOUS
  <2> QED BY <1>2, <1>3, <2>1
<1> QED BY <1>1, <1>3, Zenon

LEMMA TypedTop ==
  ASSUME NEW s, Typed(s)
  PROVE  /\ Len(s) \in Nat \ {0}
         /\ \E V : s \in Seq(ExprFrames(V)) /\ s[Len(s)] \in ExprFrames(V)
<1>1. PICK V : s \in Seq(ExprFrames(V)) BY DEF Typed
<1>2. Len(s) \in Nat \ {0} BY <1>1, EmptySeq, LenProperties DEF Typed
<1>3. s[Len(s)] \in ExprFrames(V) BY <1>1, <1>2, ElementOfSeq
<1> QED BY <1>1, <1>2, <1>3

\* A call.
LEMMA TypedAppend ==
  ASSUME NEW s, Typed(s), NEW V, NEW e \in ExprFrames(V)
  PROVE  Typed(Append(s, e))
<1>1. PICK U : s \in Seq(ExprFrames(U)) BY DEF Typed
<1> DEFINE W == U \cup V
<1>2. Len(s) \in Nat \ {0} BY TypedTop
<1>3. \A k \in 1 .. Len(s) : s[k] \in ExprFrames(W) BY <1>1, ElementOfSeq, WiderFrames
<1>4. e \in ExprFrames(W) BY WiderFrames
<1> HIDE DEF W
<1>5. s \in Seq(ExprFrames(W)) BY <1>1, <1>3
<1>6. Append(s, e) \in Seq(ExprFrames(W)) /\ Append(s, e) # <<>> /\ Append(s, e)[1] = s[1]
  BY <1>2, <1>4, <1>5, AppendProperties
<1> QED BY <1>6 DEF Typed

\* Another record on top.
LEMMA TypedEdit ==
  ASSUME NEW s, Typed(s), NEW V, NEW e \in ExprFrames(V), e.fn = s[Len(s)].fn \/ Len(s) # 1
  PROVE  Typed([s EXCEPT ![Len(s)] = e])
<1>1. PICK U : s \in Seq(ExprFrames(U)) BY DEF Typed
<1> DEFINE W == U \cup V
           z == [s EXCEPT ![Len(s)] = e]
<1>2. Len(s) \in Nat \ {0} /\ s = [k \in 1 .. Len(s) |-> s[k]] BY <1>1, TypedTop, LenProperties
<1>3. \A k \in 1 .. Len(s) : s[k] \in ExprFrames(W) BY <1>1, ElementOfSeq, WiderFrames
<1>4. e \in ExprFrames(W) BY WiderFrames
<1> HIDE DEF W
<1>5. z = [k \in 1 .. Len(s) |-> IF k = Len(s) THEN e ELSE s[k]] BY <1>2
<1>6. z \in Seq(ExprFrames(W)) /\ Len(z) = Len(s) BY <1>2, <1>3, <1>4, <1>5
<1>7. z[1].fn = "parse_expr_s" BY <1>2, <1>5 DEF Typed
<1>8. z # <<>> BY <1>2, <1>6
<1> QED BY <1>6, <1>7, <1>8 DEF Typed

LEMMA TypedFields ==
  ASSUME NEW s, Typed(s)
  PROVE  /\ \A x \in 0 .. Len(input) : Typed([s EXCEPT ![Len(s)].at = x])
         /\ \A x \in Nat : Typed([s EXCEPT ![Len(s)].prec = x])
         /\ \A V : \A x \in Seq(V) : Typed([s EXCEPT ![Len(s)].got = x])
<1>1. PICK U : s \in Seq(ExprFrames(U)) /\ s[Len(s)] \in ExprFrames(U) BY TypedTop
<1> DEFINE f == s[Len(s)]
<1>2. ASSUME NEW x \in 0 .. Len(input) PROVE Typed([s EXCEPT ![Len(s)].at = x])
  <2> DEFINE e == [f EXCEPT !.at = x]
  <2>1. e \in ExprFrames(U) /\ e.fn = f.fn BY <1>1 DEF ExprFrames
  <2>2. [s EXCEPT ![Len(s)].at = x] = [s EXCEPT ![Len(s)] = e] OBVIOUS
  <2> HIDE DEF e
  <2> QED BY <2>1, <2>2, TypedEdit
<1>3. ASSUME NEW x \in Nat PROVE Typed([s EXCEPT ![Len(s)].prec = x])
  <2> DEFINE e == [f EXCEPT !.prec = x]
  <2>1. e \in ExprFrames(U) /\ e.fn = f.fn BY <1>1 DEF ExprFrames
  <2>2. [s EXCEPT ![Len(s)].prec = x] = [s EXCEPT ![Len(s)] = e] OBVIOUS
  <2> HIDE DEF e
  <2> QED BY <2>1, <2>2, TypedEdit
<1>4. ASSUME NEW V, NEW x \in Seq(V) PROVE Typed([s EXCEPT ![Len(s)].got = x])
  <2> DEFINE e == [f EXCEPT !.got = x]
  <2>1. e \in ExprFrames(V) /\ e.fn = f.fn BY <1>1 DEF ExprFrames
  <2>2. [s EXCEPT ![Len(s)].got = x] = [s EXCEPT ![Len(s)] = e] OBVIOUS
  <2> HIDE DEF e
  <2> QED BY <2>1, <2>2, TypedEdit
<1> QED BY <1>2, <1>3, <1>4

\* A return, which is never that of parse_expr_s.
LEMMA TypedReturned ==
  ASSUME Typed(stack), Top.fn # "parse_expr_s", NEW node
  PROVE  Typed(Returned(node))
<1> DEFINE z == Front(stack)
           x == Append(z[Len(z)].got, node)
<1>1. PICK V : stack \in Seq(ExprFrames(V)) /\ stack[Len(stack)] \in ExprFrames(V) BY TypedTop
<1>2. Len(stack) \in Nat \ {0} /\ Len(stack) # 1 BY TypedTop DEF Typed, Top
<1>3. z \in Seq(ExprFrames(V)) /\ Len(z) = Len(stack) - 1 /\ z[1] = stack[1]
  <2>1. \A k \in 1 .. Len(stack) - 1 : stack[k] \in ExprFrames(V) BY <1>1, <1>2, ElementOfSeq
  <2>2. z = SubSeq(stack, 1, Len(stack) - 1) BY DEF Front
  <2>3. \A n \in Nat \ {0} : n # 1 => n - 1 \in Int /\ 1 \in Int /\ 1 <= n - 1 OBVIOUS
  <2>4. Len(stack) - 1 \in Int /\ 1 \in Int /\ 1 <= Len(stack) - 1 BY <1>2, <2>3
  <2> QED BY <1>1, <1>2, <2>1, <2>2, <2>4, SubSeqProperties
<1> HIDE DEF z
<1>4. Typed(z) BY <1>2, <1>3, EmptySeq DEF Typed
<1>5. PICK U : z[Len(z)] \in ExprFrames(U) BY <1>4, TypedTop
<1>6. x \in Seq(U \cup {node})
  <2> DEFINE g == z[Len(z)].got
  <2>1. g \in Seq(U) BY <1>5 DEF ExprFrames
  <2> HIDE DEF g
  <2>2. \A i \in 1 .. Len(g) : g[i] \in U \cup {node} BY <2>1, ElementOfSeq
  <2>3. g \in Seq(U \cup {node}) BY <2>1, <2>2
  <2>4. Append(g, node) \in Seq(U \cup {node}) BY <2>3, AppendProperties
  <2> QED BY <2>4 DEF g
<1>7. Returned(node) = [z EXCEPT ![Len(z)].got = x] BY DEF Returned, Given, z
<1> HIDE DEF x
<1>8. Typed([z EXCEPT ![Len(z)].got = x]) BY <1>4, <1>6, TypedFields
<1> QED BY ONLY <1>7, <1>8

LEMMA ExprStart == Init => ExprInv
<1> SUFFICES ASSUME Init PROVE ExprInv OBVIOUS
<1> DEFINE e == Frame("parse_expr_s", PREC_NONE, 0)
<1>1. /\ input \in Inputs /\ tok = 1 /\ stack = <<e>> /\ diagnosed = FALSE /\ status = "running"
  BY DEF Init
<1>2. Len(input) \in Nat BY <1>1, InputLen
<1>3. e \in ExprFrames({}) /\ e.fn = "parse_expr_s"
  BY <1>2 DEF Frame, ExprFrames, ExprFns, PREC_NONE
<1> HIDE DEF e
<1>4. <<e>> \in Seq(ExprFrames({})) /\ <<e>> # <<>> /\ <<e>>[1] = e BY <1>3
<1>5. Typed(stack) BY <1>1, <1>3, <1>4 DEF Typed
<1>6. tok \in 1 .. Len(input) + 1 BY <1>1, <1>2
<1> QED BY <1>1, <1>5, <1>6 DEF ExprInv

\* The steps but for what they do to the stack.
LEMMA ExprMoves ==
  ASSUME ExprInv, tok' \in {tok, tok + 1, tok + 2}, tok' <= Len(input) + 1, input' = input,
         Typed(stack), Typed(stack)', diagnosed' \in BOOLEAN,
         status' \in {"running", "done", "exit", "crash"}
  PROVE  ExprInv'
<1>1. Len(input) \in Nat /\ tok \in 1 .. Len(input) + 1 BY InputLen DEF ExprInv
<1>2. tok' \in 1 .. Len(input) + 1 BY <1>1
<1> QED BY <1>2 DEF ExprInv

LEMMA ExprKeeps ==
  ASSUME ExprInv, Next
  PROVE  ExprInv'
<1>t. /\ tok \in Nat /\ Len(input) \in Nat /\ tok <= Len(input) + 1 /\ Typed(stack)
      /\ tok + 1 \in Nat /\ tok + 2 \in Nat /\ tok \in 1 .. Len(input) + 1
      /\ diagnosed \in BOOLEAN /\ status \in {"running", "done", "exit", "crash"}
  BY InputLen DEF ExprInv
<1>i. input' = input
  BY DEF Next, StatementExpr, SkipComma, EndStatement, ExpressionStep, LeftOperand, RightOperand,
         UnknownOperator, Combine, EndExpr, OpenParen, CloseParen, UnaryOperator, EndUnary,
         PlainAtom, OpenIndex, CloseIndex, OpenCall, Argument, AfterArgument, CloseCall, Crash
<1>s. ASSUME Typed(stack') PROVE Typed(stack)'
  BY <1>s, <1>i DEF Typed, ExprFrames
<1>m. ASSUME tok' \in {tok, tok + 1, tok + 2}, tok' <= Len(input) + 1, Typed(stack'),
             diagnosed' \in BOOLEAN, status' \in {"running", "done", "exit", "crash"}
      PROVE  ExprInv'
  BY <1>i, <1>m, <1>s, <1>t, ExprMoves
\* A call of f, the running record's `at' set or not.
<1>c. ASSUME NEW s, Typed(s), NEW fn \in ExprFns, NEW prec \in Nat
      PROVE  Typed(Append(s, Frame(fn, prec, 0)))
  <2>1. Frame(fn, prec, 0) \in ExprFrames({}) BY <1>c, <1>t DEF Frame, ExprFrames
  <2> QED BY <1>c, <2>1, TypedAppend
<1>f. {"parse_expr_f", "parse_left_f", "parse_function_call_s"} \subseteq ExprFns
      /\ PREC_NONE \in Nat
  BY DEF ExprFns, PREC_NONE
<1>a. tok <= Len(input) => Typed([stack EXCEPT ![Len(stack)].at = tok])
  BY <1>t, TypedFields
<1>r. ASSUME NEW node, Return(node), Top.fn # "parse_expr_s"
      PROVE  Typed(stack')
  BY <1>r, <1>t, TypedReturned DEF Return
<1>1. CASE StatementExpr \/ LeftOperand \/ Argument
  <2>1. /\ UNCHANGED <<tok, diagnosed, status>>
        /\ \/ stack' = Append(stack, Frame("parse_expr_f", PREC_NONE, 0))
           \/ stack' = Append(stack, Frame("parse_left_f", PREC_NONE, 0))
    BY <1>1 DEF StatementExpr, LeftOperand, Argument, Call, Expr
  <2>2. Typed(stack') BY <1>c, <1>f, <1>t, <2>1
  <2> QED BY <1>m, <1>t, <2>1, <2>2
<1>2. CASE SkipComma \/ UnknownOperator \/ Crash
  <2>1. /\ UNCHANGED <<stack, diagnosed>> /\ tok' \in {tok, tok + 1} /\ tok' <= Len(input) + 1
        /\ status' \in {"done", "exit", "crash"}
    BY <1>2, <1>t DEF SkipComma, UnknownOperator, Crash, See, AtEnd
  <2> QED BY <1>m, <1>t, <2>1
<1>3. CASE EndStatement
  <2>1. /\ tok' \in {tok, tok + 1} /\ tok' <= Len(input) + 1 /\ stack' = stack
        /\ diagnosed' \in BOOLEAN /\ status' = "done"
    BY <1>3, <1>t DEF EndStatement, Expect, AtEnd
  <2> QED BY <1>m, <1>t, <2>1
<1>4. CASE RightOperand
  <2>1. ~ AtEnd /\ OpPrec \in Nat
    BY <1>4 DEF RightOperand, Continues, OpPrec, PREC_NONE, get_op_prec, PrecOf, PREC_ASSIGNMENT,
                PREC_UNKNOWN
  <2>2. RightPrec(OpPrec) \in Nat BY <2>1 DEF RightPrec
  <2>3. /\ tok' = tok + 1 /\ UNCHANGED <<diagnosed, status>>
        /\ stack' = Append([stack EXCEPT ![Len(stack)].at = tok],
                           Frame("parse_expr_f", RightPrec(OpPrec), 0))
    BY <1>4 DEF RightOperand, CallAt, Expr
  <2>4. Typed(stack') BY <1>a, <1>c, <1>f, <1>t, <2>1, <2>2, <2>3 DEF AtEnd
  <2>5. tok + 1 <= Len(input) + 1 BY <1>t, <2>1 DEF AtEnd
  <2> QED BY <1>m, <1>t, <2>3, <2>4, <2>5
<1>5. CASE Combine
  <2> DEFINE n == Bin(input[Top.at], stack[Len(stack)].got[1], stack[Len(stack)].got[2])
             s == [stack EXCEPT ![Len(stack)].got = <<n>>]
  <2>1. stack' = [s EXCEPT ![Len(stack)].at = 0] /\ UNCHANGED <<tok, diagnosed, status>>
    BY <1>5 DEF Combine
  <2> HIDE DEF n
  <2>2. <<n>> \in Seq({n}) OBVIOUS
  <2>3. Typed(s) BY <1>t, <2>2, TypedFields
  <2>4. Len(s) = Len(stack)
    <3>1. PICK V : stack \in Seq(ExprFrames(V)) BY <1>t DEF Typed
    <3>2. PICK W : s \in Seq(ExprFrames(W)) BY <2>3 DEF Typed
    <3>3. DOMAIN s = DOMAIN stack OBVIOUS
    <3> HIDE DEF s
    <3> QED BY <3>1, <3>2, <3>3, SameLength
  <2> HIDE DEF s
  <2>5. Typed([s EXCEPT ![Len(s)].at = 0])
    <3>1. \A x \in 0 .. Len(input) : Typed([s EXCEPT ![Len(s)].at = x]) BY <2>3, TypedFields
    <3>2. 0 \in 0 .. Len(input) BY <1>t
    <3> QED BY <3>1, <3>2
  <2>6. Typed(stack') BY <2>1, <2>4, <2>5
  <2> QED BY <1>m, <1>t, <2>1, <2>6
<1>6. CASE OpenParen \/ UnaryOperator \/ OpenIndex
  <2>1. /\ UNCHANGED <<diagnosed, status>> /\ tok' \in {tok + 1, tok + 2} /\ tok' <= Len(input) + 1
        /\ tok <= Len(input)
        /\ \E fn \in {"parse_expr_f", "parse_left_f"} :
             stack' = Append([stack EXCEPT ![Len(stack)].at = tok], Frame(fn, PREC_NONE, 0))
    <3>1. CASE OpenParen BY <3>1, <1>t DEF OpenParen, CallAt, Expr, See, AtEnd
    <3>2. CASE UnaryOperator BY <3>2, <1>t DEF UnaryOperator, CallAt, See, AtEnd
    <3>3. CASE OpenIndex
      <4>1. /\ UNCHANGED <<diagnosed, status>> /\ tok' = tok + 2 /\ tok < Len(input)
            /\ stack' = Append([stack EXCEPT ![Len(stack)].at = tok],
                               Frame("parse_expr_f", PREC_NONE, 0))
        BY <3>3 DEF OpenIndex, TakesAtom, CallAt, Expr
      <4>2. tok + 2 <= Len(input) + 1 /\ tok <= Len(input) BY <1>t, <4>1
      <4> QED BY <4>1, <4>2
    <3> QED BY <1>6, <3>1, <3>2, <3>3
  <2>2. Typed(stack') BY <1>a, <1>c, <1>f, <2>1
  <2> QED BY <1>m, <1>t, <2>1, <2>2
<1>7. CASE OpenCall
  <2> DEFINE e == Frame("parse_function_call_s", 0, tok)
  <2>1. /\ stack' = [stack EXCEPT ![Len(stack)] = e] /\ UNCHANGED <<diagnosed, status>>
        /\ tok' = tok + 2 /\ tok + 2 <= Len(input) + 1 /\ Top.fn = "parse_left_f"
    BY <1>7, <1>t DEF OpenCall, AtOperand, InCall, IsCall
  <2>2. e \in ExprFrames({}) BY <1>f, <1>t, <2>1 DEF Frame, ExprFrames
  <2> HIDE DEF e
  <2>3. Len(stack) # 1 BY <1>t, <2>1 DEF Typed, Top
  <2>4. Typed(stack') BY <1>t, <2>1, <2>2, <2>3, TypedEdit
  <2> QED BY <1>m, <1>t, <2>1, <2>4
<1>8. CASE AfterArgument
  <2> DEFINE x == stack[Len(stack)].prec + 1
  <2>1. /\ stack' = [stack EXCEPT ![Len(stack)].prec = x] /\ UNCHANGED <<diagnosed, status>>
        /\ tok' \in {tok, tok + 1} /\ tok' <= Len(input) + 1
    BY <1>8, <1>t DEF AfterArgument, See, AtEnd
  <2>2. x \in Nat
    <3>1. PICK V : stack[Len(stack)] \in ExprFrames(V) BY <1>t, TypedTop
    <3> QED BY <3>1 DEF ExprFrames
  <2> HIDE DEF x
  <2>3. Typed(stack') BY <1>t, <2>1, <2>2, TypedFields
  <2> QED BY <1>m, <1>t, <2>1, <2>3
<1>9. CASE EndExpr \/ CloseParen \/ EndUnary \/ PlainAtom \/ CloseIndex \/ CloseCall
  <2>1. Top.fn # "parse_expr_s"
    BY <1>9 DEF EndExpr, CloseParen, EndUnary, PlainAtom, CloseIndex, CloseCall, AtOperator,
                TakesAtom, AtOperand, AtArgument, InCall
  <2>2. /\ tok' \in {tok, tok + 1} /\ tok' <= Len(input) + 1
        /\ diagnosed' \in BOOLEAN /\ status' = status
    <3>1. CASE EndExpr \/ EndUnary BY <3>1, <1>t DEF EndExpr, EndUnary
    <3>2. CASE CloseParen BY <3>2, <1>t DEF CloseParen, Expect, AtEnd
    <3>3. CASE PlainAtom BY <3>3, <1>t DEF PlainAtom, TakesAtom
    <3>4. CASE CloseIndex BY <3>4, <1>t DEF CloseIndex, Expect, AtEnd
    <3>5. CASE CloseCall BY <3>5, <1>t DEF CloseCall, See, AtEnd
    <3> QED BY <1>9, <3>1, <3>2, <3>3, <3>4, <3>5
  <2>3. \E node : Return(node)
    BY <1>9 DEF EndExpr, CloseParen, EndUnary, PlainAtom, CloseIndex, CloseCall
  <2>4. Typed(stack') BY <1>r, <2>1, <2>3
  <2> QED BY <1>m, <1>t, <2>2, <2>4
<1> QED
  BY <1>1, <1>2, <1>3, <1>4, <1>5, <1>6, <1>7, <1>8, <1>9 DEF Next, ExpressionStep

\* For every list of tokens the expression parser stays in it, also where an
\* operator, a bracket or an argument is missing, and each of its activations
\* remembers a token of the list.
THEOREM StatementStaysInList == Spec => []TypeOK
<1>1. ExprInv /\ [Next]_vars => ExprInv'
  <2> SUFFICES ASSUME ExprInv, [Next]_vars PROVE ExprInv' OBVIOUS
  <2>1. CASE UNCHANGED vars BY <2>1 DEF vars, ExprInv, Typed, ExprFrames
  <2> QED BY <2>1, ExprKeeps
<1>2. ExprInv => TypeOK
  <2> SUFFICES ASSUME ExprInv PROVE TypeOK OBVIOUS
  <2>1. PICK V : stack \in Seq(ExprFrames(V)) BY DEF ExprInv, Typed
  <2>2. ASSUME NEW k \in DOMAIN stack PROVE FrameOk(stack[k])
    <3>1. stack[k] \in ExprFrames(V) BY <2>1, LenProperties, ElementOfSeq
    <3>2. Len(stack[k].got) \in Nat BY <3>1, LenProperties DEF ExprFrames
    <3> QED BY <3>1, <3>2 DEF FrameOk, ExprFrames, ExprFns
  <2> QED BY <2>2 DEF TypeOK, ExprInv, Typed
<1> QED BY ExprStart, <1>1, <1>2, PTL DEF Spec

-----------------------------------------------------------------------------
(* Trees.  A node is fit if it lies in a set of nodes that fit one by one     *)
(* and have their children in it: then all that is below it does, however    *)
(* deep.                                                                     *)

IsExpr(e) ==
  \E E : e \in E /\ \A x \in E : ExprFits(x) /\ ExprsUnder(x) \subseteq E

\* The same for a statement whose labels are in tab.
StmtSet(S, tab) ==
  /\ Closed(S) /\ LabelsOf(S) \subseteq tab
  /\ \A s \in S : StmtFits(s) /\ \A e \in ExprsOf(s) : IsExpr(e)
IsStmt(s, tab) == \E S : s \in S /\ StmtSet(S, tab)

\* Label x is at s or below it: one finds it in whatever is closed.
Holds(s, x) == \A S : s \in S /\ Closed(S) => x \in LabelsOf(S)

Chained(n)      == n.kind \in {"AST_ELSE_IF", "AST_ELSE"}
IsScope(n, tab) == IsStmt(n, tab) /\ n.kind = "AST_SCOPE" /\ n = Block(n.body)
\* What may stand in the list of the file.
Handed(d) ==
  /\ d.kind \in {"AST_FUNCTION", "AST_GLOBAL", "AST_EXTRN"}
  /\ d.kind = "AST_FUNCTION" =>
       /\ ~ Chained(d.body) /\ IsStmt(d.body, d.lables)
       /\ \A x \in d.lables : Holds(d.body, x)

LEMMA ExprNode ==
  ASSUME NEW n, ExprFits(n), \A e \in ExprsUnder(n) : IsExpr(e)
  PROVE  IsExpr(n)
<1> DEFINE Good(E) == \A x \in E : ExprFits(x) /\ ExprsUnder(x) \subseteq E
           In(e) == CHOOSE E : e \in E /\ Good(E)
           All == {n} \cup UNION {In(e) : e \in ExprsUnder(n)}
<1>1. \A e \in ExprsUnder(n) : e \in In(e) /\ Good(In(e)) BY DEF IsExpr
<1> HIDE DEF In
<1>2. ExprsUnder(n) \subseteq All BY <1>1
<1>3. \A x \in All : ExprFits(x) /\ ExprsUnder(x) \subseteq All BY <1>1, <1>2
<1>4. n \in All OBVIOUS
<1> QED BY <1>3, <1>4 DEF IsExpr

LEMMA StmtNode ==
  ASSUME NEW n, NEW tab, StmtFits(n), \A e \in ExprsOf(n) : IsExpr(e),
         \A s \in StmtsUnder(n) : IsStmt(s, tab), n.kind = "AST_LABLE" => n.name \in tab
  PROVE  IsStmt(n, tab)
<1> DEFINE In(s) == CHOOSE S : s \in S /\ StmtSet(S, tab)
           All == {n} \cup UNION {In(s) : s \in StmtsUnder(n)}
<1>1. \A s \in StmtsUnder(n) : s \in In(s) /\ StmtSet(In(s), tab) BY DEF IsStmt
<1> HIDE DEF In
<1>2. StmtsUnder(n) \subseteq All BY <1>1
<1>3. Closed(All) BY <1>1, <1>2 DEF Closed, StmtSet
<1>4. ASSUME NEW x \in All, x.kind = "AST_LABLE" PROVE x.name \in tab
  BY <1>1, <1>4 DEF StmtSet, LabelsOf
<1>5. LabelsOf(All) \subseteq tab BY <1>4 DEF LabelsOf
<1>6. \A x \in All : StmtFits(x) /\ \A e \in ExprsOf(x) : IsExpr(e) BY <1>1 DEF StmtSet
<1>7. n \in All OBVIOUS
<1> HIDE DEF All
<1> QED BY <1>3, <1>5, <1>6, <1>7 DEF IsStmt, StmtSet

LEMMA StmtWider ==
  ASSUME NEW n, NEW tab, NEW more, IsStmt(n, tab), tab \subseteq more
  PROVE  IsStmt(n, more)
  BY DEF IsStmt, StmtSet

LEMMA StmtParts ==
  ASSUME NEW n, NEW tab, IsStmt(n, tab)
  PROVE  StmtFits(n) /\ \A s \in StmtsUnder(n) : IsStmt(s, tab)
  BY DEF IsStmt, StmtSet, Closed

LEMMA HoldsBelow ==
  ASSUME NEW n, NEW s \in StmtsUnder(n), NEW x, Holds(s, x)
  PROVE  Holds(n, x)
  BY DEF Holds, Closed

LEMMA HoldsLable == ASSUME NEW x PROVE Holds(Lable(x), x)
<1>1. Lable(x).kind = "AST_LABLE" /\ Lable(x).name = x BY DEF Lable
<1> QED BY <1>1 DEF Holds, LabelsOf

\* else's node has what the scope had that parse_if_s takes apart.
LEMMA ElseIsBlock ==
  ASSUME NEW b, NEW tab, IsStmt(Block(b), tab)
  PROVE  IsStmt(Else(b), tab) /\ \A x : Holds(Block(b), x) => Holds(Else(b), x)
<1>1. /\ Else(b).kind = "AST_ELSE" /\ Else(b).body = b
      /\ Block(b).kind = "AST_SCOPE" /\ Block(b).body = b
  BY DEF Else, Block
<1>2. StmtsUnder(Else(b)) = StmtsUnder(Block(b)) BY <1>1 DEF StmtsUnder
<1>3. StmtFits(Block(b)) /\ \A s \in StmtsUnder(Block(b)) : IsStmt(s, tab) BY StmtParts
<1>4. StmtFits(Else(b)) /\ ExprsOf(Else(b)) = {} BY <1>1, <1>3 DEF StmtFits, ExprsOf
<1>5. IsStmt(Else(b), tab) BY <1>1, <1>2, <1>3, <1>4, StmtNode
<1>6. ASSUME NEW x, Holds(Block(b), x) PROVE Holds(Else(b), x)
  <2> SUFFICES ASSUME NEW S, Else(b) \in S, Closed(S) PROVE x \in LabelsOf(S)
    BY DEF Holds
  <2> DEFINE T == S \cup {Block(b)}
  <2>1. Closed(T) BY <1>2 DEF Closed
  <2>2. x \in LabelsOf(T) BY <1>6, <2>1 DEF Holds
  <2>3. LabelsOf(T) = LabelsOf(S) BY <1>1 DEF LabelsOf
  <2> QED BY <2>2, <2>3
<1> QED BY <1>5, <1>6

-----------------------------------------------------------------------------
(* The activations while the trees grow                                     *)

IsList(g) == \E V : g \in Seq(V)

LEMMA ListAppend ==
  ASSUME NEW g, IsList(g), NEW n
  PROVE  /\ IsList(Append(g, n)) /\ Len(g) \in Nat /\ Len(Append(g, n)) = Len(g) + 1
         /\ Append(g, n)[Len(g) + 1] = n
         /\ \A i \in 1 .. Len(g) : Append(g, n)[i] = g[i]
<1>1. PICK V : g \in Seq(V) BY DEF IsList
<1> DEFINE W == V \cup {n}
<1>2. \A i \in 1 .. Len(g) : g[i] \in W BY <1>1, ElementOfSeq
<1>3. n \in W OBVIOUS
<1> HIDE DEF W
<1>4. g \in Seq(W) BY <1>1, <1>2
<1>5. /\ Append(g, n) \in Seq(W) /\ Len(Append(g, n)) = Len(g) + 1
      /\ Append(g, n)[Len(g) + 1] = n /\ \A i \in 1 .. Len(g) : Append(g, n)[i] = g[i]
  BY <1>3, <1>4, AppendProperties
<1>6. Len(g) \in Nat BY <1>1, LenProperties
<1> QED BY <1>5, <1>6 DEF IsList

ExprHolders == {"parse_return_s", "parse_expr_s", "parse_expr_f", "parse_left_f",
                "parse_function_call_s"}
Conditionals == {"parse_if_s", "parse_while_s"}

\* What n is at place i of the list of an activation of f; a function's body
\* stands at place prec.
ItemIs(f, i, n, tab) ==
  /\ f.fn = "parser" => Handed(n)
  /\ f.fn \in ExprHolders => IsExpr(n)
  /\ f.fn = "parse_scope_f" => IsStmt(n, tab) /\ ~ Chained(n)
  /\ f.fn = "parse_function_s" /\ f.prec = i => IsStmt(n, tab) /\ ~ Chained(n)
  /\ f.fn \in Conditionals =>
       \/ i = 1 /\ IsExpr(n)
       \/ i = 2 /\ IsScope(n, tab)
       \/ i = 3 /\ (IsScope(n, tab) \/ (IsStmt(n, tab) /\ n.kind = "AST_ELSE_IF"))

\* The lists of an activation, w being the tokens and tab the table of labels.
FrameHolds(f, w, tab) ==
  /\ IsList(f.got)
  /\ \A i \in 1 .. Len(f.got) : ItemIs(f, i, f.got[i], tab)
  /\ f.fn = "parse_function_call_s" => w[f.at] \in Names

\* Places for statements, and the labels in them.
StmtAt(f, i) ==
  \/ f.fn = "parse_scope_f"
  \/ f.fn = "parse_function_s" /\ i = f.prec
  \/ f.fn \in Conditionals /\ i >= 2
HasLable(f, x) == \E i \in 1 .. Len(f.got) : StmtAt(f, i) /\ Holds(f.got[i], x)

\* Activation f has called c: what c returns is what f's list lacks.
StatementFns == {"parse_auto_s", "parse_extrn_s", "parse_scope_f", "parse_return_s",
                 "parse_expr_s", "parse_while_s"}
Waits(f, c) ==
  \/ f.fn = "parser" /\ c.fn \in {"parse_function_s", "parse_global_s", "parse_extrn_s"}
  \/ /\ f.fn = "parse_scope_f" \/ (f.fn = "parse_function_s" /\ f.prec = Len(f.got) + 1)
     /\ c.fn \in StatementFns \/ (c.fn = "parse_if_s" /\ c.prec # 1)
  \/ f.fn \in Conditionals /\ Len(f.got) = 0 /\ c.fn = "parse_expr_f"
  \/ f.fn \in Conditionals /\ Len(f.got) = 1 /\ c.fn = "parse_scope_f"
  \/ /\ f.fn = "parse_if_s" /\ Len(f.got) = 2
     /\ c.fn = "parse_scope_f" \/ (c.fn = "parse_if_s" /\ c.prec = 1)
  \/ f.fn \in {"parse_return_s", "parse_expr_s", "parse_function_call_s"} /\ c.fn = "parse_expr_f"
  \/ /\ f.fn \in {"parse_expr_f", "parse_left_f"}
     /\ c.fn \in {"parse_expr_f", "parse_left_f", "parse_function_call_s"}

Stacked(s, w, tab) ==
  /\ \A k \in 1 .. Len(s) : FrameHolds(s[k], w, tab)
  /\ \A k \in 1 .. Len(s) - 1 : Waits(s[k], s[k + 1])
\* The labels of the table are all in the trees of the function being parsed.
Labelled(s, tab) ==
  Len(s) >= 2 /\ s[2].fn = "parse_function_s" =>
    \A x \in tab : \E k \in 2 .. Len(s) : HasLable(s[k], x)
\* What is back in one of these has been given the expression it called for.
Ready(s) ==
  s[Len(s)].fn \in {"parse_return_s", "parse_expr_s"} \cup Conditionals => Len(s[Len(s)].got) # 0
Grown(s, w, tab) == Stacked(s, w, tab) /\ Labelled(s, tab) /\ Ready(s)

TreeInv ==
  /\ FileInv
  /\ status \in {"running", "done"} => Grown(stack, input, t_lable_tab)
  /\ status = "done" => Top.fn = "parser"

\* What activation c may return.
Yields(c, n, tab) ==
  /\ c.fn \in {"parse_function_s", "parse_global_s", "parse_extrn_s"} => Handed(n)
  /\ c.fn \in StatementFns => IsStmt(n, tab) /\ ~ Chained(n)
  /\ c.fn = "parse_scope_f" => IsScope(n, tab)
  /\ c.fn = "parse_if_s" =>
       IsStmt(n, tab) /\ n.kind = (IF c.prec = 1 THEN "AST_ELSE_IF" ELSE "AST_IF")
  /\ c.fn \in {"parse_expr_f", "parse_left_f", "parse_function_call_s"} => IsExpr(n)
  /\ c.fn \in {"parse_scope_f"} \cup Conditionals => \A x : HasLable(c, x) => Holds(n, x)

\* The caller's list takes it, and the labels with it.
LEMMA CallerTakes ==
  ASSUME NEW f, NEW c, NEW n, NEW tab, Waits(f, c), Yields(c, n, tab), Len(f.got) \in Nat
  PROVE  /\ ItemIs(f, Len(f.got) + 1, n, tab)
         /\ c.fn \in {"parse_scope_f"} \cup Conditionals => StmtAt(f, Len(f.got) + 1)
         /\ c.fn # "parser" /\ (c.fn = "parse_function_s" => f.fn = "parser")
<1>1. IsScope(n, tab) => IsStmt(n, tab) /\ ~ Chained(n) BY DEF IsScope, Chained
<1>2. n.kind = "AST_IF" => ~ Chained(n) BY DEF Chained
<1>d. Len(f.got) = 0 => Len(f.got) + 1 = 1 OBVIOUS
<1>e. Len(f.got) = 1 => Len(f.got) + 1 = 2 OBVIOUS
<1>f. Len(f.got) = 2 => Len(f.got) + 1 = 3 OBVIOUS
<1>3. CASE f.fn = "parser" /\ c.fn \in {"parse_function_s", "parse_global_s", "parse_extrn_s"}
  BY <1>3 DEF Yields, ItemIs, StmtAt, Conditionals, ExprHolders
<1>4. CASE /\ f.fn = "parse_scope_f" \/ (f.fn = "parse_function_s" /\ f.prec = Len(f.got) + 1)
           /\ c.fn \in StatementFns \/ (c.fn = "parse_if_s" /\ c.prec # 1)
  BY <1>1, <1>2, <1>4 DEF Yields, ItemIs, StmtAt, StatementFns, Conditionals, ExprHolders
<1>5. CASE f.fn \in Conditionals /\ Len(f.got) = 0 /\ c.fn = "parse_expr_f"
  BY <1>5, <1>d DEF Yields, ItemIs, StmtAt, Conditionals, ExprHolders
<1>6. CASE f.fn \in Conditionals /\ Len(f.got) = 1 /\ c.fn = "parse_scope_f"
  BY <1>6, <1>e DEF Yields, ItemIs, StmtAt, Conditionals, ExprHolders
<1>7. CASE /\ f.fn = "parse_if_s" /\ Len(f.got) = 2
           /\ c.fn = "parse_scope_f" \/ (c.fn = "parse_if_s" /\ c.prec = 1)
  BY <1>7, <1>f DEF Yields, ItemIs, StmtAt, Conditionals, ExprHolders
<1>8. CASE \/ /\ f.fn \in {"parse_return_s", "parse_expr_s", "parse_function_call_s"}
              /\ c.fn = "parse_expr_f"
           \/ /\ f.fn \in {"parse_expr_f", "parse_left_f"}
              /\ c.fn \in {"parse_expr_f", "parse_left_f", "parse_function_call_s"}
  BY <1>8 DEF Yields, ItemIs, StmtAt, Conditionals, ExprHolders
<1> QED BY <1>3, <1>4, <1>5, <1>6, <1>7, <1>8 DEF Waits

LEMMA ItemWider ==
  ASSUME NEW f, NEW i, NEW n, NEW tab, NEW more, ItemIs(f, i, n, tab), tab \subseteq more
  PROVE  ItemIs(f, i, n, more)
<1>1. IsStmt(n, tab) => IsStmt(n, more) BY StmtWider
<1>2. IsScope(n, tab) => IsScope(n, more) BY <1>1 DEF IsScope
<1> QED BY <1>1, <1>2 DEF ItemIs

LEMMA StackedWider ==
  ASSUME NEW s, NEW w, NEW tab, NEW more, Stacked(s, w, tab), tab \subseteq more
  PROVE  Stacked(s, w, more)
  BY ItemWider DEF Stacked, FrameHolds

\* Stack z is s with record e on top instead.
Topped(z, s, e) ==
  /\ Shaped(z) /\ Len(z) = Len(s) /\ z[Len(s)] = e
  /\ \A k \in 1 .. Len(s) - 1 : z[k] = s[k]

LEMMA ToppedFields ==
  ASSUME NEW s, Shaped(s), Len(s) # 0, NEW x
  PROVE  LET f == s[Len(s)] IN
         /\ Topped([s EXCEPT ![Len(s)].got = x], s,
                   [fn |-> f.fn, prec |-> f.prec, at |-> f.at, got |-> x])
         /\ Topped([s EXCEPT ![Len(s)].at = x], s,
                   [fn |-> f.fn, prec |-> f.prec, at |-> x, got |-> f.got])
         /\ Topped([s EXCEPT ![Len(s)].prec = x], s,
                   [fn |-> f.fn, prec |-> x, at |-> f.at, got |-> f.got])
<1> DEFINE f == s[Len(s)]
           G == [fn |-> f.fn, prec |-> f.prec, at |-> f.at, got |-> x]
           A == [fn |-> f.fn, prec |-> f.prec, at |-> x, got |-> f.got]
           P == [fn |-> f.fn, prec |-> x, at |-> f.at, got |-> f.got]
<1>1. f = [fn |-> f.fn, prec |-> f.prec, at |-> f.at, got |-> f.got] BY TopIsFrame
<1>2. Len(s) \in Nat \ {0} BY ShapedLen
<1>3. f.fn \in FileFns BY <1>2, ShapedLen
<1>4. /\ [s EXCEPT ![Len(s)].got = x] = [s EXCEPT ![Len(s)] = G]
      /\ [s EXCEPT ![Len(s)].at = x] = [s EXCEPT ![Len(s)] = A]
      /\ [s EXCEPT ![Len(s)].prec = x] = [s EXCEPT ![Len(s)] = P]
  <2>1. [f EXCEPT !.got = x] = G /\ [f EXCEPT !.at = x] = A /\ [f EXCEPT !.prec = x] = P
    BY <1>1
  <2>2. /\ [s EXCEPT ![Len(s)].got = x] = [s EXCEPT ![Len(s)] = [f EXCEPT !.got = x]]
        /\ [s EXCEPT ![Len(s)].at = x] = [s EXCEPT ![Len(s)] = [f EXCEPT !.at = x]]
        /\ [s EXCEPT ![Len(s)].prec = x] = [s EXCEPT ![Len(s)] = [f EXCEPT !.prec = x]]
    OBVIOUS
  <2> QED BY ONLY <2>1, <2>2
<1>5. Topped([s EXCEPT ![Len(s)] = G], s, G) BY <1>3, ShapedEdit DEF Topped
<1>6. Topped([s EXCEPT ![Len(s)] = A], s, A) BY <1>3, ShapedEdit DEF Topped
<1>7. Topped([s EXCEPT ![Len(s)] = P], s, P) BY <1>3, ShapedEdit DEF Topped
<1> QED BY ONLY <1>4, <1>5, <1>6, <1>7

LEMMA StackedTopped ==
  ASSUME NEW s, Shaped(s), Len(s) # 0, NEW w, NEW tab, NEW more, tab \subseteq more,
         Stacked(s, w, tab), NEW z, NEW e, Topped(z, s, e), FrameHolds(e, w, more),
         Len(s) # 1 => Waits(s[Len(s) - 1], e)
  PROVE  Stacked(z, w, more)
<1>1. Len(s) \in Nat \ {0} BY ShapedLen
<1>2. Stacked(s, w, more) BY StackedWider
<1>3. ASSUME NEW k \in 1 .. Len(z) PROVE FrameHolds(z[k], w, more)
  <2>1. k = Len(s) \/ k \in 1 .. Len(s) - 1 BY <1>1, <1>3 DEF Topped
  <2>2. k \in 1 .. Len(s) BY <1>3 DEF Topped
  <2> QED BY <1>2, <2>1, <2>2 DEF Stacked, Topped
<1>4. ASSUME NEW k \in 1 .. Len(z) - 1 PROVE Waits(z[k], z[k + 1])
  <2>1. k \in 1 .. Len(s) - 1 BY <1>4 DEF Topped
  <2>2. z[k] = s[k] BY <2>1 DEF Topped
  <2>3. CASE k = Len(s) - 1
    <3>1. k + 1 = Len(s) /\ Len(s) # 1 BY <1>1, <2>1, <2>3
    <3> QED BY <2>2, <2>3, <3>1 DEF Topped
  <2>4. CASE k # Len(s) - 1
    <3>1. k + 1 \in 1 .. Len(s) - 1 BY <1>1, <2>1, <2>4
    <3>2. z[k + 1] = s[k + 1] BY <3>1 DEF Topped
    <3> QED BY <2>1, <2>2, <3>2 DEF Stacked
  <2> QED BY <2>3, <2>4
<1> QED BY <1>3, <1>4 DEF Stacked

LEMMA LabelledTopped ==
  ASSUME NEW s, Shaped(s), Len(s) # 0, NEW tab, NEW more, Labelled(s, tab),
         NEW z, NEW e, Topped(z, s, e), e.fn = "parse_function_s" => s[Len(s)].fn = e.fn,
         \A x \in more : HasLable(e, x) \/ (x \in tab /\ ~ HasLable(s[Len(s)], x))
  PROVE  Labelled(z, more)
<1>1. Len(s) \in Nat \ {0} BY ShapedLen
<1> SUFFICES ASSUME Len(z) >= 2, z[2].fn = "parse_function_s", NEW x \in more
             PROVE  \E k \in 2 .. Len(z) : HasLable(z[k], x)
  BY DEF Labelled
<1>2. Len(z) = Len(s) /\ z[Len(s)] = e BY DEF Topped
<1>3. CASE HasLable(e, x)
  <2>1. Len(s) \in 2 .. Len(z) BY <1>1, <1>2
  <2> QED BY <1>2, <1>3, <2>1
<1>4. CASE ~ HasLable(e, x)
  <2>1. x \in tab /\ ~ HasLable(s[Len(s)], x) BY <1>4
  <2>2. s[2].fn = "parse_function_s"
    <3>1. CASE Len(s) = 2 BY <1>2, <3>1
    <3>2. CASE Len(s) # 2
      <4>1. 2 \in 1 .. Len(s) - 1 BY <1>1, <1>2, <3>2
      <4> QED BY <4>1 DEF Topped
    <3> QED BY <3>1, <3>2
  <2>3. PICK k \in 2 .. Len(s) : HasLable(s[k], x) BY <1>2, <2>1, <2>2 DEF Labelled
  <2>4. k # Len(s) BY <2>1, <2>3
  <2>5. k \in 1 .. Len(s) - 1 /\ k \in 2 .. Len(z) BY <1>1, <1>2, <2>4
  <2>6. z[k] = s[k] BY <2>5 DEF Topped
  <2> QED BY <2>3, <2>5, <2>6
<1> QED BY <1>3, <1>4

\* A call.
LEMMA PushHolds ==
  ASSUME NEW s, Shaped(s), Len(s) # 0, NEW w, NEW tab, Stacked(s, w, tab), Labelled(s, tab),
         NEW V, NEW f \in Frameful(V), FrameHolds(f, w, tab), Waits(s[Len(s)], f),
         f.fn = "parse_function_s" => tab = {}
  PROVE  LET z == Append(s, f) IN
         /\ Shaped(z) /\ Len(z) = Len(s) + 1 /\ z[Len(z)] = f
         /\ Stacked(z, w, tab) /\ Labelled(z, tab)
<1> DEFINE z == Append(s, f)
<1>1. PICK U : s \in Seq(Frameful(U)) BY DEF Shaped
<1> DEFINE W == U \cup V
<1>2. f \in Frameful(W) /\ \A e \in Frameful(U) : e \in Frameful(W) BY DEF Frameful
<1> HIDE DEF W
<1>3. \A k \in 1 .. Len(s) : s[k] \in Frameful(W) BY <1>1, <1>2, ElementOfSeq
<1>4. s \in Seq(Frameful(W)) BY <1>1, <1>3
<1>5. /\ z \in Seq(Frameful(W)) /\ Len(z) = Len(s) + 1 /\ z[Len(s) + 1] = f
      /\ \A k \in 1 .. Len(s) : z[k] = s[k]
  BY <1>2, <1>4, AppendProperties
<1>6. Len(s) \in Nat \ {0} BY <1>1, LenProperties
<1> HIDE DEF z
<1>7. \A k \in 1 .. Len(z) : FrameHolds(z[k], w, tab)
  <2> SUFFICES ASSUME NEW k \in 1 .. Len(z) PROVE FrameHolds(z[k], w, tab) OBVIOUS
  <2>1. k = Len(s) + 1 \/ k \in 1 .. Len(s) BY <1>5, <1>6
  <2> QED BY <1>5, <2>1 DEF Stacked
<1>8. \A k \in 1 .. Len(z) - 1 : Waits(z[k], z[k + 1])
  <2> SUFFICES ASSUME NEW k \in 1 .. Len(s) PROVE Waits(z[k], z[k + 1]) BY <1>5, <1>6
  <2>1. CASE k = Len(s) BY <1>5, <2>1
  <2>2. CASE k # Len(s)
    <3>1. k \in 1 .. Len(s) - 1 /\ k + 1 \in 1 .. Len(s) BY <1>6, <2>2
    <3> QED BY <1>5, <3>1 DEF Stacked
  <2> QED BY <2>1, <2>2
<1>9. Labelled(z, tab)
  <2> SUFFICES ASSUME z[2].fn = "parse_function_s", NEW x \in tab
               PROVE  \E k \in 2 .. Len(z) : HasLable(z[k], x)
    BY DEF Labelled
  <2>1. f.fn # "parse_function_s" OBVIOUS
  <2>2. Len(s) # 1 BY <1>5, <2>1
  <2>a. \A m \in Nat \ {0} : m # 1 => 2 \in 1 .. m /\ m >= 2 OBVIOUS
  <2>3. 2 \in 1 .. Len(s) /\ Len(s) >= 2 BY <1>6, <2>2, <2>a
  <2>4. PICK k \in 2 .. Len(s) : HasLable(s[k], x) BY <1>5, <2>3 DEF Labelled
  <2>5. k \in 1 .. Len(s) /\ k \in 2 .. Len(z) BY <1>5, <1>6
  <2> QED BY <1>5, <2>4, <2>5
<1>10. Shaped(z) BY <1>5 DEF Shaped
<1>11. Stacked(z, w, tab) BY <1>7, <1>8 DEF Stacked
<1> QED BY <1>5, <1>9, <1>10, <1>11 DEF z

\* The fields of a record after a give.
LEMMA GivenTopped ==
  ASSUME NEW s, Shaped(s), Len(s) # 0, NEW n
  PROVE  LET f == s[Len(s)] IN
         Topped(Given(s, n), s,
                [fn |-> f.fn, prec |-> f.prec, at |-> f.at, got |-> Append(f.got, n)])
<1> DEFINE x == Append(s[Len(s)].got, n)
<1>1. Given(s, n) = [s EXCEPT ![Len(s)].got = x] BY DEF Given
<1> HIDE DEF x
<1>2. Topped([s EXCEPT ![Len(s)].got = x], s,
             [fn |-> s[Len(s)].fn, prec |-> s[Len(s)].prec, at |-> s[Len(s)].at, got |-> x])
  BY ToppedFields
<1> QED BY <1>1, <1>2 DEF x

\* A record that takes a node keeps what it has.
LEMMA TakesNode ==
  ASSUME NEW f, NEW w, NEW tab, NEW more, tab \subseteq more, FrameHolds(f, w, tab), NEW n,
         ItemIs(f, Len(f.got) + 1, n, more)
  PROVE  LET e == [fn |-> f.fn, prec |-> f.prec, at |-> f.at, got |-> Append(f.got, n)] IN
         /\ FrameHolds(e, w, more) /\ Len(e.got) # 0
         /\ \A x : HasLable(f, x) => HasLable(e, x)
         /\ \A x : Holds(n, x) /\ StmtAt(f, Len(f.got) + 1) => HasLable(e, x)
<1> DEFINE g == Append(f.got, n)
           e == [fn |-> f.fn, prec |-> f.prec, at |-> f.at, got |-> g]
<1>1. /\ IsList(g) /\ Len(f.got) \in Nat /\ Len(g) = Len(f.got) + 1 /\ g[Len(f.got) + 1] = n
      /\ \A i \in 1 .. Len(f.got) : g[i] = f.got[i]
  BY ListAppend DEF FrameHolds
<1>2. e.fn = f.fn /\ e.prec = f.prec /\ e.at = f.at /\ e.got = g OBVIOUS
<1> HIDE DEF e, g
<1>3. ASSUME NEW i, NEW y, ItemIs(f, i, y, more) PROVE ItemIs(e, i, y, more)
  BY <1>2, <1>3 DEF ItemIs
<1>4. ASSUME NEW i \in 1 .. Len(g) PROVE ItemIs(e, i, g[i], more)
  <2>1. CASE i = Len(f.got) + 1 BY <1>1, <1>3, <2>1
  <2>2. CASE i # Len(f.got) + 1
    <3>1. i \in 1 .. Len(f.got) BY <1>1, <1>4, <2>2
    <3>2. ItemIs(f, i, f.got[i], more) BY <3>1, ItemWider DEF FrameHolds
    <3> QED BY <1>1, <1>3, <3>1, <3>2
  <2> QED BY <2>1, <2>2
<1>5. FrameHolds(e, w, more) BY <1>1, <1>2, <1>4 DEF FrameHolds
<1>6. \A i : StmtAt(e, i) <=> StmtAt(f, i) BY <1>2 DEF StmtAt
<1>7. ASSUME NEW x, HasLable(f, x) PROVE HasLable(e, x)
  <2>1. PICK i \in 1 .. Len(f.got) : StmtAt(f, i) /\ Holds(f.got[i], x) BY <1>7 DEF HasLable
  <2>2. i \in 1 .. Len(g) /\ g[i] = f.got[i] BY <1>1
  <2> QED BY <1>2, <1>6, <2>1, <2>2 DEF HasLable
<1>8. ASSUME NEW x, Holds(n, x), StmtAt(f, Len(f.got) + 1) PROVE HasLable(e, x)
  <2>1. Len(f.got) + 1 \in 1 .. Len(g) BY <1>1
  <2> QED BY <1>1, <1>2, <1>6, <1>8, <2>1 DEF HasLable
<1>9. Len(e.got) # 0 BY <1>1, <1>2
<1> QED BY <1>5, <1>7, <1>8, <1>9 DEF e, g

LEMMA WaitsSame ==
  ASSUME NEW f, NEW c, NEW e, Waits(f, c), e.fn = c.fn, e.prec = c.prec
  PROVE  Waits(f, e)
  BY DEF Waits

LEMMA GiveKeeps ==
  ASSUME NEW s, Shaped(s), Len(s) # 0, NEW w, NEW tab, Stacked(s, w, tab), Labelled(s, tab),
         NEW more, tab \subseteq more, NEW n, ItemIs(s[Len(s)], Len(s[Len(s)].got) + 1, n, more),
         \A x \in more : x \in tab \/ (Holds(n, x) /\ StmtAt(s[Len(s)], Len(s[Len(s)].got) + 1))
  PROVE  Grown(Given(s, n), w, more)
<1> DEFINE f == s[Len(s)]
           e == [fn |-> f.fn, prec |-> f.prec, at |-> f.at, got |-> Append(f.got, n)]
           z == Given(s, n)
<1>1. Topped(z, s, e) BY GivenTopped
<1>2. Len(s) \in Nat \ {0} BY ShapedLen
<1>3. FrameHolds(f, w, tab) BY <1>2 DEF Stacked
<1>4. /\ FrameHolds(e, w, more) /\ Len(e.got) # 0
      /\ \A x : HasLable(f, x) => HasLable(e, x)
      /\ \A x : Holds(n, x) /\ StmtAt(f, Len(f.got) + 1) => HasLable(e, x)
  BY <1>3, TakesNode
<1>5. e.fn = f.fn /\ e.prec = f.prec OBVIOUS
<1> HIDE DEF z, e
<1>6. Len(s) # 1 => Waits(s[Len(s) - 1], e)
  <2> SUFFICES ASSUME Len(s) # 1 PROVE Waits(s[Len(s) - 1], e) OBVIOUS
  <2>a. \A m \in Nat \ {0} : m # 1 => m - 1 \in 1 .. m - 1 /\ m - 1 + 1 = m OBVIOUS
  <2>1. Len(s) - 1 \in 1 .. Len(s) - 1 /\ Len(s) - 1 + 1 = Len(s) BY <1>2, <2>a
  <2>2. Waits(s[Len(s) - 1], f) BY <2>1 DEF Stacked
  <2> QED BY <1>5, <2>2, WaitsSame
<1>7. Stacked(z, w, more) BY <1>1, <1>4, <1>6, StackedTopped
<1>8. Labelled(z, more)
  <2>1. \A x \in more : HasLable(e, x) \/ (x \in tab /\ ~ HasLable(f, x)) BY <1>4
  <2> QED BY <1>1, <1>5, <2>1, LabelledTopped
<1>9. Ready(z) BY <1>1, <1>4 DEF Ready, Topped
<1> QED BY <1>7, <1>8, <1>9 DEF Grown, z

\* A return.
LEMMA ReturnKeeps ==
  ASSUME NEW s, NEW t \in Nat, Fits(s, t), s[Len(s)].fn # "parser", NEW w, NEW tab,
         Stacked(s, w, tab), Labelled(s, tab), NEW n, Yields(s[Len(s)], n, tab)
  PROVE  LET z == Given(Front(s), n) IN
         /\ Grown(z, w, tab) /\ Shaped(z) /\ Len(z) # 0
         /\ Len(s) - 1 \in 1 .. Len(s) /\ z[Len(z)].fn = s[Len(s) - 1].fn
         /\ Waits(s[Len(s) - 1], s[Len(s)])
<1> DEFINE p == Front(s)
           f == s[Len(s) - 1]
           c == s[Len(s)]
           e == [fn |-> f.fn, prec |-> f.prec, at |-> f.at, got |-> Append(f.got, n)]
           z == Given(p, n)
<1>1. PICK V : s \in Seq(Frameful(V)) BY DEF Fits, Shaped
<1>2. Len(s) \in Nat \ {0} BY FitsLen
<1>3. Len(s) # 1 BY DEF Fits
<1>n. \A m \in Nat \ {0} : m # 1 =>
        /\ m - 1 \in 1 .. m - 1 /\ m - 1 \in 1 .. m /\ m - 1 + 1 = m /\ m \in 1 .. m
        /\ m - 1 \in Int /\ 1 \in Int /\ 1 <= m - 1 /\ m - 1 # 0 /\ m - 1 \in Nat
  OBVIOUS
<1>4. /\ Len(s) - 1 \in 1 .. Len(s) - 1 /\ Len(s) - 1 \in 1 .. Len(s)
      /\ Len(s) - 1 + 1 = Len(s) /\ Len(s) \in 1 .. Len(s) /\ Len(s) - 1 \in Nat
      /\ Len(s) - 1 \in Int /\ 1 \in Int /\ 1 <= Len(s) - 1 /\ Len(s) - 1 # 0
  BY <1>2, <1>3, <1>n
<1>5. p \in Seq(Frameful(V)) /\ Len(p) = Len(s) - 1 /\ \A k \in 1 .. Len(s) - 1 : p[k] = s[k]
  <2>1. \A k \in 1 .. Len(s) - 1 : s[k] \in Frameful(V) BY <1>1, <1>2, ElementOfSeq
  <2>2. p = SubSeq(s, 1, Len(s) - 1) BY DEF Front
  <2> QED BY <1>1, <1>2, <1>4, <2>1, <2>2, SubSeqProperties
<1> HIDE DEF p
<1>6. Shaped(p) /\ Len(p) # 0 BY <1>4, <1>5 DEF Shaped
<1>7. p[Len(p)] = f BY <1>4, <1>5
<1>8. Topped(z, p, e) BY <1>6, <1>7, GivenTopped
<1>9. Waits(f, c) BY <1>4 DEF Stacked
<1>10. FrameHolds(f, w, tab) BY <1>4 DEF Stacked
<1>11. /\ ItemIs(f, Len(f.got) + 1, n, tab)
       /\ c.fn \in {"parse_scope_f"} \cup Conditionals => StmtAt(f, Len(f.got) + 1)
       /\ c.fn # "parser" /\ (c.fn = "parse_function_s" => f.fn = "parser")
  <2>1. Len(f.got) \in Nat BY <1>10, ListAppend DEF FrameHolds
  <2> QED BY <1>9, <2>1, CallerTakes
<1>12. /\ FrameHolds(e, w, tab) /\ Len(e.got) # 0
       /\ \A x : HasLable(f, x) => HasLable(e, x)
       /\ \A x : Holds(n, x) /\ StmtAt(f, Len(f.got) + 1) => HasLable(e, x)
  BY <1>10, <1>11, TakesNode
<1>13. e.fn = f.fn /\ e.prec = f.prec OBVIOUS
<1> HIDE DEF z, e
<1>14. Stacked(p, w, tab)
  <2>1. ASSUME NEW k \in 1 .. Len(p) PROVE FrameHolds(p[k], w, tab)
    <3>1. \A m \in Nat \ {0} : \A i \in 1 .. m - 1 : i \in 1 .. m OBVIOUS
    <3>2. k \in 1 .. Len(s) - 1 /\ k \in 1 .. Len(s) BY <1>2, <1>5, <3>1
    <3> QED BY <1>5, <3>2 DEF Stacked
  <2>2. ASSUME NEW k \in 1 .. Len(p) - 1 PROVE Waits(p[k], p[k + 1])
    <3>1. \A m \in Nat \ {0} : \A i \in 1 .. m - 1 - 1 : i \in 1 .. m - 1 /\ i + 1 \in 1 .. m - 1
      OBVIOUS
    <3>2. k \in 1 .. Len(s) - 1 /\ k + 1 \in 1 .. Len(s) - 1 BY <1>2, <1>5, <3>1
    <3> QED BY <1>5, <3>2 DEF Stacked
  <2> QED BY <2>1, <2>2 DEF Stacked
<1>15. Len(p) # 1 => Waits(p[Len(p) - 1], e)
  <2> SUFFICES ASSUME Len(p) # 1 PROVE Waits(p[Len(p) - 1], e) OBVIOUS
  <2>1. Len(p) \in Nat \ {0} BY <1>4, <1>5
  <2>2. Len(p) - 1 \in 1 .. Len(p) - 1 /\ Len(p) - 1 + 1 = Len(p) BY <1>n, <2>1
  <2>3. Waits(p[Len(p) - 1], f) BY <1>7, <1>14, <2>2 DEF Stacked
  <2> QED BY <1>13, <2>3, WaitsSame
<1>16. Stacked(z, w, tab)
  <2>1. tab \subseteq tab OBVIOUS
  <2> QED BY <1>6, <1>8, <1>12, <1>14, <1>15, <2>1, StackedTopped
<1>17. Len(z) = Len(s) - 1 /\ z[Len(s) - 1] = e /\ Shaped(z)
       /\ \A k \in 1 .. Len(s) - 1 - 1 : z[k] = s[k]
  <2>1. \A k \in 1 .. Len(p) - 1 : z[k] = p[k] BY <1>8 DEF Topped
  <2>2. \A m \in Nat \ {0} : \A i \in 1 .. m - 1 - 1 : i \in 1 .. m - 1 OBVIOUS
  <2>3. ASSUME NEW k \in 1 .. Len(s) - 1 - 1 PROVE z[k] = s[k]
    <3>1. k \in 1 .. Len(s) - 1 BY <1>2, <2>2
    <3>2. k \in 1 .. Len(p) - 1 BY <1>5
    <3> QED BY <1>5, <2>1, <3>1, <3>2
  <2> QED BY <1>5, <1>8, <2>3 DEF Topped
<1>18. Labelled(z, tab)
  <2> SUFFICES ASSUME Len(z) >= 2, z[2].fn = "parse_function_s", NEW x \in tab
               PROVE  \E k \in 2 .. Len(z) : HasLable(z[k], x)
    BY DEF Labelled
  <2>1. \A m \in Nat \ {0} : m - 1 >= 2 =>
          /\ m >= 2 /\ m - 1 \in 2 .. m - 1
          /\ (m - 1 # 2 => 2 \in 1 .. m - 1 - 1)
          /\ (m - 1 # 1 /\ m - 1 \in 1 .. m - 1)
          /\ \A k \in 2 .. m : k = m \/ k = m - 1 \/ (k \in 1 .. m - 1 - 1 /\ k \in 2 .. m - 1)
    OBVIOUS
  <2>2. /\ Len(s) >= 2 /\ Len(s) - 1 \in 2 .. Len(z) /\ (Len(s) - 1 # 2 => 2 \in 1 .. Len(s) - 1 - 1)
        /\ Len(p) # 1
        /\ \A k \in 2 .. Len(s) :
             k = Len(s) \/ k = Len(s) - 1 \/ (k \in 1 .. Len(s) - 1 - 1 /\ k \in 2 .. Len(z))
    BY <1>2, <1>5, <1>17, <2>1
  <2>3. s[2].fn = "parse_function_s"
    <3>1. CASE Len(s) - 1 = 2 BY <1>13, <1>17, <3>1
    <3>2. CASE Len(s) - 1 # 2 BY <1>17, <2>2, <3>2
    <3> QED BY <3>1, <3>2
  <2>4. PICK k \in 2 .. Len(s) : HasLable(s[k], x) BY <2>2, <2>3 DEF Labelled
  <2>5. CASE k = Len(s)
    <3>1. HasLable(c, x) BY <2>4, <2>5
    <3>2. c.fn # "parse_function_s"
      <4>1. Waits(p[Len(p) - 1], e) BY <1>15, <2>2
      <4>2. e.fn # "parser" BY <4>1 DEF Waits, StatementFns
      <4> QED BY <1>11, <1>13, <4>2
    <3>3. c.fn \in {"parse_scope_f"} \cup Conditionals BY <3>1, <3>2 DEF HasLable, StmtAt
    <3>4. Holds(n, x) BY <3>1, <3>3 DEF Yields
    <3>5. HasLable(e, x) BY <1>11, <1>12, <3>3, <3>4
    <3> QED BY <1>17, <2>2, <3>5
  <2>6. CASE k = Len(s) - 1
    <3>1. HasLable(e, x) BY <1>12, <2>4, <2>6
    <3> QED BY <1>17, <2>2, <3>1
  <2>7. CASE k \in 1 .. Len(s) - 1 - 1 /\ k \in 2 .. Len(z) BY <1>17, <2>4, <2>7
  <2> QED BY <2>2, <2>5, <2>6, <2>7
<1>19. Ready(z) BY <1>12, <1>17 DEF Ready
<1>20. Grown(z, w, tab) BY <1>16, <1>18, <1>19 DEF Grown
<1>21. Shaped(z) /\ Len(z) # 0 /\ z[Len(z)].fn = f.fn BY <1>4, <1>13, <1>17
<1>22. z = Given(Front(s), n) BY DEF z, p
<1>23. /\ Grown(z, w, tab) /\ Shaped(z) /\ Len(z) # 0
       /\ Len(s) - 1 \in 1 .. Len(s) /\ z[Len(z)].fn = s[Len(s) - 1].fn
       /\ Waits(s[Len(s) - 1], s[Len(s)])
  BY <1>4, <1>9, <1>20, <1>21
<1> QED BY ONLY <1>22, <1>23

LEMMA PushCalls ==
  ASSUME NEW s, Shaped(s), Len(s) # 0, NEW w, NEW tab, Stacked(s, w, tab), Labelled(s, tab),
         NEW fn \in FileFns, NEW prec, NEW at, Waits(s[Len(s)], Frame(fn, prec, at)),
         fn # "parse_function_call_s", fn = "parse_function_s" => tab = {}
  PROVE  LET z == Append(s, Frame(fn, prec, at)) IN
         /\ Shaped(z) /\ Len(z) # 0 /\ z[Len(z)] = Frame(fn, prec, at)
         /\ Stacked(z, w, tab) /\ Labelled(z, tab)
         /\ fn \notin {"parse_return_s", "parse_expr_s"} \cup Conditionals => Grown(z, w, tab)
<1> DEFINE f == Frame(fn, prec, at)
           z == Append(s, f)
<1>1. f.fn = fn /\ f.prec = prec /\ f.at = at /\ f.got = <<>> BY DEF Frame
<1>2. f \in Frameful({prec, at, <<>>}) BY DEF Frame, Frameful
<1>3. IsList(<<>>) /\ Len(<<>>) = 0
  <2>1. <<>> \in Seq({}) OBVIOUS
  <2> QED BY <2>1 DEF IsList
<1> HIDE DEF f
<1>4. FrameHolds(f, w, tab)
  <2>1. IsList(f.got) /\ Len(f.got) = 0 BY <1>1, <1>3
  <2>2. \A i \in 1 .. Len(f.got) : ItemIs(f, i, f.got[i], tab) BY <2>1
  <2> QED BY <1>1, <2>1, <2>2 DEF FrameHolds
<1>5. Waits(s[Len(s)], f) BY DEF f
<1>6. f.fn = "parse_function_s" => tab = {} BY <1>1
<1>7. /\ Shaped(z) /\ Len(z) = Len(s) + 1 /\ z[Len(z)] = f
      /\ Stacked(z, w, tab) /\ Labelled(z, tab)
  BY <1>2, <1>4, <1>5, <1>6, PushHolds
<1>8. Len(s) \in Nat BY ShapedLen
<1> HIDE DEF z
<1>9. Len(z) # 0 BY <1>7, <1>8
<1>10. fn \notin {"parse_return_s", "parse_expr_s"} \cup Conditionals => Grown(z, w, tab)
  BY <1>1, <1>7 DEF Grown, Ready
<1> QED BY <1>7, <1>9, <1>10 DEF z, f

LEMMA PushWithExpr ==
  ASSUME NEW s, Shaped(s), Len(s) # 0, NEW w, NEW tab, Stacked(s, w, tab), Labelled(s, tab),
         NEW fn \in {"parse_return_s", "parse_expr_s", "parse_if_s", "parse_while_s"},
         NEW prec, NEW at, Waits(s[Len(s)], Frame(fn, prec, at))
  PROVE  Grown(Append(Append(s, Frame(fn, prec, at)), Expr(PREC_NONE)), w, tab)
<1> DEFINE f == Frame(fn, prec, at)
           z == Append(s, f)
<1>1. fn \in FileFns /\ fn # "parse_function_call_s" /\ fn # "parse_function_s" BY DEF FileFns
<1>2. Shaped(z) /\ Len(z) # 0 /\ z[Len(z)] = f /\ Stacked(z, w, tab) /\ Labelled(z, tab)
  BY <1>1, PushCalls
<1>3. f.fn = fn /\ f.got = <<>> /\ Len(<<>>) = 0 BY DEF Frame
<1>4. Expr(PREC_NONE) = Frame("parse_expr_f", PREC_NONE, 0)
      /\ Frame("parse_expr_f", PREC_NONE, 0).fn = "parse_expr_f"
  BY DEF Expr, Frame
<1>5. Len(f.got) = 0 BY <1>3
<1> HIDE DEF f, z
<1>6. Waits(f, Frame("parse_expr_f", PREC_NONE, 0)) BY <1>3, <1>4, <1>5 DEF Waits, Conditionals
<1>7. "parse_expr_f" \in FileFns
      /\ "parse_expr_f" \notin {"parse_return_s", "parse_expr_s"} \cup Conditionals
  BY DEF FileFns, Conditionals
<1>8. Waits(z[Len(z)], Frame("parse_expr_f", PREC_NONE, 0)) BY <1>2, <1>6
<1>9. Grown(Append(z, Frame("parse_expr_f", PREC_NONE, 0)), w, tab)
  BY <1>2, <1>7, <1>8, PushCalls
<1> QED BY <1>4, <1>9 DEF z, f

LEMMA Growing ==
  ASSUME TreeInv, status = "running"
  PROVE  /\ FileInv /\ tok \in Nat /\ Fits(stack, tok) /\ Shaped(stack) /\ Len(stack) \in Nat \ {0}
         /\ Stacked(stack, input, t_lable_tab) /\ Labelled(stack, t_lable_tab) /\ Ready(stack)
         /\ Top = stack[Len(stack)] /\ FrameHolds(Top, input, t_lable_tab)
         /\ Top = [fn |-> Top.fn, prec |-> Top.prec, at |-> Top.at, got |-> Top.got]
         /\ Len(Top.got) \in Nat
<1>1. FileInv /\ Grown(stack, input, t_lable_tab) BY DEF TreeInv
<1>2. tok \in Nat /\ Fits(stack, tok) BY <1>1, InputLen DEF FileInv
<1>3. Len(stack) \in Nat \ {0} /\ Shaped(stack) BY <1>2, FitsLen DEF Fits
<1>4. Len(stack) \in 1 .. Len(stack) BY <1>3
<1>5. FrameHolds(Top, input, t_lable_tab) BY <1>1, <1>4 DEF Grown, Stacked, Top
<1>6. Len(Top.got) \in Nat BY <1>5, ListAppend DEF FrameHolds
<1>7. Top = [fn |-> Top.fn, prec |-> Top.prec, at |-> Top.at, got |-> Top.got]
  BY <1>3, TopIsFrame DEF Top
<1> QED BY <1>1, <1>2, <1>3, <1>5, <1>6, <1>7 DEF Grown, Top

\* What a step must show.
LEMMA TreeMoves ==
  ASSUME TreeInv, FileInv', input' = input,
         \/ status' \in {"crash", "exit"}
         \/ status' = "running" /\ Grown(stack', input, t_lable_tab')
  PROVE  TreeInv'
<1>1. status' \in {"running", "done"} => Grown(stack', input', t_lable_tab') OBVIOUS
<1>2. status' # "done" OBVIOUS
<1> QED BY <1>1, <1>2 DEF TreeInv

LEMMA AdvanceMoves ==
  ASSUME TreeInv, status = "running", FileInv', NEW c, NEW s, Advance(c, s),
         Grown(s, input, t_lable_tab')
  PROVE  TreeInv'
<1>1. input' = input /\ (status' = "crash" \/ (stack' = s /\ status' = "running"))
  BY DEF Advance
<1> QED BY <1>1, TreeMoves

\* parser is never called again, and where it is on top there is no other.
LEMMA ParserAlone ==
  ASSUME TreeInv, InCall("parser")
  PROVE  Len(stack) = 1 /\ \A tab : Stacked(stack, input, tab) /\ Labelled(stack, tab)
<1>1. status = "running" /\ Top.fn = "parser" BY DEF InCall
<1>2. /\ Len(stack) \in Nat \ {0} /\ Stacked(stack, input, t_lable_tab)
      /\ Top = stack[Len(stack)]
  BY <1>1, Growing
<1>3. Len(stack) = 1
  <2> SUFFICES ASSUME Len(stack) # 1 PROVE FALSE OBVIOUS
  <2>1. \A m \in Nat \ {0} : m # 1 => m - 1 \in 1 .. m - 1 /\ m - 1 + 1 = m OBVIOUS
  <2>2. Len(stack) - 1 \in 1 .. Len(stack) - 1 /\ Len(stack) - 1 + 1 = Len(stack) BY <1>2, <2>1
  <2>3. Waits(stack[Len(stack) - 1], stack[Len(stack)]) BY <1>2, <2>2 DEF Stacked
  <2> QED BY <1>1, <1>2, <2>3 DEF Waits, StatementFns
<1>4. ASSUME NEW tab PROVE Stacked(stack, input, tab)
  <2>1. FrameHolds(stack[1], input, t_lable_tab) BY <1>2, <1>3 DEF Stacked
  <2>2. stack[1].fn = "parser" BY <1>1, <1>2, <1>3
  <2>3. FrameHolds(stack[1], input, tab)
    BY <2>1, <2>2 DEF FrameHolds, ItemIs, ExprHolders, Conditionals
  <2> QED BY <1>3, <2>3 DEF Stacked
<1>5. \A tab : Labelled(stack, tab) BY <1>3 DEF Labelled
<1> QED BY <1>3, <1>4, <1>5

\* Where a statement may stand, what is read is a statement's.
LEMMA StatementWaits ==
  ASSUME TreeInv, AtStatement
  PROVE  /\ status = "running"
         /\ \A c : c.fn \in StatementFns \/ (c.fn = "parse_if_s" /\ c.prec # 1) => Waits(Top, c)
         /\ \A n, tab : IsStmt(n, tab) /\ ~ Chained(n) => ItemIs(Top, Len(Top.got) + 1, n, tab)
         /\ StmtAt(Top, Len(Top.got) + 1)
<1>1. /\ status = "running"
      /\ Top.fn = "parse_scope_f" \/ (Top.fn = "parse_function_s" /\ Top.prec = Len(Top.got) + 1)
  BY DEF AtStatement, AwaitsBody, InCall
<1> QED BY <1>1 DEF Waits, ItemIs, StmtAt, ExprHolders, Conditionals

-----------------------------------------------------------------------------
(* The nodes the parser makes                                               *)

LEMMA RangeOfList ==
  ASSUME NEW g, IsList(g)
  PROVE  \A x : x \in Range(g) <=> \E i \in 1 .. Len(g) : x = g[i]
<1>1. DOMAIN g = 1 .. Len(g) BY LenProperties DEF IsList
<1> QED BY <1>1 DEF Range

LEMMA LeafNodes ==
  ASSUME NEW n, NEW tab, n.kind \in {"AST_AUTO", "AST_EXTRN", "AST_GOTO", "AST_LABLE"},
         n.kind = "AST_LABLE" => n.name \in tab
  PROVE  IsStmt(n, tab) /\ ~ Chained(n)
<1>1. StmtsUnder(n) = {} /\ ExprsOf(n) = {} BY DEF StmtsUnder, ExprsOf
<1>2. StmtFits(n) BY DEF StmtFits
<1> QED BY <1>1, <1>2, StmtNode DEF Chained

LEMMA DeclarationNodes ==
  ASSUME NEW x, NEW k, NEW tab
  PROVE  /\ IsStmt(Vector(x, k), tab) /\ ~ Chained(Vector(x, k))
         /\ IsStmt(Extrn(x), tab) /\ ~ Chained(Extrn(x)) /\ Handed(Extrn(x))
         /\ IsStmt(Goto(x), tab) /\ ~ Chained(Goto(x))
         /\ Handed(Global(x, k))
         /\ x \in tab => IsStmt(Lable(x), tab) /\ ~ Chained(Lable(x))
<1>1. /\ Vector(x, k).kind = "AST_AUTO" /\ Extrn(x).kind = "AST_EXTRN"
      /\ Goto(x).kind = "AST_GOTO" /\ Global(x, k).kind = "AST_GLOBAL"
      /\ Lable(x).kind = "AST_LABLE" /\ Lable(x).name = x
  BY DEF Vector, Extrn, Goto, Global, Lable
<1>2. IsStmt(Vector(x, k), tab) /\ ~ Chained(Vector(x, k)) BY <1>1, LeafNodes
<1>3. IsStmt(Extrn(x), tab) /\ ~ Chained(Extrn(x)) BY <1>1, LeafNodes
<1>4. IsStmt(Goto(x), tab) /\ ~ Chained(Goto(x)) BY <1>1, LeafNodes
<1>5. x \in tab => IsStmt(Lable(x), tab) /\ ~ Chained(Lable(x)) BY <1>1, LeafNodes
<1>6. Handed(Extrn(x)) /\ Handed(Global(x, k)) BY <1>1 DEF Handed
<1> QED BY <1>2, <1>3, <1>4, <1>5, <1>6

LEMMA SimpleNodes ==
  ASSUME NEW e, IsExpr(e), NEW tab
  PROVE  /\ IsStmt(Ret(e), tab) /\ ~ Chained(Ret(e))
         /\ IsStmt(Do(e), tab) /\ ~ Chained(Do(e))
<1>1. ASSUME NEW n, n.kind \in {"AST_RETURN", "AST_EXPR"}, n.node = e
      PROVE  IsStmt(n, tab) /\ ~ Chained(n)
  <2>1. StmtsUnder(n) = {} /\ ExprsOf(n) = {e} BY <1>1 DEF StmtsUnder, ExprsOf
  <2>2. StmtFits(n) /\ n.kind # "AST_LABLE" BY <1>1 DEF StmtFits
  <2>3. ~ Chained(n) BY <1>1 DEF Chained
  <2> QED BY <2>1, <2>2, <2>3, StmtNode
<1>2. /\ Ret(e).kind = "AST_RETURN" /\ Ret(e).node = e
      /\ Do(e).kind = "AST_EXPR" /\ Do(e).node = e
  BY DEF Ret, Do
<1> QED BY <1>1, <1>2

LEMMA ScopeNode ==
  ASSUME NEW b, IsList(b), NEW tab, \A i \in 1 .. Len(b) : IsStmt(b[i], tab) /\ ~ Chained(b[i])
  PROVE  /\ IsScope(Block(b), tab)
         /\ \A i \in 1 .. Len(b) : \A x : Holds(b[i], x) => Holds(Block(b), x)
<1> DEFINE n == Block(b)
<1>1. n.kind = "AST_SCOPE" /\ n.body = b BY DEF Block
<1>2. \A y : y \in StmtsUnder(n) <=> \E i \in 1 .. Len(b) : y = b[i]
  BY <1>1, RangeOfList DEF StmtsUnder
<1>3. ExprsOf(n) = {} BY <1>1 DEF ExprsOf
<1>4. StmtFits(n) BY <1>1 DEF StmtFits, Chained
<1>5. n = Block(n.body) BY <1>1
<1> HIDE DEF n
<1>6. IsStmt(n, tab) BY <1>1, <1>2, <1>3, <1>4, StmtNode
<1>7. \A i \in 1 .. Len(b) : b[i] \in StmtsUnder(n) BY <1>2
<1>8. \A i \in 1 .. Len(b) : \A x : Holds(b[i], x) => Holds(n, x) BY <1>7, HoldsBelow
<1>9. IsScope(n, tab) BY <1>1, <1>5, <1>6 DEF IsScope
<1> QED BY <1>8, <1>9 DEF n

LEMMA WhileNode ==
  ASSUME NEW e, IsExpr(e), NEW b, NEW tab, IsScope(b, tab)
  PROVE  LET n == While(e, b.body) IN
         IsStmt(n, tab) /\ ~ Chained(n) /\ \A x : Holds(b, x) => Holds(n, x)
<1> DEFINE n == While(e, b.body)
<1>1. IsStmt(b, tab) /\ b.kind = "AST_SCOPE" /\ Block(b.body) = b BY DEF IsScope
<1>2. n.kind = "AST_WHILE" /\ n.Condition = e /\ n.body = b BY <1>1 DEF While
<1> HIDE DEF n
<1>3. StmtsUnder(n) = {b} /\ ExprsOf(n) = {e} BY <1>2 DEF StmtsUnder, ExprsOf
<1>4. StmtFits(n) /\ ~ Chained(n) BY <1>1, <1>2 DEF StmtFits, Chained
<1>5. IsStmt(n, tab) BY <1>1, <1>2, <1>3, <1>4, StmtNode
<1>6. \A x : Holds(b, x) => Holds(n, x) BY <1>3, HoldsBelow
<1> QED BY <1>4, <1>5, <1>6 DEF n

LEMMA IfNodes ==
  ASSUME NEW kind \in {"AST_IF", "AST_ELSE_IF"}, NEW e, IsExpr(e), NEW tab, NEW b, IsScope(b, tab),
         NEW chain, chain = NoChain \/ (IsStmt(chain, tab) /\ Chained(chain))
  PROVE  LET n == IfNode(kind, e, b, chain) IN
         /\ IsStmt(n, tab) /\ n.kind = kind /\ \A x : Holds(b, x) => Holds(n, x)
         /\ chain # NoChain => \A x : Holds(chain, x) => Holds(n, x)
<1> DEFINE n == IfNode(kind, e, b, chain)
<1>1. IsStmt(b, tab) /\ b.kind = "AST_SCOPE" BY DEF IsScope
<1>2. n.kind = kind /\ n.Condition = e /\ n.body = b /\ n.chain = chain BY DEF IfNode
<1> HIDE DEF n
<1>3. NoChain.kind = "NULL" BY DEF NoChain
<1>4. b # NoChain BY <1>1, <1>3
<1>5. StmtsUnder(n) = {b, chain} \ {NoChain} /\ ExprsOf(n) = {e}
  BY <1>2 DEF StmtsUnder, ExprsOf
<1>6. chain.kind \in {"NULL", "AST_ELSE_IF", "AST_ELSE"} BY <1>3 DEF Chained
<1>7. StmtFits(n) BY <1>1, <1>2, <1>6 DEF StmtFits
<1>8. IsStmt(n, tab) BY <1>1, <1>2, <1>5, <1>7, StmtNode
<1>9. b \in StmtsUnder(n) /\ (chain # NoChain => chain \in StmtsUnder(n)) BY <1>4, <1>5
<1>10. \A x : Holds(b, x) => Holds(n, x) BY <1>9, HoldsBelow
<1>11. chain # NoChain => \A x : Holds(chain, x) => Holds(n, x) BY <1>9, HoldsBelow
<1> QED BY <1>2, <1>8, <1>10, <1>11 DEF n

LEMMA ExprNodes ==
  ASSUME NEW op, NEW e, IsExpr(e), NEW f, IsExpr(f), NEW t, NEW at
  PROVE  /\ IsExpr(Atom(t, at)) /\ IsExpr(Un(op, e)) /\ IsExpr(Bin(op, e, f))
         /\ IsExpr(Index(e, f))
<1>1. ASSUME NEW i, NEW j PROVE IsExpr(Atom(i, j))
  <2>1. Atom(i, j).kind = "AST_ATOM" BY DEF Atom
  <2>2. ExprsUnder(Atom(i, j)) = {} /\ ExprFits(Atom(i, j)) BY <2>1 DEF ExprsUnder, ExprFits
  <2> QED BY <2>2, ExprNode
<1>2. ASSUME NEW o, NEW x, IsExpr(x) PROVE IsExpr(Un(o, x))
  <2>1. Un(o, x).kind = "AST_UNARY" /\ Un(o, x).node = x BY DEF Un
  <2>2. ExprsUnder(Un(o, x)) = {x} /\ ExprFits(Un(o, x)) BY <2>1 DEF ExprsUnder, ExprFits
  <2> QED BY <1>2, <2>2, ExprNode
<1>3. ASSUME NEW o, NEW x, IsExpr(x), NEW y, IsExpr(y) PROVE IsExpr(Bin(o, x, y))
  <2>1. Bin(o, x, y).kind = "AST_BINARY" /\ Bin(o, x, y).left = x /\ Bin(o, x, y).right = y
    BY DEF Bin
  <2>2. ExprsUnder(Bin(o, x, y)) = {x, y} /\ ExprFits(Bin(o, x, y))
    BY <2>1 DEF ExprsUnder, ExprFits
  <2> QED BY <1>3, <2>2, ExprNode
<1>4. IsExpr(Bin("MUL", f, Atom("INT", 0))) /\ IsExpr(Un("BIT_AND", e)) BY <1>1, <1>2, <1>3
<1>5. IsExpr(Bin("ADD", Bin("MUL", f, Atom("INT", 0)), Un("BIT_AND", e))) BY <1>3, <1>4
<1>6. IsExpr(Index(e, f)) BY <1>2, <1>5 DEF Index
<1> QED BY <1>1, <1>2, <1>3, <1>6

LEMMA CallNode ==
  ASSUME NEW t \in Names, NEW at, NEW args, IsList(args),
         \A i \in 1 .. Len(args) : IsExpr(args[i])
  PROVE  IsExpr(CallOf(t, at, args))
<1> DEFINE n == CallOf(t, at, args)
<1>1. n.kind = "AST_FUNCTION_CALL" /\ n.name = t /\ n.args = args BY DEF CallOf
<1> HIDE DEF n
<1>2. \A y : y \in ExprsUnder(n) <=> \E i \in 1 .. Len(args) : y = args[i]
  BY <1>1, RangeOfList DEF ExprsUnder
<1>3. ExprFits(n) BY <1>1 DEF ExprFits
<1> QED BY <1>2, <1>3, ExprNode DEF n

-----------------------------------------------------------------------------
(* The steps                                                                *)

LEMMA LastOfFront ==
  ASSUME NEW s, NEW t \in Nat, Fits(s, t), s[Len(s)].fn # "parser"
  PROVE  Last(Front(s)) = s[Len(s) - 1]
<1> DEFINE p == Front(s)
<1>1. PICK V : s \in Seq(Frameful(V)) BY DEF Fits, Shaped
<1>2. Len(s) \in Nat \ {0} /\ Len(s) # 1 BY FitsLen DEF Fits
<1>3. \A m \in Nat \ {0} : m # 1 => 1 \in Int /\ m - 1 \in Int /\ 1 <= m - 1 /\ m - 1 \in 1 .. m - 1
  OBVIOUS
<1>4. p = SubSeq(s, 1, Len(s) - 1) BY DEF Front
<1>5. Len(s) - 1 \in Int /\ 1 \in Int /\ 1 <= Len(s) - 1 /\ Len(s) - 1 \in 1 .. Len(s) - 1
  BY <1>2, <1>3
<1>6. \A k \in 1 .. Len(s) - 1 : s[k] \in Frameful(V) BY <1>1, <1>2, ElementOfSeq
<1>7. Len(p) = Len(s) - 1 /\ \A k \in 1 .. Len(s) - 1 : p[k] = s[k]
  BY <1>1, <1>2, <1>4, <1>5, <1>6, SubSeqProperties
<1> HIDE DEF p
<1>8. p[Len(p)] = s[Len(s) - 1] BY <1>5, <1>7
<1> QED BY <1>8 DEF Last, p

\* What comes back to a list is in it.
LEMMA Returns ==
  ASSUME TreeInv, status = "running", Top.fn # "parser", NEW n, Yields(Top, n, t_lable_tab)
  PROVE  LET z == Returned(n) IN
         /\ Grown(z, input, t_lable_tab) /\ Shaped(z) /\ Len(z) # 0
         /\ z[Len(z)].fn = stack[Len(stack) - 1].fn
         /\ Waits(stack[Len(stack) - 1], Top) /\ Last(Front(stack)) = stack[Len(stack) - 1]
<1>1. /\ tok \in Nat /\ Fits(stack, tok) /\ Stacked(stack, input, t_lable_tab)
      /\ Labelled(stack, t_lable_tab) /\ Top = stack[Len(stack)]
  BY Growing
<1>2. LET z == Given(Front(stack), n) IN
      /\ Grown(z, input, t_lable_tab) /\ Shaped(z) /\ Len(z) # 0
      /\ z[Len(z)].fn = stack[Len(stack) - 1].fn
      /\ Waits(stack[Len(stack) - 1], stack[Len(stack)])
  BY <1>1, ReturnKeeps
<1>3. Last(Front(stack)) = stack[Len(stack) - 1] BY <1>1, LastOfFront
<1> QED BY <1>1, <1>2, <1>3 DEF Returned

LEMMA ItemTrees ==
  ASSUME TreeInv, InCall("parse_auto_s") \/ InCall("parse_extrn_s"), FileInv',
         t_lable_tab' = t_lable_tab, NEW c, NEW node, NEW more, DeclarationItem(c, node, more),
         IsStmt(node, t_lable_tab), ~ Chained(node), InCall("parse_extrn_s") => Handed(node)
  PROVE  TreeInv'
<1> DEFINE added == Returned(node)
           with  == IF more THEN Append(added, Top) ELSE added
<1>1. status = "running" /\ Top.fn \in {"parse_auto_s", "parse_extrn_s"} BY DEF InCall
<1>2. Yields(Top, node, t_lable_tab) BY <1>1 DEF Yields, StatementFns, Conditionals, InCall
<1>3. /\ Grown(added, input, t_lable_tab) /\ Shaped(added) /\ Len(added) # 0
      /\ added[Len(added)].fn = stack[Len(stack) - 1].fn
      /\ Waits(stack[Len(stack) - 1], Top) /\ Last(Front(stack)) = stack[Len(stack) - 1]
  BY <1>1, <1>2, Returns
<1>4. Advance(IF Last(Front(stack)).fn = "parse_function_s" THEN Dies(c) ELSE c, with)
  BY DEF DeclarationItem
<1> HIDE DEF added
<1>5. CASE Last(Front(stack)).fn = "parse_function_s"
  <2>1. Advance(Dies(c), with) BY <1>4, <1>5
  <2> HIDE DEF with
  <2>2. input' = input /\ \E dies \in Dies(c).crash :
          IF dies THEN status' = "crash" ELSE stack' = with
    BY <2>1 DEF Advance
  <2>3. status' = "crash"
    <3>1. PICK d \in {Dies(c)} : \E dies \in d.crash :
            IF dies THEN status' = "crash" /\ UNCHANGED <<tok, diagnosed, stack>>
            ELSE tok' = d.tok /\ diagnosed' = d.diagnosed /\ stack' = with /\ UNCHANGED status
      BY <2>1 DEF Advance
    <3>2. d = [c EXCEPT !.crash = {TRUE}] BY <3>1 DEF Dies
    <3>3. PICK dies \in d.crash :
            IF dies THEN status' = "crash" /\ UNCHANGED <<tok, diagnosed, stack>>
            ELSE tok' = d.tok /\ diagnosed' = d.diagnosed /\ stack' = with /\ UNCHANGED status
      BY <3>1
    <3> QED BY <3>2, <3>3
  <2> QED BY <2>2, <2>3, TreeMoves
<1>6. CASE Last(Front(stack)).fn # "parse_function_s"
  <2>1. stack[Len(stack) - 1].fn \in {"parser", "parse_scope_f"}
    BY <1>1, <1>3, <1>6 DEF Waits, Conditionals
  <2>2. Waits(added[Len(added)], Top)
    BY <1>1, <1>3, <1>6, <2>1 DEF Waits, StatementFns, Conditionals
  <2>3. /\ Top = [fn |-> Top.fn, prec |-> Top.prec, at |-> Top.at, got |-> Top.got]
        /\ FrameHolds(Top, input, t_lable_tab)
    BY <1>1, Growing
  <2>4. Top \in Frameful({Top.prec, Top.at, Top.got})
    <3>1. Top.fn \in FileFns BY <1>1 DEF FileFns
    <3> QED BY <2>3, <3>1 DEF Frameful
  <2>5. Top.fn # "parse_function_s" BY <1>1
  <2>6. LET z == Append(added, Top) IN
        z[Len(z)] = Top /\ Stacked(z, input, t_lable_tab) /\ Labelled(z, t_lable_tab)
    BY <1>3, <2>2, <2>3, <2>4, <2>5, PushHolds DEF Grown
  <2>7. Grown(Append(added, Top), input, t_lable_tab)
    BY <1>1, <2>6 DEF Grown, Ready, Conditionals
  <2>8. Grown(with, input, t_lable_tab) BY <1>3, <2>7
  <2>9. Advance(c, with) BY <1>4, <1>6
  <2> HIDE DEF with
  <2> QED BY <1>1, <2>8, <2>9, AdvanceMoves
<1> QED BY <1>5, <1>6

LEMMA FunctionYields ==
  ASSUME TreeInv, InCall("parse_function_s"), Top.prec # 0, Top.prec = Len(Top.got)
  PROVE  Yields(Top, FunctionNode(input[Top.at], Front(Top.got), t_lable_tab, Last(Top.got)),
                t_lable_tab)
<1> DEFINE n == FunctionNode(input[Top.at], Front(Top.got), t_lable_tab, Last(Top.got))
           b == Top.got[Len(Top.got)]
<1>1. status = "running" /\ Top.fn = "parse_function_s" BY DEF InCall
<1>2. /\ Len(stack) \in Nat \ {0} /\ Stacked(stack, input, t_lable_tab)
      /\ Labelled(stack, t_lable_tab) /\ Top = stack[Len(stack)]
      /\ FrameHolds(Top, input, t_lable_tab) /\ Len(Top.got) \in Nat
      /\ Fits(stack, tok) /\ tok \in Nat
  BY <1>1, Growing
<1>3. n.kind = "AST_FUNCTION" /\ n.body = b /\ n.lables = t_lable_tab
  BY DEF FunctionNode, Last
<1> HIDE DEF n
<1>4. Len(Top.got) \in 1 .. Len(Top.got) BY <1>2
<1>5. IsStmt(b, t_lable_tab) /\ ~ Chained(b)
  <2>1. ItemIs(Top, Len(Top.got), b, t_lable_tab) BY <1>2, <1>4 DEF FrameHolds
  <2> QED BY <1>1, <2>1 DEF ItemIs
<1>6. Len(stack) = 2
  <2>a. \A m \in Nat \ {0} : m # 1 =>
          /\ m - 1 \in 1 .. m - 1 /\ m - 1 + 1 = m
          /\ m # 2 => m - 2 \in 1 .. m - 1 /\ m - 2 + 1 = m - 1
    OBVIOUS
  <2>1. Len(stack) # 1 BY <1>1, <1>2 DEF Fits
  <2>2. Len(stack) - 1 \in 1 .. Len(stack) - 1 /\ Len(stack) - 1 + 1 = Len(stack)
    BY <1>2, <2>1, <2>a
  <2>3. Waits(stack[Len(stack) - 1], Top) BY <1>2, <2>2 DEF Stacked
  <2>4. stack[Len(stack) - 1].fn = "parser" BY <1>1, <2>3 DEF Waits, StatementFns
  <2>5. CASE Len(stack) # 2
    <3>1. Len(stack) - 2 \in 1 .. Len(stack) - 1 /\ Len(stack) - 2 + 1 = Len(stack) - 1
      BY <1>2, <2>1, <2>5, <2>a
    <3>2. Waits(stack[Len(stack) - 2], stack[Len(stack) - 1]) BY <1>2, <3>1 DEF Stacked
    <3> QED BY <2>4, <3>2 DEF Waits, StatementFns
  <2> QED BY <2>5
<1>7. ASSUME NEW x \in t_lable_tab PROVE Holds(b, x)
  <2>1. \E k \in 2 .. Len(stack) : HasLable(stack[k], x) BY <1>1, <1>2, <1>6 DEF Labelled
  <2>2. HasLable(Top, x) BY <1>2, <1>6, <2>1
  <2> QED BY <1>1, <2>2 DEF HasLable, StmtAt, Conditionals
<1>8. Handed(n) BY <1>3, <1>5, <1>7 DEF Handed
<1>9. Yields(Top, n, t_lable_tab) BY <1>1, <1>8 DEF Yields, StatementFns, Conditionals
<1> QED BY <1>9 DEF n

LEMMA DeclarationTrees ==
  ASSUME TreeInv, FileInv', DeclarationStep, t_lable_tab' = t_lable_tab
  PROVE  TreeInv'
<1>t. ASSUME status = "running"
      PROVE  /\ Shaped(stack) /\ Len(stack) # 0 /\ Stacked(stack, input, t_lable_tab)
             /\ Labelled(stack, t_lable_tab) /\ Top = stack[Len(stack)]
             /\ Grown(stack, input, t_lable_tab)
  BY <1>t, Growing DEF Grown
<1>1. CASE BeginGlobal
  <2>1. /\ status = "running" /\ Top.fn = "parser"
        /\ Advance(Reads(Skips(Here)), Frames("parse_global_s", 0, tok))
    BY <1>1 DEF BeginGlobal, InCall
  <2> DEFINE f == Frame("parse_global_s", 0, tok)
  <2>2. "parse_global_s" \in FileFns
        /\ "parse_global_s" \notin {"parse_return_s", "parse_expr_s"} \cup Conditionals
    BY DEF FileFns, Conditionals
  <2>3. Waits(Top, f) BY <2>1 DEF Waits, Frame
  <2>4. Grown(Append(stack, f), input, t_lable_tab) BY <1>t, <2>1, <2>2, <2>3, PushCalls
  <2> QED BY <2>1, <2>4, AdvanceMoves DEF Frames
<1>2. CASE Unexpected
  <2>1. /\ status = "running"
        /\ Advance([Skips(Here) EXCEPT !.diagnosed = TRUE], stack)
    BY <1>2 DEF Unexpected, InCall
  <2> QED BY <1>t, <2>1, AdvanceMoves
<1>3. CASE EndOfFile
  <2>1. /\ status = "running" /\ Top.fn = "parser" /\ stack' = stack /\ input' = input
        /\ status' = "done"
    BY <1>3 DEF EndOfFile, InCall
  <2>2. Grown(stack', input', t_lable_tab') BY <1>t, <2>1
  <2>3. Top' = Top BY <2>1 DEF Top
  <2> QED BY <2>1, <2>2, <2>3 DEF TreeInv
<1>4. CASE GlobalItem
  <2>1. status = "running" /\ Top.fn = "parse_global_s" BY <1>4 DEF GlobalItem, InCall
  <2>2. PICK sized \in {See({"O_BRACKET"})} :
        \E c \in {Keys(IF sized THEN Expects(Takes(Skips(Here)), "C_BRACKET") ELSE Here,
                       input[Top.at])} :
          LET more  == At(c) = "COMMA"
              added == Returned(Global(input[Top.at], IF sized THEN int_lit(input[tok + 1]) ELSE 1))
          IN Advance(IF more THEN Takes(Skips(c)) ELSE Expects(c, "SEMICOLON"),
                     IF more THEN Append(added, Frame("parse_global_s", 0, c.tok + 1)) ELSE added)
    BY <1>4 DEF GlobalItem
  <2> DEFINE size  == IF sized THEN int_lit(input[tok + 1]) ELSE 1
             added == Returned(Global(input[Top.at], size))
  <2>3. PICK then, more, at :
          Advance(then, IF more THEN Append(added, Frame("parse_global_s", 0, at)) ELSE added)
    BY <2>2
  <2> HIDE DEF size
  <2>4. Handed(Global(input[Top.at], size)) BY DeclarationNodes
  <2>5. Yields(Top, Global(input[Top.at], size), t_lable_tab)
    BY <2>1, <2>4 DEF Yields, StatementFns, Conditionals
  <2>6. /\ Grown(added, input, t_lable_tab) /\ Shaped(added) /\ Len(added) # 0
        /\ added[Len(added)].fn = stack[Len(stack) - 1].fn
        /\ Waits(stack[Len(stack) - 1], Top)
    BY <2>1, <2>5, Returns
  <2>7. added[Len(added)].fn = "parser" BY <2>1, <2>6 DEF Waits, StatementFns
  <2> HIDE DEF added
  <2> DEFINE f == Frame("parse_global_s", 0, at)
  <2>8. Waits(added[Len(added)], f) BY <2>7 DEF Waits, Frame
  <2>9. "parse_global_s" \in FileFns
        /\ "parse_global_s" \notin {"parse_return_s", "parse_expr_s"} \cup Conditionals
    BY DEF FileFns, Conditionals
  <2>10. Grown(Append(added, f), input, t_lable_tab)
    BY <2>6, <2>8, <2>9, PushCalls DEF Grown
  <2>11. Grown(IF more THEN Append(added, f) ELSE added, input, t_lable_tab) BY <2>6, <2>10
  <2> QED BY <2>1, <2>3, <2>11, AdvanceMoves
<1>5. CASE Parameter
  <2> DEFINE then == IF AtEnd THEN Dies(Here) ELSE May(Keys(Skips(Here), input[tok]), "COMMA")
  <2>1. /\ status = "running" /\ Top.fn = "parse_function_s" /\ Top.prec = 0
        /\ Advance(then, Given(stack, input[tok]))
    BY <1>5 DEF Parameter, InCall
  <2> HIDE DEF then
  <2>2. Len(Top.got) \in Nat BY <2>1, Growing
  <2>3. ItemIs(Top, Len(Top.got) + 1, input[tok], t_lable_tab)
    <3>1. Len(Top.got) + 1 # 0 BY <2>2
    <3> QED BY <2>1, <3>1 DEF ItemIs, ExprHolders, Conditionals
  <2>4. Grown(Given(stack, input[tok]), input, t_lable_tab) BY <1>t, <2>1, <2>3, GiveKeeps
  <2> QED BY <2>1, <2>4, AdvanceMoves
<1>6. CASE EndParameters
  <2> DEFINE x == Len(Top.got) + 1
             e == [fn |-> Top.fn, prec |-> x, at |-> Top.at, got |-> Top.got]
             z == [stack EXCEPT ![Len(stack)].prec = x]
  <2>1. /\ status = "running" /\ Top.fn = "parse_function_s" /\ Top.prec = 0
        /\ Advance(Skips(Here), z)
    BY <1>6 DEF EndParameters, InCall
  <2> HIDE DEF x
  <2>2. Topped(z, stack, e) BY <1>t, <2>1, ToppedFields
  <2>3. e.fn = Top.fn /\ e.prec = x /\ e.got = Top.got OBVIOUS
  <2> HIDE DEF z, e
  <2>4. Len(Top.got) \in Nat /\ FrameHolds(Top, input, t_lable_tab) BY <2>1, Growing
  <2>5. \A i \in 1 .. Len(Top.got) : i # x /\ i # 0 BY <2>4 DEF x
  <2>6. FrameHolds(e, input, t_lable_tab)
    BY <2>1, <2>3, <2>4, <2>5 DEF FrameHolds, ItemIs, ExprHolders, Conditionals
  <2>7. Len(stack) # 1 => Waits(stack[Len(stack) - 1], e)
    <3>1. Len(stack) \in Nat \ {0} BY <2>1, Growing
    <3>2. \A m \in Nat \ {0} : m # 1 => m - 1 \in 1 .. m - 1 /\ m - 1 + 1 = m OBVIOUS
    <3>3. ASSUME Len(stack) # 1 PROVE Waits(stack[Len(stack) - 1], Top)
      <4>1. Len(stack) - 1 \in 1 .. Len(stack) - 1 /\ Len(stack) - 1 + 1 = Len(stack)
        BY <3>1, <3>2, <3>3
      <4> QED BY <1>t, <2>1, <4>1 DEF Stacked
    <3> QED BY <2>1, <2>3, <3>3 DEF Waits
  <2>8. Stacked(z, input, t_lable_tab) BY <1>t, <2>1, <2>2, <2>6, <2>7, StackedTopped
  <2>9. \A y : ~ HasLable(Top, y)
    BY <2>1, <2>5 DEF HasLable, StmtAt, Conditionals
  <2>10. Labelled(z, t_lable_tab) BY <1>t, <2>1, <2>2, <2>3, <2>9, LabelledTopped
  <2>11. Ready(z) BY <2>1, <2>2, <2>3 DEF Ready, Topped, Conditionals
  <2>12. Grown(z, input, t_lable_tab) BY <2>8, <2>10, <2>11 DEF Grown
  <2>13. Advance(Skips(Here), z) BY <2>1
  <2> QED BY <2>1, <2>12, <2>13, AdvanceMoves
<1>7. CASE EndFunction
  <2> DEFINE n == FunctionNode(input[Top.at], Front(Top.got), t_lable_tab, Last(Top.got))
  <2>1. /\ InCall("parse_function_s") /\ Top.prec # 0 /\ Top.prec = Len(Top.got)
        /\ Advance(Here, Returned(n))
    BY <1>7 DEF EndFunction
  <2>2. Yields(Top, n, t_lable_tab) BY <2>1, FunctionYields
  <2> HIDE DEF n
  <2>3. status = "running" /\ Top.fn # "parser" BY <2>1 DEF InCall
  <2>4. Grown(Returned(n), input, t_lable_tab) BY <2>2, <2>3, Returns
  <2> QED BY <2>1, <2>3, <2>4, AdvanceMoves
<1>8. CASE BeginDeclaration
  <2>1. /\ status = "running"
        /\ \E fn \in {"parse_auto_s", "parse_extrn_s"} :
             /\ Advance(Skips(Here), Frames(fn, 0, tok))
             /\ AtStatement \/ (fn = "parse_extrn_s" /\ Top.fn = "parser")
    BY <1>8, StatementWaits DEF BeginDeclaration, Statement, InCall
  <2>2. PICK fn \in {"parse_auto_s", "parse_extrn_s"} :
             /\ Advance(Skips(Here), Frames(fn, 0, tok))
             /\ AtStatement \/ (fn = "parse_extrn_s" /\ Top.fn = "parser")
    BY <2>1
  <2> DEFINE f == Frame(fn, 0, tok)
  <2>3. f.fn = fn BY DEF Frame
  <2>4. Waits(Top, f)
    <3>1. CASE AtStatement
      <4>1. f.fn \in StatementFns BY <2>3 DEF StatementFns
      <4> QED BY <3>1, <4>1, StatementWaits
    <3>2. CASE fn = "parse_extrn_s" /\ Top.fn = "parser" BY <2>3, <3>2 DEF Waits
    <3> QED BY <2>2, <3>1, <3>2
  <2>5. fn \in FileFns /\ fn \notin {"parse_return_s", "parse_expr_s"} \cup Conditionals
        /\ fn # "parse_function_call_s" /\ fn # "parse_function_s"
    BY DEF FileFns, Conditionals
  <2>6. Grown(Append(stack, f), input, t_lable_tab) BY <1>t, <2>1, <2>4, <2>5, PushCalls
  <2> QED BY <2>1, <2>2, <2>6, AdvanceMoves DEF Frames
<1>9. CASE AutoItem
  <2>1. /\ InCall("parse_auto_s")
        /\ \E c, k, more : DeclarationItem(c, Vector(input[tok], k), more)
    BY <1>9 DEF AutoItem
  <2>2. PICK c, k, more : DeclarationItem(c, Vector(input[tok], k), more) BY <2>1
  <2>3. IsStmt(Vector(input[tok], k), t_lable_tab) /\ ~ Chained(Vector(input[tok], k))
    BY DeclarationNodes
  <2>4. ~ InCall("parse_extrn_s") BY <2>1 DEF InCall
  <2> QED BY <2>1, <2>2, <2>3, <2>4, ItemTrees
<1>10. CASE ExtrnItem
  <2>1. /\ InCall("parse_extrn_s")
        /\ \E c, more : DeclarationItem(c, Extrn(input[tok]), more)
    BY <1>10 DEF ExtrnItem
  <2>2. PICK c, more : DeclarationItem(c, Extrn(input[tok]), more) BY <2>1
  <2>3. /\ IsStmt(Extrn(input[tok]), t_lable_tab) /\ ~ Chained(Extrn(input[tok]))
        /\ Handed(Extrn(input[tok]))
    BY DeclarationNodes
  <2> QED BY <2>1, <2>2, <2>3, ItemTrees
<1> QED
  BY <1>1, <1>2, <1>3, <1>4, <1>5, <1>6, <1>7, <1>8, <1>9, <1>10 DEF DeclarationStep

\* The two steps that change the table of labels.
LEMMA LableTrees ==
  ASSUME TreeInv, FileInv', BeginFunction \/ LableStatement
  PROVE  TreeInv'
<1>1. CASE BeginFunction
  <2> DEFINE f == Frame("parse_function_s", 0, tok)
  <2>1. /\ InCall("parser") /\ t_lable_tab' = {}
        /\ Advance(Skips(Skips(Here)), Append(stack, f))
    BY <1>1 DEF BeginFunction, Frames
  <2>2. status = "running" /\ Top.fn = "parser" BY <2>1 DEF InCall
  <2>3. Shaped(stack) /\ Len(stack) # 0 /\ Top = stack[Len(stack)] BY <2>2, Growing
  <2>4. Stacked(stack, input, {}) /\ Labelled(stack, {}) BY <2>1, ParserAlone
  <2>5. "parse_function_s" \in FileFns
        /\ "parse_function_s" \notin {"parse_return_s", "parse_expr_s"} \cup Conditionals
    BY DEF FileFns, Conditionals
  <2>6. Waits(Top, f) BY <2>2 DEF Waits, Frame
  <2>7. Grown(Append(stack, f), input, {}) BY <2>3, <2>4, <2>5, <2>6, PushCalls
  <2> QED BY <2>1, <2>2, <2>7, AdvanceMoves
<1>2. CASE LableStatement
  <2> DEFINE x == input[tok]
             tab == t_lable_tab \cup {x}
  <2>1. /\ AtStatement /\ t_lable_tab' = tab
        /\ Advance(Skips(Skips(Here)), Given(stack, Lable(x)))
    BY <1>2 DEF LableStatement
  <2> HIDE DEF x
  <2>2. /\ status = "running" /\ StmtAt(Top, Len(Top.got) + 1)
        /\ \A n, t : IsStmt(n, t) /\ ~ Chained(n) => ItemIs(Top, Len(Top.got) + 1, n, t)
    BY <2>1, StatementWaits
  <2>3. /\ Shaped(stack) /\ Len(stack) # 0 /\ Top = stack[Len(stack)]
        /\ Stacked(stack, input, t_lable_tab) /\ Labelled(stack, t_lable_tab)
    BY <2>2, Growing
  <2>4. x \in tab /\ t_lable_tab \subseteq tab /\ \A y \in tab : y \in t_lable_tab \/ y = x
    OBVIOUS
  <2> HIDE DEF tab
  <2>5. IsStmt(Lable(x), tab) /\ ~ Chained(Lable(x)) BY <2>4, DeclarationNodes
  <2>6. ItemIs(Top, Len(Top.got) + 1, Lable(x), tab) BY <2>2, <2>5
  <2>7. Holds(Lable(x), x) BY HoldsLable
  <2>8. Grown(Given(stack, Lable(x)), input, tab)
    BY <2>2, <2>3, <2>4, <2>6, <2>7, GiveKeeps
  <2> QED BY <2>1, <2>2, <2>8, AdvanceMoves
<1> QED BY <1>1, <1>2

LEMMA IfYields ==
  ASSUME TreeInv, InCall("parse_if_s"), Len(Top.got) >= 2
  PROVE  Yields(Top, IfNode(IfKind(Top), Top.got[1], Top.got[2], ChainOf(Top.got)), t_lable_tab)
<1> DEFINE g == Top.got
           kind == IfKind(Top)
           chain == ChainOf(g)
           n == IfNode(kind, g[1], g[2], chain)
<1>1. status = "running" /\ Top.fn = "parse_if_s" BY DEF InCall
<1>2. FrameHolds(Top, input, t_lable_tab) /\ Len(g) \in Nat BY <1>1, Growing
<1>3. \A i \in 1 .. Len(g) : ItemIs(Top, i, g[i], t_lable_tab) BY <1>2 DEF FrameHolds
<1> HIDE DEF g
<1>4. ASSUME NEW i \in 1 .. Len(g)
      PROVE  \/ i = 1 /\ IsExpr(g[i])
             \/ i = 2 /\ IsScope(g[i], t_lable_tab)
             \/ i = 3 /\ (IsScope(g[i], t_lable_tab)
                          \/ (IsStmt(g[i], t_lable_tab) /\ g[i].kind = "AST_ELSE_IF"))
  <2>1. ItemIs(Top, i, g[i], t_lable_tab) BY <1>3, <1>4
  <2> QED BY <1>1, <2>1 DEF ItemIs, Conditionals
<1>5. Len(g) >= 2 BY DEF g
<1>a. \A m \in Nat : m >= 2 => 1 \in 1 .. m /\ 2 \in 1 .. m /\ m \in 1 .. m /\ m # 1 OBVIOUS
<1>6. 1 \in 1 .. Len(g) /\ 2 \in 1 .. Len(g) /\ Len(g) \in 1 .. Len(g) BY <1>2, <1>5, <1>a
<1>7. IsExpr(g[1]) /\ IsScope(g[2], t_lable_tab) BY <1>4, <1>6
<1>8. Len(g) = 2 \/ Len(g) = 3
  <2>1. Len(g) = 1 \/ Len(g) = 2 \/ Len(g) = 3 BY <1>4, <1>6
  <2>2. Len(g) # 1 BY <1>2, <1>5, <1>a
  <2> QED BY <2>1, <2>2
<1>9. kind = (IF Top.prec = 1 THEN "AST_ELSE_IF" ELSE "AST_IF")
      /\ kind \in {"AST_IF", "AST_ELSE_IF"}
  BY DEF IfKind
<1> HIDE DEF kind
<1>10. /\ chain = NoChain \/ (IsStmt(chain, t_lable_tab) /\ Chained(chain))
       /\ Len(g) = 3 => chain # NoChain /\ \A x : Holds(g[3], x) => Holds(chain, x)
  <2>1. CASE Len(g) = 2
    <3>1. chain = NoChain BY <2>1 DEF ChainOf
    <3> QED BY <2>1, <3>1
  <2>2. CASE Len(g) = 3
    <3>1. 3 \in 1 .. Len(g) /\ Len(g) # 2 BY <2>2
    <3>2. \/ IsScope(g[3], t_lable_tab)
          \/ (IsStmt(g[3], t_lable_tab) /\ g[3].kind = "AST_ELSE_IF")
      BY <1>4, <3>1
    <3>3. NoChain.kind = "NULL" BY DEF NoChain
    <3>4. CASE g[3].kind = "AST_SCOPE"
      <4>1. chain = Else(g[3].body) BY <3>1, <3>4 DEF ChainOf
      <4>2. IsStmt(g[3], t_lable_tab) /\ g[3] = Block(g[3].body) BY <3>2, <3>4 DEF IsScope
      <4>3. IsStmt(Block(g[3].body), t_lable_tab) BY <4>2
      <4>4. /\ IsStmt(Else(g[3].body), t_lable_tab)
            /\ \A x : Holds(Block(g[3].body), x) => Holds(Else(g[3].body), x)
        BY <4>3, ElseIsBlock
      <4>5. Else(g[3].body).kind = "AST_ELSE" BY DEF Else
      <4>6. IsStmt(chain, t_lable_tab) /\ chain.kind = "AST_ELSE" BY <4>1, <4>4, <4>5
      <4>7. \A x : Holds(g[3], x) => Holds(chain, x) BY <4>1, <4>2, <4>4
      <4> HIDE DEF chain
      <4> QED BY <3>3, <4>6, <4>7 DEF Chained
    <3>5. CASE g[3].kind # "AST_SCOPE"
      <4>1. chain = g[3] BY <3>1, <3>5 DEF ChainOf
      <4>2. IsStmt(g[3], t_lable_tab) /\ g[3].kind = "AST_ELSE_IF" BY <3>2, <3>5 DEF IsScope
      <4> HIDE DEF chain
      <4> QED BY <3>3, <4>1, <4>2 DEF Chained
    <3> QED BY <3>4, <3>5
  <2> QED BY <1>8, <2>1, <2>2
<1> HIDE DEF chain
<1>11. /\ IsStmt(n, t_lable_tab) /\ n.kind = kind /\ \A x : Holds(g[2], x) => Holds(n, x)
       /\ chain # NoChain => \A x : Holds(chain, x) => Holds(n, x)
  BY <1>7, <1>9, <1>10, IfNodes
<1> HIDE DEF n
<1>12. ASSUME NEW x, HasLable(Top, x) PROVE Holds(n, x)
  <2>1. PICK i \in 1 .. Len(g) : StmtAt(Top, i) /\ Holds(g[i], x) BY <1>12 DEF HasLable, g
  <2>2. i # 1 BY <1>1, <2>1 DEF StmtAt
  <2>3. i = 2 \/ (i = 3 /\ Len(g) = 3) BY <1>8, <2>1, <2>2
  <2> QED BY <1>10, <1>11, <2>1, <2>3
<1>13. Yields(Top, n, t_lable_tab) BY <1>1, <1>9, <1>11, <1>12 DEF Yields, StatementFns
<1> QED BY <1>13 DEF n, g, kind, chain

LEMMA WhileYields ==
  ASSUME TreeInv, InCall("parse_while_s"), Len(Top.got) = 2
  PROVE  Yields(Top, While(Top.got[1], Top.got[2].body), t_lable_tab)
<1> DEFINE n == While(Top.got[1], Top.got[2].body)
<1>1. status = "running" /\ Top.fn = "parse_while_s" BY DEF InCall
<1>2. FrameHolds(Top, input, t_lable_tab) BY <1>1, Growing
<1>3. 1 \in 1 .. Len(Top.got) /\ 2 \in 1 .. Len(Top.got) OBVIOUS
<1>4. ItemIs(Top, 1, Top.got[1], t_lable_tab) /\ ItemIs(Top, 2, Top.got[2], t_lable_tab)
  BY <1>2, <1>3 DEF FrameHolds
<1>5. IsExpr(Top.got[1]) /\ IsScope(Top.got[2], t_lable_tab)
  BY <1>1, <1>4 DEF ItemIs, Conditionals
<1>6. IsStmt(n, t_lable_tab) /\ ~ Chained(n) /\ \A x : Holds(Top.got[2], x) => Holds(n, x)
  BY <1>5, WhileNode
<1> HIDE DEF n
<1>7. ASSUME NEW x, HasLable(Top, x) PROVE Holds(n, x)
  <2>1. PICK i \in 1 .. Len(Top.got) : StmtAt(Top, i) /\ Holds(Top.got[i], x)
    BY <1>7 DEF HasLable
  <2>2. i # 1 BY <1>1, <2>1 DEF StmtAt
  <2>3. i = 2 BY <2>1, <2>2
  <2> QED BY <1>6, <2>1, <2>3
<1>8. Yields(Top, n, t_lable_tab) BY <1>1, <1>6, <1>7 DEF Yields, StatementFns
<1> QED BY <1>8 DEF n

LEMMA ScopeYields ==
  ASSUME TreeInv, InCall("parse_scope_f")
  PROVE  Yields(Top, Block(Top.got), t_lable_tab)
<1> DEFINE n == Block(Top.got)
<1>1. status = "running" /\ Top.fn = "parse_scope_f" BY DEF InCall
<1>2. FrameHolds(Top, input, t_lable_tab) BY <1>1, Growing
<1>3. \A i \in 1 .. Len(Top.got) : IsStmt(Top.got[i], t_lable_tab) /\ ~ Chained(Top.got[i])
  BY <1>1, <1>2 DEF FrameHolds, ItemIs
<1>4. IsList(Top.got) BY <1>2 DEF FrameHolds
<1>5. /\ IsScope(n, t_lable_tab)
      /\ \A i \in 1 .. Len(Top.got) : \A x : Holds(Top.got[i], x) => Holds(n, x)
  BY <1>3, <1>4, ScopeNode
<1> HIDE DEF n
<1>6. \A x : HasLable(Top, x) => Holds(n, x) BY <1>5 DEF HasLable
<1>7. IsStmt(n, t_lable_tab) /\ ~ Chained(n) BY <1>5 DEF IsScope, Chained
<1>8. Yields(Top, n, t_lable_tab) BY <1>1, <1>5, <1>6, <1>7 DEF Yields, Conditionals
<1> QED BY <1>8 DEF n

LEMMA StatementTrees ==
  ASSUME TreeInv, FileInv', StatementStep, t_lable_tab' = t_lable_tab
  PROVE  TreeInv'
<1>t. ASSUME status = "running"
      PROVE  /\ Shaped(stack) /\ Len(stack) # 0 /\ Stacked(stack, input, t_lable_tab)
             /\ Labelled(stack, t_lable_tab) /\ Top = stack[Len(stack)]
             /\ Grown(stack, input, t_lable_tab) /\ FrameHolds(Top, input, t_lable_tab)
             /\ Len(Top.got) \in Nat
  BY <1>t, Growing DEF Grown
\* A statement that is an activation of its own, and its expression.
<1>e. ASSUME AtStatement,
             NEW fn \in {"parse_return_s", "parse_expr_s", "parse_if_s", "parse_while_s"},
             NEW c, Advance(c, WithExpr(fn, 0, tok))
      PROVE  TreeInv'
  <2> DEFINE f == Frame(fn, 0, tok)
  <2>1. f.fn = fn /\ f.prec = 0 BY DEF Frame
  <2>2. f.fn \in StatementFns \/ (f.fn = "parse_if_s" /\ f.prec # 1)
    BY <2>1 DEF StatementFns
  <2> HIDE DEF f
  <2>3. status = "running" /\ Waits(Top, f) BY <1>e, <2>2, StatementWaits
  <2>4. Grown(WithExpr(fn, 0, tok), input, t_lable_tab)
    BY <1>t, <2>3, PushWithExpr DEF WithExpr, Frames, f
  <2> QED BY <1>e, <2>3, <2>4, AdvanceMoves
\* A scope.
<1>s. ASSUME status = "running", NEW c, Advance(c, Append(stack, Scope)), Waits(Top, Scope)
      PROVE  TreeInv'
  <2>1. "parse_scope_f" \in FileFns
        /\ "parse_scope_f" \notin {"parse_return_s", "parse_expr_s"} \cup Conditionals
    BY DEF FileFns, Conditionals
  <2>2. Grown(Append(stack, Scope), input, t_lable_tab)
    BY <1>s, <1>t, <2>1, PushCalls DEF Scope
  <2> QED BY <1>s, <2>2, AdvanceMoves
<1>f. Scope.fn = "parse_scope_f" BY DEF Scope, Frame
\* A return.
<1>r. ASSUME status = "running", Top.fn # "parser", NEW n, Yields(Top, n, t_lable_tab),
             NEW c, Advance(c, Returned(n))
      PROVE  TreeInv'
  <2>1. Grown(Returned(n), input, t_lable_tab) BY <1>r, Returns
  <2> QED BY <1>r, <2>1, AdvanceMoves
<1>1. CASE NoStatement
  <2>1. status = "running" /\ Advance(Reads(Here), stack) BY <1>1, StatementWaits DEF NoStatement
  <2> QED BY <1>t, <2>1, AdvanceMoves
<1>2. CASE EndScope
  <2>1. InCall("parse_scope_f") /\ Advance(Skips(Here), Returned(Block(Top.got)))
    BY <1>2 DEF EndScope
  <2>2. status = "running" /\ Top.fn # "parser" BY <2>1 DEF InCall
  <2>3. Yields(Top, Block(Top.got), t_lable_tab) BY <2>1, ScopeYields
  <2> QED BY <1>r, <2>1, <2>2, <2>3
<1>3. CASE OpenScope
  <2>1. AtStatement /\ Advance(Skips(Here), Append(stack, Scope))
    BY <1>3 DEF OpenScope, Statement
  <2>2. status = "running" /\ Waits(Top, Scope) BY <1>f, <2>1, StatementWaits DEF StatementFns
  <2> QED BY <1>s, <2>1, <2>2
<1>4. CASE GotoStatement
  <2> DEFINE n == Goto(input[tok + 1])
  <2>1. AtStatement /\ Advance(Expects(Takes(Skips(Here)), "SEMICOLON"), Given(stack, n))
    BY <1>4 DEF GotoStatement, Statement
  <2>2. IsStmt(n, t_lable_tab) /\ ~ Chained(n) BY DeclarationNodes
  <2> HIDE DEF n
  <2>3. status = "running" /\ ItemIs(Top, Len(Top.got) + 1, n, t_lable_tab)
    BY <2>1, <2>2, StatementWaits
  <2>4. Grown(Given(stack, n), input, t_lable_tab) BY <1>t, <2>3, GiveKeeps
  <2> QED BY <2>1, <2>3, <2>4, AdvanceMoves
<1>5. CASE CommaStatement
  <2>1. status = "running" /\ Advance(IF AwaitsBody THEN Dies(Here) ELSE Skips(Here), stack)
    BY <1>5, StatementWaits DEF CommaStatement, Statement
  <2> QED BY <1>t, <2>1, AdvanceMoves
<1>6. CASE BeginReturn
  <2>1. AtStatement /\ Advance(Skips(Here), WithExpr("parse_return_s", 0, tok))
    BY <1>6 DEF BeginReturn, Statement
  <2> QED BY <1>e, <2>1
<1>7. CASE ExprStatement
  <2>1. AtStatement /\ Advance(Here, WithExpr("parse_expr_s", 0, tok)) BY <1>7 DEF ExprStatement
  <2> QED BY <1>e, <2>1
<1>8. CASE EndSimpleStatement
  <2> DEFINE n == IF Top.fn = "parse_return_s" THEN Ret(Top.got[1]) ELSE Do(Top.got[1])
  <2>1. /\ status = "running" /\ Top.fn \in {"parse_return_s", "parse_expr_s"}
        /\ Advance(Expects(Here, "SEMICOLON"), Returned(n))
    BY <1>8 DEF EndSimpleStatement, InCall
  <2>2. Len(Top.got) # 0 BY <1>t, <2>1 DEF Grown, Ready
  <2>3. 1 \in 1 .. Len(Top.got)
    <3>1. \A m \in Nat : m # 0 => 1 \in 1 .. m OBVIOUS
    <3> QED BY <1>t, <2>1, <2>2, <3>1
  <2>4. ItemIs(Top, 1, Top.got[1], t_lable_tab) BY <1>t, <2>1, <2>3 DEF FrameHolds
  <2>5. IsExpr(Top.got[1]) BY <2>1, <2>4 DEF ItemIs, ExprHolders
  <2>6. IsStmt(n, t_lable_tab) /\ ~ Chained(n) BY <2>5, SimpleNodes
  <2> HIDE DEF n
  <2>7. Yields(Top, n, t_lable_tab) BY <2>1, <2>6 DEF Yields, Conditionals
  <2>8. Top.fn # "parser" BY <2>1
  <2> QED BY <1>r, <2>1, <2>7, <2>8
<1>9. CASE BeginCondition
  <2>1. /\ AtStatement
        /\ \/ Advance(Expects(Skips(Here), "O_PREN"), WithExpr("parse_if_s", 0, tok))
           \/ Advance(Expects(Skips(Here), "O_PREN"), WithExpr("parse_while_s", 0, tok))
    BY <1>9 DEF BeginCondition, Statement
  <2> QED BY <1>e, <2>1
<1>10. CASE EndCondition
  <2>1. /\ status = "running" /\ Top.fn \in Conditionals /\ Len(Top.got) = 1
        /\ Advance(Expects(Expects(Here, "C_PREN"), "O_BRACE"), Append(stack, Scope))
    BY <1>10 DEF EndCondition, InCall, Conditionals
  <2>2. Waits(Top, Scope) BY <1>f, <2>1 DEF Waits
  <2> QED BY <1>s, <2>1, <2>2
<1>11. CASE EndWhile
  <2>1. /\ InCall("parse_while_s") /\ Len(Top.got) = 2
        /\ Advance(Here, Returned(While(Top.got[1], Top.got[2].body)))
    BY <1>11 DEF EndWhile
  <2>2. status = "running" /\ Top.fn # "parser" BY <2>1 DEF InCall
  <2>3. Yields(Top, While(Top.got[1], Top.got[2].body), t_lable_tab) BY <2>1, WhileYields
  <2> QED BY <1>r, <2>1, <2>2, <2>3
<1>12. CASE ElseIfStatement
  <2> DEFINE f == Frame("parse_if_s", 1, tok + 1)
  <2>1. /\ status = "running" /\ Top.fn = "parse_if_s" /\ Len(Top.got) = 2
        /\ Advance(Expects(Skips(Skips(Here)), "O_PREN"), WithExpr("parse_if_s", 1, tok + 1))
    BY <1>12 DEF ElseIfStatement, AtElse, InCall
  <2>2. f.fn = "parse_if_s" /\ f.prec = 1 BY DEF Frame
  <2> HIDE DEF f
  <2>3. Waits(Top, f) BY <2>1, <2>2 DEF Waits
  <2>4. Grown(WithExpr("parse_if_s", 1, tok + 1), input, t_lable_tab)
    BY <1>t, <2>1, <2>3, PushWithExpr DEF WithExpr, Frames, f
  <2> QED BY <2>1, <2>4, AdvanceMoves
<1>13. CASE ElseStatement
  <2>1. /\ status = "running" /\ Top.fn = "parse_if_s" /\ Len(Top.got) = 2
        /\ Advance(Expects(Skips(Here), "O_BRACE"), Append(stack, Scope))
    BY <1>13 DEF ElseStatement, AtElse, InCall
  <2>2. Waits(Top, Scope) BY <1>f, <2>1 DEF Waits
  <2> QED BY <1>s, <2>1, <2>2
<1>14. CASE EndIf
  <2> DEFINE n == IfNode(IfKind(Top), Top.got[1], Top.got[2], ChainOf(Top.got))
  <2>1. /\ InCall("parse_if_s") /\ Len(Top.got) >= 2 /\ Advance(Here, Returned(n))
    BY <1>14 DEF EndIf
  <2>2. status = "running" /\ Top.fn # "parser" BY <2>1 DEF InCall
  <2>3. Yields(Top, n, t_lable_tab) BY <2>1, IfYields
  <2> HIDE DEF n
  <2> QED BY <1>r, <2>1, <2>2, <2>3
<1> QED
  BY <1>1, <1>2, <1>3, <1>4, <1>5, <1>6, <1>7, <1>8, <1>9, <1>10, <1>11, <1>12, <1>13, <1>14
  DEF StatementStep

\* Changes of an activation of the expression parser on top.
LEMMA ExprEdit ==
  ASSUME TreeInv, status = "running",
         Top.fn \in {"parse_expr_f", "parse_left_f", "parse_function_call_s"}, NEW z, NEW e,
         Topped(z, stack, e), e.fn = Top.fn \/ (Top.fn = "parse_left_f" /\ e.fn = "parse_function_call_s"),
         IsList(e.got), \A i \in 1 .. Len(e.got) : IsExpr(e.got[i]),
         e.fn = "parse_function_call_s" => input[e.at] \in Names
  PROVE  /\ Grown(z, input, t_lable_tab) /\ Shaped(z) /\ Len(z) # 0 /\ z[Len(z)] = e
<1>1. /\ Shaped(stack) /\ Len(stack) \in Nat \ {0} /\ Stacked(stack, input, t_lable_tab)
      /\ Labelled(stack, t_lable_tab) /\ Top = stack[Len(stack)]
  BY Growing
<1>2. e.fn \in {"parse_expr_f", "parse_left_f", "parse_function_call_s"} OBVIOUS
<1>3. FrameHolds(e, input, t_lable_tab)
  BY <1>2 DEF FrameHolds, ItemIs, Conditionals
<1>4. Len(stack) # 1 => Waits(stack[Len(stack) - 1], e)
  <2>1. \A m \in Nat \ {0} : m # 1 => m - 1 \in 1 .. m - 1 /\ m - 1 + 1 = m OBVIOUS
  <2>2. ASSUME Len(stack) # 1 PROVE Waits(stack[Len(stack) - 1], e)
    <3>1. Len(stack) - 1 \in 1 .. Len(stack) - 1 /\ Len(stack) - 1 + 1 = Len(stack)
      BY <1>1, <2>1, <2>2
    <3>2. Waits(stack[Len(stack) - 1], Top) BY <1>1, <3>1 DEF Stacked
    <3> QED BY <3>2 DEF Waits, StatementFns
  <2> QED BY <2>2
<1>5. t_lable_tab \subseteq t_lable_tab OBVIOUS
<1>6. Stacked(z, input, t_lable_tab) BY <1>1, <1>3, <1>4, <1>5, StackedTopped
<1>7. \A x : ~ HasLable(Top, x) BY DEF HasLable, StmtAt, Conditionals
<1>8. e.fn # "parse_function_s" BY <1>2
<1>9. Labelled(z, t_lable_tab) BY <1>1, <1>7, <1>8, LabelledTopped
<1>10. Shaped(z) /\ Len(z) = Len(stack) /\ z[Len(z)] = e BY DEF Topped
<1>11. Ready(z) BY <1>2, <1>10 DEF Ready, Conditionals
<1> QED BY <1>1, <1>6, <1>9, <1>10, <1>11 DEF Grown

LEMMA ExpressionTrees ==
  ASSUME TreeInv, FileInv', ExpressionStep, t_lable_tab' = t_lable_tab
  PROVE  TreeInv'
<1> DEFINE Fns == {"parse_expr_f", "parse_left_f", "parse_function_call_s"}
<1>t. ASSUME status = "running"
      PROVE  /\ Shaped(stack) /\ Len(stack) # 0 /\ Stacked(stack, input, t_lable_tab)
             /\ Labelled(stack, t_lable_tab) /\ Top = stack[Len(stack)]
             /\ Grown(stack, input, t_lable_tab) /\ FrameHolds(Top, input, t_lable_tab)
             /\ Len(Top.got) \in Nat /\ IsList(Top.got)
  BY <1>t, Growing DEF Grown, FrameHolds
\* Its trees are expressions.
<1>i. ASSUME status = "running", Top.fn \in Fns
      PROVE  /\ \A i \in 1 .. Len(Top.got) : IsExpr(Top.got[i])
             /\ Len(Top.got) # 0 => IsExpr(Top.got[1])
  <2>1. \A i \in 1 .. Len(Top.got) : IsExpr(Top.got[i])
    BY <1>i, <1>t DEF FrameHolds, ItemIs, ExprHolders
  <2>2. \A m \in Nat : m # 0 => 1 \in 1 .. m OBVIOUS
  <2>3. ASSUME Len(Top.got) # 0 PROVE IsExpr(Top.got[1])
    <3>1. 1 \in 1 .. Len(Top.got) BY <1>i, <1>t, <2>2, <2>3
    <3> QED BY <2>1, <3>1
  <2> QED BY <2>1, <2>3
<1>n. ASSUME status = "running", Top.got # <<>> PROVE Len(Top.got) # 0
  <2>1. PICK V : Top.got \in Seq(V) BY <1>n, <1>t DEF IsList
  <2> QED BY <1>n, <2>1, EmptySeq
\* A call from a stack that is fit.
<1>c. ASSUME status = "running", status' = status, input' = input, NEW s, Shaped(s), Len(s) # 0,
             Grown(s, input, t_lable_tab), NEW fn \in {"parse_expr_f", "parse_left_f"}, NEW prec,
             \/ s[Len(s)].fn \in {"parse_expr_f", "parse_left_f"}
             \/ s[Len(s)].fn = "parse_function_call_s" /\ fn = "parse_expr_f",
             stack' = Append(s, Frame(fn, prec, 0))
      PROVE  TreeInv'
  <2>1. fn \in FileFns /\ fn # "parse_function_s" /\ fn # "parse_function_call_s"
        /\ fn \notin {"parse_return_s", "parse_expr_s"} \cup Conditionals
    BY DEF FileFns, Conditionals
  <2>2. Frame(fn, prec, 0).fn = fn BY DEF Frame
  <2>3. Waits(s[Len(s)], Frame(fn, prec, 0)) BY <1>c, <2>2 DEF Waits
  <2>4. Grown(stack', input, t_lable_tab) BY <1>c, <2>1, <2>3, PushCalls DEF Grown
  <2> QED BY <1>c, <2>4, TreeMoves
\* The same with `at' set.
<1>a. ASSUME status = "running", status' = status, input' = input,
             Top.fn \in {"parse_expr_f", "parse_left_f"},
             NEW fn \in {"parse_expr_f", "parse_left_f"}, NEW prec, NEW at,
             stack' = Append([stack EXCEPT ![Len(stack)].at = at], Frame(fn, prec, 0))
      PROVE  TreeInv'
  <2> DEFINE e == [fn |-> Top.fn, prec |-> Top.prec, at |-> at, got |-> Top.got]
             z == [stack EXCEPT ![Len(stack)].at = at]
  <2>1. Topped(z, stack, e) BY <1>a, <1>t, ToppedFields
  <2>2. e.fn = Top.fn /\ e.got = Top.got OBVIOUS
  <2> HIDE DEF e, z
  <2>3. Grown(z, input, t_lable_tab) /\ Shaped(z) /\ Len(z) # 0 /\ z[Len(z)] = e
    BY <1>a, <1>i, <1>t, <2>1, <2>2, ExprEdit
  <2>4. stack' = Append(z, Frame(fn, prec, 0)) BY <1>a DEF z
  <2> QED BY <1>a, <1>c, <2>2, <2>3, <2>4
\* A return.
<1>r. ASSUME status = "running", status' = status, input' = input, Top.fn \in Fns, NEW n,
             IsExpr(n), Return(n)
      PROVE  TreeInv'
  <2>1. Yields(Top, n, t_lable_tab) BY <1>r DEF Yields, StatementFns, Conditionals
  <2>2. Top.fn # "parser" BY <1>r
  <2>3. Grown(Returned(n), input, t_lable_tab) BY <1>r, <2>1, <2>2, Returns
  <2> QED BY <1>r, <2>3, TreeMoves DEF Return
<1>1. CASE LeftOperand
  <2>1. /\ status = "running" /\ Top.fn = "parse_expr_f" /\ status' = status /\ input' = input
        /\ stack' = Append(stack, Frame("parse_left_f", PREC_NONE, 0))
    BY <1>1 DEF LeftOperand, Call, InCall
  <2> QED BY <1>c, <1>t, <2>1
<1>2. CASE RightOperand
  <2>1. /\ status = "running" /\ Top.fn = "parse_expr_f" /\ status' = status /\ input' = input
        /\ stack' = Append([stack EXCEPT ![Len(stack)].at = tok],
                           Frame("parse_expr_f", RightPrec(OpPrec), 0))
    BY <1>2 DEF RightOperand, AtOperator, CallAt, Expr, InCall
  <2> QED BY <1>a, <2>1
<1>3. CASE UnknownOperator \/ Crash
  <2>1. status' \in {"exit", "crash"} /\ input' = input BY <1>3 DEF UnknownOperator, Crash
  <2> QED BY <2>1, TreeMoves
<1>4. CASE Combine
  <2> DEFINE n  == Bin(input[Top.at], stack[Len(stack)].got[1], stack[Len(stack)].got[2])
             g  == <<n>>
             e  == [fn |-> Top.fn, prec |-> Top.prec, at |-> Top.at, got |-> g]
             z  == [stack EXCEPT ![Len(stack)].got = g]
             e2 == [fn |-> e.fn, prec |-> e.prec, at |-> 0, got |-> e.got]
  <2>1. /\ status = "running" /\ Top.fn = "parse_expr_f" /\ status' = status /\ input' = input
        /\ Len(Top.got) = 2 /\ stack' = [z EXCEPT ![Len(stack)].at = 0]
    BY <1>4 DEF Combine, InCall
  <2>2. 1 \in 1 .. Len(Top.got) /\ 2 \in 1 .. Len(Top.got) BY <2>1
  <2>3. IsExpr(Top.got[1]) /\ IsExpr(Top.got[2]) BY <1>i, <2>1, <2>2
  <2>4. IsExpr(n) BY <1>t, <2>1, <2>3, ExprNodes
  <2> HIDE DEF n, g
  <2>5. Topped(z, stack, e) BY <1>t, <2>1, ToppedFields
  <2>6. Shaped(z) /\ Len(z) = Len(stack) /\ z[Len(z)] = e BY <2>5 DEF Topped
  <2>7. Topped([z EXCEPT ![Len(z)].at = 0], z, e2)
    <3> HIDE DEF z, e
    <3>1. Len(z) # 0 BY <1>t, <2>1, <2>6
    <3>2. LET f == z[Len(z)] IN
          Topped([z EXCEPT ![Len(z)].at = 0], z,
                 [fn |-> f.fn, prec |-> f.prec, at |-> 0, got |-> f.got])
      BY <2>6, <3>1, ToppedFields
    <3> QED BY <2>6, <3>2
  <2>8. e2.fn = Top.fn /\ e2.got = g OBVIOUS
  <2>9. stack' = [z EXCEPT ![Len(z)].at = 0] BY <2>1, <2>6
  <2>10. Topped(stack', stack, e2)
    <3>1. \A k \in 1 .. Len(stack) - 1 : z[k] = stack[k] BY <2>5 DEF Topped
    <3> HIDE DEF z, e2
    <3>2. Topped(stack', z, e2) BY <2>7, <2>9
    <3> QED BY <2>6, <3>1, <3>2 DEF Topped
  <2>11. IsList(g) /\ \A i \in 1 .. Len(g) : IsExpr(g[i])
    <3>1. g \in Seq({n}) /\ Len(g) = 1 /\ g[1] = n BY DEF g
    <3> QED BY <2>4, <3>1 DEF IsList
  <2> HIDE DEF e2, z, e
  <2>12. Grown(stack', input, t_lable_tab) BY <2>1, <2>8, <2>10, <2>11, ExprEdit
  <2> QED BY <2>1, <2>12, TreeMoves
<1>5. CASE EndExpr
  <2>1. /\ status = "running" /\ Top.fn = "parse_expr_f" /\ status' = status /\ input' = input
        /\ Len(Top.got) = 1 /\ Return(Top.got[1])
    BY <1>5 DEF EndExpr, AtOperator, InCall
  <2> QED BY <1>i, <1>r, <2>1
<1>6. CASE OpenParen \/ UnaryOperator \/ OpenIndex
  <2>1. /\ status = "running" /\ Top.fn = "parse_left_f" /\ status' = status /\ input' = input
        /\ \E fn \in {"parse_expr_f", "parse_left_f"} :
             stack' = Append([stack EXCEPT ![Len(stack)].at = tok], Frame(fn, PREC_NONE, 0))
    BY <1>6 DEF OpenParen, UnaryOperator, OpenIndex, TakesAtom, AtOperand, CallAt, Expr, InCall
  <2> QED BY <1>a, <2>1
<1>7. CASE CloseParen
  <2>1. /\ status = "running" /\ Top.fn = "parse_left_f" /\ status' = status /\ input' = input
        /\ Top.got # <<>> /\ Return(Top.got[1])
    BY <1>7 DEF CloseParen, InCall
  <2> QED BY <1>i, <1>n, <1>r, <2>1
<1>8. CASE EndUnary
  <2>1. /\ status = "running" /\ Top.fn = "parse_left_f" /\ status' = status /\ input' = input
        /\ Top.got # <<>> /\ Return(Un(input[Top.at], Top.got[1]))
    BY <1>8 DEF EndUnary, InCall
  <2>2. IsExpr(Top.got[1]) BY <1>i, <1>n, <2>1
  <2>3. IsExpr(Un(input[Top.at], Top.got[1])) BY <2>2, ExprNodes
  <2> QED BY <1>r, <2>1, <2>3
<1>9. CASE PlainAtom
  <2>1. /\ status = "running" /\ Top.fn = "parse_left_f" /\ status' = status /\ input' = input
        /\ Return(Atom(input[tok], tok))
    BY <1>9 DEF PlainAtom, TakesAtom, AtOperand, InCall
  <2>2. Atom(input[tok], tok).kind = "AST_ATOM" BY DEF Atom
  <2>3. IsExpr(Atom(input[tok], tok))
    <3>1. ExprsUnder(Atom(input[tok], tok)) = {} /\ ExprFits(Atom(input[tok], tok))
      BY <2>2 DEF ExprsUnder, ExprFits
    <3> QED BY <3>1, ExprNode
  <2> QED BY <1>r, <2>1, <2>3
<1>10. CASE CloseIndex
  <2> DEFINE b == Atom(input[Top.at], Top.at)
  <2>1. /\ status = "running" /\ Top.fn = "parse_left_f" /\ status' = status /\ input' = input
        /\ Top.got # <<>> /\ Return(Index(b, Top.got[1]))
    BY <1>10 DEF CloseIndex, InCall
  <2>2. IsExpr(Top.got[1]) BY <1>i, <1>n, <2>1
  <2>3. IsExpr(b) BY <2>2, ExprNodes
  <2> HIDE DEF b
  <2>4. IsExpr(Index(b, Top.got[1])) BY <2>2, <2>3, ExprNodes
  <2> QED BY <1>r, <2>1, <2>4
<1>11. CASE OpenCall
  <2> DEFINE e == [fn |-> "parse_function_call_s", prec |-> 0, at |-> tok, got |-> <<>>]
             z == [stack EXCEPT ![Len(stack)] = e]
  <2>1. /\ status = "running" /\ Top.fn = "parse_left_f" /\ status' = status /\ input' = input
        /\ stack' = z /\ IsCall
    BY <1>11 DEF OpenCall, AtOperand, InCall, Frame
  <2>2. "parse_function_call_s" \in FileFns BY DEF FileFns
  <2>3. Topped(z, stack, e)
    <3>1. Shaped(stack) /\ Len(stack) # 0 BY <1>t, <2>1
    <3>2. /\ Shaped(z) /\ Len(z) = Len(stack) /\ z[Len(stack)] = e
          /\ \A k \in 1 .. Len(stack) - 1 : z[k] = stack[k]
      BY <2>2, <3>1, ShapedEdit
    <3> HIDE DEF z, e
    <3> QED BY <3>2 DEF Topped
  <2>4. e.fn = "parse_function_call_s" /\ e.at = tok /\ e.got = <<>> OBVIOUS
  <2>5. input[tok] \in Names
    <3>1. KindOf(input[tok]) = "IDENTIFIER" /\ ~ (tok > Len(input))
      BY <2>1 DEF IsCall, See, Kind, AtEnd
    <3>2. input \in Inputs /\ input \in Seq(STRING) /\ tok \in 1 .. Len(input) + 1
      BY InputsAssumption DEF TreeInv, FileInv
    <3>3. Len(input) \in Nat BY <3>2, LenProperties
    <3>4. tok \in 1 .. Len(input) BY <3>1, <3>2, <3>3
    <3>5. tok \in DOMAIN input BY <3>2, <3>4
    <3>6. input[tok] # "IDENTIFIER" BY <3>2, <3>5, NamedTokens
    <3> QED BY <3>1, <3>6 DEF KindOf
  <2> HIDE DEF z, e
  <2>6. IsList(<<>>) /\ Len(<<>>) = 0
    <3>1. <<>> \in Seq({}) OBVIOUS
    <3> QED BY <3>1 DEF IsList
  <2>7. IsList(e.got) /\ \A i \in 1 .. Len(e.got) : IsExpr(e.got[i]) BY <2>4, <2>6
  <2>8. Grown(z, input, t_lable_tab) BY <2>1, <2>3, <2>4, <2>5, <2>7, ExprEdit
  <2> QED BY <2>1, <2>8, TreeMoves
<1>12. CASE Argument
  <2>1. /\ status = "running" /\ Top.fn = "parse_function_call_s" /\ status' = status
        /\ input' = input /\ stack' = Append(stack, Frame("parse_expr_f", PREC_NONE, 0))
    BY <1>12 DEF Argument, AtArgument, Call, Expr, InCall
  <2> QED BY <1>c, <1>t, <2>1
<1>13. CASE AfterArgument
  <2> DEFINE x == stack[Len(stack)].prec + 1
             e == [fn |-> Top.fn, prec |-> x, at |-> Top.at, got |-> Top.got]
             z == [stack EXCEPT ![Len(stack)].prec = x]
  <2>1. /\ status = "running" /\ Top.fn = "parse_function_call_s" /\ status' = status
        /\ input' = input /\ stack' = z
    BY <1>13 DEF AfterArgument, InCall
  <2> HIDE DEF x
  <2>2. Topped(z, stack, e) BY <1>t, <2>1, ToppedFields
  <2>3. e.fn = Top.fn /\ e.got = Top.got /\ e.at = Top.at OBVIOUS
  <2> HIDE DEF z, e
  <2>4. input[Top.at] \in Names BY <1>t, <2>1 DEF FrameHolds
  <2>5. Grown(z, input, t_lable_tab) BY <1>i, <1>t, <2>1, <2>2, <2>3, <2>4, ExprEdit
  <2> QED BY <2>1, <2>5, TreeMoves
<1>14. CASE CloseCall
  <2>1. /\ status = "running" /\ Top.fn = "parse_function_call_s" /\ status' = status
        /\ input' = input /\ Return(CallOf(input[Top.at], Top.at, Top.got))
    BY <1>14 DEF CloseCall, AtArgument, InCall
  <2>2. input[Top.at] \in Names BY <1>t, <2>1 DEF FrameHolds
  <2>3. IsExpr(CallOf(input[Top.at], Top.at, Top.got)) BY <1>i, <1>t, <2>1, <2>2, CallNode
  <2> QED BY <1>r, <2>1, <2>3
<1> QED
  BY <1>1, <1>2, <1>3, <1>4, <1>5, <1>6, <1>7, <1>8, <1>9, <1>10, <1>11, <1>12, <1>13, <1>14
  DEF ExpressionStep

-----------------------------------------------------------------------------
(* Closure stops after MaxDepth levels, at a part of what is closed.         *)

LEMMA ClosureOfStmts ==
  ASSUME NEW S, NEW T, S \subseteq T, Closed(T)
  PROVE  Closure(S, StmtsUnder) \subseteq T /\ S \subseteq Closure(S, StmtsUnder)
<1> DEFINE P(f) == f = [n \in 0 .. 9 |->
             IF n = 0 THEN S
             ELSE f[n - 1] \cup UNION {StmtsUnder(x) : x \in f[n - 1]}]
<1>1. \E f : P(f)
  <2> DEFINE Near(X) == X \cup UNION {StmtsUnder(x) : x \in X}
             A1 == Near(S) A2 == Near(A1) A3 == Near(A2) A4 == Near(A3) A5 == Near(A4)
             A6 == Near(A5) A7 == Near(A6) A8 == Near(A7) A9 == Near(A8)
  <2> HIDE DEF Near
  <2>1. /\ A1 = Near(S) /\ A2 = Near(A1) /\ A3 = Near(A2) /\ A4 = Near(A3) /\ A5 = Near(A4)
        /\ A6 = Near(A5) /\ A7 = Near(A6) /\ A8 = Near(A7) /\ A9 = Near(A8)
    OBVIOUS
  <2> HIDE DEF A1, A2, A3, A4, A5, A6, A7, A8, A9
  <2> DEFINE g == [n \in 0 .. 9 |->
               CASE n = 0 -> S  [] n = 1 -> A1 [] n = 2 -> A2 [] n = 3 -> A3 [] n = 4 -> A4
                 [] n = 5 -> A5 [] n = 6 -> A6 [] n = 7 -> A7 [] n = 8 -> A8 [] n = 9 -> A9]
  <2>2. /\ g[0] = S  /\ g[1] = A1 /\ g[2] = A2 /\ g[3] = A3 /\ g[4] = A4 /\ g[5] = A5
        /\ g[6] = A6 /\ g[7] = A7 /\ g[8] = A8 /\ g[9] = A9
    OBVIOUS
  <2>3. g = [n \in 0 .. 9 |-> g[n]] OBVIOUS
  <2> HIDE DEF g
  <2>4. \A n \in 0 .. 9 : n # 0 => g[n] = Near(g[n - 1])
    BY <2>1, <2>2
  <2>5. \A n \in 0 .. 9 : g[n] = IF n = 0 THEN S
                               ELSE g[n - 1] \cup UNION {StmtsUnder(x) : x \in g[n - 1]}
    BY <2>2, <2>4 DEF Near
  <2>6. P(g) BY <2>3, <2>5
  <2> QED BY <2>6
<1>2. \E f : P(f) /\ f[9] = Closure(S, StmtsUnder) BY <1>1 DEF Closure, MaxDepth
<1>3. PICK f : P(f) /\ f[9] = Closure(S, StmtsUnder) BY <1>2
<1>4. /\ f[0] = S
      /\ \A n \in 0 .. 8 : f[n + 1] = f[n] \cup UNION {StmtsUnder(x) : x \in f[n]}
  BY <1>3
<1>5. \A n \in 0 .. 8 : f[n] \subseteq T /\ S \subseteq f[n] =>
                          f[n + 1] \subseteq T /\ S \subseteq f[n + 1]
  BY <1>4 DEF Closed
<1> DEFINE Good(n) == f[n] \subseteq T /\ S \subseteq f[n]
<1>6. Good(0) BY <1>4
<1>7. \A n \in 0 .. 8 : Good(n) => Good(n + 1) BY <1>5
<1> HIDE DEF Good
<1>8. Good(1) /\ Good(2) /\ Good(3) BY <1>6, <1>7
<1>9. Good(4) /\ Good(5) /\ Good(6) BY <1>7, <1>8
<1>10. Good(7) /\ Good(8) /\ Good(9) BY <1>7, <1>9
<1>11. f[9] = Closure(S, StmtsUnder) BY <1>3
<1>12. f[9] \subseteq T /\ S \subseteq f[9] BY <1>10 DEF Good
<1> HIDE DEF P
<1> QED BY ONLY <1>11, <1>12

LEMMA ClosureOfExprs ==
  ASSUME NEW S, NEW T, S \subseteq T, \A x \in T : ExprsUnder(x) \subseteq T
  PROVE  Closure(S, ExprsUnder) \subseteq T /\ S \subseteq Closure(S, ExprsUnder)
<1> DEFINE P(f) == f = [n \in 0 .. 9 |->
             IF n = 0 THEN S
             ELSE f[n - 1] \cup UNION {ExprsUnder(x) : x \in f[n - 1]}]
<1>1. \E f : P(f)
  <2> DEFINE Near(X) == X \cup UNION {ExprsUnder(x) : x \in X}
             A1 == Near(S) A2 == Near(A1) A3 == Near(A2) A4 == Near(A3) A5 == Near(A4)
             A6 == Near(A5) A7 == Near(A6) A8 == Near(A7) A9 == Near(A8)
  <2> HIDE DEF Near
  <2>1. /\ A1 = Near(S) /\ A2 = Near(A1) /\ A3 = Near(A2) /\ A4 = Near(A3) /\ A5 = Near(A4)
        /\ A6 = Near(A5) /\ A7 = Near(A6) /\ A8 = Near(A7) /\ A9 = Near(A8)
    OBVIOUS
  <2> HIDE DEF A1, A2, A3, A4, A5, A6, A7, A8, A9
  <2> DEFINE g == [n \in 0 .. 9 |->
               CASE n = 0 -> S  [] n = 1 -> A1 [] n = 2 -> A2 [] n = 3 -> A3 [] n = 4 -> A4
                 [] n = 5 -> A5 [] n = 6 -> A6 [] n = 7 -> A7 [] n = 8 -> A8 [] n = 9 -> A9]
  <2>2. /\ g[0] = S  /\ g[1] = A1 /\ g[2] = A2 /\ g[3] = A3 /\ g[4] = A4 /\ g[5] = A5
        /\ g[6] = A6 /\ g[7] = A7 /\ g[8] = A8 /\ g[9] = A9
    OBVIOUS
  <2>3. g = [n \in 0 .. 9 |-> g[n]] OBVIOUS
  <2> HIDE DEF g
  <2>4. \A n \in 0 .. 9 : n # 0 => g[n] = Near(g[n - 1])
    BY <2>1, <2>2
  <2>5. \A n \in 0 .. 9 : g[n] = IF n = 0 THEN S
                               ELSE g[n - 1] \cup UNION {ExprsUnder(x) : x \in g[n - 1]}
    BY <2>2, <2>4 DEF Near
  <2>6. P(g) BY <2>3, <2>5
  <2> QED BY <2>6
<1>2. \E f : P(f) /\ f[9] = Closure(S, ExprsUnder) BY <1>1 DEF Closure, MaxDepth
<1>3. PICK f : P(f) /\ f[9] = Closure(S, ExprsUnder) BY <1>2
<1>4. /\ f[0] = S
      /\ \A n \in 0 .. 8 : f[n + 1] = f[n] \cup UNION {ExprsUnder(x) : x \in f[n]}
  BY <1>3
<1>5. \A n \in 0 .. 8 : f[n] \subseteq T /\ S \subseteq f[n] =>
                          f[n + 1] \subseteq T /\ S \subseteq f[n + 1]
  BY <1>4 DEF Closed
<1> DEFINE Good(n) == f[n] \subseteq T /\ S \subseteq f[n]
<1>6. Good(0) BY <1>4
<1>7. \A n \in 0 .. 8 : Good(n) => Good(n + 1) BY <1>5
<1> HIDE DEF Good
<1>8. Good(1) /\ Good(2) /\ Good(3) BY <1>6, <1>7
<1>9. Good(4) /\ Good(5) /\ Good(6) BY <1>7, <1>8
<1>10. Good(7) /\ Good(8) /\ Good(9) BY <1>7, <1>9
<1>11. f[9] = Closure(S, ExprsUnder) BY <1>3
<1>12. f[9] \subseteq T /\ S \subseteq f[9] BY <1>10 DEF Good
<1> HIDE DEF P
<1> QED BY ONLY <1>11, <1>12

LEMMA PartsFit ==
  ASSUME NEW s, \A e \in ExprsOf(s) : IsExpr(e)
  PROVE  \A e \in Parts(s) : ExprFits(e)
<1> DEFINE Good(E) == \A x \in E : ExprFits(x) /\ ExprsUnder(x) \subseteq E
           In(e) == CHOOSE E : e \in E /\ Good(E)
           All == UNION {In(e) : e \in ExprsOf(s)}
<1>1. \A e \in ExprsOf(s) : e \in In(e) /\ Good(In(e)) BY DEF IsExpr
<1> HIDE DEF In
<1>2. ExprsOf(s) \subseteq All BY <1>1
<1>3. \A x \in All : ExprFits(x) /\ ExprsUnder(x) \subseteq All BY <1>1
<1> HIDE DEF All
<1>4. Closure(ExprsOf(s), ExprsUnder) \subseteq All BY <1>2, <1>3, ClosureOfExprs
<1> QED BY <1>3, <1>4 DEF Parts

LEMMA TreesStart == FileInit => TreeInv
<1> SUFFICES ASSUME FileInit PROVE TreeInv OBVIOUS
<1> DEFINE f == Frame("parser", 0, 0)
<1>1. FileInv BY FileStart
<1>2. stack = <<f>> /\ status = "running" /\ t_lable_tab = {} BY DEF FileInit
<1>3. f.fn = "parser" /\ f.got = <<>> BY DEF Frame
<1> HIDE DEF f
<1>4. Len(stack) = 1 /\ stack[1] = f BY <1>2
<1>5. IsList(<<>>) /\ Len(<<>>) = 0
  <2>1. <<>> \in Seq({}) OBVIOUS
  <2> QED BY <2>1 DEF IsList
<1>6. FrameHolds(f, input, {})
  <2>1. IsList(f.got) /\ Len(f.got) = 0 BY <1>3, <1>5
  <2>2. \A i \in 1 .. Len(f.got) : ItemIs(f, i, f.got[i], {}) BY <2>1
  <2> QED BY <1>3, <2>1, <2>2 DEF FrameHolds
<1>7. Stacked(stack, input, {}) BY <1>4, <1>6 DEF Stacked
<1>8. Labelled(stack, {}) BY <1>4 DEF Labelled
<1>9. Ready(stack) BY <1>3, <1>4 DEF Ready, Conditionals
<1> QED BY <1>1, <1>2, <1>7, <1>8, <1>9 DEF TreeInv, Grown

LEMMA TreesAlways == FileSpec => []TreeInv
<1>1. TreeInv /\ [FileNext]_fileVars /\ FileInv' => TreeInv'
  <2> SUFFICES ASSUME TreeInv, [FileNext]_fileVars, FileInv' PROVE TreeInv' OBVIOUS
  <2>1. CASE DeclarationStep /\ UNCHANGED t_lable_tab BY <2>1, DeclarationTrees
  <2>2. CASE StatementStep /\ UNCHANGED t_lable_tab BY <2>2, StatementTrees
  <2>3. CASE ExpressionStep /\ UNCHANGED t_lable_tab BY <2>3, ExpressionTrees
  <2>4. CASE BeginFunction \/ LableStatement BY <2>4, LableTrees
  <2>5. CASE UNCHANGED fileVars
    BY <2>5 DEF TreeInv, FileInv, Fits, Top, fileVars, vars
  <2> QED BY <2>1, <2>2, <2>3, <2>4, <2>5 DEF FileNext
<1> QED BY FileAlways, TreesStart, <1>1, PTL DEF FileSpec

LEMMA HandedOver ==
  ASSUME TreeInv, status = "done", NEW i \in 1 .. Len(Top.got)
  PROVE  Handed(Top.got[i])
<1>1. FileInv /\ Grown(stack, input, t_lable_tab) /\ Top.fn = "parser" BY DEF TreeInv
<1>2. tok \in Nat /\ Fits(stack, tok) BY <1>1, InputLen DEF FileInv
<1>3. Len(stack) \in 1 .. Len(stack) BY <1>2, FitsLen
<1>4. FrameHolds(Top, input, t_lable_tab) BY <1>1, <1>3 DEF Grown, Stacked, Top
<1> QED BY <1>1, <1>4 DEF FrameHolds, ItemIs

\* Whatever the file, and however deep its trees, what the parser hands on is
\* well sorted: each node has children of the sorts the generator reads, a name
\* is called, no else stands without its if, and the table of a function has
\* exactly the labels in its body.
THEOREM TreesAreWellSorted ==
  FileSpec => [](status = "done" => \A i \in 1 .. Len(Top.got) : Handed(Top.got[i]))
<1>1. TreeInv => (status = "done" => \A i \in 1 .. Len(Top.got) : Handed(Top.got[i]))
  BY HandedOver
<1> QED BY TreesAlways, <1>1, PTL

\* The same as the runs check it, as far down as Closure looks.
THEOREM ParserServesGenerator == FileSpec => []TreesFitGenerator
<1>1. TreeInv => TreesFitGenerator
  <2> SUFFICES ASSUME TreeInv, status = "done", NEW i \in 1 .. Len(Top.got)
               PROVE  \E d \in {Top.got[i]} :
        /\ d.kind \in {"AST_FUNCTION", "AST_GLOBAL", "AST_EXTRN"}
        /\ d.kind = "AST_FUNCTION" =>
             \E S \in {Inside(d.body)} :
               /\ d.body.kind \notin {"AST_ELSE_IF", "AST_ELSE"}
               /\ LabelsOf(S) \subseteq d.lables
               /\ Closed(S) => d.lables = LabelsOf(S)
               /\ \A s \in S : StmtFits(s) /\ \A e \in Parts(s) : ExprFits(e)
    BY DEF TreesFitGenerator
  <2> DEFINE d == Top.got[i]
             S == Inside(d.body)
  <2>1. Handed(d) BY HandedOver
  <2> HIDE DEF d
  <2>2. d.kind \in {"AST_FUNCTION", "AST_GLOBAL", "AST_EXTRN"} BY <2>1 DEF Handed
  <2>3. ASSUME d.kind = "AST_FUNCTION"
        PROVE  /\ d.body.kind \notin {"AST_ELSE_IF", "AST_ELSE"}
               /\ LabelsOf(S) \subseteq d.lables
               /\ Closed(S) => d.lables = LabelsOf(S)
               /\ \A s \in S : StmtFits(s) /\ \A e \in Parts(s) : ExprFits(e)
    <3>1. ~ Chained(d.body) /\ IsStmt(d.body, d.lables) /\ \A x \in d.lables : Holds(d.body, x)
      BY <2>1, <2>3 DEF Handed
    <3>2. PICK T : d.body \in T /\ StmtSet(T, d.lables) BY <3>1 DEF IsStmt
    <3>3. S \subseteq T /\ {d.body} \subseteq S
      <4>1. {d.body} \subseteq T /\ Closed(T) BY <3>2 DEF StmtSet
      <4> QED BY <4>1, ClosureOfStmts DEF Inside
    <3> HIDE DEF S
    <3>4. LabelsOf(S) \subseteq d.lables BY <3>2, <3>3 DEF StmtSet, LabelsOf
    <3>5. Closed(S) => d.lables \subseteq LabelsOf(S) BY <3>1, <3>3 DEF Holds
    <3>6. \A s \in S : StmtFits(s) /\ \A e \in Parts(s) : ExprFits(e)
      BY <3>2, <3>3, PartsFit DEF StmtSet
    <3> QED BY <3>1, <3>4, <3>5, <3>6 DEF Chained
  <2> QED BY <2>2, <2>3 DEF d
<1> QED BY TreesAlways, <1>1, PTL
=============================================================================
