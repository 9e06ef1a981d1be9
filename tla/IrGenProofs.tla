---------------------------- MODULE IrGenProofs ----------------------------
EXTENDS IrGen, TLAPS, WellFoundedInduction

\* The activations nest in one call of ir_function_s, the outermost.
Nesting ==
  stack # <<>> =>
    /\ curr <= Len(program)
    /\ stack[1].fn = "ir_function_s" /\ stack[1].node = program[curr]
    /\ \A k \in 2 .. Len(stack) : stack[k].fn # "ir_function_s"

-----------------------------------------------------------------------------
(* Frames                                                                   *)

\* g is f but for the results it holds.
SameCall(g, f) ==
  /\ g.fn = f.fn /\ g.node = f.node /\ g.symtab = f.symtab
  /\ g.end = f.end

\* A frame keeps its type, its function and its node when a result arrives.
LEMMA FrameGrows ==
  ASSUME NEW f, FrameOk(f), NEW r \in ResultSet
  PROVE  LET g == [f EXCEPT !.got = Append(@, r)] IN
           /\ FrameOk(g) /\ SameCall(g, f) /\ g.lab = f.lab
           /\ g.got = Append(f.got, r)
  BY DEF FrameOk, SameCall

\* The same when it stores a label.
LEMMA FrameLabelled ==
  ASSUME NEW f, FrameOk(f), NEW l \in Nat
  PROVE  LET g == [f EXCEPT !.lab = l] IN
           /\ FrameOk(g) /\ SameCall(g, f) /\ g.lab = l /\ g.got = f.got
  BY DEF FrameOk, SameCall

\* The stack after a call, a call that stored a label, and a return.
LEMMA CallShape ==
  ASSUME StackOk, NEW f, FrameOk(f), Call(f)
  PROVE  /\ Len(stack') = Len(stack) + 1
         /\ \A k \in 1 .. Len(stack) : stack'[k] = stack[k]
         /\ stack'[Len(stack) + 1] = f
         /\ StackOk'
  BY DEF StackOk, Call

LEMMA CallFromShape ==
  ASSUME StackOk, stack # <<>>, NEW l \in Nat, NEW f, FrameOk(f), CallFrom(l, f)
  PROVE  /\ Len(stack') = Len(stack) + 1
         /\ \A k \in 1 .. Len(stack) :
              SameCall(stack'[k], stack[k]) /\ stack'[k].got = stack[k].got
         /\ \A k \in 1 .. Len(stack) - 1 : stack'[k] = stack[k]
         /\ stack'[Len(stack)].lab = l
         /\ stack'[Len(stack) + 1] = f
         /\ StackOk'
<1> DEFINE labelled == [stack[Len(stack)] EXCEPT !.lab = l]
           s == [stack EXCEPT ![Len(stack)].lab = l]
<1>1. /\ Len(stack) \in 1 .. Len(stack)
      /\ FrameOk(labelled) /\ SameCall(labelled, stack[Len(stack)])
      /\ labelled.got = stack[Len(stack)].got /\ labelled.lab = l
  BY FrameLabelled DEF StackOk
<1>2. /\ DOMAIN s = 1 .. Len(stack) /\ Len(s) = Len(stack)
      /\ s[Len(stack)] = labelled
      /\ \A k \in 1 .. Len(stack) - 1 : s[k] = stack[k]
  BY <1>1 DEF StackOk
<1>3. stack' = Append(s, f)
  BY DEF CallFrom
<1> HIDE DEF s, labelled
<1>4. /\ Len(stack') = Len(stack) + 1 /\ DOMAIN stack' = 1 .. Len(stack) + 1
      /\ stack'[Len(stack) + 1] = f
      /\ \A k \in 1 .. Len(stack) : stack'[k] = s[k]
  BY <1>2, <1>3 DEF StackOk
<1>5. \A k \in 1 .. Len(stack) :
        FrameOk(s[k]) /\ SameCall(s[k], stack[k]) /\ s[k].got = stack[k].got
  BY <1>1, <1>2 DEF StackOk, SameCall
<1>6. StackOk'
  BY <1>4, <1>5 DEF StackOk
<1> QED
  BY <1>1, <1>2, <1>4, <1>5, <1>6

LEMMA ReturnShape ==
  ASSUME StackOk, Len(stack) > 1, NEW r \in ResultSet, Return(r)
  PROVE  LET n == Len(stack) - 1 IN
         /\ Len(stack') = n
         /\ \A k \in 1 .. n - 1 : stack'[k] = stack[k]
         /\ SameCall(stack'[n], stack[n]) /\ stack'[n].lab = stack[n].lab
         /\ stack'[n].got = Append(stack[n].got, r)
         /\ StackOk'
<1> DEFINE n == Len(stack) - 1
           caller == [stack[n] EXCEPT !.got = Append(@, r)]
<1>1. n \in Nat \ {0} /\ n + 1 = Len(stack)
  BY DEF StackOk
<1>2. /\ FrameOk(caller) /\ SameCall(caller, stack[n]) /\ caller.lab = stack[n].lab
      /\ caller.got = Append(stack[n].got, r)
  BY <1>1, FrameGrows DEF StackOk
<1>3. stack' = [k \in 1 .. n |-> IF k = n THEN caller ELSE stack[k]]
  BY <1>1 DEF Return, StackOk
<1>4. n = Len(stack) - 1
  OBVIOUS
<1> HIDE DEF caller, n
<1>5. DOMAIN stack' = 1 .. n /\ Len(stack') = n
  BY <1>1, <1>3
<1>6. /\ stack'[n] = caller
      /\ \A k \in 1 .. n - 1 : stack'[k] = stack[k]
  BY <1>1, <1>3
<1>7. StackOk'
  BY <1>1, <1>2, <1>5, <1>6 DEF StackOk
<1> QED
  BY <1>1, <1>2, <1>4, <1>5, <1>6, <1>7

\* A variable of a table is given storage.
LEMMA TableUpdated ==
  ASSUME NEW t, IsTable(t, VarInfoSet), NEW name, NEW d \in Nat
  PROVE  LET u == [t EXCEPT ![name].temp_dest = d] IN
           /\ IsTable(u, VarInfoSet)
           /\ DOMAIN u = DOMAIN t
           /\ \A m \in DOMAIN t : u[m].temp_dest \in {t[m].temp_dest, d}
<1> DEFINE u == [t EXCEPT ![name].temp_dest = d]
<1>1. DOMAIN u = DOMAIN t
  OBVIOUS
<1>2. ASSUME NEW m \in DOMAIN t
      PROVE  u[m] \in VarInfoSet /\ u[m].temp_dest \in {t[m].temp_dest, d}
  <2>1. t[m] \in VarInfoSet
    BY DEF IsTable
  <2>2. u[m] = IF m = name THEN [t[m] EXCEPT !.temp_dest = d] ELSE t[m]
    OBVIOUS
  <2> HIDE DEF u
  <2> QED
    BY <2>1, <2>2 DEF VarInfoSet
<1>3. u = [m \in DOMAIN u |-> u[m]]
  OBVIOUS
<1> HIDE DEF u
<1>4. IsTable(u, VarInfoSet)
  BY <1>1, <1>2, <1>3 DEF IsTable
<1>5. /\ IsTable(u, VarInfoSet) /\ DOMAIN u = DOMAIN t
      /\ \A m \in DOMAIN t : u[m].temp_dest \in {t[m].temp_dest, d}
  BY <1>1, <1>2, <1>4
<1> QED
  BY <1>5 DEF u

\* The stack after ir_auto_s: a return, and storage for one variable.
LEMMA AutoShape ==
  ASSUME StackOk, Len(stack) > 1, temp_c \in Nat, ir_auto_s
  PROVE  LET n == Len(stack) - 1 IN
         /\ Len(stack') = n
         /\ \A k \in 1 .. n :
              /\ stack'[k].fn = stack[k].fn /\ stack'[k].node = stack[k].node
              /\ stack'[k].lab = stack[k].lab /\ stack'[k].end = stack[k].end
              /\ k # n => stack'[k].got = stack[k].got
              /\ DOMAIN stack'[k].symtab = DOMAIN stack[k].symtab
              /\ \A m \in DOMAIN stack[k].symtab :
                   stack'[k].symtab[m].temp_dest
                     \in {stack[k].symtab[m].temp_dest, temp_c + 1}
         /\ stack'[n].got = Append(stack[n].got, NoTemp)
         /\ StackOk'
<1> DEFINE n == Len(stack) - 1
           name == Top.node.name
           holder == Innermost(name)
           tab(k) == [stack[k].symtab EXCEPT ![name].temp_dest = temp_c + 1]
           grown(k) == IF k = n THEN Append(stack[k].got, NoTemp) ELSE stack[k].got
           filled(k) == IF k = holder THEN tab(k) ELSE stack[k].symtab
           g(k) == [stack[k] EXCEPT !.got = grown(k), !.symtab = filled(k)]
<1>1. n \in Nat \ {0} /\ n + 1 = Len(stack) /\ n = Len(stack) - 1 /\ temp_c + 1 \in Nat
  BY DEF StackOk
<1>2. stack' = [k \in 1 .. n |-> g(k)]
  BY DEF ir_auto_s
<1>3. DOMAIN stack' = 1 .. n /\ Len(stack') = n
  <2> HIDE DEF g, n
  <2> QED
    BY <1>1, <1>2
<1>4. ASSUME NEW k \in 1 .. n
      PROVE  /\ FrameOk(stack'[k])
             /\ stack'[k].fn = stack[k].fn /\ stack'[k].node = stack[k].node
             /\ stack'[k].lab = stack[k].lab /\ stack'[k].end = stack[k].end
             /\ stack'[k].got = IF k = n THEN Append(stack[k].got, NoTemp) ELSE stack[k].got
             /\ DOMAIN stack'[k].symtab = DOMAIN stack[k].symtab
             /\ \A m \in DOMAIN stack[k].symtab :
                  stack'[k].symtab[m].temp_dest \in {stack[k].symtab[m].temp_dest, temp_c + 1}
  <2>1. FrameOk(stack[k])
    BY <1>1, <1>4 DEF StackOk
  <2>2. /\ IsTable(tab(k), VarInfoSet)
        /\ DOMAIN tab(k) = DOMAIN stack[k].symtab
        /\ \A m \in DOMAIN stack[k].symtab :
             tab(k)[m].temp_dest \in {stack[k].symtab[m].temp_dest, temp_c + 1}
    BY <1>1, <2>1, TableUpdated DEF FrameOk
  <2> HIDE DEF tab
  <2>3. /\ IsTable(filled(k), VarInfoSet)
        /\ DOMAIN filled(k) = DOMAIN stack[k].symtab
        /\ \A m \in DOMAIN stack[k].symtab :
             filled(k)[m].temp_dest \in {stack[k].symtab[m].temp_dest, temp_c + 1}
    BY <2>1, <2>2 DEF FrameOk
  <2>4. grown(k) \in Seq(ResultSet)
    <3>1. NoTemp \in ResultSet
      BY DEF NoTemp, Temp, ResultSet
    <3> QED
      BY <2>1, <3>1 DEF FrameOk
  <2>5. grown(k) = IF k = n THEN Append(stack[k].got, NoTemp) ELSE stack[k].got
    OBVIOUS
  <2> HIDE DEF filled, grown, n
  <2>6. /\ FrameOk(g(k))
        /\ g(k).fn = stack[k].fn /\ g(k).node = stack[k].node
        /\ g(k).lab = stack[k].lab /\ g(k).end = stack[k].end
        /\ g(k).got = grown(k) /\ g(k).symtab = filled(k)
    BY <2>1, <2>3, <2>4 DEF FrameOk
  <2> HIDE DEF g
  <2>7. stack'[k] = g(k)
    BY <1>2
  <2> QED
    BY <2>3, <2>5, <2>6, <2>7
<1> HIDE DEF n
<1>5. StackOk'
  BY <1>1, <1>3, <1>4 DEF StackOk
<1>6. stack'[n].got = Append(stack[n].got, NoTemp)
  <2>1. n \in 1 .. n
    BY <1>1
  <2>2. stack'[n].got = IF n = n THEN Append(stack[n].got, NoTemp) ELSE stack[n].got
    BY ONLY <1>4, <2>1
  <2> QED
    BY <2>2
<1>7. \A k \in 1 .. n :
        /\ stack'[k].fn = stack[k].fn /\ stack'[k].node = stack[k].node
        /\ stack'[k].lab = stack[k].lab /\ stack'[k].end = stack[k].end
        /\ k # n => stack'[k].got = stack[k].got
        /\ DOMAIN stack'[k].symtab = DOMAIN stack[k].symtab
        /\ \A m \in DOMAIN stack[k].symtab :
             stack'[k].symtab[m].temp_dest
               \in {stack[k].symtab[m].temp_dest, temp_c + 1}
  BY <1>4
<1> QED
  BY <1>1, <1>3, <1>5, <1>6, <1>7

\* Nesting across a call and a return.
LEMMA NestingAfterCall ==
  ASSUME StackOk, Nesting, stack # <<>>, UNCHANGED <<program, curr>>,
         NEW f, FrameOk(f), f.fn # "ir_function_s",
         Call(f) \/ \E l \in Nat : CallFrom(l, f)
  PROVE  StackOk' /\ Nesting'
<1>1. CASE Call(f)
  BY <1>1, CallShape DEF Nesting, StackOk
<1>2. CASE \E l \in Nat : CallFrom(l, f)
  BY <1>2, CallFromShape DEF Nesting, StackOk, SameCall
<1> QED
  BY <1>1, <1>2

LEMMA NestingAfterReturn ==
  ASSUME StackOk, Nesting, stack # <<>>, UNCHANGED <<program, curr>>,
         Top.fn # "ir_function_s", NEW r \in ResultSet, Return(r)
  PROVE  StackOk' /\ Nesting'
<1>1. Len(stack) > 1
  BY DEF StackOk, Nesting, Top
<1>2. StackOk'
  BY <1>1, ReturnShape
<1>3. /\ Len(stack') = Len(stack) - 1
      /\ \A k \in 1 .. Len(stack') - 1 : stack'[k] = stack[k]
      /\ SameCall(stack'[Len(stack')], stack[Len(stack')])
  BY <1>1, ReturnShape
<1>4. /\ Len(stack') = Len(stack) - 1
      /\ \A k \in 1 .. Len(stack') : stack'[k].fn = stack[k].fn /\ stack'[k].node = stack[k].node
  BY <1>1, <1>3 DEF SameCall, StackOk
<1>5. /\ stack'[1].fn = "ir_function_s" /\ stack'[1].node = program[curr]
      /\ curr <= Len(program)
  BY <1>1, <1>4 DEF Nesting, StackOk
<1>6. \A k \in 2 .. Len(stack') : stack'[k].fn # "ir_function_s"
  BY <1>1, <1>4 DEF Nesting, StackOk
<1> QED
  BY <1>2, <1>5, <1>6 DEF Nesting

-----------------------------------------------------------------------------
(* The frames the handlers push                                             *)

ExprFn == {"ir_expr_f", "ir_lvalue"}

LEMMA ExprFrame ==
  ASSUME NEW f, FrameOk(f), f.fn \in ExprFn
  PROVE  f.node \in Expr
  BY DEF FrameOk, Accepts, HandlerOf, IsFunction, ExprFn

\* The kinds of statement each statement handler is given.
LEMMA StmtFrame ==
  ASSUME NEW f, FrameOk(f), f.fn \notin ExprFn, f.fn # "ir_function_s"
  PROVE  /\ f.node \in Stmt
         /\ f.fn = "ir_scope" => f.node.kind \in {"AST_SCOPE", "AST_ELSE"}
         /\ f.fn = "ir_if_chain_s" => f.node.kind \in {"AST_IF", "AST_ELSE_IF", "AST_ELSE"}
         /\ f.fn = "ir_if_s" => f.node.kind = "AST_IF"
         /\ f.fn = "ir_while_s" => f.node.kind = "AST_WHILE"
         /\ f.fn = "ir_return_s" => f.node.kind = "AST_RETURN"
         /\ f.fn = "ir_auto_s" => f.node.kind = "AST_AUTO"
         /\ f.fn = "ir_extrn_s" => f.node.kind = "AST_EXTRN"
         /\ f.fn = "ir_lable_s" => f.node.kind = "AST_LABLE"
         /\ f.fn = "ir_goto_s" => f.node.kind = "AST_GOTO"
<1>1. CASE f.fn = "ir_scope" /\ f.node \in Stmt /\ f.node.kind \in {"AST_SCOPE", "AST_ELSE"}
  BY <1>1
<1>2. CASE f.fn = "ir_if_chain_s" /\ f.node \in Stmt
           /\ f.node.kind \in {"AST_IF", "AST_ELSE_IF", "AST_ELSE"}
  BY <1>2
<1>3. CASE f.node \in Stmt /\ f.node.kind \in DOMAIN HandlerOf \ {"AST_SCOPE"}
           /\ f.fn = HandlerOf[f.node.kind]
  BY <1>3 DEF HandlerOf
<1> QED
  BY <1>1, <1>2, <1>3 DEF FrameOk, Accepts, ExprFn

LEMMA FunctionFrame ==
  ASSUME NEW f, FrameOk(f), f.fn = "ir_function_s"
  PROVE  IsFunction(f.node)
  BY DEF FrameOk, Accepts, HandlerOf

LEMMA NoTabOk == IsTable(NoTab, VarInfoSet)
  BY DEF IsTable, NoTab

LEMMA ScopeTabOk ==
  ASSUME NEW s \in Stmt, s.kind \in {"AST_SCOPE", "AST_ELSE"}
  PROVE  IsTable(ScopeTab(s.body), VarInfoSet)
<1>1. \A i \in DOMAIN s.body : s.body[i] \in Stmt
  BY StmtAssumption
<1>2. \A i \in DOMAIN s.body : s.body[i].kind = "AST_AUTO" => s.body[i].name \in Name
  BY <1>1, StmtAssumption
<1>3. VarInfo("AUTO_VAR", 0) \in VarInfoSet
  BY DEF VarInfo, VarInfoSet
<1> QED
  BY <1>2, <1>3 DEF IsTable, ScopeTab

\* A VarInfo of which only temp_dest is set counts as an auto's.
LEMMA UnsetIsAuto == UnsetKind = "AUTO_VAR"
  BY DEF UnsetKind, VarKind

LEMMA ParamTabOk ==
  ASSUME NEW ps \in Seq(Name)
  PROVE  IsTable(ParamTab(ps), VarInfoSet)
<1>1. DOMAIN ParamTab(ps) = {ps[i] : i \in DOMAIN ps}
  BY DEF ParamTab
<1>2. ASSUME NEW n \in DOMAIN ParamTab(ps)
      PROVE  ParamTab(ps)[n] \in VarInfoSet
  <2>1. \E i \in DOMAIN ps : ps[i] = n
    BY <1>1, <1>2
  <2>2. (CHOOSE i \in DOMAIN ps : ps[i] = n) \in DOMAIN ps
    BY <2>1
  <2> QED
    <3> DEFINE i == CHOOSE i \in DOMAIN ps : ps[i] = n
    <3>1. i \in Nat
      BY <2>2
    <3>2. ParamTab(ps)[n] = VarInfo("AUTO_VAR", i)
      BY <1>1, UnsetIsAuto DEF ParamTab
    <3> HIDE DEF i
    <3> QED
      BY <3>1, <3>2 DEF VarInfo, VarInfoSet
<1>3. DOMAIN ParamTab(ps) \subseteq Name
  BY <1>1
<1>4. ParamTab(ps) = [n \in DOMAIN ParamTab(ps) |-> ParamTab(ps)[n]]
  BY DEF ParamTab
<1> QED
  BY <1>2, <1>3, <1>4 DEF IsTable

LEMMA PlainFrameOk ==
  ASSUME NEW fn, NEW n, NEW end \in Nat, Accepts(fn, n), fn \notin {"ir_scope", "ir_function_s"}
  PROVE  FrameOk(Frame(fn, n, end))
  BY NoTabOk DEF FrameOk, Frame

LEMMA ValueOk ==
  ASSUME NEW e \in Expr
  PROVE  FrameOk(Value(e)) /\ FrameOk(Place(e))
  BY PlainFrameOk DEF Accepts, Value, Place

LEMMA ScopeOk ==
  ASSUME NEW s \in Stmt, s.kind \in {"AST_SCOPE", "AST_ELSE"}
  PROVE  FrameOk(Frame("ir_scope", s, 0))
  BY ScopeTabOk DEF FrameOk, Frame, Accepts

LEMMA ChainOk ==
  ASSUME NEW s \in Stmt, s.kind \in {"AST_IF", "AST_ELSE_IF", "AST_ELSE"}, NEW end \in Nat
  PROVE  FrameOk(Frame("ir_if_chain_s", s, end))
  BY PlainFrameOk DEF Accepts

LEMMA FunctionOk ==
  ASSUME NEW d, IsFunction(d)
  PROVE  FrameOk(Frame("ir_function_s", d, 0))
  BY ParamTabOk DEF FrameOk, Frame, Accepts, IsFunction

\* What ir_statements calls for a statement of a scope.
LEMMA StatementOk ==
  ASSUME NEW s \in Stmt, s.kind \notin {"AST_ELSE_IF", "AST_ELSE"}
  PROVE  FrameOk(ir_statements(s)) /\ ir_statements(s).fn # "ir_function_s"
<1>1. CASE s.kind = "AST_EXPR"
  BY <1>1, StmtAssumption, ValueOk DEF ir_statements, Value, Frame
<1>2. CASE s.kind = "AST_SCOPE"
  BY <1>2, ScopeOk DEF ir_statements, HandlerOf, Frame
<1>3. CASE s.kind \in DOMAIN HandlerOf \ {"AST_SCOPE"}
  <2>1. /\ HandlerOf[s.kind] \notin {"ir_scope", "ir_function_s"}
        /\ Accepts(HandlerOf[s.kind], s)
    BY <1>3 DEF HandlerOf, Accepts
  <2> QED
    BY <1>3, <2>1, PlainFrameOk DEF ir_statements, Frame, HandlerOf
<1> QED
  BY <1>1, <1>2, <1>3, StmtAssumption DEF HandlerOf, StmtKind

-----------------------------------------------------------------------------
(* Symbol lookup                                                            *)

\* A non-empty set of positions has a greatest one.
LEMMA GreatestExists ==
  ASSUME NEW n \in Nat, NEW S, S \subseteq 1 .. n, S # {}
  PROVE  \E k \in S : \A j \in S : j <= k
<1> DEFINE T == {n - k : k \in S}
<1>1. T \subseteq Nat /\ T # {}
  <2>1. \A k \in S : n - k \in Nat
    OBVIOUS
  <2>2. PICK k \in S : TRUE
    OBVIOUS
  <2>3. n - k \in T
    OBVIOUS
  <2> QED
    BY <2>1, <2>3
<1> DEFINE R == OpToRel(<, Nat)
<1>2. IsWellFoundedOn(R, Nat)
  BY NatLessThanWellFounded
<1>3. \A y, x \in Nat : y < x => <<y, x>> \in R
  BY DEF OpToRel
<1> HIDE DEF R, T
<1>4. PICK x \in T : \A y \in T : ~ (<<y, x>> \in R)
  BY <1>1, <1>2, WFMin
<1>5. \A y \in T : ~ (y < x)
  BY <1>1, <1>3, <1>4
<1> USE DEF T
<1>6. PICK k \in S : x = n - k
  OBVIOUS
<1>7. ASSUME NEW j \in S PROVE j <= k
  <2>1. n - j \in T
    OBVIOUS
  <2>2. ~ (n - j < n - k)
    BY <1>5, <1>6, <2>1
  <2> QED
    BY <2>2
<1> QED
  BY <1>7

LEMMA InnermostHolds ==
  ASSUME StackOk, NEW name, Holders(name) # {}
  PROVE  /\ Innermost(name) \in 1 .. Len(stack)
         /\ name \in DOMAIN stack[Innermost(name)].symtab
<1>1. Holders(name) \subseteq 1 .. Len(stack)
  BY DEF Holders, StackOk
<1>2. \E k \in Holders(name) : \A j \in Holders(name) : j <= k
  BY <1>1, GreatestExists DEF StackOk
<1>3. Innermost(name) \in Holders(name)
  BY <1>2 DEF Innermost
<1> QED
  BY <1>1, <1>3 DEF Holders

LEMMA LookupOk ==
  ASSUME StackOk, NEW name \in Name
  PROVE  /\ lookup_symbol(name).temp_dest \in Nat
         /\ LvalueOfName(name) \in ResultSet
<1>1. CASE Holders(name) # {}
  <2>1. stack[Innermost(name)].symtab[name] \in VarInfoSet
    BY <1>1, InnermostHolds DEF StackOk, FrameOk, IsTable
  <2> QED
    BY <1>1, <2>1 DEF lookup_symbol, VarInfoSet, LvalueOfName, ResultSet, GlobalLv, LocalLv
<1>2. CASE Holders(name) = {}
  BY <1>2 DEF lookup_symbol, VarInfo, LvalueOfName, ResultSet, GlobalLv, LocalLv
<1> QED
  BY <1>1, <1>2

-----------------------------------------------------------------------------
(* Nodes, operands                                                          *)

LEMMA ShortSeqs ==
  ASSUME NEW t \in Nat, NEW u \in Nat
  PROVE  <<>> \in Seq(Nat) /\ <<t>> \in Seq(Nat) /\ <<t, u>> \in Seq(Nat)
<1>1. <<>> \in Seq(Nat)
  OBVIOUS
<1>2. <<t>> \in Seq(Nat)
  OBVIOUS
<1>3. <<t, u>> \in Seq(Nat)
  OBVIOUS
<1> QED
  BY <1>1, <1>2, <1>3

LEMMA NodeOk ==
  ASSUME NEW op \in Irop, NEW dest \in Nat, NEW use \in Seq(Nat)
  PROVE  /\ Node(op, dest, use) \in NodeSet
         /\ \A name \in Name \cup {""} : Named(op, dest, use, name) \in NodeSet
  BY DEF Node, Named, NodeSet

LEMMA ImmOk ==
  ASSUME NEW op \in Irop, NEW dest \in Nat, NEW value \in Nat
  PROVE  Imm(op, dest, value) \in NodeSet
<1>1. Node(op, dest, <<>>) \in NodeSet
  BY ShortSeqs, NodeOk
<1> QED
  BY <1>1 DEF Imm, NodeSet

LEMMA ControlOk ==
  ASSUME NEW l \in Nat, NEW m \in Nat, NEW t \in Nat
  PROVE  Label(l) \in NodeSet /\ Jump(l) \in NodeSet /\ Branch(t, l, m) \in NodeSet
<1>1. <<>> \in Seq(Nat) /\ <<t>> \in Seq(Nat)
  BY ShortSeqs
<1>2. /\ Node("IR_LABEL", 0, <<>>) \in NodeSet
      /\ Node("IR_JUMP", 0, <<>>) \in NodeSet
      /\ Node("IR_BRANCH", 0, <<t>>) \in NodeSet
  BY <1>1, NodeOk DEF Irop
<1> QED
  BY <1>2 DEF Label, Jump, Branch, NodeSet

LEMMA LvalueNodeOk ==
  ASSUME NEW lv \in ResultSet, NEW t \in Nat
  PROVE  /\ ir_load_lvalue(lv, t) \in NodeSet
         /\ ir_store_lvalue(t, lv) \in NodeSet
         /\ ir_addr_of_lvalue(lv, t) \in NodeSet
<1>1. lv.temp \in Nat /\ lv.name \in Name \cup {""}
  BY DEF ResultSet
<1>2. <<lv.temp>> \in Seq(Nat) /\ <<t>> \in Seq(Nat) /\ <<lv.temp, t>> \in Seq(Nat)
      /\ <<>> \in Seq(Nat)
  BY <1>1, ShortSeqs
<1> QED
  BY <1>1, <1>2, NodeOk DEF ir_load_lvalue, ir_store_lvalue, ir_addr_of_lvalue, Irop

LEMMA IropOk ==
  ASSUME NEW tok, binop_to_irop(tok) # Unmapped
  PROVE  binop_to_irop(tok) \in Irop
  BY DEF binop_to_irop, IropOf, Irop

\* The calls a handler makes before it emits its own nodes.
LEMMA OperandOk ==
  ASSUME NEW f, FrameOk(f), f.fn \in ExprFn \cup {"ir_return_s"}
  PROVE  /\ Len(Operands(f)) \in Nat
         /\ \A i \in 1 .. Len(Operands(f)) :
              FrameOk(Operands(f)[i]) /\ Operands(f)[i].fn \in ExprFn
<1> DEFINE n == f.node
<1>0. \A e \in Expr : /\ FrameOk(Value(e)) /\ FrameOk(Place(e))
                      /\ Value(e).fn \in ExprFn /\ Place(e).fn \in ExprFn
  BY ValueOk DEF ExprFn, Value, Place, Frame
<1>1. CASE f.fn = "ir_return_s"
  <2>1. n \in Stmt /\ n.kind = "AST_RETURN"
    BY <1>1, StmtFrame DEF ExprFn
  <2>2. n.node \in Expr
    BY <2>1, StmtAssumption
  <2>3. Operands(f) = <<Value(n.node)>>
    BY <1>1 DEF Operands
  <2> QED
    BY <1>0, <2>2, <2>3
<1>2. CASE f.fn \in ExprFn
  <2>0. n \in Expr
    BY <1>2, ExprFrame
  <2>1. CASE n.kind = "AST_UNARY"
    <3>1. n.node \in Expr
      BY <2>0, <2>1, ExprAssumption
    <3>2. Operands(f) = <<Value(n.node)>> \/ Operands(f) = <<Place(n.node)>>
      BY <1>2, <2>1 DEF Operands, ExprFn
    <3> QED
      BY <1>0, <3>1, <3>2
  <2>2. CASE n.kind = "AST_BINARY" /\ f.fn = "ir_expr_f"
    <3>1. n.left \in Expr /\ n.right \in Expr
      BY <2>0, <2>2, ExprAssumption
    <3>2. \/ Operands(f) = <<Value(n.right), Place(n.left)>>
          \/ Operands(f) = <<Value(n.left), Value(n.right)>>
      BY <2>2 DEF Operands
    <3> QED
      BY <1>0, <3>1, <3>2
  <2>3. CASE n.kind = "AST_FUNCTION_CALL" /\ f.fn = "ir_expr_f"
    <3>1. n.args \in Seq(Expr)
      BY <2>0, <2>3, ExprAssumption
    <3>2. Operands(f) = [i \in 1 .. Len(n.args) |-> Value(n.args[i])]
      BY <2>3 DEF Operands
    <3> QED
      BY <1>0, <3>1, <3>2
  <2>4. CASE \/ n.kind \notin {"AST_UNARY", "AST_BINARY", "AST_FUNCTION_CALL"}
             \/ f.fn = "ir_lvalue" /\ n.kind # "AST_UNARY"
    <3>1. Operands(f) = <<>>
      BY <1>2, <2>4 DEF Operands, ExprFn
    <3> QED
      BY <3>1
  <2> QED
    BY <1>2, <2>1, <2>2, <2>3, <2>4 DEF ExprFn
<1> QED
  BY <1>1, <1>2

-----------------------------------------------------------------------------
(* Type correctness                                                         *)

TypeInv == TypeOK /\ Nesting

\* InCall(fn) names the frame on top.
LEMMA TopOk ==
  ASSUME TypeInv, stack # <<>>
  PROVE  /\ Len(stack) \in 1 .. Len(stack)
         /\ FrameOk(Top)
         /\ Top.got \in Seq(ResultSet) /\ Top.lab \in Nat /\ Top.end \in Nat
         /\ \A i \in 1 .. Len(Top.got) : Got(i) \in Nat /\ Top.got[i] \in ResultSet
         /\ Len(Top.got) \in Nat
<1>1. Len(stack) \in 1 .. Len(stack)
  BY DEF TypeInv, TypeOK, StackOk
<1>2. FrameOk(Top)
  BY <1>1 DEF TypeInv, TypeOK, StackOk, Top
<1>3. Top.got \in Seq(ResultSet) /\ Top.lab \in Nat /\ Top.end \in Nat
  BY <1>2 DEF FrameOk
<1>4. \A i \in 1 .. Len(Top.got) : Top.got[i] \in ResultSet
  BY <1>3
<1>5. \A i \in 1 .. Len(Top.got) : Got(i) \in Nat
  BY <1>4 DEF Got, ResultSet
<1>6. Len(Top.got) \in Nat
  BY <1>3
<1> QED
  BY <1>1, <1>2, <1>3, <1>4, <1>5, <1>6

\* A handler that returns: the nodes it emitted and its result are typed.
LEMMA TypeAfterReturn ==
  ASSUME TypeInv, stack # <<>>, Top.fn # "ir_function_s",
         UNCHANGED <<program, curr, status>>,
         module' \in Seq(ModuleNodeSet), code' \in Seq(NodeSet),
         temp_c' \in Nat, lable_c' \in Nat, IsTable(lable_tab, Nat)',
         NEW r \in ResultSet, Return(r)
  PROVE  TypeInv'
  BY NestingAfterReturn DEF TypeInv, TypeOK

LEMMA TypeAfterYield ==
  ASSUME TypeInv, stack # <<>>, Top.fn # "ir_function_s",
         NEW nodes \in Seq(NodeSet), NEW n \in Nat, NEW r \in ResultSet, Yield(nodes, n, r)
  PROVE  TypeInv'
<1>1. /\ UNCHANGED <<program, curr, status>> /\ Return(r)
      /\ module' \in Seq(ModuleNodeSet) /\ code' \in Seq(NodeSet)
      /\ temp_c' \in Nat /\ lable_c' \in Nat
  BY DEF Yield, TypeInv, TypeOK
<1>2. IsTable(lable_tab, Nat)'
  BY DEF Yield, TypeInv, TypeOK, IsTable
<1> QED
  BY <1>1, <1>2, TypeAfterReturn

\* A handler that calls another.
LEMMA TypeAfterCall ==
  ASSUME TypeInv, stack # <<>>,
         UNCHANGED <<program, curr, module, temp_c, lable_tab, status>>,
         code' \in Seq(NodeSet), lable_c' \in Nat,
         NEW f, FrameOk(f), f.fn # "ir_function_s",
         Call(f) \/ \E l \in Nat : CallFrom(l, f)
  PROVE  TypeInv'
<1>1. IsTable(lable_tab, Nat)'
  BY DEF TypeInv, TypeOK, IsTable
<1> QED
  BY <1>1, NestingAfterCall DEF TypeInv, TypeOK

LEMMA EmitOk ==
  ASSUME code \in Seq(NodeSet),
         NEW a \in NodeSet, NEW b \in NodeSet, NEW c \in NodeSet, NEW d \in NodeSet
  PROVE  /\ Emit1(a) \in Seq(NodeSet) /\ Emit2(a, b) \in Seq(NodeSet)
         /\ Emit3(a, b, c) \in Seq(NodeSet) /\ Emit4(a, b, c, d) \in Seq(NodeSet)
  BY DEF Emit1, Emit2, Emit3, Emit4

LEMMA TempOk ==
  ASSUME NEW t \in Nat
  PROVE  Temp(t) \in ResultSet /\ LocalLv(t) \in ResultSet /\ NoTemp \in ResultSet
  BY DEF Temp, LocalLv, NoTemp, ResultSet

\* gen_ir
LEMMA ModuleStepTyped == TypeInv /\ ModuleStep => TypeInv'
<1> SUFFICES ASSUME TypeInv, ModuleStep PROVE TypeInv'
  OBVIOUS
<1>1. program = [i \in 1 .. Len(program) |-> program[i]] /\ Len(program) \in Nat
      /\ \A i \in 1 .. Len(program) : IsFunction(program[i]) \/ IsDeclaration(program[i])
  BY ProgramAssumption DEF TypeInv, TypeOK
<1>2. CASE GenDeclaration
  <2> DEFINE d == program[curr]
  <2>1. curr \in 1 .. Len(program) /\ IsDeclaration(d)
    BY <1>1, <1>2 DEF GenDeclaration, IsFunction, TypeInv, TypeOK
  <2>2. /\ ModuleNode("IR_EXTRN", d.name, 0, <<>>) \in ModuleNodeSet
        /\ d.kind = "AST_GLOBAL" => ModuleNode("IR_GLOBAL", d.name, d.size, <<>>) \in ModuleNodeSet
    BY <2>1 DEF IsDeclaration, ModuleNode, ModuleNodeSet
  <2>3. module' \in Seq(ModuleNodeSet)
    BY <1>2, <2>2 DEF GenDeclaration, TypeInv, TypeOK
  <2>4. curr' \in 1 .. Len(program') + 1
    BY <1>1, <1>2, <2>1 DEF GenDeclaration
  <2> QED
    BY <1>2, <2>3, <2>4 DEF GenDeclaration, AtTopLevel, TypeInv, TypeOK, Nesting, StackOk, IsTable
<1>3. CASE BeginFunction
  <2> DEFINE d == program[curr]
             f == Frame("ir_function_s", d, 0)
  <2>1. curr \in 1 .. Len(program) /\ IsFunction(d)
    BY <1>1, <1>3 DEF BeginFunction, IsDeclaration, TypeInv, TypeOK
  <2>2. FrameOk(f) /\ f.fn = "ir_function_s" /\ f.node = d
    BY <2>1, FunctionOk DEF Frame
  <2>3. stack' = <<f>>
    BY <1>3 DEF BeginFunction
  <2> HIDE DEF f
  <2>4. Len(stack') = 1 /\ DOMAIN stack' = 1 .. 1 /\ stack'[1] = f
    BY <2>3
  <2>5. StackOk' /\ Nesting'
    BY <1>3, <2>1, <2>2, <2>4 DEF BeginFunction, StackOk, Nesting
  <2>6. temp_c' \in Nat /\ lable_c' \in Nat
    BY <1>3, <2>1 DEF BeginFunction, IsFunction
  <2>7. IsTable(lable_tab, Nat)'
    BY <1>3, <2>1 DEF BeginFunction, IsFunction, IsTable
  <2>8. code' \in Seq(NodeSet)
    BY <1>3, ControlOk DEF BeginFunction
  <2> QED
    BY <1>3, <2>1, <2>5, <2>6, <2>7, <2>8 DEF BeginFunction, TypeInv, TypeOK
<1>4. CASE GenDone
  BY <1>4 DEF GenDone, TypeInv, TypeOK, Nesting, StackOk, IsTable
<1> QED
  BY <1>2, <1>3, <1>4 DEF ModuleStep

\* ir_function_s
LEMMA FunctionStepTyped == TypeInv /\ FunctionStep => TypeInv'
<1> SUFFICES ASSUME TypeInv, FunctionStep PROVE TypeInv'
  OBVIOUS
<1>1. stack # <<>> /\ Top.fn = "ir_function_s"
  BY DEF FunctionStep, SpillParam, FunctionBody, EndFunction, InCall
<1>2. IsFunction(Top.node) /\ FrameOk(Top) /\ Len(stack) \in 1 .. Len(stack)
  BY <1>1, TopOk, FunctionFrame
<1>3. CASE SpillParam
  <2> DEFINE i == Len(Top.got) + 1
             top == [Top EXCEPT !.got = Append(@, NoTemp)]
  <2>1. i \in Nat /\ temp_c + 1 \in Nat
    BY <1>1, TopOk DEF TypeInv, TypeOK
  <2>2. /\ Node("OP_ALLOC", temp_c + 1, <<>>) \in NodeSet
        /\ Node("OP_STORE", 0, <<temp_c + 1, i>>) \in NodeSet
        /\ Node("OP_ADDRESS", i, <<temp_c + 1>>) \in NodeSet
    BY <2>1, ShortSeqs, NodeOk DEF Irop
  <2>3. code' \in Seq(NodeSet)
    BY <1>3, <2>2, EmitOk DEF SpillParam, TypeInv, TypeOK
  <2>4. FrameOk(top) /\ SameCall(top, Top)
    BY <1>2, FrameGrows, TempOk
  <2>5. stack' = [stack EXCEPT ![Len(stack)] = top]
    BY <1>3 DEF SpillParam, Top
  <2> HIDE DEF top
  <2>6. /\ Len(stack') = Len(stack) /\ DOMAIN stack' = 1 .. Len(stack)
        /\ \A k \in 1 .. Len(stack) : k # Len(stack) => stack'[k] = stack[k]
        /\ stack'[Len(stack)] = top
    <3>1. DOMAIN stack = 1 .. Len(stack) /\ Len(stack) \in Nat
      BY DEF TypeInv, TypeOK, StackOk
    <3>2. DOMAIN stack' = 1 .. Len(stack)
      BY <2>5, <3>1
    <3>3. Len(stack') = Len(stack)
      BY <3>1, <3>2
    <3> QED
      BY <1>2, <2>5, <3>1, <3>2, <3>3
  <2>7. StackOk'
    BY <2>4, <2>6 DEF TypeInv, TypeOK, StackOk
  <2>8. Nesting'
    BY <1>1, <1>3, <2>4, <2>6 DEF TypeInv, Nesting, SameCall, SpillParam, Top
  <2>9. IsTable(lable_tab, Nat)'
    BY <1>3 DEF SpillParam, TypeInv, TypeOK, IsTable
  <2> QED
    BY <1>3, <2>1, <2>3, <2>7, <2>8, <2>9 DEF SpillParam, TypeInv, TypeOK
<1>4. CASE FunctionBody
  <2>1. Top.node.body \in Stmt /\ Top.node.body.kind = "AST_SCOPE"
    BY <1>2 DEF IsFunction
  <2>2. /\ FrameOk(Frame("ir_scope", Top.node.body, 0))
        /\ Frame("ir_scope", Top.node.body, 0).fn # "ir_function_s"
    BY <2>1, ScopeOk DEF Frame
  <2> QED
    BY <1>1, <1>4, <2>2, TypeAfterCall DEF FunctionBody, TypeInv, TypeOK
<1>5. CASE EndFunction
  <2>1. temp_c + 1 \in Nat
    BY DEF TypeInv, TypeOK
  <2>2. /\ Imm("OP_CONST", temp_c + 1, 0) \in NodeSet
        /\ Node("IR_RETURN", 0, <<temp_c + 1>>) \in NodeSet
    BY <2>1, ShortSeqs, NodeOk, ImmOk DEF Irop
  <2>3. code' \in Seq(NodeSet) /\ temp_c' \in Nat
    BY <1>5, <2>1, <2>2, EmitOk DEF EndFunction, TypeInv, TypeOK
  <2>4. ModuleNode("IR_FUNCTION", Top.node.name, Len(Top.node.params), code') \in ModuleNodeSet
    BY <1>2, <2>3 DEF IsFunction, ModuleNode, ModuleNodeSet
  <2>5. module' \in Seq(ModuleNodeSet)
    BY <1>5, <2>4 DEF EndFunction, TypeInv, TypeOK
  <2>6. Len(program) \in Nat
    BY ProgramAssumption DEF TypeInv, TypeOK
  <2>7. curr' \in 1 .. Len(program) + 1
    BY <1>1, <1>5, <2>6 DEF EndFunction, TypeInv, TypeOK, Nesting
  <2>8. stack' = <<>>
    BY <1>5 DEF EndFunction
  <2>9. StackOk' /\ Nesting'
    BY <2>8 DEF StackOk, Nesting
  <2>10. IsTable(lable_tab, Nat)'
    BY <1>5 DEF EndFunction, TypeInv, TypeOK, IsTable
  <2> QED
    BY <1>5, <2>3, <2>5, <2>7, <2>9, <2>10 DEF EndFunction, TypeInv, TypeOK
<1> QED
  BY <1>3, <1>4, <1>5 DEF FunctionStep

\* ir_expr_f and ir_lvalue
LEMMA ExprStepTyped == TypeInv /\ ExprStep => TypeInv'
<1> SUFFICES ASSUME TypeInv, ExprStep PROVE TypeInv'
  OBVIOUS
<1> DEFINE t == temp_c + 1
<1>0. /\ t \in Nat /\ t + 1 \in Nat /\ t + 2 \in Nat /\ code \in Seq(NodeSet)
      /\ t + 1 = temp_c + 2 /\ t + 2 = temp_c + 3
  BY DEF TypeInv, TypeOK
<1>1. stack # <<>>
  BY DEF ExprStep, Fatal, EvaluateOperand, Literal, LoadVariable, AddressOf, DerefOrNegate,
         Not, IncDec, Assign, BinaryOp, EmitCall, LvalueName, LvalueDeref,
         ReadyUnary, Ready, InCall
<1>2. /\ FrameOk(Top) /\ Len(Top.got) \in Nat
      /\ \A i \in 1 .. Len(Top.got) : Got(i) \in Nat /\ Top.got[i] \in ResultSet
  BY <1>1, TopOk
<1>3. CASE Fatal
  BY <1>3 DEF Fatal, TypeInv, TypeOK, Nesting, StackOk, IsTable
<1>4. CASE EvaluateOperand
  <2>1. Top.fn \in ExprFn \cup {"ir_return_s"} /\ ~ Rejected(Top)
    BY <1>4 DEF EvaluateOperand, InCall, ExprFn
  <2> DEFINE f == Operands(Top)[Len(Top.got) + 1]
  <2>2. FrameOk(f) /\ f.fn \in ExprFn
    BY <1>2, <1>4, <2>1, OperandOk DEF EvaluateOperand
  <2>3. f.fn # "ir_function_s"
    BY <2>2 DEF ExprFn
  <2>4. Call(f)
    BY <1>4 DEF EvaluateOperand
  <2> HIDE DEF f
  <2> QED
    BY <1>1, <1>4, <2>2, <2>3, <2>4, TypeAfterCall DEF EvaluateOperand, TypeInv, TypeOK
<1>5. ASSUME NEW fn \in ExprFn, NEW kind, Ready(fn, kind)
      PROVE  /\ Top.fn = fn /\ Top.node \in Expr /\ Top.node.kind = kind
             /\ ~ Rejected(Top) /\ Len(Top.got) = Len(Operands(Top))
  BY <1>2, <1>5, ExprFrame DEF Ready, InCall
<1>6. \A n, m \in Nat, r \in ResultSet, nodes \in Seq(NodeSet) :
        Top.fn \in ExprFn /\ Yield(nodes, n, r) => TypeInv'
  BY <1>1, TypeAfterYield DEF ExprFn
<1>7. CASE Literal
  <2>1. PICK k \in {"INT", "STRING"} :
          /\ Ready("ir_expr_f", k)
          /\ Yield(Emit1(Imm(IF k = "INT" THEN "OP_CONST" ELSE "OP_DATA", t, Top.node.int_lit)),
                   1, Temp(t))
    BY <1>7 DEF Literal
  <2>2. Top.node.int_lit \in Nat /\ Top.fn \in ExprFn
    BY <1>5, <2>1, ExprAssumption DEF ExprFn
  <2>3. Imm(IF k = "INT" THEN "OP_CONST" ELSE "OP_DATA", t, Top.node.int_lit) \in NodeSet
    BY <1>0, <2>2, ImmOk DEF Irop
  <2> QED
    BY <1>0, <1>6, <2>1, <2>2, <2>3, EmitOk, TempOk
<1>8. CASE LoadVariable
  <2>1. Top.node.value \in Name /\ Top.fn \in ExprFn
    BY <1>5, <1>8, ExprAssumption DEF ExprFn, LoadVariable
  <2>2. ir_load_lvalue(LvalueOfName(Top.node.value), t) \in NodeSet
    BY <1>0, <2>1, LookupOk, LvalueNodeOk DEF TypeInv, TypeOK
  <2> QED
    BY <1>0, <1>6, <1>8, <2>1, <2>2, EmitOk, TempOk DEF LoadVariable
<1>9. ASSUME NEW ops, ReadyUnary(ops)
      PROVE  /\ Top.fn \in ExprFn /\ Len(Top.got) = 1
             /\ Got(1) \in Nat /\ Top.got[1] \in ResultSet
  <2>1. Top.fn = "ir_expr_f" /\ Top.node.kind = "AST_UNARY"
        /\ Len(Top.got) = Len(Operands(Top))
    BY <1>9 DEF ReadyUnary, Ready, InCall
  <2>2. Len(Operands(Top)) = 1
    BY <2>1 DEF Operands
  <2> QED
    BY <1>2, <2>1, <2>2 DEF ExprFn
<1>10. CASE AddressOf
  <2>1. Top.fn \in ExprFn /\ ir_addr_of_lvalue(Top.got[1], t) \in NodeSet
    BY <1>0, <1>9, <1>10, LvalueNodeOk DEF AddressOf
  <2> QED
    BY <1>0, <1>6, <1>10, <2>1, EmitOk, TempOk DEF AddressOf
<1>11. CASE DerefOrNegate
  <2>1. Top.fn \in ExprFn /\ Got(1) \in Nat
    BY <1>9, <1>11 DEF DerefOrNegate
  <2>2. Node(IF Top.node.op = "MUL" THEN "OP_LOAD" ELSE "OP_NEG", t, <<Got(1)>>) \in NodeSet
    BY <1>0, <2>1, ShortSeqs, NodeOk DEF Irop
  <2> QED
    BY <1>0, <1>6, <1>11, <2>1, <2>2, EmitOk, TempOk DEF DerefOrNegate
<1>12. CASE Not
  <2>1. Top.fn \in ExprFn /\ Got(1) \in Nat
    BY <1>9, <1>12 DEF Not
  <2>2. Imm("OP_CONST", t, 0) \in NodeSet /\ Node("OP_EQ", t + 1, <<Got(1), t>>) \in NodeSet
    BY <1>0, <2>1, ShortSeqs, NodeOk, ImmOk DEF Irop
  <2> QED
    BY <1>0, <1>6, <1>12, <2>1, <2>2, EmitOk, TempOk DEF Not
<1>13. CASE IncDec
  <2>1. Top.fn \in ExprFn /\ Top.got[1] \in ResultSet
    BY <1>9, <1>13 DEF IncDec
  <2>2. /\ ir_load_lvalue(Top.got[1], t) \in NodeSet
        /\ Imm("OP_CONST", t + 1, 1) \in NodeSet
        /\ Node(IF Top.node.op = "INC" THEN "OP_ADD" ELSE "OP_SUB", t + 2, <<t, t + 1>>) \in NodeSet
        /\ ir_store_lvalue(t + 2, Top.got[1]) \in NodeSet
    BY <1>0, <2>1, ShortSeqs, NodeOk, ImmOk, LvalueNodeOk DEF Irop
  <2> QED
    BY <1>0, <1>6, <1>13, <2>1, <2>2, EmitOk, TempOk DEF IncDec
<1>14. ASSUME Ready("ir_expr_f", "AST_BINARY")
       PROVE  /\ Top.fn \in ExprFn /\ Len(Top.got) = 2
              /\ Got(1) \in Nat /\ Top.got[1] \in ResultSet
              /\ Got(2) \in Nat /\ Top.got[2] \in ResultSet
  <2>1. Top.fn = "ir_expr_f" /\ Top.node.kind = "AST_BINARY"
        /\ Len(Top.got) = Len(Operands(Top))
    BY <1>14 DEF Ready, InCall
  <2>2. Len(Operands(Top)) = 2
    BY <2>1 DEF Operands
  <2> QED
    BY <1>2, <2>1, <2>2 DEF ExprFn
<1>15. CASE Assign
  <2>1. Top.fn \in ExprFn /\ Top.got[1] \in ResultSet
        /\ ir_store_lvalue(Got(1), Top.got[2]) \in NodeSet
    BY <1>14, <1>15, LvalueNodeOk DEF Assign
  <2> QED
    BY <1>0, <1>6, <1>15, <2>1, EmitOk DEF Assign
<1>16. CASE BinaryOp
  <2>1. /\ Top.fn \in ExprFn /\ <<Got(1), Got(2)>> \in Seq(Nat)
    BY <1>14, <1>16, ShortSeqs DEF BinaryOp
  <2>2. binop_to_irop(Top.node.op) \in Irop
    BY <1>16, IropOk DEF BinaryOp, Ready, Rejected, InCall
  <2>3. Node(binop_to_irop(Top.node.op), t, <<Got(1), Got(2)>>) \in NodeSet
    BY <1>0, <2>1, <2>2, NodeOk
  <2> QED
    BY <1>0, <1>6, <1>16, <2>1, <2>3, EmitOk, TempOk DEF BinaryOp
<1>17. CASE EmitCall
  <2>1. Top.fn \in ExprFn /\ Top.node.name \in Name
    BY <1>5, <1>17, ExprAssumption DEF ExprFn, EmitCall
  <2>2. DOMAIN Top.got = 1 .. Len(Top.got)
    BY <1>1, TopOk
  <2>3. [i \in DOMAIN Top.got |-> Got(i)] \in Seq(Nat)
    BY <1>2, <2>2
  <2>4. Named("IR_CALL", t, [i \in DOMAIN Top.got |-> Got(i)], Top.node.name) \in NodeSet
    BY <1>0, <2>1, <2>3, NodeOk DEF Irop
  <2> QED
    BY <1>0, <1>6, <1>17, <2>1, <2>4, EmitOk, TempOk DEF EmitCall
<1>18. CASE LvalueName
  <2>1. Top.node.value \in Name /\ Top.fn \in ExprFn
    BY <1>5, <1>18, ExprAssumption DEF ExprFn, LvalueName
  <2>2. LvalueOfName(Top.node.value) \in ResultSet
    BY <2>1, LookupOk DEF TypeInv, TypeOK
  <2> QED
    BY <1>0, <1>6, <1>18, <2>1, <2>2 DEF LvalueName
<1>19. CASE LvalueDeref
  <2>1. Top.fn = "ir_lvalue" /\ Top.node.kind = "AST_UNARY"
        /\ Len(Top.got) = Len(Operands(Top))
    BY <1>19 DEF LvalueDeref, Ready, InCall
  <2>2. Len(Operands(Top)) = 1
    BY <2>1 DEF Operands
  <2>3. LocalLv(Got(1)) \in ResultSet
    BY <1>2, <2>1, <2>2, TempOk
  <2> QED
    BY <1>0, <1>6, <1>19, <2>1, <2>3 DEF LvalueDeref, ExprFn
<1> QED
  BY <1>3, <1>4, <1>7, <1>8, <1>10, <1>11, <1>12, <1>13, <1>15, <1>16, <1>17, <1>18, <1>19
     DEF ExprStep

\* Statements
LEMMA StatementStepTyped == TypeInv /\ StatementStep => TypeInv'
<1> SUFFICES ASSUME TypeInv, StatementStep PROVE TypeInv'
  OBVIOUS
<1>0. /\ temp_c \in Nat /\ temp_c + 1 \in Nat /\ code \in Seq(NodeSet)
      /\ lable_c \in Nat /\ lable_c + 1 \in Nat /\ lable_c + 2 \in Nat /\ lable_c + 3 \in Nat
      /\ module \in Seq(ModuleNodeSet) /\ IsTable(lable_tab, Nat)
  BY DEF TypeInv, TypeOK
<1>1. /\ stack # <<>>
      /\ Top.fn \in {"ir_scope", "ir_auto_s", "ir_extrn_s", "ir_return_s", "ir_lable_s",
                     "ir_goto_s", "ir_if_s", "ir_if_chain_s", "ir_while_s"}
  BY DEF StatementStep, ScopeStatement, EndScope, ir_auto_s, ir_extrn_s, ir_return_s,
         LableOrGoto, IfBegin, IfEnd, ChainCondition, ChainThen, ChainNext, ChainElse, ChainEnd,
         WhileCondition, WhileBody, WhileEnd, InChain, InCall
<1>2. /\ FrameOk(Top) /\ Len(Top.got) \in Nat /\ Len(stack) \in 1 .. Len(stack)
      /\ \A i \in 1 .. Len(Top.got) : Got(i) \in Nat
      /\ Top.lab \in Nat /\ Top.lab + 1 \in Nat /\ Top.lab + 2 \in Nat /\ Top.end \in Nat
  BY <1>1, TopOk
<1>3. Top.fn # "ir_function_s" /\ Top.fn \notin ExprFn
  BY <1>1 DEF ExprFn
<1>4. Top.node \in Stmt
  BY <1>2, <1>3, StmtFrame
<1>5. NoTemp \in ResultSet
  BY TempOk
<1>6. \A l, m, u \in Nat : Label(l) \in NodeSet /\ Jump(l) \in NodeSet /\ Branch(u, l, m) \in NodeSet
  BY ControlOk
<1>7. \A a, b \in NodeSet : Emit1(a) \in Seq(NodeSet) /\ Emit2(a, b) \in Seq(NodeSet)
  BY <1>0, EmitOk
<1>8. \A nodes \in Seq(NodeSet) : Yield(nodes, 0, NoTemp) => TypeInv'
  BY <1>1, <1>3, <1>5, TypeAfterYield
<1>9. \A f : /\ UNCHANGED <<program, curr, module, temp_c, lable_tab, status>>
             /\ code' \in Seq(NodeSet) /\ lable_c' \in Nat
             /\ FrameOk(f) /\ f.fn # "ir_function_s"
             /\ Call(f) \/ \E l \in Nat : CallFrom(l, f)
             => TypeInv'
  BY <1>1, TypeAfterCall
<1>10. \A e \in Expr : FrameOk(Value(e)) /\ Value(e).fn # "ir_function_s"
  BY ValueOk DEF Value, Frame
<1>11. \A s \in Stmt : s.kind \in {"AST_SCOPE", "AST_ELSE"} =>
         /\ FrameOk(Frame("ir_scope", s, 0)) /\ Frame("ir_scope", s, 0).fn # "ir_function_s"
  BY ScopeOk DEF Frame
<1>12. \A s \in Stmt, end \in Nat : s.kind \in {"AST_IF", "AST_ELSE_IF", "AST_ELSE"} =>
         /\ FrameOk(Frame("ir_if_chain_s", s, end))
         /\ Frame("ir_if_chain_s", s, end).fn # "ir_function_s"
  BY ChainOk DEF Frame
<1>13. CASE ScopeStatement
  <2> DEFINE s == Top.node.body[Len(Top.got) + 1]
  <2>1. Top.node.kind \in {"AST_SCOPE", "AST_ELSE"}
    BY <1>2, <1>3, <1>13, StmtFrame DEF ScopeStatement, InCall
  <2>2. /\ Top.node.body \in Seq(Stmt)
        /\ \A i \in 1 .. Len(Top.node.body) :
             Top.node.body[i].kind \notin {"AST_ELSE_IF", "AST_ELSE"}
    BY <1>4, <2>1, StmtAssumption
  <2>3. Len(Top.got) + 1 \in 1 .. Len(Top.node.body)
    BY <1>2, <1>13, <2>2 DEF ScopeStatement
  <2>4. s \in Stmt /\ s.kind \notin {"AST_ELSE_IF", "AST_ELSE"}
    BY <2>2, <2>3
  <2>5. FrameOk(ir_statements(s)) /\ ir_statements(s).fn # "ir_function_s"
    BY <2>4, StatementOk
  <2>6. /\ UNCHANGED <<program, curr, module, code, temp_c, lable_c, lable_tab, status>>
        /\ Call(ir_statements(s))
    BY <1>13 DEF ScopeStatement
  <2> HIDE DEF s
  <2> QED
    BY <1>0, <1>9, <2>5, <2>6
<1>14. CASE EndScope
  BY <1>0, <1>8, <1>14 DEF EndScope
<1>15. CASE ir_extrn_s
  <2>1. Top.node.name \in Name
    BY <1>2, <1>3, <1>4, <1>15, StmtFrame, StmtAssumption DEF ir_extrn_s, InCall
  <2>2. ModuleNode("IR_EXTRN", Top.node.name, 0, <<>>) \in ModuleNodeSet
    BY <2>1 DEF ModuleNode, ModuleNodeSet
  <2>3. module' \in Seq(ModuleNodeSet)
    BY <1>0, <1>15, <2>2 DEF ir_extrn_s
  <2>4. IsTable(lable_tab, Nat)'
    BY <1>0, <1>15 DEF ir_extrn_s, IsTable
  <2> QED
    BY <1>0, <1>1, <1>3, <1>5, <1>15, <2>3, <2>4, TypeAfterReturn DEF ir_extrn_s
<1>16. CASE ir_return_s
  <2>1. Got(1) \in Nat
    BY <1>2, <1>16 DEF ir_return_s
  <2>2. Node("IR_RETURN", 0, <<Got(1)>>) \in NodeSet
    BY <2>1, ShortSeqs, NodeOk DEF Irop
  <2> QED
    BY <1>7, <1>8, <1>16, <2>2 DEF ir_return_s
<1>17. CASE LableOrGoto
  <2> DEFINE name == Top.node.name
             id == IF lable_tab[name] = 0 THEN lable_c + 1 ELSE lable_tab[name]
  <2>1. name \in DOMAIN lable_tab
    BY <1>17 DEF LableOrGoto, Rejected, InCall
  <2>2. lable_tab[name] \in Nat
    BY <1>0, <2>1 DEF IsTable
  <2>3. id \in Nat
    BY <1>0, <2>2
  <2>4. lable_tab' = [lable_tab EXCEPT ![name] = id]
    BY <1>17 DEF LableOrGoto
  <2>5. lable_c' \in Nat
    BY <1>0, <1>17 DEF LableOrGoto
  <2>6. code' \in Seq(NodeSet)
    BY <1>6, <1>7, <1>17, <2>3 DEF LableOrGoto
  <2> HIDE DEF name, id
  <2>7. IsTable(lable_tab, Nat)'
    BY <1>0, <2>3, <2>4 DEF IsTable
  <2> QED
    BY <1>0, <1>1, <1>3, <1>5, <1>17, <2>5, <2>6, <2>7, TypeAfterReturn DEF LableOrGoto
<1>18. CASE IfBegin
  <2>1. Top.node.kind = "AST_IF"
    BY <1>2, <1>3, <1>18, StmtFrame DEF IfBegin, InCall
  <2> DEFINE f == Frame("ir_if_chain_s", Top.node, lable_c + 1)
  <2>2. FrameOk(f) /\ f.fn # "ir_function_s"
    BY <1>0, <1>4, <1>12, <2>1
  <2>3. /\ UNCHANGED <<program, curr, module, code, temp_c, lable_tab, status>>
        /\ CallFrom(lable_c + 1, f) /\ lable_c' = lable_c + 1
    BY <1>18 DEF IfBegin
  <2> HIDE DEF f
  <2> QED
    BY <1>0, <1>9, <2>2, <2>3
<1>19. CASE IfEnd
  BY <1>2, <1>6, <1>7, <1>8, <1>19 DEF IfEnd
<1>20. Top.fn = "ir_if_chain_s" /\ Top.node.kind \in {"AST_IF", "AST_ELSE_IF"} =>
         /\ Top.node.Condition \in Expr
         /\ Top.node.body \in Stmt /\ Top.node.body.kind = "AST_SCOPE"
         /\ \/ Top.node.chain = NULL
            \/ Top.node.chain \in Stmt /\ Top.node.chain.kind \in {"AST_ELSE_IF", "AST_ELSE"}
  BY <1>4, StmtAssumption
<1>21. CASE ChainCondition
  <2>1. Top.node.Condition \in Expr
    BY <1>20, <1>21 DEF ChainCondition, InChain, InCall
  <2>2. /\ UNCHANGED <<program, curr, module, code, temp_c, lable_tab, status>>
        /\ CallFrom(lable_c + 1, Value(Top.node.Condition)) /\ lable_c' = lable_c + 2
    BY <1>21 DEF ChainCondition
  <2> QED
    BY <1>0, <1>9, <1>10, <2>1, <2>2
<1>22. CASE ChainThen
  <2>1. Top.node.body \in Stmt /\ Top.node.body.kind = "AST_SCOPE" /\ Got(1) \in Nat
    BY <1>2, <1>20, <1>22 DEF ChainThen, InChain, InCall
  <2>2. /\ UNCHANGED <<program, curr, module, temp_c, lable_c, lable_tab, status>>
        /\ code' = Emit2(Branch(Got(1), Top.lab, Top.lab + 1), Label(Top.lab))
        /\ Call(Frame("ir_scope", Top.node.body, 0))
    BY <1>22 DEF ChainThen
  <2>3. code' \in Seq(NodeSet)
    BY <1>2, <1>6, <1>7, <2>1, <2>2
  <2> QED
    BY <1>0, <1>9, <1>11, <2>1, <2>2, <2>3
<1>23. CASE ChainNext
  <2>1. \/ Top.node.chain = NULL
        \/ Top.node.chain \in Stmt /\ Top.node.chain.kind \in {"AST_ELSE_IF", "AST_ELSE"}
    BY <1>20, <1>23 DEF ChainNext, InChain, InCall
  <2>2. /\ UNCHANGED <<program, curr, module, temp_c, lable_c, lable_tab, status>>
        /\ code' = Emit2(Jump(Top.end), Label(Top.lab + 1))
    BY <1>23 DEF ChainNext
  <2>3. code' \in Seq(NodeSet)
    BY <1>2, <1>6, <1>7, <2>2
  <2>4. CASE Top.node.chain = NULL
    <3>1. Return(NoTemp)
      BY <1>23, <2>4 DEF ChainNext
    <3>2. IsTable(lable_tab, Nat)'
      BY <1>0, <2>2 DEF IsTable
    <3> QED
      BY <1>0, <1>1, <1>3, <1>5, <2>2, <2>3, <3>1, <3>2, TypeAfterReturn
  <2>5. CASE Top.node.chain # NULL
    <3>1. Call(Frame("ir_if_chain_s", Top.node.chain, Top.end))
      BY <1>23, <2>5 DEF ChainNext
    <3> QED
      BY <1>0, <1>2, <1>9, <1>12, <2>1, <2>2, <2>3, <2>5, <3>1
  <2> QED
    BY <2>4, <2>5
<1>24. CASE ChainElse
  <2>1. Top.node.kind = "AST_ELSE"
    BY <1>24 DEF ChainElse, InChain
  <2>2. /\ UNCHANGED <<program, curr, module, code, temp_c, lable_c, lable_tab, status>>
        /\ Call(Frame("ir_scope", Top.node, 0))
    BY <1>24 DEF ChainElse
  <2> QED
    BY <1>0, <1>4, <1>9, <1>11, <2>1, <2>2
<1>25. CASE ChainEnd
  BY <1>0, <1>8, <1>25 DEF ChainEnd
<1>26. Top.fn = "ir_while_s" =>
         /\ Top.node.Condition \in Expr
         /\ Top.node.body \in Stmt /\ Top.node.body.kind = "AST_SCOPE"
  BY <1>2, <1>3, <1>4, StmtFrame, StmtAssumption
<1>27. CASE WhileCondition
  <2>1. Top.node.Condition \in Expr
    BY <1>26, <1>27 DEF WhileCondition, InCall
  <2>2. /\ UNCHANGED <<program, curr, module, temp_c, lable_tab, status>>
        /\ CallFrom(lable_c + 1, Value(Top.node.Condition)) /\ lable_c' = lable_c + 3
        /\ code' = Emit1(Label(lable_c + 1))
    BY <1>27 DEF WhileCondition
  <2>3. code' \in Seq(NodeSet)
    BY <1>0, <1>6, <1>7, <2>2
  <2> QED
    BY <1>0, <1>9, <1>10, <2>1, <2>2, <2>3
<1>28. CASE WhileBody
  <2>1. Top.node.body \in Stmt /\ Top.node.body.kind = "AST_SCOPE" /\ Got(1) \in Nat
    BY <1>2, <1>26, <1>28 DEF WhileBody, InCall
  <2>2. /\ UNCHANGED <<program, curr, module, temp_c, lable_c, lable_tab, status>>
        /\ code' = Emit2(Branch(Got(1), Top.lab + 1, Top.lab + 2), Label(Top.lab + 1))
        /\ Call(Frame("ir_scope", Top.node.body, 0))
    BY <1>28 DEF WhileBody
  <2>3. code' \in Seq(NodeSet)
    BY <1>2, <1>6, <1>7, <2>1, <2>2
  <2> QED
    BY <1>0, <1>9, <1>11, <2>1, <2>2, <2>3
<1>29. CASE WhileEnd
  BY <1>2, <1>6, <1>7, <1>8, <1>29 DEF WhileEnd
<1>30. CASE ir_auto_s
  <2>1. Len(stack) > 1
    BY <1>1, <1>2, <1>3 DEF TypeInv, Nesting, Top
  <2>2. StackOk' /\ Len(stack') = Len(stack) - 1
        /\ \A k \in 1 .. Len(stack') :
             stack'[k].fn = stack[k].fn /\ stack'[k].node = stack[k].node
    BY <1>0, <1>30, <2>1, AutoShape DEF TypeInv, TypeOK
  <2>3. UNCHANGED <<program, curr, module, lable_c, lable_tab, status>>
        /\ code' = Emit1(Node("OP_ALLOC", temp_c + 1, <<>>)) /\ temp_c' = temp_c + 1
    BY <1>30 DEF ir_auto_s
  <2>4. Nesting'
    <3>1. /\ stack'[1].fn = "ir_function_s" /\ stack'[1].node = program[curr]
          /\ curr <= Len(program)
      BY SMTT(30), <1>1, <1>2, <2>1, <2>2 DEF Nesting, TypeInv
    <3>2. ASSUME NEW k \in 2 .. Len(stack') PROVE stack'[k].fn # "ir_function_s"
      <4>1. k \in 1 .. Len(stack') /\ k \in 2 .. Len(stack)
        BY <1>2, <2>2
      <4> QED
        BY <1>1, <2>2, <4>1 DEF Nesting, TypeInv
    <3> QED
      BY <2>3, <3>1, <3>2 DEF Nesting
  <2>5. Node("OP_ALLOC", temp_c + 1, <<>>) \in NodeSet
    BY <1>0, ShortSeqs, NodeOk DEF Irop
  <2>6. code' \in Seq(NodeSet)
    BY <1>7, <2>3, <2>5
  <2>7. IsTable(lable_tab, Nat)'
    BY <1>0, <2>3 DEF IsTable
  <2> QED
    BY <1>0, <2>2, <2>3, <2>4, <2>6, <2>7 DEF TypeInv, TypeOK
<1> QED
  BY <1>13, <1>14, <1>15, <1>16, <1>17, <1>18, <1>19, <1>21, <1>22, <1>23, <1>24, <1>25,
     <1>27, <1>28, <1>29, <1>30 DEF StatementStep

LEMMA InitTyped == Init => TypeInv
<1> SUFFICES ASSUME Init PROVE TypeInv
  OBVIOUS
<1>1. Len(program) \in Nat
  BY ProgramAssumption DEF Init
<1>2. StackOk /\ Nesting
  BY DEF Init, StackOk, Nesting
<1>3. IsTable(lable_tab, Nat)
  BY DEF Init, IsTable
<1> QED
  BY <1>1, <1>2, <1>3 DEF Init, TypeInv, TypeOK

LEMMA TypeInvStutters == TypeInv /\ UNCHANGED vars => TypeInv'
  BY DEF TypeInv, TypeOK, Nesting, StackOk, IsTable, vars

\* The generator's variables keep their types, whatever the program: every
\* activation of an ir_* function holds a node of the kind its code reads, all
\* emitted nodes are well formed, and curr never leaves the top-level list.
THEOREM TypeCorrect == Spec => []TypeOK
<1>1. TypeInv /\ [Next]_vars => TypeInv'
  BY TypeInvStutters, ModuleStepTyped, FunctionStepTyped, ExprStepTyped, StatementStepTyped
     DEF Next
<1>2. TypeInv => TypeOK
  BY DEF TypeInv
<1> QED
  BY InitTyped, <1>1, <1>2, PTL DEF Spec
=============================================================================
