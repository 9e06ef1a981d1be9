----------------------------- MODULE IrGenSlots -----------------------------
(***************************************************************************)
(* The storage of variables, for every program: SlotsExclusive of the IR,   *)
(* and FramesApart of the frames a back end lays out for it.                *)
(*                                                                         *)
(* A function of p parameters spills the i-th to slot p + i, and gives its  *)
(* autos temporaries beyond 2 * p: the address of a variable tells whose    *)
(* slot it is.                                                              *)
(***************************************************************************)
EXTENDS IrGenTemps, Frames, FiniteSetTheorems

HasAlloc(c, t) == \E j \in DOMAIN c : c[j].op = "OP_ALLOC" /\ c[j].dest = t

\* Parameter i has its slot, and its temporary the address of it.
Spilled(c, i, p) ==
  /\ HasAlloc(c, p + i)
  /\ \E j \in DOMAIN c : c[j].op = "OP_ADDRESS" /\ c[j].dest = i /\ c[j].use[1] = p + i

\* What an entry of a table may hold: nothing yet, the number of a parameter,
\* or a slot of its own.
Stored(d, c, t, p) ==
  \/ d = 0
  \/ d \in 1 .. p
  \/ p + p < d /\ d <= t /\ HasAlloc(c, d)

\* The temporaries given away: those of the spilled parameters' slots first.
Counted(s, n, t, p) == IF s < p THEN n = 1 /\ t = p + s ELSE p + p <= t

AllStored(st, c, t, p) ==
  \A k \in 1 .. Len(st) : \A m \in DOMAIN st[k].symtab :
    Stored(st[k].symtab[m].temp_dest, c, t, p)

NoneShared(st) ==
  \A k, l \in 1 .. Len(st) :
    \A m \in DOMAIN st[k].symtab : \A n \in DOMAIN st[l].symtab :
      st[k].symtab[m].temp_dest = st[l].symtab[n].temp_dest /\ st[k].symtab[m].temp_dest # 0
        => k = l /\ m = n

SlotInv ==
  stack # <<>> =>
    /\ Counted(Len(stack[1].got), Len(stack), temp_c, Params)
    /\ \A i \in 1 .. Params : i <= Len(stack[1].got) => Spilled(code, i, Params)
    /\ AllStored(stack, code, temp_c, Params)
    /\ NoneShared(stack)

\* The code d goes on from c.
Kept(c, d) == \A k \in DOMAIN c : k \in DOMAIN d /\ d[k] = c[k]

Empty(f) == \A m \in DOMAIN f.symtab : f.symtab[m].temp_dest = 0

-----------------------------------------------------------------------------
(* What longer code leaves true                                             *)

LEMMA KeptAlloc ==
  ASSUME NEW c, NEW d, Kept(c, d), NEW t, HasAlloc(c, t)
  PROVE  HasAlloc(d, t)
  BY DEF Kept, HasAlloc

LEMMA KeptSpilled ==
  ASSUME NEW c, NEW d, Kept(c, d), NEW i, NEW p, Spilled(c, i, p)
  PROVE  Spilled(d, i, p)
<1>1. HasAlloc(d, p + i)
  BY KeptAlloc DEF Spilled
<1>2. \E j \in DOMAIN d : d[j].op = "OP_ADDRESS" /\ d[j].dest = i /\ d[j].use[1] = p + i
  BY DEF Spilled, Kept
<1> QED
  BY <1>1, <1>2 DEF Spilled

LEMMA KeptStored ==
  ASSUME NEW c, NEW d, Kept(c, d), NEW x \in Nat, NEW t \in Nat, NEW u \in Nat, t <= u,
         NEW p \in Nat, Stored(x, c, t, p)
  PROVE  Stored(x, d, u, p)
  BY KeptAlloc DEF Stored

\* Appending keeps what there is, whatever is appended.
LEMMA EmitKeeps ==
  ASSUME NEW c \in Seq(NodeSet), NEW a
  PROVE  /\ Kept(c, c)
         /\ Kept(c, Append(c, a))
  BY DEF Kept

-----------------------------------------------------------------------------
(* The tables                                                               *)

LEMMA TablesTyped ==
  ASSUME StackOk
  PROVE  /\ Len(stack) \in Nat
         /\ \A k \in 1 .. Len(stack) :
              /\ stack[k].got \in Seq(ResultSet) /\ Len(stack[k].got) \in Nat
              /\ \A m \in DOMAIN stack[k].symtab : stack[k].symtab[m].temp_dest \in Nat
<1>1. Len(stack) \in Nat
  BY DEF StackOk
<1>2. ASSUME NEW k \in 1 .. Len(stack)
      PROVE  /\ stack[k].got \in Seq(ResultSet) /\ Len(stack[k].got) \in Nat
             /\ \A m \in DOMAIN stack[k].symtab : stack[k].symtab[m].temp_dest \in Nat
  <2>1. FrameOk(stack[k])
    BY DEF StackOk
  <2>2. stack[k].got \in Seq(ResultSet)
    BY <2>1 DEF FrameOk
  <2>3. \A m \in DOMAIN stack[k].symtab : stack[k].symtab[m] \in VarInfoSet
    BY <2>1 DEF FrameOk, IsTable
  <2>4. \A m \in DOMAIN stack[k].symtab : stack[k].symtab[m].temp_dest \in Nat
    BY <2>3 DEF VarInfoSet
  <2> QED
    BY <2>2, <2>4
<1> QED
  BY <1>1, <1>2

\* A step after the spilling that gives no variable its storage.
LEMMA SlotsStay ==
  ASSUME TypeInv, TypeInv', SlotInv, stack # <<>>, stack' # <<>>,
         UNCHANGED <<program, curr>>, Kept(code, code'), temp_c <= temp_c',
         Params <= Len(stack[1].got), Params <= Len(stack'[1].got),
         \A k \in 1 .. Len(stack') :
           \/ Empty(stack'[k])
           \/ k \in 1 .. Len(stack) /\ stack'[k].symtab = stack[k].symtab
  PROVE  SlotInv'
<1> DEFINE p == Params
<1>1. p \in Nat /\ Params' = p /\ Len(stack[1].got) \in Nat
  BY ParamsOk DEF Params
<1>2. temp_c \in Nat /\ temp_c' \in Nat /\ StackOk /\ StackOk'
  BY DEF TypeInv, TypeOK
<1>3. \A k \in 1 .. Len(stack) : \A m \in DOMAIN stack[k].symtab :
        stack[k].symtab[m].temp_dest \in Nat
  BY <1>2, TablesTyped
<1>4. Len(stack') \in Nat /\ 1 \in 1 .. Len(stack')
  BY <1>2 DEF StackOk
<1>5. Len(stack'[1].got) \in Nat
  <2>1. FrameOk(stack'[1])
    BY <1>2, <1>4 DEF StackOk
  <2>2. stack'[1].got \in Seq(ResultSet)
    BY <2>1 DEF FrameOk
  <2> QED
    BY <2>2
<1>6. Counted(Len(stack'[1].got), Len(stack'), temp_c', p)
  <2>1. p + p <= temp_c
    BY <1>1 DEF SlotInv, Counted
  <2> HIDE DEF p
  <2>2. p + p <= temp_c' /\ ~ (Len(stack'[1].got) < p)
    BY <1>1, <1>2, <1>5, <2>1 DEF p
  <2> QED
    BY <2>2 DEF Counted
<1>7. \A i \in 1 .. p : i <= Len(stack'[1].got) => Spilled(code', i, p)
  <2> TAKE i \in 1 .. p
  <2>1. i <= Len(stack[1].got)
    BY <1>1
  <2>2. Spilled(code, i, p)
    BY <2>1 DEF SlotInv
  <2> QED
    BY <2>2, KeptSpilled
<1>8. AllStored(stack', code', temp_c', p)
  <2> SUFFICES ASSUME NEW k \in 1 .. Len(stack'), NEW m \in DOMAIN stack'[k].symtab
               PROVE  Stored(stack'[k].symtab[m].temp_dest, code', temp_c', p)
    BY DEF AllStored
  <2>1. CASE Empty(stack'[k])
    BY <2>1 DEF Empty, Stored
  <2>2. CASE k \in 1 .. Len(stack) /\ stack'[k].symtab = stack[k].symtab
    <3> DEFINE x == stack[k].symtab[m].temp_dest
    <3>1. x \in Nat /\ Stored(x, code, temp_c, p) /\ stack'[k].symtab[m].temp_dest = x
      BY <1>3, <2>2 DEF SlotInv, AllStored
    <3> HIDE DEF x, p
    <3> QED
      BY <1>1, <1>2, <3>1, KeptStored
  <2> QED
    BY <2>1, <2>2
<1>9. NoneShared(stack')
  <2> SUFFICES ASSUME NEW k \in 1 .. Len(stack'), NEW l \in 1 .. Len(stack'),
                      NEW m \in DOMAIN stack'[k].symtab, NEW n \in DOMAIN stack'[l].symtab,
                      stack'[k].symtab[m].temp_dest = stack'[l].symtab[n].temp_dest,
                      stack'[k].symtab[m].temp_dest # 0
               PROVE  k = l /\ m = n
    BY DEF NoneShared
  <2>1. k \in 1 .. Len(stack) /\ stack'[k].symtab = stack[k].symtab
    BY DEF Empty
  <2>2. l \in 1 .. Len(stack) /\ stack'[l].symtab = stack[l].symtab
    BY DEF Empty
  <2> QED
    BY <2>1, <2>2 DEF SlotInv, NoneShared
<1> QED
  BY <1>1, <1>6, <1>7, <1>8, <1>9 DEF SlotInv

\* Beyond ir_function_s all parameters are spilled.
LEMMA DeepIsSpilled ==
  ASSUME TypeInv, SlotInv, stack # <<>>, Top.fn # "ir_function_s"
  PROVE  Len(stack) > 1 /\ Params <= Len(stack[1].got)
<1>1. Len(stack) > 1
  BY DEF TypeInv, TypeOK, StackOk, Nesting, Top
<1>2. Params \in Nat /\ Len(stack[1].got) \in Nat /\ Len(stack) # 1
  <2>1. Len(stack) \in Nat
    BY DEF TypeInv, TypeOK, StackOk
  <2>2. \A x \in Nat : x > 1 => x # 1
    OBVIOUS
  <2>3. Len(stack) # 1
    BY <1>1, <2>1, <2>2
  <2> QED
    BY <2>3, ParamsOk
<1>3. Counted(Len(stack[1].got), Len(stack), temp_c, Params)
  BY DEF SlotInv
<1>4. ASSUME NEW s, NEW n, NEW t, NEW q, Counted(s, n, t, q), n # 1
      PROVE  ~ (s < q)
  BY <1>4 DEF Counted
<1>5. ~ (Len(stack[1].got) < Params)
  BY <1>2, <1>3, <1>4
<1>6. Params <= Len(stack[1].got)
  BY <1>2, <1>5
<1> QED
  BY <1>1, <1>6

LEMMA FreshFrame ==
  ASSUME NEW fn, NEW n, NEW end, fn # "ir_function_s"
  PROVE  Empty(Frame(fn, n, end))
  BY DEF Frame, Empty, ScopeTab, NoTab, VarInfo

\* A handler calls another.
LEMMA SlotsAfterCall ==
  ASSUME TypeInv, TypeInv', SlotInv, stack # <<>>, Params <= Len(stack[1].got),
         UNCHANGED <<program, curr, temp_c>>, Kept(code, code'),
         NEW f, Empty(f), Call(f) \/ \E l \in Nat : CallFrom(l, f)
  PROVE  SlotInv'
<1>1. StackOk /\ StackOk' /\ temp_c \in Nat /\ Len(stack) \in Nat /\ Len(stack) # 0
  BY DEF TypeInv, TypeOK, StackOk
<1>2. FrameOk(f)
  BY <1>1, PushedFrameOk
<1>3. /\ Len(stack') = Len(stack) + 1
      /\ \A k \in 1 .. Len(stack) :
           stack'[k].symtab = stack[k].symtab /\ stack'[k].got = stack[k].got
      /\ stack'[Len(stack) + 1] = f
  <2>1. CASE Call(f)
    BY <1>1, <1>2, <2>1, CallShape
  <2>2. CASE \E l \in Nat : CallFrom(l, f)
    BY <1>1, <1>2, <2>2, CallFromShape DEF SameCall
  <2> QED
    BY <2>1, <2>2
<1>4. \A k \in 1 .. Len(stack') :
        \/ Empty(stack'[k])
        \/ k \in 1 .. Len(stack) /\ stack'[k].symtab = stack[k].symtab
  BY <1>1, <1>3
<1>5. Params <= Len(stack'[1].got) /\ stack' # <<>>
  BY <1>1, <1>3
<1>6. temp_c <= temp_c'
  BY <1>1
<1> QED
  BY <1>4, <1>5, <1>6, SlotsStay

\* A handler returns.
LEMMA SlotsAfterReturn ==
  ASSUME TypeInv, TypeInv', SlotInv, stack # <<>>, Top.fn # "ir_function_s",
         UNCHANGED <<program, curr>>, Kept(code, code'), temp_c <= temp_c',
         NEW r, Return(r)
  PROVE  SlotInv'
<1> DEFINE n == Len(stack) - 1
<1>1. Len(stack) > 1 /\ Params <= Len(stack[1].got) /\ Params \in Nat
  BY DeepIsSpilled, ParamsOk
<1>2. StackOk /\ Len(stack) \in Nat /\ n \in Nat /\ 1 \in 1 .. n /\ n + 1 = Len(stack)
  BY <1>1 DEF TypeInv, TypeOK, StackOk
<1>3. stack' = [k \in 1 .. n |->
                  IF k = n THEN [stack[k] EXCEPT !.got = Append(@, r)] ELSE stack[k]]
  BY DEF Return
<1> HIDE DEF n
<1>4. Len(stack') = n /\ stack' # <<>>
  BY <1>2, <1>3
<1>5. ASSUME NEW k \in 1 .. n
      PROVE  /\ stack'[k].symtab = stack[k].symtab
             /\ stack'[k].got \in {stack[k].got, Append(stack[k].got, r)}
  <2>1. FrameOk(stack[k])
    BY <1>2 DEF StackOk
  <2>2. stack'[k] \in {stack[k], [stack[k] EXCEPT !.got = Append(@, r)]}
    BY <1>3
  <2> QED
    BY <2>1, <2>2 DEF FrameOk
<1>6. Params <= Len(stack'[1].got)
  <2>1. stack[1].got \in Seq(ResultSet) /\ Len(stack[1].got) \in Nat
    BY <1>2, TablesTyped
  <2>2. Len(Append(stack[1].got, r)) = Len(stack[1].got) + 1
    BY <2>1
  <2> QED
    BY <1>1, <1>2, <1>5, <2>1, <2>2
<1>7. \A k \in 1 .. Len(stack') : k \in 1 .. Len(stack) /\ stack'[k].symtab = stack[k].symtab
  BY <1>2, <1>4, <1>5
<1> QED
  BY <1>1, <1>4, <1>6, <1>7, SlotsStay

-----------------------------------------------------------------------------
(* The handlers under ir_function_s                                         *)

\* A step that calls or returns and gives no variable storage.
Calls ==
  /\ \E fn, n, end :
       /\ fn # "ir_function_s"
       /\ Call(Frame(fn, n, end)) \/ \E l \in Nat : CallFrom(l, Frame(fn, n, end))
  /\ UNCHANGED <<program, curr, temp_c>> /\ Kept(code, code')

Returns ==
  /\ \E r : Return(r)
  /\ UNCHANGED <<program, curr>> /\ Kept(code, code') /\ temp_c <= temp_c'

LEMMA SlotsQuiet ==
  ASSUME TypeInv, TypeInv', SlotInv, stack # <<>>, Top.fn # "ir_function_s", Calls \/ Returns
  PROVE  SlotInv'
<1>1. CASE Calls
  <2>1. PICK fn, n, end :
          /\ fn # "ir_function_s"
          /\ Call(Frame(fn, n, end)) \/ \E l \in Nat : CallFrom(l, Frame(fn, n, end))
    BY <1>1 DEF Calls
  <2>2. UNCHANGED <<program, curr, temp_c>> /\ Kept(code, code')
    BY <1>1 DEF Calls
  <2>3. Params <= Len(stack[1].got)
    BY DeepIsSpilled
  <2>4. Empty(Frame(fn, n, end))
    BY <2>1, FreshFrame
  <2> QED
    BY <2>1, <2>2, <2>3, <2>4, SlotsAfterCall
<1>2. CASE Returns
  <2>1. PICK r : Return(r)
    BY <1>2 DEF Returns
  <2>2. UNCHANGED <<program, curr>> /\ Kept(code, code') /\ temp_c <= temp_c'
    BY <1>2 DEF Returns
  <2> QED
    BY <2>1, <2>2, SlotsAfterReturn
<1> QED
  BY <1>1, <1>2

LEMMA EmitsKept ==
  ASSUME code \in Seq(NodeSet)
  PROVE  /\ Kept(code, code)
         /\ \A a : Kept(code, Emit1(a))
         /\ \A a, b : Kept(code, Emit2(a, b))
         /\ \A a, b, c, d : Kept(code, Emit4(a, b, c, d))
  BY DEF Kept, Emit1, Emit2, Emit4

\* Whatever a handler yields.
LEMMA YieldReturns ==
  ASSUME temp_c \in Nat, NEW nodes, Kept(code, nodes), NEW n \in Nat, NEW r, Yield(nodes, n, r)
  PROVE  Returns
  BY DEF Yield, Returns

LEMMA ExprStepSlots ==
  ASSUME TypeInv, TypeInv', SlotInv, ExprStep
  PROVE  SlotInv'
<1>0. code \in Seq(NodeSet) /\ temp_c \in Nat
  BY DEF TypeInv, TypeOK
<1>1. stack # <<>>
  BY DEF ExprStep, Fatal, EvaluateOperand, Literal, LoadVariable, AddressOf, DerefOrNegate,
         Not, IncDec, Assign, BinaryOp, EmitCall, LvalueName, LvalueDeref,
         ReadyUnary, Ready, InCall
<1>2. CASE Fatal
  <2>1. UNCHANGED <<program, curr, stack, code, temp_c>>
    BY <1>2 DEF Fatal
  <2> QED
    BY <2>1 DEF SlotInv, Params
<1>3. CASE EvaluateOperand
  <2>1. /\ Top.fn \in ExprFn \cup {"ir_return_s"} /\ ~ Rejected(Top) /\ FrameOk(Top)
        /\ Len(Top.got) < Len(Operands(Top)) /\ Len(Top.got) \in Nat
    BY <1>1, <1>3, TopOk DEF EvaluateOperand, InCall, ExprFn
  <2>2. Len(Operands(Top)) \in Nat /\ Len(Top.got) + 1 \in 1 .. Len(Operands(Top))
    BY <2>1, OperandOk
  <2>3. \E e : \/ Operands(Top)[Len(Top.got) + 1] = Value(e)
               \/ Operands(Top)[Len(Top.got) + 1] = Place(e)
    BY SMTT(30), <2>1, <2>2 DEF Operands, ExprFn
  <2>4. PICK fn, e : /\ Operands(Top)[Len(Top.got) + 1] = Frame(fn, e, 0)
                     /\ fn # "ir_function_s"
    BY <2>3 DEF Value, Place
  <2>5. /\ Call(Operands(Top)[Len(Top.got) + 1])
        /\ UNCHANGED <<program, curr, code, temp_c>>
    BY <1>3 DEF EvaluateOperand
  <2>6. Call(Frame(fn, e, 0))
    BY <2>4, <2>5
  <2>7. Calls
    BY <1>0, <2>4, <2>5, <2>6, EmitsKept DEF Calls
  <2>8. Top.fn # "ir_function_s"
    BY <2>1 DEF ExprFn
  <2> QED
    BY <1>1, <2>7, <2>8, SlotsQuiet
<1>4. CASE ~ Fatal /\ ~ EvaluateOperand
  <2>1. Top.fn # "ir_function_s"
    BY <1>4 DEF ExprStep, Literal, LoadVariable, AddressOf, DerefOrNegate,
       Not, IncDec, Assign, BinaryOp, EmitCall, LvalueName, LvalueDeref,
       ReadyUnary, Ready, InCall
  <2>2. \A nodes, r : \A n \in Nat : Yield(nodes, n, r) /\ Kept(code, nodes) => Returns
    BY <1>0, YieldReturns
  <2>3. 0 \in Nat /\ 1 \in Nat /\ 2 \in Nat /\ 3 \in Nat
    OBVIOUS
  <2>4. Literal => Returns
    BY <1>0, <2>2, <2>3, EmitsKept DEF Literal
  <2>5. LoadVariable => Returns
    BY <1>0, <2>2, <2>3, EmitsKept DEF LoadVariable
  <2>6. AddressOf => Returns
    BY <1>0, <2>2, <2>3, EmitsKept DEF AddressOf
  <2>7. DerefOrNegate => Returns
    BY <1>0, <2>2, <2>3, EmitsKept DEF DerefOrNegate
  <2>8. Not => Returns
    BY <1>0, <2>2, <2>3, EmitsKept DEF Not
  <2>9. IncDec => Returns
    BY <1>0, <2>2, <2>3, EmitsKept DEF IncDec
  <2>10. Assign => Returns
    BY <1>0, <2>2, <2>3, EmitsKept DEF Assign
  <2>11. BinaryOp => Returns
    BY <1>0, <2>2, <2>3, EmitsKept DEF BinaryOp
  <2>12. EmitCall => Returns
    BY <1>0, <2>2, <2>3, EmitsKept DEF EmitCall
  <2>13. LvalueName => Returns
    BY <1>0, <2>2, <2>3, EmitsKept DEF LvalueName
  <2>14. LvalueDeref => Returns
    BY <1>0, <2>2, <2>3, EmitsKept DEF LvalueDeref
  <2>15. Returns
    BY <1>4, <2>4, <2>5, <2>6, <2>7, <2>8, <2>9, <2>10, <2>11, <2>12, <2>13, <2>14 DEF ExprStep
  <2> QED
    BY <1>1, <2>1, <2>15, SlotsQuiet
<1> QED
  BY <1>2, <1>3, <1>4

\* A statement whose symbol table does not change.
LEMMA PlainStatementSlots ==
  ASSUME TypeInv, TypeInv', SlotInv, StatementStep, ~ ir_auto_s
  PROVE  SlotInv'
<1>0. /\ code \in Seq(NodeSet) /\ temp_c \in Nat /\ temp_c + 0 = temp_c /\ temp_c <= temp_c
      /\ lable_c \in Nat /\ lable_c + 1 \in Nat /\ 0 \in Nat
  BY DEF TypeInv, TypeOK
<1>1. /\ stack # <<>>
      /\ Top.fn \in {"ir_scope", "ir_auto_s", "ir_extrn_s", "ir_return_s", "ir_lable_s",
                     "ir_goto_s", "ir_if_s", "ir_if_chain_s", "ir_while_s"}
  BY DEF StatementStep, ScopeStatement, EndScope, ir_auto_s, ir_extrn_s, ir_return_s,
         LableOrGoto, IfBegin, IfEnd, ChainCondition, ChainThen, ChainNext, ChainElse, ChainEnd,
         WhileCondition, WhileBody, WhileEnd, InChain, InCall
<1>2. \A nodes : Yield(nodes, 0, NoTemp) /\ Kept(code, nodes) => Returns
  BY <1>0, YieldReturns
<1>3. \A fn, n, end :
        /\ fn # "ir_function_s"
        /\ Call(Frame(fn, n, end)) \/ \E l \in Nat : CallFrom(l, Frame(fn, n, end))
        /\ UNCHANGED <<program, curr, temp_c>> /\ Kept(code, code')
        => Calls
  BY DEF Calls
<1>4. Return(NoTemp) /\ UNCHANGED <<program, curr, temp_c>> /\ Kept(code, code') => Returns
  BY <1>0 DEF Returns
<1>5. ScopeStatement => Calls
  <2> SUFFICES ASSUME ScopeStatement PROVE Calls
    OBVIOUS
  <2> DEFINE st == Top.node.body[Len(Top.got) + 1]
  <2>1. Call(ir_statements(st)) /\ UNCHANGED <<program, curr, code, temp_c>>
    BY DEF ScopeStatement
  <2> HIDE DEF st
  <2>2. PICK fn, n : ir_statements(st) = Frame(fn, n, 0)
    BY DEF ir_statements, Value
  <2>3. Call(Frame(fn, n, 0))
    BY <2>1, <2>2
  <2>4. fn # "ir_function_s"
    <3>1. FrameOk(Frame(fn, n, 0)) /\ Nesting' /\ StackOk
      BY <1>1, <2>3, PushedFrameOk DEF TypeInv, TypeOK
    <3>2. Len(stack') = Len(stack) + 1 /\ stack'[Len(stack) + 1].fn = fn
      BY <2>3, <3>1, CallShape DEF Frame
    <3>3. Len(stack) \in Nat /\ Len(stack) >= 1
      BY <1>1, TopOk DEF TypeInv, TypeOK, StackOk
    <3> QED
      BY <3>1, <3>2, <3>3 DEF Nesting
  <2> QED
    BY <1>0, <1>3, <2>1, <2>3, <2>4, EmitsKept
<1>6. EndScope => Returns
  BY <1>0, <1>2, EmitsKept DEF EndScope
<1>7. ir_extrn_s => Returns
  BY <1>0, <1>4, EmitsKept DEF ir_extrn_s
<1>8. ir_return_s => Returns
  BY <1>0, <1>2, EmitsKept DEF ir_return_s
<1>9. LableOrGoto => Returns
  BY <1>0, <1>4, EmitsKept DEF LableOrGoto
<1>10. IfBegin => Calls
  BY <1>0, <1>3, EmitsKept DEF IfBegin
<1>11. IfEnd => Returns
  BY <1>0, <1>2, EmitsKept DEF IfEnd
<1>12. ChainCondition => Calls
  BY <1>0, <1>3, EmitsKept DEF ChainCondition, Value
<1>13. ChainThen => Calls
  BY <1>0, <1>3, EmitsKept DEF ChainThen
<1>14. ChainNext => Calls \/ Returns
  BY <1>0, <1>3, <1>4, EmitsKept DEF ChainNext
<1>15. ChainElse => Calls
  BY <1>0, <1>3, EmitsKept DEF ChainElse
<1>16. ChainEnd => Returns
  BY <1>0, <1>2, EmitsKept DEF ChainEnd
<1>17. WhileCondition => Calls
  BY <1>0, <1>3, EmitsKept DEF WhileCondition, Value
<1>18. WhileBody => Calls
  BY <1>0, <1>3, EmitsKept DEF WhileBody
<1>19. WhileEnd => Returns
  BY <1>0, <1>2, EmitsKept DEF WhileEnd
<1>20. Calls \/ Returns
  BY <1>5, <1>6, <1>7, <1>8, <1>9, <1>10, <1>11, <1>12, <1>13, <1>14, <1>15, <1>16, <1>17,
     <1>18, <1>19 DEF StatementStep
<1> QED
  BY <1>1, <1>20, SlotsQuiet

\* An auto gets the address of a slot nobody has.
LEMMA AutoSlots ==
  ASSUME TypeInv, TypeInv', SlotInv, ir_auto_s
  PROVE  SlotInv'
<1> DEFINE p == Params
           n == Len(stack) - 1
           name == Top.node.name
           holder == Innermost(name)
           t == temp_c + 1
           old(k, m) == stack[k].symtab[m].temp_dest
           new(k, m) == stack'[k].symtab[m].temp_dest
<1>1. stack # <<>> /\ Top.fn = "ir_auto_s" /\ UNCHANGED <<program, curr>>
      /\ code' = Emit1(Node("OP_ALLOC", t, <<>>)) /\ temp_c' = t
  BY DEF ir_auto_s, InCall
<1>2. /\ Len(stack) > 1 /\ Params <= Len(stack[1].got) /\ Params \in Nat
      /\ p \in Nat /\ Params' = p
  BY <1>1, DeepIsSpilled, ParamsOk DEF Params
<1>3. /\ StackOk /\ StackOk' /\ Len(stack) \in Nat /\ n \in Nat /\ 1 \in 1 .. n
      /\ n + 1 = Len(stack) /\ temp_c \in Nat /\ t \in Nat /\ code \in Seq(NodeSet)
  BY <1>2 DEF TypeInv, TypeOK, StackOk
<1>4. /\ Len(stack') = n
      /\ \A k \in 1 .. n : DOMAIN stack'[k].symtab = DOMAIN stack[k].symtab
      /\ \A k \in 1 .. n : stack'[k].got \in {stack[k].got, Append(stack[k].got, NoTemp)}
  BY <1>2, <1>3, AutoShape
<1>5. ASSUME NEW k \in 1 .. n, NEW m \in DOMAIN stack[k].symtab
      PROVE  new(k, m) = IF k = holder /\ m = name THEN t ELSE old(k, m)
  <2> DEFINE grown == IF k = n THEN Append(stack[k].got, NoTemp) ELSE stack[k].got
             tab == [stack[k].symtab EXCEPT ![name].temp_dest = t]
             filled == IF k = holder THEN tab ELSE stack[k].symtab
  <2>1. stack' = [j \in 1 .. n |->
                   [stack[j] EXCEPT
                      !.got = IF j = n THEN Append(@, NoTemp) ELSE @,
                      !.symtab = IF j = holder
                                   THEN [@ EXCEPT ![name].temp_dest = t] ELSE @]]
    BY DEF ir_auto_s
  <2>2. FrameOk(stack[k])
    BY <1>3 DEF StackOk
  <2>3. stack'[k] = [stack[k] EXCEPT !.got = grown, !.symtab = filled]
    BY <2>1
  <2> HIDE DEF filled, grown
  <2>4. stack'[k].symtab = filled
    BY <2>2, <2>3 DEF FrameOk
  <2>5. stack[k].symtab[m] \in VarInfoSet
    BY <2>2 DEF FrameOk, IsTable
  <2>6. tab[m] = IF m = name THEN [stack[k].symtab[m] EXCEPT !.temp_dest = t]
                             ELSE stack[k].symtab[m]
    OBVIOUS
  <2> HIDE DEF tab
  <2>7. tab[m].temp_dest = IF m = name THEN t ELSE old(k, m)
    BY <2>5, <2>6 DEF VarInfoSet
  <2> QED
    BY <2>4, <2>7 DEF filled
<1>6. Kept(code, code') /\ HasAlloc(code', t)
  <2>1. Node("OP_ALLOC", t, <<>>).op = "OP_ALLOC" /\ Node("OP_ALLOC", t, <<>>).dest = t
    BY DEF Node
  <2>2. code'[Len(code) + 1] = Node("OP_ALLOC", t, <<>>) /\ Len(code) + 1 \in DOMAIN code'
    BY <1>1, <1>3 DEF Emit1
  <2>3. HasAlloc(code', t)
    BY <2>1, <2>2 DEF HasAlloc
  <2> QED
    BY <1>1, <1>3, <2>3, EmitsKept
<1>7. /\ \A k \in 1 .. n : \A m \in DOMAIN stack[k].symtab :
           old(k, m) \in Nat /\ Stored(old(k, m), code, temp_c, p)
      /\ p + p <= temp_c
  <2>1. Counted(Len(stack[1].got), Len(stack), temp_c, p) /\ AllStored(stack, code, temp_c, p)
    BY <1>1 DEF SlotInv
  <2>2. Len(stack[1].got) \in Nat
    BY <1>3, TablesTyped
  <2>3. \A c, m, u, q : Counted(c, m, u, q) /\ ~ (c < q) => q + q <= u
    BY DEF Counted
  <2>4. p + p <= temp_c
    BY <1>2, <2>1, <2>2, <2>3
  <2>5. \A k \in 1 .. n : k \in 1 .. Len(stack)
    BY <1>3
  <2> QED
    BY <1>3, <2>1, <2>4, <2>5, TablesTyped DEF AllStored
<1>8. \A k \in 1 .. n : \A m \in DOMAIN stack[k].symtab : old(k, m) # t
  <2> SUFFICES ASSUME NEW k \in 1 .. n, NEW m \in DOMAIN stack[k].symtab PROVE old(k, m) # t
    OBVIOUS
  <2> DEFINE x == old(k, m)
  <2>1. x \in Nat /\ Stored(x, code, temp_c, p)
    BY <1>7
  <2> HIDE DEF x, p
  <2>2. x <= temp_c
    BY <1>2, <1>3, <1>7, <2>1 DEF Stored
  <2> QED
    BY <1>3, <2>1, <2>2 DEF x
<1> HIDE DEF n, name, holder
<1>9. Len(stack'[1].got) \in Nat /\ p <= Len(stack'[1].got)
  <2>1. 1 \in 1 .. Len(stack)
    BY <1>2
  <2>2. stack[1].got \in Seq(ResultSet) /\ Len(stack[1].got) \in Nat
    BY <1>3, <2>1, TablesTyped
  <2>3. Len(Append(stack[1].got, NoTemp)) = Len(stack[1].got) + 1
    BY <2>2
  <2> QED
    BY <1>2, <1>3, <1>4, <2>2, <2>3
<1>10. Counted(Len(stack'[1].got), Len(stack'), temp_c', p)
  <2>1. \A c, m, u, q : ~ (c < q) /\ q + q <= u => Counted(c, m, u, q)
    BY DEF Counted
  <2> HIDE DEF p
  <2>2. ~ (Len(stack'[1].got) < p) /\ p + p <= temp_c'
    BY <1>1, <1>2, <1>3, <1>7, <1>9
  <2> QED
    BY <2>1, <2>2
<1>11. \A i \in 1 .. p : i <= Len(stack'[1].got) => Spilled(code', i, p)
  <2> TAKE i \in 1 .. p
  <2>1. i <= Len(stack[1].got)
    BY <1>2, <1>3, TablesTyped
  <2>2. Spilled(code, i, p)
    BY <1>1, <2>1 DEF SlotInv
  <2> QED
    BY <1>6, <2>2, KeptSpilled
<1>12. AllStored(stack', code', temp_c', p)
  <2> SUFFICES ASSUME NEW k \in 1 .. n, NEW m \in DOMAIN stack[k].symtab
               PROVE  Stored(new(k, m), code', t, p)
    BY <1>1, <1>4 DEF AllStored
  <2>1. CASE k = holder /\ m = name
    <3>1. new(k, m) = t
      BY <1>5, <2>1
    <3> HIDE DEF p, new
    <3>2. p + p < t /\ t <= t
      BY <1>2, <1>3, <1>7
    <3> QED
      BY <1>6, <3>1, <3>2 DEF Stored
  <2>2. CASE ~ (k = holder /\ m = name)
    <3> DEFINE x == old(k, m)
    <3>1. new(k, m) = x /\ x \in Nat /\ Stored(x, code, temp_c, p)
      BY <1>5, <1>7, <2>2
    <3> HIDE DEF p, new, x, t
    <3>2. temp_c <= t
      BY <1>3 DEF t
    <3> QED
      BY <1>2, <1>3, <1>6, <3>1, <3>2, KeptStored
  <2> QED
    BY <2>1, <2>2
<1>13. NoneShared(stack')
  <2> SUFFICES ASSUME NEW k \in 1 .. n, NEW l \in 1 .. n,
                      NEW m \in DOMAIN stack[k].symtab, NEW o \in DOMAIN stack[l].symtab,
                      new(k, m) = new(l, o), new(k, m) # 0
               PROVE  k = l /\ m = o
    BY <1>4 DEF NoneShared
  <2> HIDE DEF new, t
  <2>1. /\ new(k, m) = IF k = holder /\ m = name THEN t ELSE old(k, m)
        /\ new(l, o) = IF l = holder /\ o = name THEN t ELSE old(l, o)
    BY <1>5
  <2>2. old(k, m) # t /\ old(l, o) # t
    BY <1>8
  <2>3. k \in 1 .. Len(stack) /\ l \in 1 .. Len(stack)
    BY <1>3
  <2>4. old(k, m) = old(l, o) /\ old(k, m) # 0 => k = l /\ m = o
    BY <1>1, <2>3 DEF SlotInv, NoneShared
  <2> QED
    BY <2>1, <2>2, <2>4
<1> QED
  BY <1>2, <1>10, <1>11, <1>12, <1>13 DEF SlotInv

-----------------------------------------------------------------------------
(* ir_function_s and gen_ir                                                 *)

LEMMA FunctionStepSlots ==
  ASSUME TypeInv, TypeInv', SlotInv, FunctionStep
  PROVE  SlotInv'
<1> DEFINE p == Params
           s == Len(stack[1].got)
           t == temp_c + 1
<1>1. /\ stack # <<>> /\ Top.fn = "ir_function_s"
  BY DEF FunctionStep, SpillParam, FunctionBody, EndFunction, InCall
<1>2. /\ Len(stack) = 1 /\ Top = stack[1] /\ DOMAIN stack = 1 .. 1
      /\ Top.node = program[curr] /\ p = Len(Top.node.params)
  <2>1. Len(stack) \in Nat /\ DOMAIN stack = 1 .. Len(stack) /\ Nesting
    BY DEF TypeInv, TypeOK, StackOk
  <2>2. Len(stack) >= 1 /\ ~ (Len(stack) \in 2 .. Len(stack))
    BY <1>1, <2>1 DEF Nesting, Top
  <2>3. \A x \in Nat : x >= 1 /\ ~ (x \in 2 .. x) => x = 1
    OBVIOUS
  <2>4. Len(stack) = 1
    BY <2>1, <2>2, <2>3
  <2>5. stack[1].node = program[curr]
    BY <1>1, ParamsOk
  <2> QED
    BY <2>1, <2>4, <2>5 DEF Top, Params
<1>3. /\ p \in Nat /\ s \in Nat /\ temp_c \in Nat /\ t \in Nat /\ code \in Seq(NodeSet)
      /\ stack[1].got \in Seq(ResultSet) /\ FrameOk(stack[1]) /\ StackOk /\ StackOk'
      /\ temp_c' \in Nat
  BY <1>1, <1>2, ParamsOk, TopOk DEF TypeInv, TypeOK, StackOk, FrameOk
<1>4. /\ Counted(s, 1, temp_c, p) /\ AllStored(stack, code, temp_c, p) /\ NoneShared(stack)
      /\ \A i \in 1 .. p : i <= s => Spilled(code, i, p)
  BY <1>1, <1>2 DEF SlotInv
<1>5. CASE SpillParam
  <2> DEFINE i == s + 1
             a == Node("OP_ALLOC", t, <<>>)
             b == Node("OP_STORE", 0, <<t, i>>)
             d == Node("OP_ADDRESS", i, <<t>>)
  <2>1. /\ code' = Emit3(a, b, d) /\ temp_c' = t /\ UNCHANGED <<program, curr>>
        /\ stack' = [stack EXCEPT ![1].got = Append(@, NoTemp)] /\ i <= p
    BY <1>2, <1>3, <1>5 DEF SpillParam
  <2>2. /\ a.op = "OP_ALLOC" /\ a.dest = t /\ d.op = "OP_ADDRESS" /\ d.dest = i
        /\ d.use = <<t>>
    BY DEF Node
  <2> HIDE DEF a, b, d
  <2>3. /\ code'[Len(code) + 1] = a /\ Len(code) + 1 \in DOMAIN code'
        /\ code'[Len(code) + 3] = d /\ Len(code) + 3 \in DOMAIN code'
        /\ Kept(code, code')
    BY <1>3, <2>1 DEF Emit3, Kept
  <2>4. /\ Len(stack') = 1 /\ stack'[1].symtab = stack[1].symtab
        /\ stack'[1].got = Append(stack[1].got, NoTemp)
    <3>1. DOMAIN stack' = 1 .. 1
      BY <1>2, <2>1
    <3>2. Len(stack') = 1
      BY <3>1
    <3> QED
      BY <1>2, <1>3, <2>1, <3>2 DEF FrameOk
  <2>5. Len(stack'[1].got) = i
    BY <1>3, <2>4
  <2>6. t = p + i /\ temp_c = p + s
    <3>1. \A c, n, u, q : Counted(c, n, u, q) /\ c < q => u = q + c
      BY DEF Counted
    <3> HIDE DEF p, s
    <3>2. temp_c = p + s
      BY <1>3, <1>4, <2>1, <3>1
    <3> QED
      BY <1>3, <3>2
  <2>7. Spilled(code', i, p)
    <3>1. HasAlloc(code', t)
      BY <2>2, <2>3 DEF HasAlloc
    <3>2. d.use[1] = t
      BY <2>2
    <3> HIDE DEF t, p, i
    <3>3. HasAlloc(code', p + i)
      BY <2>6, <3>1
    <3>4. \E j \in DOMAIN code' :
            code'[j].op = "OP_ADDRESS" /\ code'[j].dest = i /\ code'[j].use[1] = p + i
      BY <2>2, <2>3, <2>6, <3>2
    <3> QED
      BY <3>3, <3>4 DEF Spilled
  <2>8. \A j \in 1 .. p : j <= i => Spilled(code', j, p)
    <3> TAKE j \in 1 .. p
    <3>1. CASE j <= s
      BY <1>4, <2>3, <3>1, KeptSpilled
    <3>2. CASE j = i
      BY <2>7, <3>2
    <3> QED
      BY SMTT(30), <1>3, <3>1, <3>2
  <2>9. Counted(i, 1, t, p)
    <3>1. \A c, n, u, q :
            (c < q => n = 1 /\ u = q + c) /\ (~ (c < q) => q + q <= u) => Counted(c, n, u, q)
      BY DEF Counted
    <3> HIDE DEF p, s
    <3>2. ~ (i < p) => p + p <= t
      BY <1>3, <2>6
    <3> HIDE DEF i, t
    <3> QED
      BY <2>6, <3>1, <3>2
  <2>10. AllStored(stack', code', t, p)
    <3> SUFFICES ASSUME NEW m \in DOMAIN stack[1].symtab
                 PROVE  Stored(stack[1].symtab[m].temp_dest, code', t, p)
      BY <2>4 DEF AllStored
    <3> DEFINE x == stack[1].symtab[m].temp_dest
    <3>1. x \in Nat /\ Stored(x, code, temp_c, p)
      BY <1>2, <1>3, <1>4, TablesTyped DEF AllStored
    <3>2. temp_c <= t
      BY <1>3
    <3> HIDE DEF x, p, t
    <3>3. Stored(x, code', t, p)
      BY <1>3, <2>3, <3>1, <3>2, KeptStored
    <3> QED
      BY <3>3 DEF x
  <2>11. NoneShared(stack')
    BY <1>2, <1>4, <2>4 DEF NoneShared
  <2>12. Params' = p
    BY <2>1 DEF Params
  <2> QED
    BY <2>1, <2>4, <2>5, <2>8, <2>9, <2>10, <2>11, <2>12 DEF SlotInv
<1>6. CASE FunctionBody
  <2>1. /\ Call(Frame("ir_scope", Top.node.body, 0))
        /\ UNCHANGED <<program, curr, code, temp_c>> /\ Params <= Len(stack[1].got)
    BY <1>2, <1>3, <1>6 DEF FunctionBody
  <2>2. Empty(Frame("ir_scope", Top.node.body, 0))
    BY FreshFrame
  <2>3. Kept(code, code')
    BY <1>3, <2>1, EmitsKept
  <2> QED
    BY <1>1, <2>1, <2>2, <2>3, SlotsAfterCall
<1>7. CASE EndFunction
  BY <1>7 DEF EndFunction, SlotInv
<1> QED
  BY <1>5, <1>6, <1>7 DEF FunctionStep

LEMMA ModuleStepSlots ==
  ASSUME TypeInv, TypeInv', SlotInv, ModuleStep
  PROVE  SlotInv'
<1>1. CASE GenDeclaration
  BY <1>1 DEF GenDeclaration, AtTopLevel, SlotInv
<1>2. CASE BeginFunction
  <2> DEFINE d == program[curr]
             f == Frame("ir_function_s", d, 0)
             n == Len(d.params)
  <2>1. temp_c' = n /\ stack' = <<f>> /\ UNCHANGED <<program, curr>>
    BY <1>2 DEF BeginFunction
  <2>2. IsFunction(d)
    <3>1. curr \in 1 .. Len(program) /\ d.kind = "AST_FUNCTION"
      BY <1>2, ProgramAssumption DEF BeginFunction, TypeInv, TypeOK
    <3> QED
      BY <3>1, ProgramAssumption DEF IsDeclaration, TypeInv, TypeOK
  <2>3. n \in Nat /\ d.params \in Seq(Name) /\ DOMAIN d.params = 1 .. n
    BY <2>2 DEF IsFunction
  <2>4. f.got = <<>> /\ f.symtab = ParamTab(d.params)
    BY DEF Frame
  <2>5. \A m \in DOMAIN f.symtab :
          f.symtab[m].temp_dest \in 1 .. n /\ d.params[f.symtab[m].temp_dest] = m
    <3> SUFFICES ASSUME NEW m \in DOMAIN f.symtab
                 PROVE  /\ f.symtab[m].temp_dest \in 1 .. n
                        /\ d.params[f.symtab[m].temp_dest] = m
      OBVIOUS
    <3> DEFINE c == CHOOSE i \in DOMAIN d.params : d.params[i] = m
    <3>1. \E i \in DOMAIN d.params : d.params[i] = m
      BY <2>4 DEF ParamTab
    <3>2. c \in DOMAIN d.params /\ d.params[c] = m
      BY <3>1
    <3>3. f.symtab[m] = VarInfo("AUTO_VAR", c)
      BY <2>4, UnsetIsAuto DEF ParamTab
    <3> HIDE DEF c, f
    <3>4. f.symtab[m].temp_dest = c
      BY <3>3 DEF VarInfo
    <3> QED
      BY <2>3, <3>2, <3>4
  <2> HIDE DEF f
  <2>6. Len(stack') = 1 /\ stack'[1] = f /\ Len(f.got) = 0
    BY <2>1, <2>4
  <2>7. Params' = n
    BY <2>1 DEF Params
  <2> HIDE DEF n
  <2>8. Counted(0, 1, n, n)
    BY <2>3 DEF Counted
  <2>9. \A i \in 1 .. n : ~ (i <= 0)
    BY <2>3
  <2>10. AllStored(stack', code', temp_c', n)
    BY <2>5, <2>6 DEF AllStored, Stored
  <2>11. NoneShared(stack')
    BY <2>5, <2>6 DEF NoneShared
  <2> QED
    BY <2>1, <2>6, <2>7, <2>8, <2>9, <2>10, <2>11 DEF SlotInv
<1>3. CASE GenDone
  BY <1>3 DEF GenDone, AtTopLevel, SlotInv
<1> QED
  BY <1>1, <1>2, <1>3 DEF ModuleStep

-----------------------------------------------------------------------------
(* The theorem                                                              *)

SlotsKept == ValueInv /\ SlotInv

LEMMA SlotsKeptAlways == Spec => []SlotsKept
<1>1. Init => SlotInv
  BY DEF Init, SlotInv
<1>2. ValueInv /\ ValueInv' /\ SlotInv /\ [Next]_vars => SlotInv'
  <2> SUFFICES ASSUME ValueInv, ValueInv', SlotInv, [Next]_vars PROVE SlotInv'
    OBVIOUS
  <2>1. TypeInv /\ TypeInv'
    BY DEF ValueInv
  <2>2. CASE UNCHANGED vars
    <3>1. UNCHANGED <<program, curr, stack, code, temp_c>>
      BY <2>2 DEF vars
    <3> QED
      BY <3>1 DEF SlotInv, Params
  <2>3. CASE Next
    BY <2>1, <2>3, ModuleStepSlots, FunctionStepSlots, ExprStepSlots, PlainStatementSlots,
       AutoSlots DEF Next
  <2> QED
    BY <2>2, <2>3
<1> QED
  BY <1>1, <1>2, ValuesKept, PTL DEF Spec, SlotsKept

\* The storage of a variable whose address temporary d has been written: slot
\* p + d of a parameter, d itself of an auto.
Home(d, p) == IF d \in 1 .. p THEN p + d ELSE d

LEMMA HomeOf ==
  ASSUME NEW c, NEW t \in Nat, NEW p \in Nat, NEW s \in Nat, NEW d \in Nat, d # 0,
         Sound(c, t, p, s), Stored(d, c, t, p),
         \A i \in 1 .. p : i <= s => Spilled(c, i, p),
         NEW w \in DOMAIN c, c[w].dest = d
  PROVE  /\ HasAlloc(c, Home(d, p))
         /\ (IF c[w].op = "OP_ADDRESS" THEN c[w].use[1] ELSE d) = Home(d, p)
<1>1. CASE d \in 1 .. p
  <2>1. Spilled(c, d, p)
    BY <1>1 DEF Sound
  <2>2. PICK j \in DOMAIN c : c[j].op = "OP_ADDRESS" /\ c[j].dest = d /\ c[j].use[1] = p + d
    BY <2>1 DEF Spilled
  <2>3. j = w
    BY <2>2 DEF Sound, UniqueDests
  <2> QED
    BY <1>1, <2>1, <2>2, <2>3 DEF Home, Spilled
<1>2. CASE d \notin 1 .. p
  <2>1. HasAlloc(c, d)
    BY <1>2 DEF Stored
  <2>2. PICK j \in DOMAIN c : c[j].op = "OP_ALLOC" /\ c[j].dest = d
    BY <2>1 DEF HasAlloc
  <2>3. j = w
    BY <2>2 DEF Sound, UniqueDests
  <2> QED
    BY <1>2, <2>1, <2>2, <2>3 DEF Home
<1> QED
  BY <1>1, <1>2

\* Different address temporaries, different storage.
LEMMA HomesDiffer ==
  ASSUME NEW c, NEW t, NEW p \in Nat, NEW d \in Nat, NEW e \in Nat, d # e, d # 0, e # 0,
         Stored(d, c, t, p), Stored(e, c, t, p)
  PROVE  Home(d, p) # Home(e, p)
  BY DEF Home, Stored

LEMMA SlotsServe ==
  ASSUME ValueInv, SlotInv
  PROVE  SlotsExclusive
<1> DEFINE p == Params
           s == Len(stack[1].got)
           Written(t) == {i \in DOMAIN code : code[i].dest = t}
           AllocOf(t) ==
             LET i == CHOOSE i \in Written(t) : TRUE IN
               IF code[i].op = "OP_ADDRESS" THEN code[i].use[1] ELSE t
<1>1. ASSUME NEW v \in LiveVars
      PROVE  /\ stack # <<>>
             /\ \E k \in 1 .. Len(stack) : \E m \in DOMAIN stack[k].symtab :
                  v = <<k, m>> /\ stack[k].symtab[m].temp_dest # 0
  <2>1. DOMAIN stack = 1 .. Len(stack) /\ Len(stack) \in Nat
    BY DEF ValueInv, TypeInv, TypeOK, StackOk
  <2>2. \E k \in DOMAIN stack : \E m \in DOMAIN stack[k].symtab :
          v = <<k, m>> /\ stack[k].symtab[m].temp_dest # 0
    BY DEF LiveVars
  <2> QED
    BY <2>1, <2>2
<1>2. ASSUME NEW v \in LiveVars
      PROVE  /\ SlotOf(v) \in Nat /\ SlotOf(v) # 0 /\ Stored(SlotOf(v), code, temp_c, p)
             /\ Written(SlotOf(v)) # {} =>
                  /\ HasAlloc(code, Home(SlotOf(v), p))
                  /\ AllocOf(SlotOf(v)) = Home(SlotOf(v), p)
  <2>0. PICK k \in 1 .. Len(stack) : \E m \in DOMAIN stack[k].symtab :
          v = <<k, m>> /\ stack[k].symtab[m].temp_dest # 0
    BY <1>1
  <2>1. PICK m \in DOMAIN stack[k].symtab :
          v = <<k, m>> /\ stack[k].symtab[m].temp_dest # 0
    BY <2>0
  <2>2. SlotOf(v) = stack[k].symtab[m].temp_dest
    BY <2>1 DEF SlotOf
  <2>3. SlotOf(v) \in Nat /\ SlotOf(v) # 0
    BY <2>1, <2>2, TablesTyped DEF ValueInv, TypeInv, TypeOK
  <2>4. /\ Stored(SlotOf(v), code, temp_c, p)
        /\ \A i \in 1 .. p : i <= s => Spilled(code, i, p)
    BY <1>1, <2>1, <2>2 DEF SlotInv, AllStored
  <2>5. Sound(code, temp_c, p, s) /\ p \in Nat /\ s \in Nat /\ temp_c \in Nat
    BY <1>1, ParamsOk, TopServed DEF ValueInv, TypeInv, TypeOK
  <2> DEFINE d == SlotOf(v)
  <2> HIDE DEF p, s, d
  <2>6. ASSUME Written(d) # {}
        PROVE  HasAlloc(code, Home(d, p)) /\ AllocOf(d) = Home(d, p)
    <3> DEFINE w == CHOOSE i \in Written(d) : TRUE
    <3>1. w \in DOMAIN code /\ code[w].dest = d
      BY <2>6
    <3> HIDE DEF w
    <3>2. /\ HasAlloc(code, Home(d, p))
          /\ (IF code[w].op = "OP_ADDRESS" THEN code[w].use[1] ELSE d) = Home(d, p)
      BY <2>3, <2>4, <2>5, <3>1, HomeOf DEF d
    <3> QED
      BY <3>2 DEF w
  <2> QED
    BY <2>3, <2>4, <2>6 DEF d
<1>3. ASSUME NEW v \in LiveVars, NEW w \in LiveVars, v # w
      PROVE  SlotOf(v) # SlotOf(w)
  <2>0. PICK k \in 1 .. Len(stack) : \E m \in DOMAIN stack[k].symtab :
          v = <<k, m>> /\ stack[k].symtab[m].temp_dest # 0
    BY <1>1
  <2>1. PICK m \in DOMAIN stack[k].symtab :
          v = <<k, m>> /\ stack[k].symtab[m].temp_dest # 0
    BY <2>0
  <2>20. PICK l \in 1 .. Len(stack) : \E n \in DOMAIN stack[l].symtab :
          w = <<l, n>> /\ stack[l].symtab[n].temp_dest # 0
    BY <1>1
  <2>2. PICK n \in DOMAIN stack[l].symtab :
          w = <<l, n>> /\ stack[l].symtab[n].temp_dest # 0
    BY <2>20
  <2>3. NoneShared(stack)
    BY <1>1 DEF SlotInv
  <2> QED
    BY <1>3, <2>1, <2>2, <2>3 DEF NoneShared, SlotOf
<1>4. ASSUME NEW v \in LiveVars, NEW w \in LiveVars, v # w,
             Written(SlotOf(v)) # {}, Written(SlotOf(w)) # {}
      PROVE  AllocOf(SlotOf(v)) # AllocOf(SlotOf(w))
  <2>1. p \in Nat
    BY <1>1, ParamsOk DEF ValueInv
  <2>2. /\ AllocOf(SlotOf(v)) = Home(SlotOf(v), p) /\ AllocOf(SlotOf(w)) = Home(SlotOf(w), p)
        /\ SlotOf(v) # SlotOf(w)
    BY <1>2, <1>3, <1>4
  <2> HIDE DEF p, AllocOf
  <2>3. Home(SlotOf(v), p) # Home(SlotOf(w), p)
    BY <1>2, <2>1, <2>2, HomesDiffer
  <2> QED
    BY <2>2, <2>3
<1>5. ASSUME NEW v \in LiveVars, Written(SlotOf(v)) # {}
      PROVE  \E i \in DOMAIN code : /\ code[i].op = "OP_ALLOC"
                                    /\ code[i].dest = AllocOf(SlotOf(v))
  <2>1. HasAlloc(code, Home(SlotOf(v), p)) /\ AllocOf(SlotOf(v)) = Home(SlotOf(v), p)
    BY <1>2, <1>5
  <2> QED
    BY <2>1 DEF HasAlloc
<1> QED
  BY <1>3, <1>4, <1>5 DEF SlotsExclusive

\* For every program the parser can build, the variables alive at any time,
\* shadowed ones and the parameters included, have storage of their own: what
\* ir_auto_s and the parameter loop hand out is never handed out twice.
THEOREM SlotsHold == Spec => []SlotsExclusive
<1>1. SlotsKept => SlotsExclusive
  BY SlotsServe DEF SlotsKept
<1> QED
  BY <1>1, SlotsKeptAlways, PTL

-----------------------------------------------------------------------------
(* Frames                                                                   *)

\* Finitely many naturals have a greatest one.
LEMMA LargestOf ==
  ASSUME NEW n \in Nat, NEW K, K \subseteq 1 .. n, NEW b \in Nat,
         NEW f, \A k \in K : f[k] \in Nat
  PROVE  \E m \in Nat : /\ m = b \/ \E k \in K : m = f[k]
                        /\ b <= m
                        /\ \A k \in K : f[k] <= m
<1> DEFINE HasMax(i) ==
             \E m \in Nat : /\ m = b \/ \E k \in K : k < i /\ m = f[k]
                            /\ b <= m
                            /\ \A k \in K : k < i => f[k] <= m
           Good == {i \in 1 .. n + 1 : HasMax(i)}
<1>1. \A k \in K : k \in Int /\ 1 <= k /\ k <= n
  OBVIOUS
<1>2. HasMax(1)
  <2>1. \A k \in K : ~ (k < 1)
    BY <1>1
  <2> QED
    BY <2>1
<1>3. ASSUME NEW i \in 1 .. n, HasMax(i) PROVE HasMax(i + 1)
  <2>1. PICK m \in Nat : /\ m = b \/ \E k \in K : k < i /\ m = f[k]
                         /\ b <= m
                         /\ \A k \in K : k < i => f[k] <= m
    BY <1>3
  <2>2. \A k \in K : k < i + 1 <=> k < i \/ k = i
    BY <1>1
  <2>3. CASE i \in K /\ ~ (f[i] <= m)
    <3>1. f[i] \in Nat
      BY <2>3
    <3>2. b <= f[i]
      BY <2>1, <2>3, <3>1
    <3>3. \A k \in K : k < i + 1 => f[k] <= f[i]
      BY <2>1, <2>2, <2>3, <3>1
    <3> QED
      BY <2>2, <2>3, <3>1, <3>2, <3>3
  <2>4. CASE i \in K => f[i] <= m
    <3>1. \A k \in K : k < i + 1 => f[k] <= m
      BY <2>1, <2>2, <2>4
    <3>2. m = b \/ \E k \in K : k < i + 1 /\ m = f[k]
      BY <2>1, <2>2
    <3> QED
      BY <2>1, <3>1, <3>2
  <2> QED
    BY <2>3, <2>4
<1> HIDE DEF HasMax
<1>4. PICK g \in Good : \A j \in Good : j <= g
  <2>1. Good \subseteq 1 .. n + 1
    OBVIOUS
  <2>2. Good # {}
    BY <1>2
  <2> HIDE DEF Good
  <2>3. n + 1 \in Nat
    OBVIOUS
  <2> QED
    BY <2>1, <2>2, <2>3, GreatestExists
<1>5. g = n + 1
  <2>1. ASSUME g # n + 1 PROVE FALSE
    <3>1. g \in 1 .. n /\ HasMax(g)
      BY <2>1
    <3>2. HasMax(g + 1)
      BY <3>1, <1>3
    <3>3. g + 1 \in Good
      BY <3>1, <3>2
    <3> QED
      BY <1>4, <3>1, <3>3
  <2> QED
    BY <2>1
<1>6. HasMax(n + 1)
  BY <1>5
<1>7. PICK m \in Nat : /\ m = b \/ \E k \in K : k < n + 1 /\ m = f[k]
                       /\ b <= m
                       /\ \A k \in K : k < n + 1 => f[k] <= m
  BY <1>6 DEF HasMax
<1>8. \A k \in K : f[k] <= m
  BY <1>1, <1>7
<1> QED
  BY <1>7, <1>8

-----------------------------------------------------------------------------
\* What the back end relies on of a function: its nodes are IR nodes.
IsFn(fn) == fn.size \in Nat /\ fn.nodes \in Seq(NodeSet)

\* No temporary is above max_t, whose value is one of them or the number of
\* parameters.
LEMMA MaxTempBounds ==
  ASSUME NEW fn, IsFn(fn)
  PROVE  /\ Asm!MaxTemp(fn) \in Nat
         /\ \A t \in Temporaries(fn) : t \in Int /\ 1 <= t /\ t <= Asm!MaxTemp(fn)
<1> DEFINE c == fn.nodes
           K == {j \in DOMAIN c : Asm!Writes(c[j])}
           f == [k \in K |-> c[k].dest]
           S == {fn.size} \cup {f[k] : k \in K}
<1>1. Len(c) \in Nat /\ DOMAIN c = 1 .. Len(c) /\ \A k \in 1 .. Len(c) : c[k] \in NodeSet
  BY DEF IsFn
<1>2. K \subseteq 1 .. Len(c)
  BY <1>1
<1>3. \A k \in K : f[k] = c[k].dest /\ f[k] \in Nat
  BY <1>1, <1>2 DEF NodeSet
<1>4. fn.size \in Nat
  BY DEF IsFn
<1>5. {f[k] : k \in K} = {c[k].dest : k \in K}
  BY <1>3
<1>6. \E m \in S : \A x \in S : x <= m
  <2>1. PICK m \in Nat : /\ m = fn.size \/ \E k \in K : m = f[k]
                         /\ fn.size <= m
                         /\ \A k \in K : f[k] <= m
    <3>1. \A k \in K : f[k] \in Nat
      BY <1>3
    <3>2. Len(c) \in Nat
      BY <1>1
    <3> HIDE DEF c, K, f
    <3> QED
      BY <3>1, <3>2, <1>2, <1>4, LargestOf
  <2>2. m \in S
    BY <2>1
  <2>3. \A x \in S : x <= m
    BY <2>1
  <2> QED
    BY <2>2, <2>3
<1>7. Asm!MaxTemp(fn) = CHOOSE m \in S : \A x \in S : x <= m
  BY <1>5 DEF Asm!MaxTemp, Asm!MaxOf, Asm!Params
<1>8. Asm!MaxTemp(fn) \in S /\ \A x \in S : x <= Asm!MaxTemp(fn)
  <2> HIDE DEF S
  <2> QED
    BY <1>6, <1>7
<1>9. \A x \in S : x \in Nat
  BY <1>3, <1>4
<1>10. \A t \in Temporaries(fn) : t \in Int /\ 1 <= t /\ \E x \in S : t <= x
  <2>1. Temporaries(fn) = (1 .. fn.size) \cup ({c[k].dest : k \in K} \ {0})
    BY DEF Temporaries
  <2> TAKE t \in Temporaries(fn)
  <2>2. CASE t \in 1 .. fn.size
    <3>1. fn.size \in S /\ t <= fn.size /\ t \in Int /\ 1 <= t
      BY <2>2, <1>4
    <3> QED
      BY <3>1
  <2>3. CASE t \in {c[k].dest : k \in K} \ {0}
    <3>1. t \in {c[k].dest : k \in K}
      BY <2>3
    <3>2. t \in S /\ t # 0
      BY <2>3, <3>1, <1>5
    <3>3. t \in Nat
      BY <3>2, <1>9
    <3>4. t <= t /\ 1 <= t /\ t \in Int
      BY <3>2, <3>3
    <3> QED
      BY <3>2, <3>4
  <2> QED
    BY <2>1, <2>2, <2>3
<1> HIDE DEF S
<1> QED
  BY <1>8, <1>9, <1>10

-----------------------------------------------------------------------------
\* The instance's Cardinality is that of FiniteSets.
LEMMA SameCardinality == \A S : Asm!Cardinality(S) = Cardinality(S)
BY DEF Asm!Cardinality, Cardinality

\* alloc_i counts the allocs from 1 to n_alloc and never repeats.
LEMMA AllocsCounted ==
  ASSUME NEW fn, IsFn(fn)
  PROVE  /\ Asm!NAlloc(fn) \in Nat
         /\ \A k \in Allocs(fn) : /\ Asm!AllocIndex(fn, k) \in Int
                                 /\ 1 <= Asm!AllocIndex(fn, k)
                                 /\ Asm!AllocIndex(fn, k) <= Asm!NAlloc(fn)
         /\ \A j, k \in Allocs(fn) : j < k => Asm!AllocIndex(fn, j) < Asm!AllocIndex(fn, k)
<1> DEFINE U(k) == Asm!AllocsUpTo(fn, k)
           n == Len(fn.nodes)
<1>1. n \in Nat /\ DOMAIN fn.nodes = 1 .. n
  BY DEF IsFn
<1>2. \A k \in Int : IsFiniteSet(U(k)) /\ Cardinality(U(k)) \in Nat
  <2> TAKE k \in Int
  <2>1. IsFiniteSet(1 .. k)
    BY FS_Interval
  <2>2. U(k) \in SUBSET (1 .. k)
    BY DEF Asm!AllocsUpTo
  <2>3. IsFiniteSet(U(k))
    BY <2>1, <2>2, FS_Subset
  <2> QED
    BY <2>3, FS_CardinalityType
<1>3. \A j, k \in Int : j <= k => Cardinality(U(j)) <= Cardinality(U(k))
  <2> SUFFICES ASSUME NEW j \in Int, NEW k \in Int, j <= k
               PROVE  Cardinality(U(j)) <= Cardinality(U(k))
    OBVIOUS
  <2>1. \A i \in 1 .. j : i \in 1 .. k
    OBVIOUS
  <2>2. U(j) \in SUBSET U(k)
    BY <2>1 DEF Asm!AllocsUpTo
  <2> HIDE DEF U
  <2> QED
    BY <2>2, <1>2, FS_Subset
<1>4. \A k \in Allocs(fn) : k \in Int /\ 1 <= k /\ k <= n
  BY <1>1 DEF Allocs
<1>5. \A k \in Allocs(fn) : Asm!AllocIndex(fn, k) = Cardinality(U(k))
  <2> TAKE k \in Allocs(fn)
  <2>1. k \in Int /\ k - 1 \in Int /\ Asm!IsAlloc(fn.nodes[k])
    BY <1>4 DEF Allocs
  <2>2. \A i : i \in 1 .. k <=> i \in 1 .. (k - 1) \/ i = k
    BY <1>4
  <2>3. U(k) = U(k - 1) \cup {k}
    BY <2>1, <2>2 DEF Asm!AllocsUpTo
  <2>4. k \notin U(k - 1)
    BY <2>1 DEF Asm!AllocsUpTo
  <2>5. Asm!AllocIndex(fn, k) = Cardinality(U(k - 1)) + 1
    BY SameCardinality DEF Asm!AllocIndex
  <2> HIDE DEF U
  <2> QED
    BY <2>1, <2>3, <2>4, <2>5, <1>2, FS_AddElement
<1>6. Asm!NAlloc(fn) = Cardinality(U(n))
  BY SameCardinality DEF Asm!NAlloc
<1>7. \A k \in Allocs(fn) : 1 <= Asm!AllocIndex(fn, k)
  <2> TAKE k \in Allocs(fn)
  <2>1. Asm!AllocIndex(fn, k) = Cardinality(U(k - 1)) + 1 /\ k - 1 \in Int
    BY <1>4, SameCardinality DEF Asm!AllocIndex
  <2> HIDE DEF U
  <2> QED
    BY <2>1, <1>2
<1>8. \A j, k \in Allocs(fn) : j < k => Asm!AllocIndex(fn, j) < Asm!AllocIndex(fn, k)
  <2> SUFFICES ASSUME NEW j \in Allocs(fn), NEW k \in Allocs(fn), j < k
               PROVE  Asm!AllocIndex(fn, j) < Asm!AllocIndex(fn, k)
    OBVIOUS
  <2>1. Asm!AllocIndex(fn, k) = Cardinality(U(k - 1)) + 1
    BY SameCardinality DEF Asm!AllocIndex
  <2>2. j \in Int /\ k - 1 \in Int /\ j <= k - 1
    BY <1>4
  <2> HIDE DEF U
  <2> QED
    BY <2>1, <2>2, <1>2, <1>3, <1>5
<1> HIDE DEF U, n
<1> QED
  BY <1>1, <1>2, <1>3, <1>4, <1>5, <1>6, <1>7, <1>8

\* The rounding leaves an even number of words, enough for n of them.
LEMMA FrameRounded ==
  ASSUME NEW n \in Nat
  PROVE  /\ Asm!RoundUp16(8 * n) % 16 = 0
         /\ Asm!RoundUp16(8 * n) \div 8 \in Nat
         /\ n <= Asm!RoundUp16(8 * n) \div 8
<1> DEFINE q == (8 * n + 15) \div 16
<1>1. q \in Nat /\ 8 * n <= 16 * q
  OBVIOUS
<1>2. Asm!RoundUp16(8 * n) = 16 * q
  BY DEF Asm!RoundUp16
<1> HIDE DEF q
<1>3. (16 * q) % 16 = 0 /\ (16 * q) \div 8 = 2 * q
  BY <1>1
<1> QED
  BY <1>1, <1>2, <1>3

\* The pad makes the words pushed for the stack arguments even.
LEMMA StackEven ==
  ASSUME NEW n \in Nat
  PROVE  (Asm!StackArgs(n) + Asm!Pad(n)) % 2 = 0
BY DEF Asm!StackArgs, Asm!Pad, Asm!N_ARG_REGS

-----------------------------------------------------------------------------
\* One function.
LEMMA EveryFrameApart ==
  ASSUME NEW fn, IsFn(fn)
  PROVE  FrameApart(fn)
<1> DEFINE mx == Asm!MaxTemp(fn)
           na == Asm!NAlloc(fn)
           w  == Asm!RoundUp16(8 * (mx + na)) \div 8
<1>1. mx \in Nat /\ na \in Nat /\ mx + na \in Nat
  BY MaxTempBounds, AllocsCounted
<1>2. Asm!FrameSize(fn) % 16 = 0 /\ w \in Nat /\ mx + na <= w
  <2> HIDE DEF mx, na
  <2>1. Asm!FrameSize(fn) = Asm!RoundUp16(8 * (mx + na))
    BY DEF Asm!FrameSize, mx, na
  <2> QED
    BY <2>1, <1>1, FrameRounded
<1>3. FrameWords(fn) = 1 .. w
  BY DEF FrameWords, Asm!FrameSize
<1> HIDE DEF w
<1>4. Temporaries(fn) \subseteq FrameWords(fn)
  <2> SUFFICES ASSUME NEW t \in Temporaries(fn)
               PROVE  t \in FrameWords(fn)
    OBVIOUS
  <2>1. t \in Int /\ 1 <= t /\ t <= mx
    BY MaxTempBounds
  <2> HIDE DEF mx, na
  <2> QED
    BY <2>1, <1>1, <1>2, <1>3
<1>5. \A k \in Allocs(fn) : AllocWord(fn, k) \in FrameWords(fn) \ Temporaries(fn)
  <2> TAKE k \in Allocs(fn)
  <2> DEFINE i == Asm!AllocIndex(fn, k)
  <2>1. i \in Int /\ 1 <= i /\ i <= na
    BY AllocsCounted
  <2>2. AllocWord(fn, k) = mx + i
    BY DEF AllocWord
  <2>3. \A t \in Temporaries(fn) : t \in Int /\ t <= mx
    BY MaxTempBounds
  <2> HIDE DEF mx, na, i
  <2>4. mx + i \in 1 .. w
    BY <2>1, <1>1, <1>2
  <2>5. mx + i \notin Temporaries(fn)
    BY <2>1, <2>3, <1>1
  <2> QED
    BY <2>2, <2>4, <2>5, <1>3
<1>6. \A j, k \in Allocs(fn) : AllocWord(fn, j) = AllocWord(fn, k) => j = k
  <2> SUFFICES ASSUME NEW j \in Allocs(fn), NEW k \in Allocs(fn),
                      AllocWord(fn, j) = AllocWord(fn, k)
               PROVE  j = k
    OBVIOUS
  <2>1. Asm!AllocIndex(fn, j) \in Int /\ Asm!AllocIndex(fn, k) \in Int
    BY AllocsCounted
  <2>2. mx + Asm!AllocIndex(fn, j) = mx + Asm!AllocIndex(fn, k)
    BY DEF AllocWord
  <2>3. Asm!AllocIndex(fn, j) = Asm!AllocIndex(fn, k)
    <3> HIDE DEF mx
    <3> QED
      BY <2>1, <2>2, <1>1
  <2>4. ~ (j < k) /\ ~ (k < j)
    BY <2>1, <2>3, AllocsCounted
  <2>5. j \in Int /\ k \in Int
    BY DEF Allocs, IsFn
  <2> QED
    BY <2>4, <2>5
<1>7. ASSUME NEW k \in DOMAIN fn.nodes
      PROVE  (Asm!StackArgs(Len(fn.nodes[k].use)) + Asm!Pad(Len(fn.nodes[k].use))) % 2 = 0
  <2>1. fn.nodes[k] \in NodeSet
    BY DEF IsFn
  <2> DEFINE u == fn.nodes[k].use
  <2>2. u \in Seq(Nat)
    BY <2>1 DEF NodeSet
  <2> HIDE DEF u
  <2>3. Len(u) \in Nat
    BY <2>2
  <2> USE DEF u
  <2> QED
    BY <2>3, StackEven
<1> QED
  BY <1>2, <1>4, <1>5, <1>6, <1>7 DEF FrameApart

\* In every function gen_ir makes, whatever the program, each temporary and
\* each auto has a word of its own inside the 16-byte-aligned frame that
\* asm_function lays out, and no call is made with rsp misaligned.
THEOREM FramesHold == Spec => []FramesApart
<1>1. TypeOK => FramesApart
  <2> SUFFICES ASSUME TypeOK, NEW fn \in FunctionsDone
               PROVE  FrameApart(fn)
    BY DEF FramesApart, FrameApart
  <2>1. PICK i \in DOMAIN module : fn = module[i]
    BY DEF FunctionsDone
  <2>2. module \in Seq(ModuleNodeSet)
    BY DEF TypeOK
  <2>3. fn \in ModuleNodeSet
    BY <2>1, <2>2
  <2>4. IsFn(fn)
    BY <2>3 DEF ModuleNodeSet, IsFn
  <2> QED
    BY <2>4, EveryFrameApart
<1> QED
  BY <1>1, TypeCorrect, PTL
=============================================================================
