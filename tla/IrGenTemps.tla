---------------------------- MODULE IrGenTemps ----------------------------
(***************************************************************************)
(* What the temporaries of the IR generator hold, for every program: the    *)
(* proofs of DefBeforeUse and SingleAssignment.                             *)
(***************************************************************************)
EXTENDS IrGenProofs

\* Temporary t has a value after the nodes of c, in a function of p parameters.
Avail(c, t, p) == t \in 1 .. p \/ (t # 0 /\ \E k \in DOMAIN c : c[k].dest = t)

UsesIn(c, a, p) == \A j \in DOMAIN a.use : Avail(c, a.use[j], p)

\* The code c of a function with p parameters, s of them spilled, when the
\* counter of temporaries is t.
Sound(c, t, p, s) ==
  /\ UniqueDests(c) /\ UsesOk(c, p)
  /\ p <= t
  /\ \A k \in DOMAIN c : c[k].dest <= t /\ (c[k].dest \in 1 .. p => c[k].dest <= s)

\* The C function whose result frame f reads as the outcome of its i-th call.
Demand(f, i) ==
  CASE f.fn \in ExprFn \cup {"ir_return_s"} ->
         IF i \in 1 .. Len(Operands(f)) THEN Operands(f)[i].fn ELSE "none"
    [] \/ f.fn = "ir_if_chain_s" /\ f.node.kind # "AST_ELSE"
       \/ f.fn = "ir_while_s" -> IF i = 1 THEN "ir_expr_f" ELSE "none"
    [] OTHER -> "none"

\* Result r is what a caller expects of C function fn: a temporary with a
\* value, or an lvalue whose address, if it has one, is such a temporary.
Delivers(r, fn, c, p) ==
  /\ fn = "ir_expr_f" => Avail(c, r.temp, p)
  /\ fn = "ir_lvalue" => r.kind = "LV_GLOBAL" \/ Avail(c, r.temp, p)

\* All frame f holds, the results and the storage of its variables, is available.
FrameServed(f, c, p) ==
  /\ \A i \in 1 .. Len(f.got) : Delivers(f.got[i], Demand(f, i), c, p)
  /\ \A m \in DOMAIN f.symtab :
       f.symtab[m].temp_dest # 0 => Avail(c, f.symtab[m].temp_dest, p)

\* Each activation is the one its caller waits for.
Awaited ==
  \A k \in 1 .. Len(stack) - 1 :
    Demand(stack[k], Len(stack[k].got) + 1) \in {"none", stack[k + 1].fn}

TempInv ==
  stack # <<>> =>
    /\ Sound(code, temp_c, Params, Len(stack[1].got))
    /\ \A k \in 1 .. Len(stack) : FrameServed(stack[k], code, Params)
    /\ Awaited

ModuleInv ==
  \A m \in FunctionsDone : UsesOk(m.nodes, m.size) /\ UniqueDests(m.nodes)

ValueInv == TypeInv /\ TempInv /\ ModuleInv

-----------------------------------------------------------------------------
(* Emitting nodes                                                           *)

\* One more node, which reads available temporaries and writes none or an
\* unwritten one.
LEMMA SoundAppend ==
  ASSUME NEW c \in Seq(NodeSet), NEW a \in NodeSet,
         NEW t \in Nat, NEW u \in Nat, NEW p \in Nat, NEW s \in Nat, NEW v \in Nat,
         Sound(c, t, p, s), UsesIn(c, a, p), t <= u, s <= v,
         \/ a.dest = 0
         \/ a.dest = s + 1 /\ s + 1 <= p /\ v = s + 1
         \/ a.dest = t + 1 /\ u = t + 1
  PROVE  /\ Append(c, a) \in Seq(NodeSet)
         /\ Sound(Append(c, a), u, p, v)
         /\ \A x : Avail(c, x, p) => Avail(Append(c, a), x, p)
         /\ a.dest # 0 => Avail(Append(c, a), a.dest, p)
<1> DEFINE d == Append(c, a)
           n == Len(c)
<1>1. /\ d \in Seq(NodeSet) /\ n \in Nat /\ DOMAIN c = 1 .. n /\ DOMAIN d = 1 .. n + 1
      /\ d[n + 1] = a /\ \A k \in 1 .. n : d[k] = c[k]
  OBVIOUS
<1>2. a.dest \in Nat /\ \A k \in 1 .. n : c[k].dest \in Nat
  <2>1. \A k \in 1 .. n : c[k] \in NodeSet
    BY <1>1
  <2> QED
    BY <2>1 DEF NodeSet
<1> HIDE DEF d, n
<1>3. UniqueDests(d)
  <2> SUFFICES ASSUME NEW i \in DOMAIN d, NEW j \in DOMAIN d, d[i].dest = d[j].dest,
                      d[i].dest # 0
               PROVE  i = j
    BY DEF UniqueDests
  <2>1. CASE i \in 1 .. n /\ j \in 1 .. n
    BY <1>1, <2>1 DEF Sound, UniqueDests
  <2>2. CASE i = n + 1 /\ j \in 1 .. n
    BY <1>1, <1>2, <2>2 DEF Sound
  <2>3. CASE j = n + 1 /\ i \in 1 .. n
    BY <1>1, <1>2, <2>3 DEF Sound
  <2> QED
    BY <1>1, <2>1, <2>2, <2>3
<1>4. UsesOk(d, p)
  <2> SUFFICES ASSUME NEW i \in DOMAIN d, NEW j \in DOMAIN d[i].use
               PROVE  \/ d[i].use[j] \in 1 .. p
                      \/ \E k \in 1 .. i - 1 : d[k].dest = d[i].use[j] /\ d[k].dest # 0
    BY DEF UsesOk
  <2>1. CASE i \in 1 .. n
    <3>1. \/ c[i].use[j] \in 1 .. p
          \/ \E k \in 1 .. i - 1 : c[k].dest = c[i].use[j] /\ c[k].dest # 0
      BY <1>1, <2>1 DEF Sound, UsesOk
    <3>2. \A k \in 1 .. i - 1 : d[k] = c[k]
      BY <1>1, <2>1
    <3> QED
      BY <1>1, <2>1, <3>1, <3>2
  <2>2. CASE i = n + 1
    <3>1. Avail(c, a.use[j], p)
      BY <1>1, <2>2 DEF UsesIn
    <3> QED
      BY <1>1, <2>2, <3>1 DEF Avail
  <2> QED
    BY <1>1, <2>1, <2>2
<1>5. \A k \in DOMAIN d : d[k].dest <= u /\ (d[k].dest \in 1 .. p => d[k].dest <= v)
  <2> SUFFICES ASSUME NEW k \in DOMAIN d
               PROVE  d[k].dest <= u /\ (d[k].dest \in 1 .. p => d[k].dest <= v)
    OBVIOUS
  <2>1. CASE k \in 1 .. n
    BY <1>1, <1>2, <2>1 DEF Sound
  <2>2. CASE k = n + 1
    BY <1>1, <1>2, <2>2 DEF Sound
  <2> QED
    BY <1>1, <2>1, <2>2
<1>6. Sound(d, u, p, v)
  BY <1>3, <1>4, <1>5 DEF Sound
<1>7. \A x : Avail(c, x, p) => Avail(d, x, p)
  BY <1>1 DEF Avail
<1>8. a.dest # 0 => Avail(d, a.dest, p)
  BY <1>1 DEF Avail
<1> QED
  BY <1>1, <1>6, <1>7, <1>8 DEF d


\* The two usual cases: the node writes the next temporary, or none.
LEMMA SoundNext ==
  ASSUME NEW c \in Seq(NodeSet), NEW a \in NodeSet, NEW t \in Nat, NEW p \in Nat, NEW s \in Nat,
         Sound(c, t, p, s), UsesIn(c, a, p), a.dest = t + 1
  PROVE  /\ Append(c, a) \in Seq(NodeSet)
         /\ Sound(Append(c, a), t + 1, p, s)
         /\ \A x : Avail(c, x, p) => Avail(Append(c, a), x, p)
         /\ Avail(Append(c, a), t + 1, p)
<1>1. t + 1 \in Nat /\ t <= t + 1 /\ s <= s /\ a.dest # 0
  OBVIOUS
<1> QED
  BY <1>1, SoundAppend

LEMMA SoundStore ==
  ASSUME NEW c \in Seq(NodeSet), NEW a \in NodeSet, NEW t \in Nat, NEW p \in Nat, NEW s \in Nat,
         Sound(c, t, p, s), UsesIn(c, a, p), a.dest = 0
  PROVE  /\ Append(c, a) \in Seq(NodeSet)
         /\ Sound(Append(c, a), t, p, s)
         /\ \A x : Avail(c, x, p) => Avail(Append(c, a), x, p)
<1>1. t <= t /\ s <= s
  OBVIOUS
<1> QED
  BY <1>1, SoundAppend

-----------------------------------------------------------------------------
(* Frames                                                                   *)

LEMMA DemandStays ==
  ASSUME NEW f, NEW g, SameCall(g, f) \/ (g.fn = f.fn /\ g.node = f.node)
  PROVE  \A i : Demand(g, i) = Demand(f, i)
  BY DEF SameCall, Demand, Operands

\* More code serves a frame at least as well.
LEMMA ServedByMore ==
  ASSUME NEW f, NEW c, NEW d, NEW p, FrameServed(f, c, p),
         \A x : Avail(c, x, p) => Avail(d, x, p)
  PROVE  FrameServed(f, d, p)
  BY DEF FrameServed, Delivers

LEMMA NewFrameServed ==
  ASSUME NEW fn, NEW n, NEW end, NEW c, NEW p, fn # "ir_function_s"
  PROVE  FrameServed(Frame(fn, n, end), c, p)
<1> DEFINE f == Frame(fn, n, end)
<1>1. f.got = <<>>
  BY DEF Frame
<1>2. ASSUME NEW m \in DOMAIN f.symtab PROVE f.symtab[m].temp_dest = 0
  <2>1. CASE fn = "ir_scope"
    BY <1>2, <2>1 DEF Frame, ScopeTab, VarInfo
  <2>2. CASE fn # "ir_scope"
    BY <1>2, <2>2 DEF Frame, NoTab
  <2> QED
    BY <2>1, <2>2
<1> HIDE DEF f
<1>3. FrameServed(f, c, p)
  BY <1>1, <1>2 DEF FrameServed
<1> QED
  BY <1>3 DEF f

\* A handler that returns r after emitting sound code.
LEMMA ValueAfterReturn ==
  ASSUME ValueInv, stack # <<>>, Top.fn # "ir_function_s", TypeInv',
         UNCHANGED <<program, curr>>, ModuleInv',
         NEW r \in ResultSet, Return(r),
         Sound(code', temp_c', Params, Len(stack[1].got)),
         \A x : Avail(code, x, Params) => Avail(code', x, Params),
         Delivers(r, Top.fn, code', Params)
  PROVE  ValueInv'
<1> DEFINE n == Len(stack) - 1
<1>1. Len(stack) > 1 /\ Len(stack) \in Nat /\ n \in 1 .. n /\ n + 1 = Len(stack)
  BY DEF ValueInv, TypeInv, TypeOK, StackOk, Nesting, Top
<1>2. /\ Len(stack') = n
      /\ \A k \in 1 .. n - 1 : stack'[k] = stack[k]
      /\ SameCall(stack'[n], stack[n])
      /\ stack'[n].got = Append(stack[n].got, r)
  BY <1>1, ReturnShape DEF ValueInv, TypeInv, TypeOK
<1>3. Params' = Params
  BY DEF Params
<1>4. \A k \in 1 .. n : FrameServed(stack[k], code', Params)
  BY <1>1, ServedByMore DEF ValueInv, TempInv
<1>5. stack[n].got \in Seq(ResultSet) /\ stack[1].got \in Seq(ResultSet)
  <2>1. FrameOk(stack[n]) /\ FrameOk(stack[1])
    BY <1>1 DEF ValueInv, TypeInv, TypeOK, StackOk
  <2> QED
    BY <2>1 DEF FrameOk
<1> HIDE DEF n
<1>6. /\ Len(stack'[n].got) = Len(stack[n].got) + 1
      /\ stack'[n].got[Len(stack[n].got) + 1] = r
      /\ \A i \in 1 .. Len(stack[n].got) : stack'[n].got[i] = stack[n].got[i]
  BY <1>2, <1>5
<1>7. \A k \in 1 .. n : \A i : Demand(stack'[k], i) = Demand(stack[k], i)
  BY <1>1, <1>2, DemandStays
<1>8. Delivers(r, Demand(stack[n], Len(stack[n].got) + 1), code', Params)
  <2>1. Demand(stack[n], Len(stack[n].got) + 1) \in {"none", Top.fn}
    BY <1>1 DEF ValueInv, TempInv, Awaited, Top, n
  <2> QED
    BY <2>1 DEF Delivers
<1>9. FrameServed(stack'[n], code', Params)
  BY <1>1, <1>2, <1>4, <1>5, <1>6, <1>7, <1>8 DEF FrameServed, SameCall
<1>10. \A k \in 1 .. n : FrameServed(stack'[k], code', Params)
  BY <1>1, <1>2, <1>4, <1>9
<1>11. Awaited'
  <2> SUFFICES ASSUME NEW k \in 1 .. n - 1
               PROVE  Demand(stack'[k], Len(stack'[k].got) + 1) \in {"none", stack'[k + 1].fn}
    BY <1>2 DEF Awaited
  <2>1. Demand(stack[k], Len(stack[k].got) + 1) \in {"none", stack[k + 1].fn}
    BY <1>1 DEF ValueInv, TempInv, Awaited
  <2>2. stack'[k] = stack[k] /\ stack'[k + 1].fn = stack[k + 1].fn
    BY <1>1, <1>2 DEF SameCall
  <2> QED
    BY <2>1, <2>2
<1>12. Sound(code', temp_c', Params, Len(stack'[1].got))
  <2>0. Len(stack[1].got) \in Nat
    BY <1>5
  <2>1. Len(stack[1].got) <= Len(stack'[1].got)
    <3>1. CASE n = 1
      BY <1>6, <2>0, <3>1
    <3>2. CASE n # 1
      <4>1. 1 \in 1 .. n - 1
        BY <1>1, <3>2
      <4>2. stack'[1] = stack[1]
        BY <1>2, <4>1
      <4> QED
        BY <2>0, <4>2
    <3> QED
      BY <3>1, <3>2
  <2>2. Len(stack[1].got) \in Nat /\ Len(stack'[1].got) \in Nat
    BY <1>1, <1>2, <1>5, <1>6
  <2>3. code' \in Seq(NodeSet)
    BY DEF TypeInv, TypeOK
  <2>4. \A k \in DOMAIN code' : code'[k].dest \in Nat
    <3>1. \A k \in DOMAIN code' : code'[k] \in NodeSet
      BY <2>3
    <3> QED
      BY <3>1 DEF NodeSet
  <2> QED
    BY <2>1, <2>2, <2>4 DEF Sound
<1>13. TempInv'
  BY <1>2, <1>3, <1>10, <1>11, <1>12 DEF TempInv
<1> QED
  BY <1>13 DEF ValueInv

\* A handler that calls another after emitting sound code.
LEMMA ValueAfterCall ==
  ASSUME ValueInv, stack # <<>>, TypeInv',
         UNCHANGED <<program, curr, module, temp_c>>,
         NEW f, FrameOk(f), FrameServed(f, code', Params),
         Call(f) \/ \E l \in Nat : CallFrom(l, f),
         Sound(code', temp_c, Params, Len(stack[1].got)),
         \A x : Avail(code, x, Params) => Avail(code', x, Params),
         Demand(Top, Len(Top.got) + 1) \in {"none", f.fn}
  PROVE  ValueInv'
<1> DEFINE n == Len(stack)
<1>1. n \in Nat /\ n \in 1 .. n /\ StackOk
  BY DEF ValueInv, TypeInv, TypeOK, StackOk
<1>2. /\ Len(stack') = n + 1
      /\ \A k \in 1 .. n : SameCall(stack'[k], stack[k]) /\ stack'[k].got = stack[k].got
      /\ stack'[n + 1] = f
  <2>1. CASE Call(f)
    BY <1>1, <2>1, CallShape DEF SameCall
  <2>2. CASE \E l \in Nat : CallFrom(l, f)
    BY <1>1, <2>2, CallFromShape
  <2> QED
    BY <2>1, <2>2
<1>3. Params' = Params
  BY DEF Params
<1>4. \A k \in 1 .. n : FrameServed(stack[k], code', Params)
  BY <1>1, ServedByMore DEF ValueInv, TempInv
<1>5. n = Len(stack)
  OBVIOUS
<1> HIDE DEF n
<1>6. \A k \in 1 .. n : \A i : Demand(stack'[k], i) = Demand(stack[k], i)
  BY <1>1, <1>2, DemandStays
<1>7. \A k \in 1 .. n : FrameServed(stack'[k], code', Params)
  BY <1>2, <1>4, <1>6 DEF FrameServed, SameCall
<1>8. \A k \in 1 .. n + 1 : FrameServed(stack'[k], code', Params)
  BY <1>1, <1>2, <1>7
<1>9. Awaited'
  <2> SUFFICES ASSUME NEW k \in 1 .. n
               PROVE  Demand(stack'[k], Len(stack'[k].got) + 1) \in {"none", stack'[k + 1].fn}
    BY <1>1, <1>2 DEF Awaited
  <2>1. Demand(stack'[k], Len(stack'[k].got) + 1) = Demand(stack[k], Len(stack[k].got) + 1)
    BY <1>2, <1>6
  <2>2. CASE k = n
    BY <1>2, <1>5, <2>1, <2>2 DEF Top
  <2>3. CASE k \in 1 .. n - 1
    <3>1. Demand(stack[k], Len(stack[k].got) + 1) \in {"none", stack[k + 1].fn}
      BY <1>5, <2>3 DEF ValueInv, TempInv, Awaited
    <3>2. stack'[k + 1].fn = stack[k + 1].fn
      BY <1>1, <1>2, <2>3 DEF SameCall
    <3> QED
      BY <2>1, <3>1, <3>2
  <2> QED
    BY <1>1, <2>2, <2>3
<1>10. Sound(code', temp_c', Params, Len(stack'[1].got))
  BY <1>1, <1>2
<1>11. TempInv'
  BY <1>2, <1>3, <1>8, <1>9, <1>10 DEF TempInv
<1>12. ModuleInv'
  BY DEF ValueInv, ModuleInv, FunctionsDone
<1> QED
  BY <1>11, <1>12 DEF ValueInv

-----------------------------------------------------------------------------
(* What the actions find on the stack                                       *)

LEMMA ParamsOk ==
  ASSUME TypeInv, stack # <<>>
  PROVE  /\ Params \in Nat /\ Len(stack[1].got) \in Nat
         /\ stack[1].node = program[curr] /\ IsFunction(program[curr])
<1>1. Len(stack) \in Nat /\ 1 \in 1 .. Len(stack)
  BY DEF TypeInv, TypeOK, StackOk
<1>2. FrameOk(stack[1]) /\ stack[1].fn = "ir_function_s" /\ stack[1].node = program[curr]
  BY <1>1 DEF TypeInv, TypeOK, StackOk, Nesting
<1>3. IsFunction(program[curr])
  BY <1>2, FunctionFrame
<1>4. Params \in Nat
  BY <1>3 DEF IsFunction, Params
<1>5. Len(stack[1].got) \in Nat
  BY <1>2 DEF FrameOk
<1> QED
  BY <1>2, <1>3, <1>4, <1>5

LEMMA TopServed ==
  ASSUME ValueInv, stack # <<>>
  PROVE  /\ FrameServed(Top, code, Params)
         /\ Sound(code, temp_c, Params, Len(stack[1].got))
  BY TopOk DEF ValueInv, TempInv, Top

\* The results of the calls a handler made are what those calls promise.
LEMMA OperandServed ==
  ASSUME ValueInv, stack # <<>>, Top.fn \in ExprFn \cup {"ir_return_s"},
         NEW i \in 1 .. Len(Top.got), i <= Len(Operands(Top))
  PROVE  /\ Operands(Top)[i].fn = "ir_expr_f" => Avail(code, Got(i), Params)
         /\ Operands(Top)[i].fn = "ir_lvalue" =>
              Top.got[i].kind = "LV_GLOBAL" \/ Avail(code, Got(i), Params)
<1>1. Len(Operands(Top)) \in Nat /\ Len(Top.got) \in Nat
  BY TopOk, OperandOk DEF ValueInv
<1>2. Demand(Top, i) = Operands(Top)[i].fn
  BY <1>1 DEF Demand, ExprFn
<1>3. Delivers(Top.got[i], Demand(Top, i), code, Params)
  BY TopServed DEF FrameServed
<1> QED
  BY <1>2, <1>3 DEF Delivers, Got

\* A variable that may be used is global or has available storage.
LEMMA LookupServed ==
  ASSUME ValueInv, stack # <<>>, NEW name, ~ Unusable(name)
  PROVE  \/ LvalueOfName(name).kind = "LV_GLOBAL"
         \/ Avail(code, LvalueOfName(name).temp, Params)
<1>1. CASE Holders(name) # {}
  <2> DEFINE k == Innermost(name)
  <2>1. k \in 1 .. Len(stack) /\ name \in DOMAIN stack[k].symtab
    BY <1>1, InnermostHolds DEF ValueInv, TypeInv, TypeOK
  <2>2. FrameServed(stack[k], code, Params) /\ FrameOk(stack[k])
    BY <2>1 DEF ValueInv, TempInv, TypeInv, TypeOK, StackOk
  <2>3. stack[k].symtab[name] \in VarInfoSet
    BY <2>1, <2>2 DEF FrameOk, IsTable
  <2>4. lookup_symbol(name) = stack[k].symtab[name]
    BY <1>1 DEF lookup_symbol
  <2> HIDE DEF k
  <2>5. lookup_symbol(name).kind = "AUTO_VAR" /\ lookup_symbol(name).temp_dest # 0
    BY <2>3, <2>4 DEF Unusable, VarInfoSet
  <2>6. Avail(code, lookup_symbol(name).temp_dest, Params)
    BY <2>1, <2>2, <2>4, <2>5 DEF FrameServed
  <2> QED
    BY <2>5, <2>6 DEF LvalueOfName, LocalLv
<1>2. CASE Holders(name) = {}
  <2>1. lookup_symbol(name).kind = "GLOBAL_VAR"
    BY <1>2 DEF Unusable, lookup_symbol, VarInfo
  <2> QED
    BY <2>1 DEF LvalueOfName, GlobalLv
<1> QED
  BY <1>1, <1>2

\* The temporaries the node constructors read and write.
LEMMA NodeFields ==
  /\ \A op, d, u : Node(op, d, u).dest = d /\ Node(op, d, u).use = u
  /\ \A op, d, u, x : Named(op, d, u, x).dest = d /\ Named(op, d, u, x).use = u
  /\ \A op, d, x : Imm(op, d, x).dest = d /\ Imm(op, d, x).use = <<>>
  /\ \A x : Label(x).dest = 0 /\ Label(x).use = <<>>
  /\ \A x : Jump(x).dest = 0 /\ Jump(x).use = <<>>
  /\ \A t, x, y : Branch(t, x, y).dest = 0 /\ Branch(t, x, y).use = <<t>>
  BY DEF Node, Named, Imm, Label, Jump, Branch

LEMMA LvalueUses ==
  ASSUME NEW lv, NEW t, NEW c, NEW p, lv.kind = "LV_GLOBAL" \/ Avail(c, lv.temp, p)
  PROVE  /\ ir_load_lvalue(lv, t).dest = t /\ UsesIn(c, ir_load_lvalue(lv, t), p)
         /\ ir_addr_of_lvalue(lv, t).dest = t /\ UsesIn(c, ir_addr_of_lvalue(lv, t), p)
         /\ ir_store_lvalue(t, lv).dest = 0
         /\ Avail(c, t, p) => UsesIn(c, ir_store_lvalue(t, lv), p)
<1>1. CASE lv.kind = "LV_GLOBAL"
  BY <1>1, NodeFields DEF ir_load_lvalue, ir_addr_of_lvalue, ir_store_lvalue, UsesIn
<1>2. CASE lv.kind # "LV_GLOBAL"
  <2>1. /\ ir_load_lvalue(lv, t).dest = t /\ ir_load_lvalue(lv, t).use = <<lv.temp>>
        /\ ir_addr_of_lvalue(lv, t).dest = t /\ ir_addr_of_lvalue(lv, t).use = <<lv.temp>>
        /\ ir_store_lvalue(t, lv).dest = 0 /\ ir_store_lvalue(t, lv).use = <<lv.temp, t>>
    BY <1>2, NodeFields DEF ir_load_lvalue, ir_addr_of_lvalue, ir_store_lvalue
  <2> QED
    BY <1>2, <2>1 DEF UsesIn
<1> QED
  BY <1>1, <1>2

-----------------------------------------------------------------------------
(* The steps                                                                *)

LEMMA ModuleInvStays ==
  ASSUME ModuleInv, UNCHANGED module
  PROVE  ModuleInv'
  BY DEF ModuleInv, FunctionsDone

LEMMA ValueAfterYield ==
  ASSUME ValueInv, stack # <<>>, Top.fn # "ir_function_s", TypeInv',
         NEW nodes, NEW n \in Nat, NEW r \in ResultSet, Yield(nodes, n, r),
         Sound(nodes, temp_c + n, Params, Len(stack[1].got)),
         \A x : Avail(code, x, Params) => Avail(nodes, x, Params),
         Delivers(r, Top.fn, nodes, Params)
  PROVE  ValueInv'
<1>1. code' = nodes /\ temp_c' = temp_c + n /\ Return(r) /\ UNCHANGED <<program, curr, module>>
  BY DEF Yield
<1>2. ModuleInv'
  BY <1>1, ModuleInvStays DEF ValueInv
<1> QED
  BY <1>1, <1>2, ValueAfterReturn

\* A handler that emits one node.
LEMMA EmitSound ==
  ASSUME ValueInv, stack # <<>>, NEW a \in NodeSet, UsesIn(code, a, Params)
  PROVE  /\ Emit1(a) \in Seq(NodeSet)
         /\ \A x : Avail(code, x, Params) => Avail(Emit1(a), x, Params)
         /\ a.dest = 0 => Sound(Emit1(a), temp_c, Params, Len(stack[1].got))
         /\ a.dest = temp_c + 1 =>
              /\ Sound(Emit1(a), temp_c + 1, Params, Len(stack[1].got))
              /\ Avail(Emit1(a), temp_c + 1, Params)
<1>1. temp_c \in Nat /\ code \in Seq(NodeSet)
  BY DEF ValueInv, TypeInv, TypeOK
<1>2. Params \in Nat /\ Len(stack[1].got) \in Nat
  BY ParamsOk DEF ValueInv
<1>3. Sound(code, temp_c, Params, Len(stack[1].got))
  BY TopServed
<1>4. Emit1(a) \in Seq(NodeSet) /\ \A x : Avail(code, x, Params) => Avail(Emit1(a), x, Params)
  BY <1>1 DEF Emit1, Avail
<1>5. a.dest = 0 => Sound(Emit1(a), temp_c, Params, Len(stack[1].got))
  BY <1>1, <1>2, <1>3, SoundStore DEF Emit1
<1>6. a.dest = temp_c + 1 =>
        /\ Sound(Emit1(a), temp_c + 1, Params, Len(stack[1].got))
        /\ Avail(Emit1(a), temp_c + 1, Params)
  BY <1>1, <1>2, <1>3, SoundNext DEF Emit1
<1> QED
  BY <1>4, <1>5, <1>6

\* The node is the same as the one the type proof saw: every node in the code
\* of a typed state is an IR node.
LEMMA EmittedNode ==
  ASSUME TypeInv', NEW a, code' = Emit1(a), code \in Seq(NodeSet)
  PROVE  a \in NodeSet
<1>1. code' \in Seq(NodeSet)
  BY DEF TypeInv, TypeOK
<1>2. Len(code) + 1 \in 1 .. Len(code') /\ code'[Len(code) + 1] = a
  BY DEF Emit1
<1> QED
  BY <1>1, <1>2

\* ir_expr_f hands back the temporary of the one node it emitted.
LEMMA ValueOfOneNode ==
  ASSUME ValueInv, stack # <<>>, Top.fn = "ir_expr_f", TypeInv',
         NEW a, Yield(Emit1(a), 1, Temp(temp_c + 1)),
         a.dest = temp_c + 1, UsesIn(code, a, Params)
  PROVE  ValueInv'
<1>1. a \in NodeSet
  BY EmittedNode DEF Yield, ValueInv, TypeInv, TypeOK
<1>2. /\ Sound(Emit1(a), temp_c + 1, Params, Len(stack[1].got))
      /\ \A x : Avail(code, x, Params) => Avail(Emit1(a), x, Params)
      /\ Avail(Emit1(a), temp_c + 1, Params)
  BY <1>1, EmitSound
<1>3. temp_c + 1 \in Nat /\ Temp(temp_c + 1) \in ResultSet
  BY TempOk DEF ValueInv, TypeInv, TypeOK
<1>4. Delivers(Temp(temp_c + 1), Top.fn, Emit1(a), Params)
  BY <1>2 DEF Delivers, Temp
<1> QED
  BY <1>2, <1>3, <1>4, ValueAfterYield

LEMMA ExprStepValued == ValueInv /\ ExprStep => ValueInv'
<1> SUFFICES ASSUME ValueInv, ExprStep PROVE ValueInv'
  OBVIOUS
<1> DEFINE t == temp_c + 1
           p == Params
           s == Len(stack[1].got)
<1>0. /\ t \in Nat /\ t + 1 \in Nat /\ t + 2 \in Nat /\ code \in Seq(NodeSet)
      /\ temp_c \in Nat /\ temp_c + 0 = temp_c /\ temp_c + 2 = t + 1 /\ temp_c + 3 = t + 2
  BY DEF ValueInv, TypeInv, TypeOK
<1>1. stack # <<>>
  BY DEF ExprStep, Fatal, EvaluateOperand, Literal, LoadVariable, AddressOf, DerefOrNegate,
         Not, IncDec, Assign, BinaryOp, EmitCall, LvalueName, LvalueDeref,
         ReadyUnary, Ready, InCall
<1>2. TypeInv'
  BY ExprStepTyped DEF ValueInv
<1>3. p \in Nat /\ s \in Nat /\ Sound(code, temp_c, p, s)
  BY <1>1, ParamsOk, TopServed DEF ValueInv
<1>4. CASE Fatal
  <2>1. UNCHANGED <<program, curr, module, stack, code, temp_c>>
    BY <1>4 DEF Fatal
  <2> QED
    BY <1>2, <2>1 DEF ValueInv, TempInv, ModuleInv, Awaited, Params, FunctionsDone
<1>5. CASE EvaluateOperand
  <2> DEFINE f == Operands(Top)[Len(Top.got) + 1]
  <2>1. Top.fn \in ExprFn \cup {"ir_return_s"} /\ ~ Rejected(Top) /\ FrameOk(Top)
        /\ Len(Top.got) < Len(Operands(Top)) /\ Len(Top.got) \in Nat
    BY <1>1, <1>5, TopOk DEF EvaluateOperand, InCall, ExprFn, ValueInv
  <2>2. Len(Operands(Top)) \in Nat /\ Len(Top.got) + 1 \in 1 .. Len(Operands(Top))
    BY <2>1, OperandOk
  <2>3. FrameOk(f) /\ f.fn \in ExprFn
    BY <2>1, <2>2, OperandOk
  <2>4. Demand(Top, Len(Top.got) + 1) = f.fn
    BY <2>1, <2>2 DEF Demand, ExprFn
  <2>5. FrameServed(f, code, p)
    <3>1. \E e : f = Value(e) \/ f = Place(e)
      BY SMTT(30), <2>1, <2>2 DEF Operands, ExprFn
    <3> QED
      BY <3>1, NewFrameServed DEF Value, Place
  <2>6. Call(f) /\ UNCHANGED <<program, curr, module, code, temp_c>>
    BY <1>5 DEF EvaluateOperand
  <2> HIDE DEF f
  <2> QED
    BY <1>1, <1>2, <1>3, <2>3, <2>4, <2>5, <2>6, ValueAfterCall
<1>6. ASSUME NEW fn \in ExprFn, NEW kind, Ready(fn, kind)
      PROVE  /\ Top.fn = fn /\ Top.node.kind = kind /\ Top.fn \in ExprFn
             /\ ~ Rejected(Top) /\ Len(Top.got) = Len(Operands(Top))
  BY <1>6 DEF Ready, InCall
<1>7. ASSUME NEW fn \in ExprFn, NEW kind, Ready(fn, kind), NEW i \in 1 .. Len(Operands(Top))
      PROVE  /\ Got(i) \in Nat /\ Top.got[i] \in ResultSet
             /\ Operands(Top)[i].fn = "ir_expr_f" => Avail(code, Got(i), p)
             /\ Operands(Top)[i].fn = "ir_lvalue" =>
                  Top.got[i].kind = "LV_GLOBAL" \/ Avail(code, Top.got[i].temp, p)
  <2>1. /\ Top.fn \in ExprFn \cup {"ir_return_s"} /\ i \in 1 .. Len(Top.got)
        /\ i <= Len(Operands(Top)) /\ Len(Top.got) \in Nat
    BY <1>1, <1>6, <1>7, TopOk DEF ValueInv
  <2> QED
    BY <1>1, <2>1, OperandServed, TopOk DEF ValueInv, Got
<1>8. CASE Literal
  <2>1. PICK k \in {"INT", "STRING"} :
          /\ Ready("ir_expr_f", k)
          /\ Yield(Emit1(Imm(IF k = "INT" THEN "OP_CONST" ELSE "OP_DATA", t, Top.node.int_lit)),
                   1, Temp(t))
    BY <1>8 DEF Literal
  <2> DEFINE a == Imm(IF k = "INT" THEN "OP_CONST" ELSE "OP_DATA", t, Top.node.int_lit)
  <2>2. Top.fn = "ir_expr_f" /\ a.dest = t /\ UsesIn(code, a, p)
    BY <1>6, <2>1, NodeFields DEF UsesIn, ExprFn
  <2>3. Yield(Emit1(a), 1, Temp(temp_c + 1)) /\ a.dest = temp_c + 1
    BY <2>1, <2>2
  <2> HIDE DEF a
  <2> QED
    BY <1>1, <1>2, <2>2, <2>3, ValueOfOneNode
<1>9. CASE LoadVariable
  <2> DEFINE lv == LvalueOfName(Top.node.value)
             a == ir_load_lvalue(lv, t)
  <2>1. Top.fn = "ir_expr_f" /\ Top.node.kind = "IDENTIFIER" /\ ~ Rejected(Top)
    BY <1>6, <1>9 DEF LoadVariable, ExprFn
  <2>2. ~ Unusable(Top.node.value)
    BY <2>1 DEF Rejected
  <2>3. lv.kind = "LV_GLOBAL" \/ Avail(code, lv.temp, p)
    BY <1>1, <2>2, LookupServed
  <2>4. Yield(Emit1(a), 1, Temp(temp_c + 1))
    BY <1>9 DEF LoadVariable
  <2> HIDE DEF lv
  <2>5. a.dest = temp_c + 1 /\ UsesIn(code, a, p)
    BY <2>3, LvalueUses
  <2> HIDE DEF a
  <2> QED
    BY <1>1, <1>2, <2>1, <2>4, <2>5, ValueOfOneNode
<1>10. ASSUME NEW ops, ReadyUnary(ops)
       PROVE  /\ Top.fn = "ir_expr_f" /\ Got(1) \in Nat /\ Top.got[1] \in ResultSet
              /\ Top.node.op \in ops
              /\ Top.node.op \in {"BIT_AND", "INC", "DEC"} =>
                   Top.got[1].kind = "LV_GLOBAL" \/ Avail(code, Top.got[1].temp, p)
              /\ Top.node.op \notin {"BIT_AND", "INC", "DEC"} => Avail(code, Got(1), p)
  <2>1. Ready("ir_expr_f", "AST_UNARY") /\ Top.node.op \in ops
    BY <1>10 DEF ReadyUnary
  <2>2. Top.fn = "ir_expr_f" /\ Top.node.kind = "AST_UNARY"
    BY <2>1 DEF Ready, InCall
  <2>3. 1 \in 1 .. Len(Operands(Top))
    BY <2>2 DEF Operands
  <2>4. IF Top.node.op \in {"BIT_AND", "INC", "DEC"}
          THEN Operands(Top)[1].fn = "ir_lvalue" ELSE Operands(Top)[1].fn = "ir_expr_f"
    BY <2>2 DEF Operands, Value, Place, Frame
  <2> QED
    BY <1>7, <2>1, <2>2, <2>3, <2>4 DEF ExprFn
<1>11. CASE AddressOf
  <2> DEFINE a == ir_addr_of_lvalue(Top.got[1], t)
  <2>1. /\ Top.fn = "ir_expr_f" /\ Yield(Emit1(a), 1, Temp(temp_c + 1))
        /\ Top.got[1].kind = "LV_GLOBAL" \/ Avail(code, Top.got[1].temp, p)
    BY <1>10, <1>11 DEF AddressOf
  <2>2. a.dest = temp_c + 1 /\ UsesIn(code, a, p)
    BY <2>1, LvalueUses
  <2> HIDE DEF a
  <2> QED
    BY <1>1, <1>2, <2>1, <2>2, ValueOfOneNode
<1>12. CASE DerefOrNegate
  <2> DEFINE a == Node(IF Top.node.op = "MUL" THEN "OP_LOAD" ELSE "OP_NEG", t, <<Got(1)>>)
  <2>1. /\ Top.fn = "ir_expr_f" /\ Yield(Emit1(a), 1, Temp(temp_c + 1))
        /\ Avail(code, Got(1), p)
    BY <1>10, <1>12 DEF DerefOrNegate
  <2>2. a.dest = temp_c + 1 /\ UsesIn(code, a, p)
    BY <2>1, NodeFields DEF UsesIn
  <2> HIDE DEF a
  <2> QED
    BY <1>1, <1>2, <2>1, <2>2, ValueOfOneNode
<1>13. Imm("OP_CONST", t, 0) \in NodeSet /\ Imm("OP_CONST", t + 1, 1) \in NodeSet
  BY <1>0, ImmOk DEF Irop
<1>14. CASE Not
  <2> DEFINE a == Imm("OP_CONST", t, 0)
             b == Node("OP_EQ", t + 1, <<Got(1), t>>)
  <2>1. /\ Top.fn = "ir_expr_f" /\ Yield(Append(Append(code, a), b), 2, Temp(t + 1))
        /\ Avail(code, Got(1), p) /\ Got(1) \in Nat
    BY <1>0, <1>10, <1>14 DEF Not, Emit2
  <2>2. a \in NodeSet /\ a.dest = t /\ UsesIn(code, a, p)
    BY <1>13, NodeFields DEF UsesIn
  <2>3. b \in NodeSet /\ b.dest = t + 1 /\ b.use = <<Got(1), t>>
    <3>1. <<Got(1), t>> \in Seq(Nat) /\ "OP_EQ" \in Irop
      BY <1>0, <2>1, ShortSeqs DEF Irop
    <3>2. b \in NodeSet
      BY <1>0, <3>1, NodeOk
    <3>3. b.dest = t + 1 /\ b.use = <<Got(1), t>>
      BY ONLY NodeFields
    <3> QED
      BY <3>2, <3>3
  <2> DEFINE c == Append(code, a)
  <2> HIDE DEF a, b
  <2>4. /\ c \in Seq(NodeSet) /\ Sound(c, t, p, s) /\ Avail(c, t, p)
        /\ \A x : Avail(code, x, p) => Avail(c, x, p)
    BY <1>0, <1>3, <2>2, SoundNext
  <2> HIDE DEF c
  <2>5. UsesIn(c, b, p)
    BY <2>1, <2>3, <2>4 DEF UsesIn
  <2>6. /\ Sound(Append(c, b), t + 1, p, s) /\ Avail(Append(c, b), t + 1, p)
        /\ \A x : Avail(c, x, p) => Avail(Append(c, b), x, p)
    BY <1>0, <1>3, <2>3, <2>4, <2>5, SoundNext
  <2>7. Yield(Append(c, b), 2, Temp(t + 1))
    BY <2>1 DEF c
  <2>8. Temp(t + 1) \in ResultSet /\ Delivers(Temp(t + 1), Top.fn, Append(c, b), p)
    BY <1>0, <2>1, <2>6, TempOk DEF Delivers, Temp
  <2>9. Sound(Append(c, b), temp_c + 2, p, s)
    BY <1>0, <2>6
  <2> QED
    BY <1>1, <1>2, <2>1, <2>4, <2>6, <2>7, <2>8, <2>9, ValueAfterYield
<1>15. CASE IncDec
  <2> DEFINE lv == Top.got[1]
             a == ir_load_lvalue(lv, t)
             b == Imm("OP_CONST", t + 1, 1)
             d == Node(IF Top.node.op = "INC" THEN "OP_ADD" ELSE "OP_SUB", t + 2, <<t, t + 1>>)
             e == ir_store_lvalue(t + 2, lv)
  <2>1. /\ Top.fn = "ir_expr_f" /\ lv \in ResultSet
        /\ Yield(Append(Append(Append(Append(code, a), b), d), e), 3, Temp(t + 2))
        /\ lv.kind = "LV_GLOBAL" \/ Avail(code, lv.temp, p)
    BY <1>0, <1>10, <1>15 DEF IncDec, Emit4
  <2> HIDE DEF lv
  <2>2. a \in NodeSet /\ a.dest = t /\ UsesIn(code, a, p)
    BY <1>0, <2>1, LvalueNodeOk, LvalueUses
  <2>3. b \in NodeSet /\ b.dest = t + 1 /\ b.use = <<>>
    BY <1>13, NodeFields
  <2>4. d \in NodeSet /\ d.dest = t + 2 /\ d.use = <<t, t + 1>>
    <3>1. /\ <<t, t + 1>> \in Seq(Nat)
          /\ (IF Top.node.op = "INC" THEN "OP_ADD" ELSE "OP_SUB") \in Irop
      BY <1>0, ShortSeqs DEF Irop
    <3>2. d \in NodeSet
      BY <1>0, <3>1, NodeOk
    <3>3. d.dest = t + 2 /\ d.use = <<t, t + 1>>
      BY ONLY NodeFields
    <3> QED
      BY <3>2, <3>3
  <2>5. e \in NodeSet
    BY <1>0, <2>1, LvalueNodeOk
  <2> DEFINE c1 == Append(code, a)
             c2 == Append(c1, b)
             c3 == Append(c2, d)
             c4 == Append(c3, e)
  <2> HIDE DEF a, b, d
  <2>6. /\ c1 \in Seq(NodeSet) /\ Sound(c1, t, p, s) /\ Avail(c1, t, p)
        /\ \A x : Avail(code, x, p) => Avail(c1, x, p)
    BY <1>0, <1>3, <2>2, SoundNext
  <2> HIDE DEF c1
  <2>7. /\ c2 \in Seq(NodeSet) /\ Sound(c2, t + 1, p, s) /\ Avail(c2, t + 1, p)
        /\ \A x : Avail(c1, x, p) => Avail(c2, x, p)
    <3>1. UsesIn(c1, b, p)
      BY <2>3 DEF UsesIn
    <3> QED
      BY <1>0, <1>3, <2>3, <2>6, <3>1, SoundNext
  <2> HIDE DEF c2
  <2>8. /\ c3 \in Seq(NodeSet) /\ Sound(c3, t + 2, p, s) /\ Avail(c3, t + 2, p)
        /\ \A x : Avail(c2, x, p) => Avail(c3, x, p)
    <3>1. UsesIn(c2, d, p)
      BY <2>4, <2>6, <2>7 DEF UsesIn
    <3>2. t + 1 \in Nat /\ d.dest = (t + 1) + 1 /\ t + 2 = (t + 1) + 1
      BY <1>0, <2>4
    <3>3. /\ c3 \in Seq(NodeSet) /\ Sound(c3, (t + 1) + 1, p, s) /\ Avail(c3, (t + 1) + 1, p)
          /\ \A x : Avail(c2, x, p) => Avail(c3, x, p)
      BY <1>3, <2>4, <2>7, <3>1, <3>2, SoundNext
    <3> QED
      BY <3>2, <3>3
  <2> HIDE DEF c3
  <2>9. lv.kind = "LV_GLOBAL" \/ Avail(c3, lv.temp, p)
    BY <2>1, <2>6, <2>7, <2>8
  <2>10. e.dest = 0 /\ UsesIn(c3, e, p)
    BY <2>8, <2>9, LvalueUses
  <2> HIDE DEF e
  <2>11. /\ Sound(c4, t + 2, p, s) /\ \A x : Avail(c3, x, p) => Avail(c4, x, p)
    BY <1>0, <1>3, <2>5, <2>8, <2>10, SoundStore
  <2>12. Yield(c4, 3, Temp(t + 2))
    BY <2>1 DEF c1, c2, c3
  <2> HIDE DEF c4
  <2>13. Temp(t + 2) \in ResultSet /\ Delivers(Temp(t + 2), Top.fn, c4, p)
    BY <1>0, <2>1, <2>8, <2>11, TempOk DEF Delivers, Temp
  <2>14. Sound(c4, temp_c + 3, p, s) /\ \A x : Avail(code, x, p) => Avail(c4, x, p)
    BY <1>0, <2>6, <2>7, <2>8, <2>11
  <2> QED
    BY <1>1, <1>2, <2>1, <2>12, <2>13, <2>14, ValueAfterYield
<1>16. ASSUME Ready("ir_expr_f", "AST_BINARY")
       PROVE  /\ Top.fn = "ir_expr_f" /\ ~ Rejected(Top)
              /\ Got(1) \in Nat /\ Got(2) \in Nat /\ Top.got[1] \in ResultSet
              /\ Top.got[2] \in ResultSet
              /\ Avail(code, Got(1), p)
              /\ Top.node.op = "ASSIGN" =>
                   Top.got[2].kind = "LV_GLOBAL" \/ Avail(code, Top.got[2].temp, p)
              /\ Top.node.op # "ASSIGN" => Avail(code, Got(2), p)
  <2>1. Top.fn = "ir_expr_f" /\ Top.node.kind = "AST_BINARY" /\ ~ Rejected(Top)
    BY <1>16 DEF Ready, InCall
  <2>2. 1 \in 1 .. Len(Operands(Top)) /\ 2 \in 1 .. Len(Operands(Top))
    BY <2>1 DEF Operands
  <2>3. /\ Operands(Top)[1].fn = "ir_expr_f"
        /\ IF Top.node.op = "ASSIGN" THEN Operands(Top)[2].fn = "ir_lvalue"
                                     ELSE Operands(Top)[2].fn = "ir_expr_f"
    BY <2>1 DEF Operands, Value, Place, Frame
  <2> QED
    BY <1>7, <1>16, <2>1, <2>2, <2>3 DEF ExprFn
<1>17. CASE Assign
  <2> DEFINE a == ir_store_lvalue(Got(1), Top.got[2])
  <2>1. /\ Top.fn = "ir_expr_f" /\ Top.got[1] \in ResultSet /\ Got(1) \in Nat
        /\ Top.got[2] \in ResultSet
        /\ Avail(code, Got(1), p)
        /\ Top.got[2].kind = "LV_GLOBAL" \/ Avail(code, Top.got[2].temp, p)
        /\ Yield(Emit1(a), 0, Top.got[1])
    BY <1>16, <1>17 DEF Assign
  <2>2. a \in NodeSet /\ a.dest = 0 /\ UsesIn(code, a, p)
    BY <2>1, LvalueNodeOk, LvalueUses
  <2> HIDE DEF a
  <2>3. /\ Sound(Emit1(a), temp_c, p, s) /\ \A x : Avail(code, x, p) => Avail(Emit1(a), x, p)
    BY <1>1, <2>2, EmitSound
  <2>4. Delivers(Top.got[1], Top.fn, Emit1(a), p)
    BY <2>1, <2>3 DEF Delivers, Got
  <2>5. Sound(Emit1(a), temp_c + 0, p, s)
    BY <1>0, <2>3
  <2> QED
    BY <1>1, <1>2, <2>1, <2>3, <2>4, <2>5, ValueAfterYield
<1>18. CASE BinaryOp
  <2> DEFINE a == Node(binop_to_irop(Top.node.op), t, <<Got(1), Got(2)>>)
  <2>1. /\ Top.fn = "ir_expr_f" /\ Avail(code, Got(1), p) /\ Avail(code, Got(2), p)
        /\ Yield(Emit1(a), 1, Temp(temp_c + 1))
    BY <1>16, <1>18 DEF BinaryOp
  <2>2. a.dest = temp_c + 1 /\ UsesIn(code, a, p)
    BY <2>1, NodeFields DEF UsesIn
  <2> HIDE DEF a
  <2> QED
    BY <1>1, <1>2, <2>1, <2>2, ValueOfOneNode
<1>19. CASE EmitCall
  <2> DEFINE args == [i \in DOMAIN Top.got |-> Got(i)]
             a == Named("IR_CALL", t, args, Top.node.name)
  <2>1. /\ Ready("ir_expr_f", "AST_FUNCTION_CALL") /\ Top.fn = "ir_expr_f"
        /\ Top.node.kind = "AST_FUNCTION_CALL" /\ Len(Top.got) = Len(Operands(Top))
        /\ Yield(Emit1(a), 1, Temp(temp_c + 1))
    BY <1>19 DEF EmitCall, Ready, InCall
  <2>2. DOMAIN Top.got = 1 .. Len(Operands(Top))
    BY <1>1, <2>1, TopOk DEF ValueInv
  <2>3. ASSUME NEW i \in DOMAIN Top.got PROVE Avail(code, Got(i), p)
    <3>1. i \in 1 .. Len(Operands(Top))
      BY <2>2
    <3>2. Operands(Top) = [j \in 1 .. Len(Top.node.args) |-> Value(Top.node.args[j])]
      BY <2>1 DEF Operands
    <3>3. Len(Top.node.args) \in Nat
      <4>1. Top.node \in Expr
        BY <1>1, <2>1, TopOk, ExprFrame DEF ValueInv, ExprFn
      <4> QED
        BY <2>1, <4>1, ExprAssumption
    <3>4. Operands(Top)[i].fn = "ir_expr_f"
      BY <3>1, <3>2, <3>3 DEF Value, Frame
    <3> QED
      BY <1>7, <2>1, <3>1, <3>4 DEF ExprFn
  <2>4. a.dest = temp_c + 1 /\ a.use = args
    BY NodeFields
  <2>5. UsesIn(code, a, p)
    BY <2>3, <2>4 DEF UsesIn
  <2> HIDE DEF a
  <2> QED
    BY <1>1, <1>2, <2>1, <2>4, <2>5, ValueOfOneNode
<1>20. Sound(code, temp_c + 0, p, s) /\ \A x : Avail(code, x, p) => Avail(code, x, p)
  BY <1>0, <1>3
<1>21. CASE LvalueName
  <2> DEFINE lv == LvalueOfName(Top.node.value)
  <2>1. Top.fn = "ir_lvalue" /\ Top.node.kind = "IDENTIFIER" /\ ~ Rejected(Top)
        /\ Yield(code, 0, lv)
    BY <1>21 DEF LvalueName, Ready, InCall
  <2>2. ~ Unusable(Top.node.value) /\ Top.node \in Expr
    BY <1>1, <2>1, TopOk, ExprFrame DEF Rejected, ValueInv, ExprFn
  <2>3. lv.kind = "LV_GLOBAL" \/ Avail(code, lv.temp, p)
    BY <1>1, <2>2, LookupServed
  <2>4. lv \in ResultSet
    BY <2>1, <2>2, LookupOk, ExprAssumption DEF ValueInv, TypeInv, TypeOK
  <2> HIDE DEF lv
  <2>5. Delivers(lv, Top.fn, code, p)
    BY <2>1, <2>3 DEF Delivers
  <2> QED
    BY <1>1, <1>2, <1>20, <2>1, <2>4, <2>5, ValueAfterYield
<1>22. CASE LvalueDeref
  <2>1. Ready("ir_lvalue", "AST_UNARY") /\ Top.fn = "ir_lvalue" /\ Top.node.kind = "AST_UNARY"
        /\ Yield(code, 0, LocalLv(Got(1)))
    BY <1>22 DEF LvalueDeref, Ready, InCall
  <2>2. 1 \in 1 .. Len(Operands(Top)) /\ Operands(Top)[1].fn = "ir_expr_f"
    BY <2>1 DEF Operands, Value, Frame
  <2>3. Avail(code, Got(1), p) /\ Got(1) \in Nat
    BY <1>7, <2>1, <2>2 DEF ExprFn
  <2>4. LocalLv(Got(1)) \in ResultSet
    BY <2>3, TempOk
  <2>5. Delivers(LocalLv(Got(1)), Top.fn, code, p)
    BY <2>1, <2>3 DEF Delivers, LocalLv
  <2> QED
    BY <1>1, <1>2, <1>20, <2>1, <2>4, <2>5, ValueAfterYield
<1> QED
  BY <1>4, <1>5, <1>8, <1>9, <1>11, <1>12, <1>14, <1>15, <1>17, <1>18, <1>19, <1>21, <1>22
     DEF ExprStep

\* Labels, jumps, branches and returns write no temporary.
LEMMA ControlSound ==
  ASSUME ValueInv, stack # <<>>, NEW a \in NodeSet, NEW b \in NodeSet,
         a.dest = 0, UsesIn(code, a, Params), b.dest = 0, b.use = <<>>
  PROVE  /\ Sound(Emit1(a), temp_c, Params, Len(stack[1].got))
         /\ Sound(Emit2(a, b), temp_c, Params, Len(stack[1].got))
         /\ \A x : Avail(code, x, Params) => Avail(Emit1(a), x, Params)
         /\ \A x : Avail(code, x, Params) => Avail(Emit2(a, b), x, Params)
<1>1. /\ Emit1(a) \in Seq(NodeSet) /\ Sound(Emit1(a), temp_c, Params, Len(stack[1].got))
      /\ \A x : Avail(code, x, Params) => Avail(Emit1(a), x, Params)
  BY EmitSound
<1>2. temp_c \in Nat /\ Params \in Nat /\ Len(stack[1].got) \in Nat
  BY ParamsOk DEF ValueInv, TypeInv, TypeOK
<1>3. UsesIn(Emit1(a), b, Params)
  BY DEF UsesIn
<1>4. Emit2(a, b) = Append(Emit1(a), b)
  BY DEF Emit1, Emit2
<1>5. /\ Sound(Emit2(a, b), temp_c, Params, Len(stack[1].got))
      /\ \A x : Avail(Emit1(a), x, Params) => Avail(Emit2(a, b), x, Params)
  BY <1>1, <1>2, <1>3, <1>4, SoundStore
<1> QED
  BY <1>1, <1>5

LEMMA PushedFrameOk ==
  ASSUME StackOk, stack # <<>>, StackOk', NEW f, Call(f) \/ \E l \in Nat : CallFrom(l, f)
  PROVE  FrameOk(f)
<1>1. \E t : DOMAIN t = 1 .. Len(stack) /\ stack' = Append(t, f)
  <2>1. CASE Call(f)
    BY <2>1 DEF Call, StackOk
  <2>2. CASE \E l \in Nat : CallFrom(l, f)
    <3>1. PICK l \in Nat : stack' = Append([stack EXCEPT ![Len(stack)].lab = l], f)
      BY <2>2 DEF CallFrom
    <3>2. DOMAIN [stack EXCEPT ![Len(stack)].lab = l] = 1 .. Len(stack)
      BY DEF StackOk
    <3> QED
      BY <3>1, <3>2
  <2> QED
    BY <2>1, <2>2
<1>2. PICK t : DOMAIN t = 1 .. Len(stack) /\ stack' = Append(t, f)
  BY <1>1
<1>3. Len(stack) \in Nat /\ Len(t) = Len(stack)
  BY <1>2 DEF StackOk
<1>4. Len(stack') = Len(stack) + 1 /\ stack'[Len(stack) + 1] = f
  BY <1>2, <1>3
<1> QED
  BY <1>3, <1>4 DEF StackOk

\* The module gets one more node, whose code is sound if it is a function.
LEMMA ModuleGrows ==
  ASSUME ModuleInv, module \in Seq(ModuleNodeSet), NEW m, module' = Append(module, m),
         m.kind = "IR_FUNCTION" => UsesOk(m.nodes, m.size) /\ UniqueDests(m.nodes)
  PROVE  ModuleInv'
<1>1. /\ Len(module) \in Nat /\ DOMAIN module = 1 .. Len(module)
      /\ DOMAIN module' = 1 .. Len(module) + 1
      /\ module'[Len(module) + 1] = m /\ \A i \in 1 .. Len(module) : module'[i] = module[i]
  OBVIOUS
<1>2. SUFFICES ASSUME NEW i \in DOMAIN module', module'[i].kind = "IR_FUNCTION"
               PROVE  UsesOk(module'[i].nodes, module'[i].size) /\ UniqueDests(module'[i].nodes)
  BY DEF ModuleInv, FunctionsDone
<1>3. CASE i = Len(module) + 1
  BY <1>1, <1>2, <1>3
<1>4. CASE i \in 1 .. Len(module)
  BY <1>1, <1>2, <1>4 DEF ModuleInv, FunctionsDone
<1> QED
  BY <1>1, <1>3, <1>4

\* A statement handler that returns no value, and one that makes a call.
LEMMA StatementReturns ==
  ASSUME ValueInv, stack # <<>>, Top.fn # "ir_function_s", Top.fn \notin ExprFn, TypeInv',
         NEW nodes, Yield(nodes, 0, NoTemp),
         Sound(nodes, temp_c, Params, Len(stack[1].got)),
         \A x : Avail(code, x, Params) => Avail(nodes, x, Params)
  PROVE  ValueInv'
<1>1. NoTemp \in ResultSet /\ Delivers(NoTemp, Top.fn, nodes, Params)
  BY TempOk DEF Delivers, ExprFn
<1>2. temp_c + 0 = temp_c
  BY DEF ValueInv, TypeInv, TypeOK
<1> QED
  BY <1>1, <1>2, ValueAfterYield

LEMMA StatementCalls ==
  ASSUME ValueInv, stack # <<>>, TypeInv', UNCHANGED <<program, curr, module, temp_c>>,
         NEW fn, NEW n, NEW end, fn # "ir_function_s",
         Call(Frame(fn, n, end)) \/ \E l \in Nat : CallFrom(l, Frame(fn, n, end)),
         Demand(Top, Len(Top.got) + 1) \in {"none", fn},
         Sound(code', temp_c, Params, Len(stack[1].got)),
         \A x : Avail(code, x, Params) => Avail(code', x, Params)
  PROVE  ValueInv'
<1> DEFINE f == Frame(fn, n, end)
<1>1. f.fn = fn /\ FrameServed(f, code', Params)
  BY NewFrameServed DEF Frame
<1>2. FrameOk(f)
  BY PushedFrameOk DEF ValueInv, TypeInv, TypeOK
<1>3. Call(f) \/ \E l \in Nat : CallFrom(l, f)
  OBVIOUS
<1> HIDE DEF f
<1> QED
  BY <1>1, <1>2, <1>3, ValueAfterCall

LEMMA StatementStepValued == ValueInv /\ StatementStep => ValueInv'
<1> SUFFICES ASSUME ValueInv, StatementStep PROVE ValueInv'
  OBVIOUS
<1> DEFINE p == Params
           s == Len(stack[1].got)
<1>0. /\ temp_c \in Nat /\ temp_c + 0 = temp_c /\ code \in Seq(NodeSet) /\ lable_c \in Nat
      /\ lable_c + 1 \in Nat
  BY DEF ValueInv, TypeInv, TypeOK
<1>1. /\ stack # <<>>
      /\ Top.fn \in {"ir_scope", "ir_auto_s", "ir_extrn_s", "ir_return_s", "ir_lable_s",
                     "ir_goto_s", "ir_if_s", "ir_if_chain_s", "ir_while_s"}
  BY DEF StatementStep, ScopeStatement, EndScope, ir_auto_s, ir_extrn_s, ir_return_s,
         LableOrGoto, IfBegin, IfEnd, ChainCondition, ChainThen, ChainNext, ChainElse, ChainEnd,
         WhileCondition, WhileBody, WhileEnd, InChain, InCall
<1>2. TypeInv'
  BY StatementStepTyped DEF ValueInv
<1>3. p \in Nat /\ s \in Nat /\ Sound(code, temp_c, p, s)
      /\ \A x : Avail(code, x, p) => Avail(code, x, p)
  BY <1>1, ParamsOk, TopServed DEF ValueInv
<1>4. Top.fn # "ir_function_s" /\ Top.fn \notin ExprFn
  BY <1>1 DEF ExprFn
<1>5. /\ FrameOk(Top) /\ Len(Top.got) \in Nat
      /\ \A i \in 1 .. Len(Top.got) : Got(i) \in Nat
      /\ Top.lab \in Nat /\ Top.lab + 1 \in Nat /\ Top.lab + 2 \in Nat /\ Top.end \in Nat
  BY <1>1, TopOk DEF ValueInv
<1>6. \A l, m, u \in Nat : Label(l) \in NodeSet /\ Jump(l) \in NodeSet /\ Branch(u, l, m) \in NodeSet
  BY ControlOk
<1>7. \A l, a : a = Label(l) \/ a = Jump(l) =>
        a.dest = 0 /\ a.use = <<>> /\ UsesIn(code, a, p)
  BY NodeFields DEF UsesIn
<1>8. \A nodes :
        /\ Yield(nodes, 0, NoTemp) /\ Sound(nodes, temp_c, p, s)
        /\ \A x : Avail(code, x, p) => Avail(nodes, x, p)
        => ValueInv'
  BY <1>1, <1>2, <1>4, StatementReturns
<1>9. \A a, b \in NodeSet :
        a.dest = 0 /\ UsesIn(code, a, p) /\ b.dest = 0 /\ b.use = <<>> =>
          /\ Sound(Emit1(a), temp_c, p, s) /\ Sound(Emit2(a, b), temp_c, p, s)
          /\ \A x : Avail(code, x, p) => Avail(Emit1(a), x, p)
          /\ \A x : Avail(code, x, p) => Avail(Emit2(a, b), x, p)
  BY <1>1, ControlSound
<1>10. \A fn, n, end :
         /\ UNCHANGED <<program, curr, module, temp_c>> /\ fn # "ir_function_s"
         /\ Call(Frame(fn, n, end)) \/ \E l \in Nat : CallFrom(l, Frame(fn, n, end))
         /\ Demand(Top, Len(Top.got) + 1) \in {"none", fn}
         /\ Sound(code', temp_c, p, s)
         /\ \A x : Avail(code, x, p) => Avail(code', x, p)
         => ValueInv'
  BY <1>1, <1>2, StatementCalls
<1>11. CASE ScopeStatement
  <2> DEFINE st == Top.node.body[Len(Top.got) + 1]
  <2>1. /\ Call(ir_statements(st)) /\ UNCHANGED <<program, curr, module, code, temp_c>>
        /\ Top.fn = "ir_scope"
    BY <1>11 DEF ScopeStatement, InCall
  <2>2. Demand(Top, Len(Top.got) + 1) = "none"
    BY <2>1 DEF Demand, ExprFn
  <2> HIDE DEF st
  <2>3. PICK fn, n : ir_statements(st) = Frame(fn, n, 0)
    BY DEF ir_statements, Value
  <2>4. fn # "ir_function_s"
    <3>1. FrameOk(Frame(fn, n, 0)) /\ Nesting' /\ StackOk
      BY <1>1, <1>2, <2>1, <2>3, PushedFrameOk DEF ValueInv, TypeInv, TypeOK
    <3>2. Len(stack') = Len(stack) + 1 /\ stack'[Len(stack) + 1].fn = fn
      BY <2>1, <2>3, <3>1, CallShape DEF Frame
    <3>3. Len(stack) \in Nat /\ Len(stack) >= 1
      BY <1>1, TopOk DEF ValueInv, TypeInv, TypeOK, StackOk
    <3> QED
      BY <3>1, <3>2, <3>3 DEF Nesting
  <2>5. Call(Frame(fn, n, 0))
    BY <2>1, <2>3
  <2> QED
    BY <1>3, <1>10, <2>1, <2>2, <2>4, <2>5
<1>12. CASE EndScope
  BY <1>3, <1>8, <1>12 DEF EndScope
<1>13. CASE ir_extrn_s
  <2>1. /\ Return(NoTemp) /\ UNCHANGED <<program, curr, code, temp_c>>
        /\ module' = Append(module, ModuleNode("IR_EXTRN", Top.node.name, 0, <<>>))
    BY <1>13 DEF ir_extrn_s
  <2>2. ModuleInv'
    BY <2>1, ModuleGrows DEF ModuleNode, ValueInv, TypeInv, TypeOK
  <2>3. NoTemp \in ResultSet /\ Delivers(NoTemp, Top.fn, code, p)
    BY <1>4, TempOk DEF Delivers, ExprFn
  <2> QED
    BY <1>1, <1>2, <1>3, <1>4, <2>1, <2>2, <2>3, ValueAfterReturn
<1>14. CASE ir_return_s
  <2> DEFINE a == Node("IR_RETURN", 0, <<Got(1)>>)
  <2>1. Top.fn = "ir_return_s" /\ Len(Top.got) = 1 /\ Yield(Emit1(a), 0, NoTemp)
    BY <1>14 DEF ir_return_s, InCall
  <2>2. Operands(Top) = <<Value(Top.node.node)>>
    BY <2>1 DEF Operands
  <2>3. Avail(code, Got(1), p) /\ Got(1) \in Nat
    <3>1. Operands(Top)[1].fn = "ir_expr_f" /\ 1 <= Len(Operands(Top)) /\ 1 \in 1 .. Len(Top.got)
      BY <2>1, <2>2 DEF Value, Frame
    <3> QED
      BY <1>1, <1>5, <2>1, <3>1, OperandServed
  <2>4. a \in NodeSet
    BY <2>3, ShortSeqs, NodeOk DEF Irop
  <2>5. a.dest = 0 /\ a.use = <<Got(1)>>
    BY ONLY NodeFields
  <2> HIDE DEF a
  <2>6. UsesIn(code, a, p)
    BY <2>3, <2>5 DEF UsesIn
  <2> QED
    BY <1>1, <1>8, <2>1, <2>4, <2>5, <2>6, EmitSound
<1>15. CASE LableOrGoto
  <2>1. /\ Return(NoTemp) /\ UNCHANGED <<program, curr, module, temp_c>>
        /\ \E l : code' = Emit1(Label(l)) \/ code' = Emit1(Jump(l))
    BY <1>15 DEF LableOrGoto
  <2>2. PICK l, a : code' = Emit1(a) /\ (a = Label(l) \/ a = Jump(l))
    BY <2>1
  <2>3. a \in NodeSet
    BY <1>0, <1>2, <2>2, EmittedNode
  <2>4. /\ Sound(code', temp_c, p, s) /\ \A x : Avail(code, x, p) => Avail(code', x, p)
    BY <1>1, <1>7, <2>2, <2>3, EmitSound
  <2>5. ModuleInv'
    BY <2>1, ModuleInvStays DEF ValueInv
  <2>6. NoTemp \in ResultSet /\ Delivers(NoTemp, Top.fn, code', p)
    BY <1>4, TempOk DEF Delivers, ExprFn
  <2> QED
    BY <1>1, <1>2, <1>4, <2>1, <2>4, <2>5, <2>6, ValueAfterReturn
<1>16. CASE IfBegin
  <2>1. /\ UNCHANGED <<program, curr, module, code, temp_c>> /\ Top.fn = "ir_if_s"
        /\ CallFrom(lable_c + 1, Frame("ir_if_chain_s", Top.node, lable_c + 1))
    BY <1>16 DEF IfBegin, InCall
  <2>2. Demand(Top, Len(Top.got) + 1) = "none"
    BY <2>1 DEF Demand, ExprFn
  <2> QED
    BY <1>0, <1>3, <1>10, <2>1, <2>2
<1>17. CASE IfEnd
  <2>1. Yield(Emit1(Label(Top.lab)), 0, NoTemp)
    BY <1>17 DEF IfEnd
  <2> QED
    BY <1>5, <1>6, <1>7, <1>8, <1>9, <2>1
<1>18. ASSUME \/ Top.fn = "ir_if_chain_s" /\ Top.node.kind \in {"AST_IF", "AST_ELSE_IF"}
              \/ Top.fn = "ir_while_s"
       PROVE  /\ \A i \in Nat : Demand(Top, i) = IF i = 1 THEN "ir_expr_f" ELSE "none"
              /\ Len(Top.got) >= 1 => Avail(code, Got(1), p) /\ Got(1) \in Nat
  <2>1. \A i \in Nat : Demand(Top, i) = IF i = 1 THEN "ir_expr_f" ELSE "none"
    BY <1>18 DEF Demand, ExprFn
  <2>2. Len(Top.got) >= 1 => Delivers(Top.got[1], Demand(Top, 1), code, p)
    BY <1>1, <1>5, TopServed DEF FrameServed
  <2> QED
    BY <1>5, <2>1, <2>2 DEF Delivers, Got
<1>19. CASE ChainCondition
  <2>1. /\ UNCHANGED <<program, curr, module, code, temp_c>>
        /\ CallFrom(lable_c + 1, Frame("ir_expr_f", Top.node.Condition, 0))
        /\ Top.fn = "ir_if_chain_s" /\ Top.node.kind \in {"AST_IF", "AST_ELSE_IF"}
    BY <1>19 DEF ChainCondition, InChain, InCall, Value
  <2>2. Demand(Top, Len(Top.got) + 1) \in {"none", "ir_expr_f"}
    BY <1>5, <1>18, <2>1
  <2> QED
    BY <1>0, <1>3, <1>10, <2>1, <2>2
<1>20. CASE ChainThen
  <2> DEFINE a == Branch(Got(1), Top.lab, Top.lab + 1)
             b == Label(Top.lab)
  <2>1. /\ UNCHANGED <<program, curr, module, temp_c>> /\ code' = Emit2(a, b)
        /\ Call(Frame("ir_scope", Top.node.body, 0)) /\ Len(Top.got) = 1
        /\ Top.fn = "ir_if_chain_s" /\ Top.node.kind \in {"AST_IF", "AST_ELSE_IF"}
    BY <1>20 DEF ChainThen, InChain, InCall
  <2>2. Demand(Top, Len(Top.got) + 1) = "none" /\ Avail(code, Got(1), p) /\ Got(1) \in Nat
    BY <1>5, <1>18, <2>1
  <2>3. a.dest = 0 /\ a.use = <<Got(1)>>
    BY NodeFields
  <2>4. a \in NodeSet /\ b \in NodeSet /\ b.dest = 0 /\ b.use = <<>>
    BY <1>5, <1>6, <1>7, <2>2
  <2> HIDE DEF a, b
  <2>5. UsesIn(code, a, p)
    BY <2>2, <2>3 DEF UsesIn
  <2> QED
    BY <1>9, <1>10, <2>1, <2>2, <2>3, <2>4, <2>5
<1>21. CASE ChainNext
  <2> DEFINE a == Jump(Top.end)
             b == Label(Top.lab + 1)
  <2>1. /\ UNCHANGED <<program, curr, module, temp_c>> /\ code' = Emit2(a, b)
        /\ Len(Top.got) = 2
        /\ Top.fn = "ir_if_chain_s" /\ Top.node.kind \in {"AST_IF", "AST_ELSE_IF"}
        /\ \/ Return(NoTemp)
           \/ Call(Frame("ir_if_chain_s", Top.node.chain, Top.end))
    BY <1>21 DEF ChainNext, InChain, InCall
  <2>2. Demand(Top, Len(Top.got) + 1) = "none"
    BY <1>5, <1>18, <2>1
  <2>3. /\ a \in NodeSet /\ b \in NodeSet /\ a.dest = 0 /\ UsesIn(code, a, p)
        /\ b.dest = 0 /\ b.use = <<>>
    BY <1>5, <1>6, <1>7
  <2> HIDE DEF a, b
  <2>4. Sound(code', temp_c, p, s) /\ \A x : Avail(code, x, p) => Avail(code', x, p)
    BY <1>9, <2>1, <2>3
  <2>5. CASE Return(NoTemp)
    <3>1. NoTemp \in ResultSet /\ Delivers(NoTemp, Top.fn, code', p) /\ ModuleInv'
      BY <1>4, <2>1, TempOk, ModuleInvStays DEF Delivers, ExprFn, ValueInv
    <3> QED
      BY <1>1, <1>2, <1>4, <2>1, <2>4, <2>5, <3>1, ValueAfterReturn
  <2>6. CASE Call(Frame("ir_if_chain_s", Top.node.chain, Top.end))
    BY <1>10, <2>1, <2>2, <2>4, <2>6
  <2> QED
    BY <2>1, <2>5, <2>6
<1>22. CASE ChainElse
  <2>1. /\ UNCHANGED <<program, curr, module, code, temp_c>>
        /\ Call(Frame("ir_scope", Top.node, 0))
        /\ Top.fn = "ir_if_chain_s" /\ Top.node.kind = "AST_ELSE"
    BY <1>22 DEF ChainElse, InChain, InCall
  <2>2. Demand(Top, Len(Top.got) + 1) = "none"
    BY <2>1 DEF Demand, ExprFn
  <2> QED
    BY <1>3, <1>10, <2>1, <2>2
<1>23. CASE ChainEnd
  BY <1>3, <1>8, <1>23 DEF ChainEnd
<1>24. CASE WhileCondition
  <2>1. /\ UNCHANGED <<program, curr, module, temp_c>> /\ code' = Emit1(Label(lable_c + 1))
        /\ CallFrom(lable_c + 1, Frame("ir_expr_f", Top.node.Condition, 0))
        /\ Top.fn = "ir_while_s"
    BY <1>24 DEF WhileCondition, InCall, Value
  <2>2. Demand(Top, Len(Top.got) + 1) \in {"none", "ir_expr_f"}
    BY <1>5, <1>18, <2>1
  <2>3. Sound(code', temp_c, p, s) /\ \A x : Avail(code, x, p) => Avail(code', x, p)
    BY <1>0, <1>6, <1>7, <1>9, <2>1
  <2> QED
    BY <1>0, <1>10, <2>1, <2>2, <2>3
<1>25. CASE WhileBody
  <2> DEFINE a == Branch(Got(1), Top.lab + 1, Top.lab + 2)
             b == Label(Top.lab + 1)
  <2>1. /\ UNCHANGED <<program, curr, module, temp_c>> /\ code' = Emit2(a, b)
        /\ Call(Frame("ir_scope", Top.node.body, 0)) /\ Len(Top.got) = 1
        /\ Top.fn = "ir_while_s"
    BY <1>25 DEF WhileBody, InCall
  <2>2. Demand(Top, Len(Top.got) + 1) = "none" /\ Avail(code, Got(1), p) /\ Got(1) \in Nat
    BY <1>5, <1>18, <2>1
  <2>3. a.dest = 0 /\ a.use = <<Got(1)>>
    BY NodeFields
  <2>4. a \in NodeSet /\ b \in NodeSet /\ b.dest = 0 /\ b.use = <<>>
    BY <1>5, <1>6, <1>7, <2>2
  <2> HIDE DEF a, b
  <2>5. UsesIn(code, a, p)
    BY <2>2, <2>3 DEF UsesIn
  <2> QED
    BY <1>9, <1>10, <2>1, <2>2, <2>3, <2>4, <2>5
<1>26. CASE WhileEnd
  <2>1. Yield(Emit2(Jump(Top.lab), Label(Top.lab + 2)), 0, NoTemp)
    BY <1>26 DEF WhileEnd
  <2> QED
    BY <1>5, <1>6, <1>7, <1>8, <1>9, <2>1
<1>27. CASE ir_auto_s
  <2> DEFINE n == Len(stack) - 1
             a == Node("OP_ALLOC", temp_c + 1, <<>>)
  <2>1. /\ Top.fn = "ir_auto_s" /\ code' = Emit1(a) /\ temp_c' = temp_c + 1
        /\ UNCHANGED <<program, curr, module>>
    BY <1>27 DEF ir_auto_s, InCall
  <2>2. Len(stack) > 1 /\ Len(stack) \in Nat /\ n \in 1 .. n /\ n + 1 = Len(stack)
    BY <1>1, <2>1 DEF ValueInv, TypeInv, TypeOK, StackOk, Nesting, Top
  <2>3. /\ Len(stack') = n
        /\ \A k \in 1 .. n :
             /\ stack'[k].fn = stack[k].fn /\ stack'[k].node = stack[k].node
             /\ k # n => stack'[k].got = stack[k].got
             /\ DOMAIN stack'[k].symtab = DOMAIN stack[k].symtab
             /\ \A m \in DOMAIN stack[k].symtab :
                  stack'[k].symtab[m].temp_dest
                    \in {stack[k].symtab[m].temp_dest, temp_c + 1}
        /\ stack'[n].got = Append(stack[n].got, NoTemp)
    BY <1>0, <1>27, <2>2, AutoShape DEF ValueInv, TypeInv, TypeOK
  <2>4. a.dest = temp_c + 1 /\ a.use = <<>>
    BY NodeFields
  <2>5. a \in NodeSet
    BY <1>0, <1>2, <2>1, EmittedNode
  <2> HIDE DEF a
  <2>6. UsesIn(code, a, p)
    BY <2>4 DEF UsesIn
  <2>7. /\ Sound(code', temp_c + 1, p, s) /\ Avail(code', temp_c + 1, p)
        /\ \A x : Avail(code, x, p) => Avail(code', x, p)
    BY <1>1, <2>1, <2>4, <2>5, <2>6, EmitSound
  <2>8. Params' = Params
    BY <2>1 DEF Params
  <2>9. \A k \in 1 .. n : stack[k].got \in Seq(ResultSet)
    BY <2>2 DEF ValueInv, TypeInv, TypeOK, StackOk, FrameOk
  <2>10. \A k \in 1 .. n : FrameServed(stack[k], code', p)
    BY <2>2, <2>7, ServedByMore DEF ValueInv, TempInv
  <2>11. \A k \in 1 .. n : \A i : Demand(stack'[k], i) = Demand(stack[k], i)
    BY <2>3, DemandStays
  <2>12. Demand(stack[n], Len(stack[n].got) + 1) = "none"
    <3>1. Demand(stack[n], Len(stack[n].got) + 1) \in {"none", "ir_auto_s"}
      BY <2>1, <2>2 DEF ValueInv, TempInv, Awaited, Top
    <3>2. FrameOk(stack[n])
      BY <2>2 DEF ValueInv, TypeInv, TypeOK, StackOk
    <3>3. CASE stack[n].fn \in ExprFn \cup {"ir_return_s"}
      BY <3>1, <3>2, <3>3, OperandOk DEF Demand, ExprFn
    <3>4. CASE stack[n].fn \notin ExprFn \cup {"ir_return_s"}
      BY <3>1, <3>4 DEF Demand
    <3> QED
      BY <3>3, <3>4
  <2> HIDE DEF n
  <2>13. ASSUME NEW k \in 1 .. n PROVE FrameServed(stack'[k], code', p)
    <3>1. \A m \in DOMAIN stack'[k].symtab :
            stack'[k].symtab[m].temp_dest # 0 =>
              Avail(code', stack'[k].symtab[m].temp_dest, p)
      BY <2>3, <2>7, <2>10 DEF FrameServed
    <3>2. CASE k # n
      <4>1. stack'[k].got = stack[k].got
        BY <2>3, <3>2
      <4> QED
        BY <2>10, <2>11, <3>1, <4>1 DEF FrameServed
    <3>3. CASE k = n
      <4>1. /\ Len(stack'[n].got) = Len(stack[n].got) + 1
            /\ \A i \in 1 .. Len(stack[n].got) : stack'[n].got[i] = stack[n].got[i]
            /\ Len(stack[n].got) \in Nat
        BY <2>2, <2>3, <2>9
      <4>2. Delivers(NoTemp, Demand(stack[n], Len(stack[n].got) + 1), code', p)
        BY <2>12 DEF Delivers
      <4>3. stack'[n].got[Len(stack[n].got) + 1] = NoTemp
        BY <2>2, <2>3, <2>9
      <4>4. ASSUME NEW i \in 1 .. Len(stack[n].got) + 1
            PROVE  Delivers(stack'[n].got[i], Demand(stack[n], i), code', p)
        <5>1. CASE i = Len(stack[n].got) + 1
          BY <4>2, <4>3, <5>1
        <5>2. CASE i \in 1 .. Len(stack[n].got)
          BY <2>2, <2>10, <4>1, <5>2 DEF FrameServed
        <5> QED
          BY SMTT(30), <4>1, <5>1, <5>2
      <4> QED
        BY <2>2, <2>11, <3>1, <3>3, <4>1, <4>4 DEF FrameServed
    <3> QED
      BY <3>2, <3>3
  <2>14. Awaited'
    <3> SUFFICES ASSUME NEW k \in 1 .. n - 1
                 PROVE  Demand(stack'[k], Len(stack'[k].got) + 1)
                          \in {"none", stack'[k + 1].fn}
      BY <2>3 DEF Awaited
    <3>1. Demand(stack[k], Len(stack[k].got) + 1) \in {"none", stack[k + 1].fn}
      BY <2>2 DEF ValueInv, TempInv, Awaited, n
    <3>2. /\ stack'[k].got = stack[k].got /\ stack'[k + 1].fn = stack[k + 1].fn
          /\ k \in 1 .. n
      BY <2>2, <2>3
    <3> QED
      BY <2>11, <3>1, <3>2
  <2>15. Sound(code', temp_c', p, Len(stack'[1].got))
    <3>1. s <= Len(stack'[1].got) /\ Len(stack'[1].got) \in Nat
      <4>1. CASE n = 1
        BY <2>2, <2>3, <2>9, <4>1
      <4>2. CASE n # 1
        BY <1>3, <2>2, <2>3, <4>2
      <4> QED
        BY <4>1, <4>2
    <3>2. \A k \in DOMAIN code' : code'[k] \in NodeSet
      BY <1>2 DEF TypeInv, TypeOK
    <3>3. \A k \in DOMAIN code' : code'[k].dest \in Nat
      BY <3>2 DEF NodeSet
    <3> QED
      BY <1>3, <2>1, <2>7, <3>1, <3>3 DEF Sound
  <2>16. TempInv'
    BY <2>3, <2>8, <2>13, <2>14, <2>15 DEF TempInv
  <2>17. ModuleInv'
    BY <2>1, ModuleInvStays DEF ValueInv
  <2> QED
    BY <1>2, <2>16, <2>17 DEF ValueInv
<1> QED
  BY <1>11, <1>12, <1>13, <1>14, <1>15, <1>16, <1>17, <1>19, <1>20, <1>21, <1>22, <1>23,
     <1>24, <1>25, <1>26, <1>27 DEF StatementStep

LEMMA FunctionStepValued == ValueInv /\ FunctionStep => ValueInv'
<1> SUFFICES ASSUME ValueInv, FunctionStep PROVE ValueInv'
  OBVIOUS
<1> DEFINE p == Params
           s == Len(stack[1].got)
           t == temp_c + 1
<1>1. /\ stack # <<>> /\ Top.fn = "ir_function_s"
  BY DEF FunctionStep, SpillParam, FunctionBody, EndFunction, InCall
<1>2. TypeInv'
  BY FunctionStepTyped DEF ValueInv
<1>3. /\ Len(stack) = 1 /\ Top = stack[1] /\ DOMAIN stack = 1 .. 1
      /\ Top.node = program[curr] /\ p = Len(Top.node.params)
  BY <1>1, ParamsOk DEF ValueInv, TypeInv, TypeOK, StackOk, Nesting, Top, Params
<1>4. /\ p \in Nat /\ s \in Nat /\ temp_c \in Nat /\ t \in Nat /\ code \in Seq(NodeSet)
      /\ stack[1].got \in Seq(ResultSet) /\ Sound(code, temp_c, p, s)
      /\ FrameServed(stack[1], code, p)
  BY <1>1, <1>3, ParamsOk, TopServed, TopOk DEF ValueInv, TypeInv, TypeOK, StackOk, FrameOk
<1>5. \A f : f.fn = "ir_function_s" => \A i : Demand(f, i) = "none"
  BY DEF Demand, ExprFn
<1>6. CASE SpillParam
  <2> DEFINE i == s + 1
             a == Node("OP_ALLOC", t, <<>>)
             b == Node("OP_STORE", 0, <<t, i>>)
             d == Node("OP_ADDRESS", i, <<t>>)
             c1 == Append(code, a)
             c2 == Append(c1, b)
             c3 == Append(c2, d)
  <2>1. /\ code' = c3 /\ temp_c' = t /\ UNCHANGED <<program, curr, module>>
        /\ stack' = [stack EXCEPT ![1].got = Append(@, NoTemp)] /\ i <= p
    BY <1>3, <1>4, <1>6 DEF SpillParam, Emit3
  <2>2. a \in NodeSet /\ b \in NodeSet /\ d \in NodeSet
    <3>1. <<t, i>> \in Seq(Nat) /\ <<t>> \in Seq(Nat) /\ <<>> \in Seq(Nat) /\ i \in Nat
      BY <1>4, ShortSeqs
    <3>2. a \in NodeSet
      BY <1>4, <3>1, NodeOk DEF Irop
    <3>3. b \in NodeSet
      BY <1>4, <3>1, NodeOk DEF Irop
    <3>4. d \in NodeSet
      BY <1>4, <3>1, NodeOk DEF Irop
    <3> QED
      BY <3>2, <3>3, <3>4
  <2>3. /\ a.dest = t /\ a.use = <<>> /\ b.dest = 0 /\ b.use = <<t, i>>
        /\ d.dest = i /\ d.use = <<t>>
    BY ONLY NodeFields
  <2> HIDE DEF a, b, d
  <2>4. /\ c1 \in Seq(NodeSet) /\ Sound(c1, t, p, s) /\ Avail(c1, t, p)
        /\ \A x : Avail(code, x, p) => Avail(c1, x, p)
    <3>1. UsesIn(code, a, p)
      BY <2>3 DEF UsesIn
    <3> QED
      BY <1>4, <2>2, <2>3, <3>1, SoundNext
  <2> HIDE DEF c1
  <2>5. /\ c2 \in Seq(NodeSet) /\ Sound(c2, t, p, s)
        /\ \A x : Avail(c1, x, p) => Avail(c2, x, p)
    <3>1. Avail(c1, i, p)
      BY <1>4, <2>1 DEF Avail
    <3>2. UsesIn(c1, b, p)
      BY <2>3, <2>4, <3>1 DEF UsesIn
    <3> QED
      BY <1>4, <2>2, <2>3, <2>4, <3>2, SoundStore
  <2> HIDE DEF c2
  <2>6. /\ Sound(c3, t, p, i) /\ \A x : Avail(c2, x, p) => Avail(c3, x, p)
    <3>1. UsesIn(c2, d, p)
      BY <2>3, <2>4, <2>5 DEF UsesIn
    <3>2. i \in Nat /\ s <= i /\ t <= t
      BY <1>4
    <3> HIDE DEF t
    <3> QED
      BY <1>4, <2>1, <2>2, <2>3, <2>5, <3>1, <3>2, SoundAppend
  <2> HIDE DEF c3
  <2>7. /\ Len(stack') = 1 /\ stack'[1].fn = stack[1].fn
        /\ stack'[1].symtab = stack[1].symtab /\ stack'[1].got = Append(stack[1].got, NoTemp)
    <3>1. stack[1] \in [fn : {stack[1].fn}, node : {stack[1].node}, got : Seq(ResultSet),
                        lab : Nat, end : Nat, symtab : {stack[1].symtab}]
      BY <1>3 DEF ValueInv, TypeInv, TypeOK, StackOk, FrameOk
    <3>2. DOMAIN stack' = 1 .. 1
      BY <1>3, <2>1
    <3>3. Len(stack') = 1
      BY <3>2
    <3> QED
      BY <1>3, <2>1, <3>1, <3>3
  <2>8. Len(stack'[1].got) = i
    BY <1>4, <2>7
  <2>9. FrameServed(stack'[1], code', p)
    <3>1. Delivers(NoTemp, "none", code', p) /\ \A r : Delivers(r, "none", code', p)
      BY DEF Delivers
    <3>2. \A m \in DOMAIN stack'[1].symtab :
            stack'[1].symtab[m].temp_dest # 0 =>
              Avail(code', stack'[1].symtab[m].temp_dest, p)
      BY <1>4, <2>1, <2>4, <2>5, <2>6, <2>7 DEF FrameServed
    <3> QED
      BY <1>1, <1>3, <1>5, <2>7, <3>1, <3>2 DEF FrameServed
  <2>10. Params' = p
    BY <2>1 DEF Params
  <2>11. Awaited' /\ \A k \in 1 .. Len(stack') : FrameServed(stack'[k], code', p)
    BY <2>7, <2>9 DEF Awaited
  <2>12. Sound(code', temp_c', p, Len(stack'[1].got))
    BY <2>1, <2>6, <2>8
  <2>13. TempInv'
    BY <2>10, <2>11, <2>12 DEF TempInv
  <2> QED
    BY <1>2, <2>1, <2>13, ModuleInvStays DEF ValueInv
<1>7. CASE FunctionBody
  <2>1. /\ Call(Frame("ir_scope", Top.node.body, 0))
        /\ UNCHANGED <<program, curr, module, code, temp_c>>
    BY <1>7 DEF FunctionBody
  <2>2. Demand(Top, Len(Top.got) + 1) = "none"
    BY <1>1, <1>5
  <2> QED
    BY <1>1, <1>2, <1>4, <2>1, <2>2, StatementCalls
<1>8. CASE EndFunction
  <2> DEFINE a == Imm("OP_CONST", t, 0)
             b == Node("IR_RETURN", 0, <<t>>)
             c1 == Append(code, a)
             c2 == Append(c1, b)
             m == ModuleNode("IR_FUNCTION", Top.node.name, p, code')
  <2>1. /\ code' = code \/ code' = c2
        /\ module' = Append(module, m) /\ stack' = <<>>
    BY <1>3, <1>8 DEF EndFunction, Emit2
  <2>2. a \in NodeSet /\ b \in NodeSet
    BY <1>4, ShortSeqs, NodeOk, ImmOk DEF Irop
  <2>3. a.dest = t /\ a.use = <<>> /\ b.dest = 0 /\ b.use = <<t>>
    BY ONLY NodeFields
  <2> HIDE DEF a, b
  <2>4. c1 \in Seq(NodeSet) /\ Sound(c1, t, p, s) /\ Avail(c1, t, p)
    <3>1. UsesIn(code, a, p)
      BY <2>3 DEF UsesIn
    <3> QED
      BY <1>4, <2>2, <2>3, <3>1, SoundNext
  <2> HIDE DEF c1
  <2>5. Sound(c2, t, p, s)
    <3>1. UsesIn(c1, b, p)
      BY <2>3, <2>4 DEF UsesIn
    <3> QED
      BY <1>4, <2>2, <2>3, <2>4, <3>1, SoundStore
  <2> HIDE DEF c2
  <2>6. UsesOk(code', p) /\ UniqueDests(code')
    BY <1>4, <2>1, <2>5 DEF Sound
  <2>7. m.nodes = code' /\ m.size = p
    BY DEF ModuleNode
  <2> HIDE DEF m
  <2>8. ModuleInv'
    BY <2>1, <2>6, <2>7, ModuleGrows DEF ValueInv, TypeInv, TypeOK
  <2>9. TempInv'
    BY <2>1 DEF TempInv
  <2> QED
    BY <1>2, <2>8, <2>9 DEF ValueInv
<1> QED
  BY <1>6, <1>7, <1>8 DEF FunctionStep

\* gen_ir
LEMMA ModuleStepValued == ValueInv /\ ModuleStep => ValueInv'
<1> SUFFICES ASSUME ValueInv, ModuleStep PROVE ValueInv'
  OBVIOUS
<1>1. TypeInv'
  BY ModuleStepTyped DEF ValueInv
<1>2. CASE GenDeclaration
  <2>1. /\ stack' = <<>>
        /\ \E m : module' = Append(module, m) /\ m.kind # "IR_FUNCTION"
    BY <1>2 DEF GenDeclaration, AtTopLevel, ModuleNode
  <2>2. ModuleInv'
    BY <2>1, ModuleGrows DEF ValueInv, TypeInv, TypeOK
  <2> QED
    BY <1>1, <2>1, <2>2 DEF ValueInv, TempInv
<1>3. CASE BeginFunction
  <2> DEFINE d == program[curr]
             f == Frame("ir_function_s", d, 0)
             n == Len(d.params)
  <2>1. /\ code' = <<Label(1)>> /\ temp_c' = n /\ stack' = <<f>>
        /\ UNCHANGED <<program, curr, module>>
    BY <1>3 DEF BeginFunction
  <2>2. IsFunction(d)
    <3>1. curr \in 1 .. Len(program) /\ d.kind = "AST_FUNCTION"
      BY <1>3, ProgramAssumption DEF BeginFunction, ValueInv, TypeInv, TypeOK
    <3> QED
      BY <3>1, ProgramAssumption DEF IsDeclaration, ValueInv, TypeInv, TypeOK
  <2>3. n \in Nat /\ d.params \in Seq(Name)
    BY <2>2 DEF IsFunction
  <2>4. f.got = <<>> /\ f.symtab = ParamTab(d.params)
    BY DEF Frame
  <2>5. \A m \in DOMAIN f.symtab : f.symtab[m].temp_dest \in 1 .. n
    <3>1. \A m \in {d.params[i] : i \in DOMAIN d.params} :
            (CHOOSE i \in DOMAIN d.params : d.params[i] = m) \in 1 .. n
      BY <2>3
    <3>2. f.symtab = [m \in {d.params[i] : i \in DOMAIN d.params} |->
                        VarInfo("AUTO_VAR", CHOOSE i \in DOMAIN d.params : d.params[i] = m)]
      BY <2>4, UnsetIsAuto DEF ParamTab
    <3> QED
      BY <3>1, <3>2 DEF VarInfo
  <2> HIDE DEF f
  <2>6. /\ Len(stack') = 1 /\ stack'[1] = f /\ Len(f.got) = 0
        /\ DOMAIN code' = 1 .. 1 /\ code'[1].dest = 0 /\ code'[1].use = <<>>
    BY <2>1, <2>4, NodeFields
  <2>7. Params' = n
    BY <2>1 DEF Params
  <2> HIDE DEF n
  <2>8. Sound(code', temp_c', n, 0)
    BY <2>1, <2>3, <2>6 DEF Sound, UniqueDests, UsesOk
  <2>9. FrameServed(f, code', n)
    BY <2>5, <2>6 DEF FrameServed, Avail
  <2>10. TempInv'
    BY <2>6, <2>7, <2>8, <2>9 DEF TempInv, Awaited
  <2> QED
    BY <1>1, <2>1, <2>10, ModuleInvStays DEF ValueInv
<1>4. CASE GenDone
  BY <1>1, <1>4, ModuleInvStays DEF GenDone, AtTopLevel, ValueInv, TempInv
<1> QED
  BY <1>2, <1>3, <1>4 DEF ModuleStep

\* The values of a function's temporaries are invariantly in order: what every
\* activation of a C function under ir_function_s has received from its calls
\* are temporaries that some emitted node, or a caller, has filled.
THEOREM ValuesKept == Spec => []ValueInv
<1>1. Init => ValueInv
  <2> SUFFICES ASSUME Init PROVE ValueInv
    OBVIOUS
  <2>1. TypeInv
    BY InitTyped
  <2> QED
    BY <2>1 DEF Init, ValueInv, TempInv, ModuleInv, FunctionsDone
<1>2. ValueInv /\ [Next]_vars => ValueInv'
  <2>1. ValueInv /\ UNCHANGED vars => ValueInv'
    <3> SUFFICES ASSUME ValueInv, UNCHANGED vars PROVE ValueInv'
      OBVIOUS
    <3>1. TypeInv'
      BY TypeInvStutters DEF ValueInv
    <3>2. TempInv' /\ ModuleInv'
      BY DEF ValueInv, TempInv, ModuleInv, FunctionsDone, Awaited, Params, vars
    <3> QED
      BY <3>1, <3>2 DEF ValueInv
  <2> QED
    BY <2>1, ModuleStepValued, FunctionStepValued, ExprStepValued, StatementStepValued DEF Next
<1> QED
  BY <1>1, <1>2, PTL DEF Spec

LEMMA ValuesServe ==
  ASSUME ValueInv PROVE DefBeforeUse /\ SingleAssignment
  BY DEF ValueInv, TempInv, ModuleInv, Sound, DefBeforeUse, SingleAssignment

\* For every program the parser can build, every temporary a node of a
\* function reads is a parameter or the result of an earlier node of the same
\* function, while the function is generated and when it is in the module.
THEOREM DefinedBeforeUsed == Spec => []DefBeforeUse
<1>1. ValueInv => DefBeforeUse
  BY ValuesServe
<1> QED
  BY <1>1, ValuesKept, PTL

\* For every program the parser can build, no two nodes of a function write
\* the same temporary: the nodes an operand's evaluation emits never disturb
\* the value another operand left, nor the address of a variable's slot.
THEOREM AssignedOnce == Spec => []SingleAssignment
<1>1. ValueInv => SingleAssignment
  BY ValuesServe
<1> QED
  BY <1>1, ValuesKept, PTL
=============================================================================
