---------------------------- MODULE IrGenRefusals ----------------------------
(***************************************************************************)
(* Which programs the IR generator refuses: the proof of RefusesIllFormed,   *)
(* for every program.                                                       *)
(***************************************************************************)
EXTENDS IrGenRules, IrGenTemps

\* What the stack is made of.
LEMMA StackFacts ==
  ASSUME TypeInv, stack # <<>>
  PROVE  /\ StackOk /\ Len(stack) \in Nat \ {0} /\ Top = stack[Len(stack)]
         /\ Len(stack) \in 1 .. Len(stack) /\ Len(stack) - 1 \in Nat
         /\ \A k \in 1 .. Len(stack) : FrameOk(stack[k]) /\ Len(stack[k].got) \in Nat
         /\ BegunCalls(stack, Len(stack)) = Len(Top.got)
         /\ \A k \in 1 .. Len(stack) - 1 : BegunCalls(stack, k) = Len(stack[k].got) + 1
<1>1. /\ StackOk /\ Len(stack) \in Nat \ {0} /\ Top = stack[Len(stack)]
      /\ Len(stack) \in 1 .. Len(stack) /\ Len(stack) - 1 \in Nat
  BY DEF TypeInv, TypeOK, StackOk, Top
<1>2. \A k \in 1 .. Len(stack) : FrameOk(stack[k]) /\ Len(stack[k].got) \in Nat
  BY <1>1 DEF StackOk, FrameOk
<1>3. BegunCalls(stack, Len(stack)) = Len(Top.got) + 0
  BY <1>1 DEF BegunCalls
<1>4. \A m \in Nat : m + 0 = m
  OBVIOUS
<1>5. Len(Top.got) \in Nat
  BY <1>1, <1>2
<1>6. \A k \in 1 .. Len(stack) - 1 : BegunCalls(stack, k) = Len(stack[k].got) + 1
  <2> TAKE k \in 1 .. Len(stack) - 1
  <2>1. k # Len(stack)
    BY <1>1
  <2> QED
    BY <2>1 DEF BegunCalls
<1> QED
  BY <1>1, <1>2, <1>3, <1>4, <1>5, <1>6

-----------------------------------------------------------------------------
(* The variables in force                                                   *)

\* They depend on the tables alone.
LEMMA SeesSame ==
  ASSUME NEW st, NEW su, NEW n \in Nat, NEW G,
         \A k \in 1 .. n : su[k].symtab = st[k].symtab
  PROVE  Sees(su, n, G) = Sees(st, n, G)
<1>1. \A x : Around(su, n, x) = Around(st, n, x)
  BY DEF Around
<1>2. \A x : \A k \in Around(st, n, x) : su[k].symtab = st[k].symtab
  BY DEF Around
<1> QED
  BY <1>1, <1>2 DEF Sees

\* A block hides what it declares, and adds what has storage.
LEMMA SeesNext ==
  ASSUME NEW st, NEW n \in Nat, NEW G, DOMAIN st[n + 1].symtab \subseteq Name
  PROVE  Sees(st, n + 1, G) =
           (Sees(st, n, G) \ DOMAIN st[n + 1].symtab)
             \cup {x \in DOMAIN st[n + 1].symtab : st[n + 1].symtab[x].temp_dest # 0}
<1> DEFINE t == st[n + 1].symtab
<1>1. n + 1 \in 1 .. n + 1 /\ \A k \in 1 .. n : k \in 1 .. n + 1 /\ k <= n + 1 /\ k # n + 1
  OBVIOUS
<1>2. \A k \in 1 .. n + 1 : k \in 1 .. n \/ k = n + 1
  OBVIOUS
<1>3. ASSUME NEW x \in Name, x \notin DOMAIN t
      PROVE  x \in Sees(st, n + 1, G) <=> x \in Sees(st, n, G)
  <2>1. Around(st, n + 1, x) = Around(st, n, x)
    BY <1>1, <1>2, <1>3 DEF Around
  <2> QED
    BY <2>1 DEF Sees
<1>4. ASSUME NEW x \in Name, x \in DOMAIN t
      PROVE  x \in Sees(st, n + 1, G) <=> t[x].temp_dest # 0
  <2>1. n + 1 \in Around(st, n + 1, x)
    BY <1>1, <1>4 DEF Around
  <2>2. \A j \in Around(st, n + 1, x) : j \in 1 .. n + 1 /\ j <= n + 1
    BY DEF Around
  <2>3. ASSUME NEW k \in Around(st, n + 1, x), \A j \in Around(st, n + 1, x) : j <= k
        PROVE  k = n + 1
    BY <2>1, <2>2, <2>3
  <2> QED
    BY <2>1, <2>2, <2>3 DEF Sees
<1>5. \A x \in Sees(st, n + 1, G) : x \in Name
  BY DEF Sees
<1>6. \A x \in Sees(st, n, G) : x \in Name
  BY DEF Sees
<1> HIDE DEF t
<1>7. DOMAIN t \subseteq Name
  BY DEF t
<1>8. Sees(st, n + 1, G) = (Sees(st, n, G) \ DOMAIN t) \cup {x \in DOMAIN t : t[x].temp_dest # 0}
  BY <1>3, <1>4, <1>5, <1>6, <1>7
<1> QED
  BY <1>8 DEF t

LEMMA SeesNone ==
  ASSUME NEW st, NEW G, G \subseteq Name
  PROVE  Sees(st, 0, G) = G
<1>1. \A x : Around(st, 0, x) = {}
  BY DEF Around
<1> QED
  BY <1>1 DEF Sees

LEMMA GlobalsNamed == ASSUME TypeInv PROVE Globals \subseteq Name
<1>1. program \in Programs
  BY DEF TypeInv, TypeOK
<1>2. \A i \in DOMAIN program : IsFunction(program[i]) \/ IsDeclaration(program[i])
  BY <1>1, ProgramAssumption
<1> QED
  BY <1>2 DEF Globals, IsFunction, IsDeclaration

LEMMA DeclaredIsAuto ==
  ASSUME NEW body, NEW S, body \in Seq(S), NEW n \in Nat
  PROVE  Declared(body, n) \subseteq Autos(body)
<1>1. \A j \in DOMAIN body : j <= Len(body)
  OBVIOUS
<1> QED
  BY <1>1 DEF Declared, Autos

\* A name is refused where it is not in force.
LEMMA SeesUsable ==
  ASSUME TypeInv, stack # <<>>, NEW x \in Name
  PROVE  Unusable(x) <=> x \notin Sees(stack, Len(stack), Globals)
<1>1. StackOk /\ DOMAIN stack = 1 .. Len(stack)
  BY StackFacts DEF StackOk
<1>2. Around(stack, Len(stack), x) = Holders(x)
  BY <1>1 DEF Around, Holders
<1>3. CASE Holders(x) = {}
  <2>1. x \in Sees(stack, Len(stack), Globals) <=> x \in Globals
    BY <1>2, <1>3 DEF Sees
  <2>2. lookup_symbol(x).kind = IF x \in Globals THEN "GLOBAL_VAR" ELSE "UNDEFINED"
    BY <1>3 DEF lookup_symbol, VarInfo
  <2> QED
    BY <2>1, <2>2 DEF Unusable
<1>4. CASE Holders(x) # {}
  <2> DEFINE k == Innermost(x)
  <2>1. k \in Holders(x) /\ \A j \in Holders(x) : j <= k
    <3>1. Holders(x) \subseteq 1 .. Len(stack) /\ Len(stack) \in Nat
      BY <1>1, StackFacts DEF Holders
    <3> QED
      BY <1>4, <3>1, GreatestExists DEF Innermost
  <2>2. k \in 1 .. Len(stack) /\ stack[k].symtab[x] \in VarInfoSet
    BY <1>1, <2>1 DEF Holders, StackOk, FrameOk, IsTable
  <2>3. lookup_symbol(x) = stack[k].symtab[x]
    BY <1>4 DEF lookup_symbol
  <2> HIDE DEF k
  <2>4. Unusable(x) <=> stack[k].symtab[x].temp_dest = 0
    BY <2>2, <2>3 DEF Unusable, VarInfoSet
  <2>5. ASSUME NEW i \in Holders(x), \A j \in Holders(x) : j <= i
        PROVE  i = k
    BY <1>1, <2>1, <2>5 DEF Holders
  <2>6. x \in Sees(stack, Len(stack), Globals) <=>
          \E i \in Holders(x) : /\ \A j \in Holders(x) : j <= i
                                /\ stack[i].symtab[x].temp_dest # 0
    BY <1>2, <1>4 DEF Sees
  <2>7. x \in Sees(stack, Len(stack), Globals) <=> stack[k].symtab[x].temp_dest # 0
    BY <2>1, <2>5, <2>6
  <2> QED
    BY <2>4, <2>7
<1> QED
  BY <1>3, <1>4

-----------------------------------------------------------------------------
(* Frames and trees                                                         *)

\* A frame's labels and results do not matter, only its function and node.
LEMMA InOrderSame ==
  ASSUME NEW f, NEW g, g.fn = f.fn, g.node = f.node, NEW b, NEW E, NEW T
  PROVE  InOrder(g, b, E, T) <=> InOrder(f, b, E, T)
<1>1. Operands(g) = Operands(f)
  BY DEF Operands
<1>2. Remaining(g, b, E, T) <=> Remaining(f, b, E, T)
  BY <1>1 DEF Remaining
<1>3. Accepted(g, E, T) <=> Accepted(f, E, T)
  BY DEF Accepted
<1> QED
  BY <1>2, <1>3 DEF InOrder

LEMMA FrameFields ==
  ASSUME NEW fn, NEW n, NEW end
  PROVE  /\ Frame(fn, n, end).fn = fn /\ Frame(fn, n, end).node = n
         /\ Frame(fn, n, end).got = <<>> /\ Len(Frame(fn, n, end).got) = 0
         /\ fn \notin {"ir_scope", "ir_function_s"} => Frame(fn, n, end).symtab = NoTab
         /\ fn = "ir_scope" => Frame(fn, n, end).symtab = ScopeTab(n.body)
         /\ fn = "ir_function_s" => Frame(fn, n, end).symtab = ParamTab(n.params)
  BY DEF Frame

\* Evaluating an expression for its value, and for its place.
LEMMA ValueInOrder ==
  ASSUME NEW e \in Expr, NEW E, NEW T
  PROVE  InOrder(Value(e), 0, E, T) <=> FineExpr(e, E)
<1> DEFINE f == Value(e)
<1>1. f.fn = "ir_expr_f" /\ f.node = e
  BY FrameFields DEF Value
<1>2. ExprRules(e) /\ e.kind \in ExprKind
  BY RulesAssumption, ExprAssumption
<1>3. InOrder(f, 0, E, T) <=>
        Accepted(f, E, T) /\ \A i \in 1 .. Len(Operands(f)) : FineCall(Operands(f)[i], E)
  <2>1. Remaining(f, 0, E, T) <=> \A i \in 0 + 1 .. Len(Operands(f)) : FineCall(Operands(f)[i], E)
    BY <1>1 DEF Remaining
  <2>2. 0 + 1 = 1
    OBVIOUS
  <2> QED
    BY <2>1, <2>2 DEF InOrder
<1>4. \A x : /\ FineCall(Value(x), E) <=> FineExpr(x, E)
             /\ FineCall(Place(x), E) <=> FineExpr(x, E) /\ IsPlace(x)
  <2> TAKE x
  <2>1. /\ Value(x).fn = "ir_expr_f" /\ Value(x).node = x
        /\ Place(x).fn = "ir_lvalue" /\ Place(x).node = x
    BY FrameFields DEF Value, Place
  <2> QED
    BY <2>1 DEF FineCall
<1> HIDE DEF f
<1>5. CASE e.kind \in {"INT", "STRING", "IDENTIFIER", "OTHER"}
  <2>1. Operands(f) = <<>> /\ Len(Operands(f)) = 0
    BY <1>1, <1>5 DEF Operands
  <2>2. \A i \in 1 .. 0 : FALSE
    OBVIOUS
  <2>3. InOrder(f, 0, E, T) <=> Accepted(f, E, T)
    BY <1>3, <2>1, <2>2
  <2>4. Accepted(f, E, T) <=> e.kind # "OTHER" /\ (e.kind = "IDENTIFIER" => e.value \in E)
    BY <1>1, <1>5 DEF Accepted
  <2>5. FineExpr(e, E) <=> e.kind # "OTHER" /\ (e.kind = "IDENTIFIER" => e.value \in E)
    BY <1>2, <1>5 DEF ExprRules, FineExpr
  <2> QED
    BY <2>3, <2>4, <2>5 DEF f
<1>6. CASE e.kind = "AST_UNARY"
  <2>1. Accepted(f, E, T) <=> e.op \in UnaryOps
    BY <1>1, <1>6 DEF Accepted
  <2>2. CASE e.op \in PlaceOps
    <3>1. Operands(f) = <<Place(e.node)>>
      BY <1>1, <1>6, <2>2 DEF Operands, PlaceOps
    <3>2. (\A i \in 1 .. Len(Operands(f)) : FineCall(Operands(f)[i], E))
            <=> FineCall(Place(e.node), E)
      BY <3>1
    <3>3. FineExpr(e, E) <=> e.op \in UnaryOps /\ IsPlace(e.node) /\ FineExpr(e.node, E)
      BY <1>2, <1>6, <2>2 DEF ExprRules, FineExpr
    <3> QED
      BY <1>3, <1>4, <2>1, <3>2, <3>3 DEF f
  <2>3. CASE e.op \notin PlaceOps
    <3>1. Operands(f) = <<Value(e.node)>>
      BY <1>1, <1>6, <2>3 DEF Operands, PlaceOps
    <3>2. (\A i \in 1 .. Len(Operands(f)) : FineCall(Operands(f)[i], E))
            <=> FineCall(Value(e.node), E)
      BY <3>1
    <3>3. FineExpr(e, E) <=> e.op \in UnaryOps /\ FineExpr(e.node, E)
      BY <1>2, <1>6, <2>3 DEF ExprRules, FineExpr
    <3> QED
      BY <1>3, <1>4, <2>1, <3>2, <3>3 DEF f
  <2> QED
    BY <2>2, <2>3
<1>7. CASE e.kind = "AST_BINARY"
  <2>1. Accepted(f, E, T) <=> e.op \in BinaryOps \cup {"ASSIGN"}
    BY <1>1, <1>7 DEF Accepted
  <2>2. CASE e.op = "ASSIGN"
    <3>1. Operands(f) = <<Value(e.right), Place(e.left)>>
      BY <1>1, <1>7, <2>2 DEF Operands
    <3>2. (\A i \in 1 .. Len(Operands(f)) : FineCall(Operands(f)[i], E))
            <=> FineCall(Value(e.right), E) /\ FineCall(Place(e.left), E)
      BY <3>1
    <3>3. FineExpr(e, E) <=>
            IsPlace(e.left) /\ FineExpr(e.left, E) /\ FineExpr(e.right, E)
      BY <1>2, <1>7, <2>2 DEF ExprRules, FineExpr, BinaryOps
    <3> QED
      BY <1>3, <1>4, <2>1, <2>2, <3>2, <3>3 DEF f
  <2>3. CASE e.op # "ASSIGN"
    <3>1. Operands(f) = <<Value(e.left), Value(e.right)>>
      BY <1>1, <1>7, <2>3 DEF Operands
    <3>2. (\A i \in 1 .. Len(Operands(f)) : FineCall(Operands(f)[i], E))
            <=> FineCall(Value(e.left), E) /\ FineCall(Value(e.right), E)
      BY <3>1
    <3>3. FineExpr(e, E) <=>
            e.op \in BinaryOps /\ FineExpr(e.left, E) /\ FineExpr(e.right, E)
      BY <1>2, <1>7, <2>3 DEF ExprRules, FineExpr
    <3> QED
      BY <1>3, <1>4, <2>1, <2>3, <3>2, <3>3 DEF f
  <2> QED
    BY <2>2, <2>3
<1>8. CASE e.kind = "AST_FUNCTION_CALL"
  <2>1. Accepted(f, E, T)
    BY <1>1, <1>8 DEF Accepted
  <2>2. e.args \in Seq(Expr) /\ Len(e.args) \in Nat
    BY <1>8, ExprAssumption
  <2>3. Operands(f) = [i \in 1 .. Len(e.args) |-> Value(e.args[i])]
    BY <1>1, <1>8 DEF Operands
  <2>4. Len(Operands(f)) = Len(e.args)
        /\ \A i \in 1 .. Len(e.args) : Operands(f)[i] = Value(e.args[i])
    BY <2>2, <2>3
  <2>5. (\A i \in 1 .. Len(Operands(f)) : FineCall(Operands(f)[i], E))
          <=> \A i \in 1 .. Len(e.args) : FineExpr(e.args[i], E)
    BY <1>4, <2>4
  <2>6. FineExpr(e, E) <=> \A i \in 1 .. Len(e.args) : FineExpr(e.args[i], E)
    <3>1. e \in Proper <=> \A i \in 1 .. Len(e.args) : e.args[i] \in Proper
      BY <1>2, <1>8 DEF ExprRules
    <3>2. Uses[e] = UNION {Uses[e.args[i]] : i \in 1 .. Len(e.args)}
      BY <1>2, <1>8 DEF ExprRules
    <3>3. Uses[e] \subseteq E <=> \A i \in 1 .. Len(e.args) : Uses[e.args[i]] \subseteq E
      BY <3>2
    <3> QED
      BY <3>1, <3>3 DEF FineExpr
  <2> QED
    BY <1>3, <2>1, <2>5, <2>6 DEF f
<1> QED
  BY <1>2, <1>5, <1>6, <1>7, <1>8 DEF ExprKind

LEMMA PlaceInOrder ==
  ASSUME NEW e \in Expr, NEW E, NEW T
  PROVE  InOrder(Place(e), 0, E, T) <=> FineExpr(e, E) /\ IsPlace(e)
<1> DEFINE f == Place(e)
<1>1. f.fn = "ir_lvalue" /\ f.node = e
  BY FrameFields DEF Place
<1>2. ExprRules(e)
  BY RulesAssumption
<1>3. Accepted(f, E, T) <=> IsPlace(e) /\ (e.kind = "IDENTIFIER" => e.value \in E)
  BY <1>1 DEF Accepted
<1>4. Remaining(f, 0, E, T) <=> \A i \in 1 .. Len(Operands(f)) : FineCall(Operands(f)[i], E)
  <2>1. Remaining(f, 0, E, T) <=> \A i \in 0 + 1 .. Len(Operands(f)) : FineCall(Operands(f)[i], E)
    BY <1>1 DEF Remaining
  <2>2. 0 + 1 = 1
    OBVIOUS
  <2> QED
    BY <2>1, <2>2
<1> HIDE DEF f
<1>5. CASE ~ IsPlace(e)
  BY <1>3, <1>5 DEF InOrder, f
<1>6. CASE e.kind = "IDENTIFIER"
  <2>1. Operands(f) = <<>> /\ Len(Operands(f)) = 0
    BY <1>1, <1>6 DEF Operands
  <2>2. \A i \in 1 .. 0 : FALSE
    OBVIOUS
  <2>3. FineExpr(e, E) <=> e.value \in E
    BY <1>2, <1>6 DEF ExprRules, FineExpr
  <2>4. IsPlace(e)
    BY <1>6 DEF IsPlace
  <2> QED
    BY <1>3, <1>4, <1>6, <2>1, <2>2, <2>3, <2>4 DEF InOrder, f
<1>7. CASE e.kind = "AST_UNARY" /\ e.op = "MUL"
  <2>1. Operands(f) = <<Value(e.node)>>
    BY <1>1, <1>7 DEF Operands
  <2>2. Value(e.node).fn = "ir_expr_f" /\ Value(e.node).node = e.node
    BY FrameFields DEF Value
  <2>3. FineCall(Value(e.node), E) <=> FineExpr(e.node, E)
    BY <2>2 DEF FineCall
  <2>4. (\A i \in 1 .. Len(Operands(f)) : FineCall(Operands(f)[i], E))
          <=> FineCall(Value(e.node), E)
    BY <2>1
  <2>5. FineExpr(e, E) <=> FineExpr(e.node, E)
    BY <1>2, <1>7 DEF ExprRules, FineExpr, UnaryOps, PlaceOps
  <2>6. IsPlace(e)
    BY <1>7 DEF IsPlace
  <2> QED
    BY <1>3, <1>4, <1>7, <2>3, <2>4, <2>5, <2>6 DEF InOrder, f
<1> QED
  BY <1>5, <1>6, <1>7 DEF IsPlace

\* Generating a block, a chain, and any statement of a block.
LEMMA ScopeInOrder ==
  ASSUME NEW s \in Stmt, s.kind \in {"AST_SCOPE", "AST_ELSE"}, NEW E, NEW T
  PROVE  InOrder(Frame("ir_scope", s, 0), 0, E, T) <=> FineStmt(s, E, T)
<1> DEFINE f == Frame("ir_scope", s, 0)
           A == Autos(s.body)
           Before(i) == Declared(s.body, i - 1)
<1>1. f.fn = "ir_scope" /\ f.node = s
  BY FrameFields
<1>2. ScopeRules(s) /\ Len(s.body) \in Nat
  BY RulesAssumption, StmtAssumption DEF StmtRules
<1>3. Accepted(f, E, T)
  BY <1>1 DEF Accepted
<1>4. Remaining(f, 0, E, T) <=>
        \A i \in 1 .. Len(s.body) : FineStmt(s.body[i], (E \ A) \cup Before(i), T)
  <2>1. Remaining(f, 0, E, T) <=>
          \A i \in 0 + 1 .. Len(s.body) : FineStmt(s.body[i], (E \ A) \cup Before(i), T)
    BY <1>1 DEF Remaining
  <2>2. 0 + 1 = 1
    OBVIOUS
  <2> QED
    BY <2>1, <2>2
<1>5. \A i \in 1 .. Len(s.body) : Before(i) \subseteq A
  <2> TAKE i \in 1 .. Len(s.body)
  <2>1. i - 1 \in Nat /\ s.body \in Seq(Stmt)
    BY <1>2, StmtAssumption
  <2> QED
    BY <2>1, DeclaredIsAuto
<1>6. FineStmt(s, E, T) <=>
        \A i \in 1 .. Len(s.body) :
          /\ s.body[i] \in Sane /\ Needs[s.body[i]] \cap A \subseteq Before(i)
          /\ Needs[s.body[i]] \ A \subseteq E /\ Meets[s.body[i]] \subseteq T
  <2>1. s \in Sane <=> \A i \in 1 .. Len(s.body) :
          s.body[i] \in Sane /\ Needs[s.body[i]] \cap A \subseteq Before(i)
    BY <1>2 DEF ScopeRules
  <2>2. Needs[s] = UNION {Needs[s.body[i]] \ A : i \in 1 .. Len(s.body)}
    BY <1>2 DEF ScopeRules
  <2>3. Meets[s] = UNION {Meets[s.body[i]] : i \in 1 .. Len(s.body)}
    BY <1>2 DEF ScopeRules
  <2> HIDE DEF A
  <2>4. Needs[s] \subseteq E <=> \A i \in 1 .. Len(s.body) : Needs[s.body[i]] \ A \subseteq E
    BY <2>2
  <2>5. Meets[s] \subseteq T <=> \A i \in 1 .. Len(s.body) : Meets[s.body[i]] \subseteq T
    BY <2>3
  <2> QED
    BY <2>1, <2>4, <2>5 DEF FineStmt
<1> HIDE DEF f, A, Before
<1>7. \A i \in 1 .. Len(s.body) :
        FineStmt(s.body[i], (E \ A) \cup Before(i), T) <=>
          /\ s.body[i] \in Sane /\ Needs[s.body[i]] \cap A \subseteq Before(i)
          /\ Needs[s.body[i]] \ A \subseteq E /\ Meets[s.body[i]] \subseteq T
  <2> TAKE i \in 1 .. Len(s.body)
  <2>1. Before(i) \subseteq A
    BY <1>5
  <2>2. Needs[s.body[i]] \subseteq (E \ A) \cup Before(i) <=>
          Needs[s.body[i]] \cap A \subseteq Before(i) /\ Needs[s.body[i]] \ A \subseteq E
    BY <2>1
  <2> QED
    BY <2>2 DEF FineStmt
<1>8. FineStmt(s, E, T) <=>
        \A i \in 1 .. Len(s.body) : FineStmt(s.body[i], (E \ A) \cup Before(i), T)
  BY <1>6, <1>7
<1>9. InOrder(f, 0, E, T) <=> FineStmt(s, E, T)
  BY <1>3, <1>4, <1>8 DEF InOrder
<1> QED
  BY <1>9 DEF f

\* A condition with the block, and the rest of the chain, that hang on it.
LEMMA ConditionFine ==
  ASSUME NEW s \in Stmt, s.kind \in {"AST_IF", "AST_ELSE_IF", "AST_WHILE"}, NEW E, NEW T
  PROVE  FineStmt(s, E, T) <=>
           /\ FineExpr(s.Condition, E) /\ FineStmt(s.body, E, T)
           /\ s.kind # "AST_WHILE" /\ s.chain # NULL => FineStmt(s.chain, E, T)
<1>1. StmtRules(s)
  BY RulesAssumption
<1>2. CASE WhileRules(s) /\ (s.kind = "AST_WHILE" \/ s.chain = NULL)
  BY <1>2 DEF WhileRules, FineStmt, FineExpr
<1>3. CASE ChainRules(s) /\ s.kind # "AST_WHILE" /\ s.chain # NULL
  BY <1>3 DEF ChainRules, FineStmt, FineExpr
<1> QED
  BY <1>1, <1>2, <1>3 DEF StmtRules

LEMMA ChainInOrder ==
  ASSUME NEW s \in Stmt, s.kind \in {"AST_IF", "AST_ELSE_IF", "AST_ELSE"},
         NEW end, NEW E, NEW T
  PROVE  InOrder(Frame("ir_if_chain_s", s, end), 0, E, T) <=> FineStmt(s, E, T)
<1> DEFINE f == Frame("ir_if_chain_s", s, end)
<1>1. f.fn = "ir_if_chain_s" /\ f.node = s
  BY FrameFields
<1> HIDE DEF f
<1>2. Accepted(f, E, T)
  BY <1>1 DEF Accepted
<1>3. CASE s.kind = "AST_ELSE"
  <2>1. Remaining(f, 0, E, T) <=> FineStmt(s, E, T)
    BY <1>1, <1>3 DEF Remaining
  <2> QED
    BY <1>2, <2>1 DEF InOrder, f
<1>4. CASE s.kind # "AST_ELSE"
  <2>1. Remaining(f, 0, E, T) <=>
          /\ FineExpr(s.Condition, E) /\ FineStmt(s.body, E, T)
          /\ s.chain # NULL => FineStmt(s.chain, E, T)
    BY <1>1, <1>4 DEF Remaining
  <2>2. FineStmt(s, E, T) <=>
          /\ FineExpr(s.Condition, E) /\ FineStmt(s.body, E, T)
          /\ s.chain # NULL => FineStmt(s.chain, E, T)
    BY <1>4, ConditionFine
  <2> QED
    BY <1>2, <2>1, <2>2 DEF InOrder, f
<1> QED
  BY <1>3, <1>4

LEMMA StatementInOrder ==
  ASSUME NEW s \in Stmt, s.kind \notin {"AST_ELSE_IF", "AST_ELSE"}, NEW E, NEW T
  PROVE  InOrder(ir_statements(s), 0, E, T) <=> FineStmt(s, E, T)
<1> DEFINE f == Frame(HandlerOf[s.kind], s, 0)
<1>1. StmtRules(s) /\ s.kind \in StmtKind
  BY RulesAssumption, StmtAssumption
<1>2. s.kind # "AST_EXPR" => ir_statements(s) = f /\ f.fn = HandlerOf[s.kind] /\ f.node = s
  BY FrameFields DEF ir_statements
<1>3. CASE s.kind = "AST_EXPR"
  <2>1. ir_statements(s) = Value(s.node) /\ s.node \in Expr
    BY <1>3, StmtAssumption DEF ir_statements
  <2>2. FineStmt(s, E, T) <=> FineExpr(s.node, E)
    BY <1>1, <1>3 DEF StmtRules, FineStmt, FineExpr
  <2> QED
    BY <2>1, <2>2, ValueInOrder
<1>4. CASE s.kind = "AST_SCOPE"
  BY <1>2, <1>4, ScopeInOrder DEF HandlerOf
<1> HIDE DEF f
<1>5. CASE s.kind \in {"AST_AUTO", "AST_EXTRN"}
  <2>1. f.fn \in {"ir_auto_s", "ir_extrn_s"}
    BY <1>2, <1>5 DEF HandlerOf
  <2>2. InOrder(f, 0, E, T)
    BY <2>1 DEF InOrder, Accepted, Remaining
  <2> QED
    BY <1>1, <1>2, <1>5, <2>2 DEF StmtRules, FineStmt
<1>6. CASE s.kind \in {"AST_LABLE", "AST_GOTO"}
  <2>1. f.fn \in {"ir_lable_s", "ir_goto_s"} /\ f.node = s
    BY <1>2, <1>6 DEF HandlerOf
  <2>2. InOrder(f, 0, E, T) <=> s.name \in T
    BY <2>1 DEF InOrder, Accepted, Remaining
  <2>3. FineStmt(s, E, T) <=> s.name \in T
    BY <1>1, <1>6 DEF StmtRules, FineStmt
  <2> QED
    BY <1>2, <1>6, <2>2, <2>3
<1>7. CASE s.kind = "AST_RETURN"
  <2>1. f.fn = "ir_return_s" /\ f.node = s
    BY <1>2, <1>7 DEF HandlerOf
  <2>2. Operands(f) = <<Value(s.node)>>
    BY <2>1 DEF Operands
  <2>3. Value(s.node).fn = "ir_expr_f" /\ Value(s.node).node = s.node
    BY FrameFields DEF Value
  <2>4. FineCall(Value(s.node), E) <=> FineExpr(s.node, E)
    BY <2>3 DEF FineCall
  <2>5. (\A i \in 0 + 1 .. Len(Operands(f)) : FineCall(Operands(f)[i], E))
          <=> FineCall(Value(s.node), E)
    BY <2>2
  <2>6. InOrder(f, 0, E, T) <=> FineExpr(s.node, E)
    BY <2>1, <2>4, <2>5 DEF InOrder, Accepted, Remaining
  <2>7. FineStmt(s, E, T) <=> FineExpr(s.node, E)
    BY <1>1, <1>7 DEF StmtRules, FineStmt, FineExpr
  <2> QED
    BY <1>2, <1>7, <2>6, <2>7
<1>8. CASE s.kind = "AST_IF"
  <2>1. f.fn = "ir_if_s" /\ f.node = s
    BY <1>2, <1>8 DEF HandlerOf
  <2>2. InOrder(f, 0, E, T) <=> FineStmt(s, E, T)
    BY <2>1 DEF InOrder, Accepted, Remaining
  <2> QED
    BY <1>2, <1>8, <2>2
<1>9. CASE s.kind = "AST_WHILE"
  <2>1. f.fn = "ir_while_s" /\ f.node = s
    BY <1>2, <1>9 DEF HandlerOf
  <2>2. Accepted(f, E, T)
    BY <2>1 DEF Accepted
  <2>3. Remaining(f, 0, E, T) <=> FineExpr(s.Condition, E) /\ FineStmt(s.body, E, T)
    BY <2>1 DEF Remaining
  <2>4. FineStmt(s, E, T) <=> FineExpr(s.Condition, E) /\ FineStmt(s.body, E, T)
    BY <1>9, ConditionFine
  <2> QED
    BY <1>2, <1>9, <2>2, <2>3, <2>4 DEF InOrder
<1> QED
  BY <1>1, <1>3, <1>4, <1>5, <1>6, <1>7, <1>8, <1>9 DEF StmtKind

-----------------------------------------------------------------------------
(* The frame on top                                                         *)

\* The variables in force around it, and in what it calls.
Outside == Sees(stack, Len(stack) - 1, Globals)
Within  == Sees(stack, Len(stack), Globals)

LEMMA TopInForce ==
  ASSUME TypeInv, RuleInv, stack # <<>>
  PROVE  /\ Top.fn \notin {"ir_scope", "ir_function_s"} => Within = Outside
         /\ Top.fn = "ir_scope" =>
              Within = (Outside \ Autos(Top.node.body)) \cup Declared(Top.node.body, Len(Top.got))
         /\ Top.fn = "ir_function_s" =>
              Outside = Globals /\ Within = Globals \cup ParamsOf(Top.node)
<1> DEFINE m == Len(stack) - 1
           t == Top.symtab
<1>1. /\ m \in Nat /\ m + 1 = Len(stack) /\ Len(stack) \in 1 .. Len(stack)
      /\ Top = stack[Len(stack)] /\ FrameOk(Top)
  BY StackFacts
<1>2. TableKept(Top)
  BY <1>1 DEF RuleInv
<1>3. DOMAIN t \subseteq Name
  BY <1>1 DEF FrameOk, IsTable
<1>4. Within = (Outside \ DOMAIN t) \cup {x \in DOMAIN t : t[x].temp_dest # 0}
  <2>1. stack[m + 1] = Top /\ m \in Nat
    BY <1>1
  <2>2. Sees(stack, m + 1, Globals) =
          (Sees(stack, m, Globals) \ DOMAIN t) \cup {x \in DOMAIN t : t[x].temp_dest # 0}
    BY <1>3, <2>1, SeesNext
  <2> QED
    BY <1>1, <2>2 DEF Within, Outside
<1>5. CASE Top.fn \notin {"ir_scope", "ir_function_s"}
  <2>1. DOMAIN t = {}
    BY <1>2, <1>5 DEF TableKept
  <2> QED
    BY <1>4, <1>5, <2>1
<1>6. CASE Top.fn = "ir_scope"
  <2> DEFINE D == Declared(Top.node.body, Len(Top.got))
             A == Autos(Top.node.body)
  <2>1. DOMAIN t = A /\ \A x \in DOMAIN t : t[x].temp_dest # 0 <=> x \in D
    BY <1>2, <1>6 DEF TableKept
  <2>2. D \subseteq A
    <3>1. Len(Top.got) \in Nat /\ Top.node.body \in Seq(Stmt)
      BY <1>1, <1>6, StackFacts, StmtFrame, StmtAssumption DEF ExprFn
    <3> QED
      BY <3>1, DeclaredIsAuto
  <2> HIDE DEF t, D, A
  <2>3. {x \in DOMAIN t : t[x].temp_dest # 0} = D
    BY <2>1, <2>2
  <2>4. Within = (Outside \ A) \cup D
    BY <1>4, <2>1, <2>3 DEF t
  <2> QED
    BY <1>6, <2>4 DEF D, A
<1>7. CASE Top.fn = "ir_function_s"
  <2>1. Len(stack) = 1
    BY <1>1, <1>7 DEF TypeInv, Nesting
  <2>2. Outside = Globals
    BY <2>1, SeesNone, GlobalsNamed DEF Outside
  <2>3. DOMAIN t = ParamsOf(Top.node) /\ \A x \in DOMAIN t : t[x].temp_dest # 0
    BY <1>2, <1>7 DEF TableKept
  <2> HIDE DEF t
  <2>4. {x \in DOMAIN t : t[x].temp_dest # 0} = DOMAIN t
    BY <2>3
  <2>5. Within = Globals \cup ParamsOf(Top.node)
    BY <1>4, <2>2, <2>3, <2>4 DEF t
  <2> QED
    BY <1>7, <2>2, <2>5
<1> QED
  BY <1>5, <1>6, <1>7

\* ir_fatal is called where the frame on top breaks a rule.
LEMMA RejectedIs ==
  ASSUME TypeInv, RuleInv, stack # <<>>
  PROVE  Rejected(Top) <=> ~ Accepted(Top, Outside, DOMAIN lable_tab)
<1> DEFINE n == Top.node
<1>1. FrameOk(Top)
  BY StackFacts
<1>2. CASE Top.fn \in ExprFn
  <2>1. n \in Expr /\ Within = Outside
    BY <1>1, <1>2, ExprFrame, TopInForce DEF ExprFn
  <2>2. n.kind = "IDENTIFIER" => (Unusable(n.value) <=> n.value \notin Outside)
    BY <2>1, ExprAssumption, SeesUsable DEF Within
  <2>3. binop_to_irop(n.op) = Unmapped <=> n.op \notin BinaryOps
    BY DEF binop_to_irop, Unmapped, BinaryOps, IropOf
  <2> HIDE DEF n
  <2>4. CASE Top.fn = "ir_expr_f"
    BY <2>2, <2>3, <2>4 DEF Rejected, Accepted, UnaryOps, n
  <2>5. CASE Top.fn = "ir_lvalue"
    BY <2>2, <2>5 DEF Rejected, Accepted, IsPlace, n
  <2> QED
    BY <1>2, <2>4, <2>5 DEF ExprFn
<1>3. CASE Top.fn \in {"ir_lable_s", "ir_goto_s"}
  BY <1>3 DEF Rejected, Accepted
<1>4. CASE Top.fn \notin ExprFn \cup {"ir_lable_s", "ir_goto_s"}
  BY <1>4 DEF Rejected, Accepted, ExprFn
<1> QED
  BY <1>2, <1>3, <1>4

-----------------------------------------------------------------------------
(* Calls and returns                                                        *)

Unchanging == UNCHANGED <<program, curr, status>> /\ DOMAIN lable_tab' = DOMAIN lable_tab

LEMMA AfterCall ==
  ASSUME TypeInv, stack # <<>>, NEW f, FrameOk(f), f.got = <<>>,
         Call(f) \/ \E l \in Nat : CallFrom(l, f)
  PROVE  LET n == Len(stack) IN
         /\ Len(stack') = n + 1 /\ stack'[n + 1] = f
         /\ \A k \in 1 .. n :
              /\ stack'[k].fn = stack[k].fn /\ stack'[k].node = stack[k].node
              /\ stack'[k].symtab = stack[k].symtab /\ stack'[k].got = stack[k].got
              /\ k # n => /\ BegunCalls(stack', k) = BegunCalls(stack, k)
                          /\ stack'[k].lab = stack[k].lab
         /\ BegunCalls(stack', n) = Len(Top.got) + 1 /\ BegunCalls(stack', n + 1) = 0
<1> DEFINE n == Len(stack)
<1>1. /\ StackOk /\ n \in Nat \ {0} /\ Top = stack[n] /\ Len(Top.got) \in Nat
      /\ \A k \in 1 .. n - 1 : k \in 1 .. n /\ k # n /\ k # n + 1
      /\ \A k \in 1 .. n - 1 : Len(stack[k].got) \in Nat
      /\ n \in 1 .. n /\ n # n + 1
  BY StackFacts
<1>2. /\ Len(stack') = n + 1 /\ stack'[n + 1] = f
      /\ \A k \in 1 .. n :
           /\ stack'[k].fn = stack[k].fn /\ stack'[k].node = stack[k].node
           /\ stack'[k].symtab = stack[k].symtab /\ stack'[k].got = stack[k].got
           /\ k # n => stack'[k].lab = stack[k].lab
  <2>1. CASE Call(f)
    BY <1>1, <2>1, CallShape
  <2>2. CASE \E l \in Nat : CallFrom(l, f)
    <3>1. PICK l \in Nat : CallFrom(l, f)
      BY <2>2
    <3>2. \A k \in 1 .. n : k # n => k \in 1 .. n - 1
      <4>1. \A m \in Nat : \A k \in 1 .. m : k # m => k \in 1 .. m - 1
        OBVIOUS
      <4> QED
        BY <1>1, <4>1
    <3>3. /\ Len(stack') = n + 1 /\ stack'[n + 1] = f
          /\ \A k \in 1 .. n : SameCall(stack'[k], stack[k]) /\ stack'[k].got = stack[k].got
          /\ \A k \in 1 .. n - 1 : stack'[k] = stack[k]
      BY <1>1, <3>1, CallFromShape
    <3> QED
      BY <3>2, <3>3 DEF SameCall
  <2> QED
    BY <2>1, <2>2
<1> HIDE DEF n
<1>3. \A k \in 1 .. n : k # n =>
        BegunCalls(stack', k) = Len(stack[k].got) + 1 /\ BegunCalls(stack, k) = Len(stack[k].got) + 1
  <2> TAKE k \in 1 .. n
  <2> HAVE k # n
  <2>1. k # n + 1 /\ k # Len(stack) /\ k # Len(stack')
    BY <1>1, <1>2 DEF n
  <2>2. Len(stack'[k].got) = Len(stack[k].got)
    BY <1>2
  <2> QED
    BY <2>1, <2>2 DEF BegunCalls
<1>4. BegunCalls(stack', n) = Len(Top.got) + 1
  BY <1>1, <1>2 DEF BegunCalls
<1>5. BegunCalls(stack', n + 1) = 0
  <2>1. Len(f.got) = 0
    OBVIOUS
  <2>2. BegunCalls(stack', n + 1) = Len(f.got) + 0
    BY <1>2 DEF BegunCalls
  <2> QED
    BY <2>1, <2>2
<1> QED
  BY <1>2, <1>3, <1>4, <1>5 DEF n

LEMMA GlobalsStay == ASSUME UNCHANGED program PROVE Globals' = Globals
  BY DEF Globals

\* A table does not change with the labels a frame reserves.
LEMMA TableSame ==
  ASSUME NEW f, NEW g, g.fn = f.fn, g.node = f.node, g.symtab = f.symtab, g.got = f.got
  PROVE  TableKept(g) <=> TableKept(f)
  BY DEF TableKept

LEMMA NumberedSame ==
  ASSUME NEW f, NEW g, g.fn = f.fn, g.node = f.node, g.lab = f.lab, NEW b
  PROVE  Numbered(g, b) <=> Numbered(f, b)
  BY DEF Numbered

LEMMA AutoSame ==
  ASSUME NEW f, NEW g, g.fn = f.fn, g.node = f.node, g.got = f.got,
         NEW x, NEW y, y.fn = x.fn, y.node = x.node
  PROVE  AutoCalled(g, y) <=> AutoCalled(f, x)
  BY DEF AutoCalled

\* A handler that calls another splits what is still to be found in order.
LEMMA RulesAfterCall ==
  ASSUME TypeInv, RuleInv, stack # <<>>, status = "running", Unchanging,
         NEW f, FrameOk(f), f.got = <<>>, Call(f) \/ \E l \in Nat : CallFrom(l, f),
         TableKept(f), AutoCalled(Top, f),
         NEW b, b = Len(Top.got), Numbered(stack'[Len(stack)], b + 1),
         NEW T, T = DOMAIN lable_tab,
         InOrder(Top, b, Outside, T) <=> InOrder(Top, b + 1, Outside, T) /\ InOrder(f, 0, Within, T)
  PROVE  RuleInv'
<1> DEFINE n == Len(stack)
           G == Globals
           Good(k) == FrameInOrder(stack, k, G, T)
           GoodNow(k) == FrameInOrder(stack', k, G, T)
<1>1. /\ n \in Nat \ {0} /\ n \in 1 .. n /\ n - 1 \in Nat /\ Top = stack[n]
      /\ BegunCalls(stack, n) = b
      /\ \A k \in 1 .. n : k - 1 \in Nat /\ \A j \in 1 .. k - 1 : j \in 1 .. n
  BY StackFacts
<1>2. /\ Len(stack') = n + 1 /\ stack'[n + 1] = f
      /\ \A k \in 1 .. n :
           /\ stack'[k].fn = stack[k].fn /\ stack'[k].node = stack[k].node
           /\ stack'[k].symtab = stack[k].symtab /\ stack'[k].got = stack[k].got
           /\ k # n => /\ BegunCalls(stack', k) = BegunCalls(stack, k)
                       /\ stack'[k].lab = stack[k].lab
      /\ BegunCalls(stack', n) = b + 1 /\ BegunCalls(stack', n + 1) = 0
  BY AfterCall
<1>3. ASSUME NEW k \in 1 .. n PROVE Sees(stack', k - 1, G) = Sees(stack, k - 1, G)
  <2> HIDE DEF n, G
  <2>1. \A j \in 1 .. k - 1 : j \in 1 .. n
    BY <1>1
  <2>2. k - 1 \in Nat /\ \A j \in 1 .. k - 1 : stack'[j].symtab = stack[j].symtab
    BY <1>1, <1>2, <2>1
  <2> QED
    BY ONLY <2>2, SeesSame
<1>4. Sees(stack', n, G) = Within
  <2>1. n \in Nat /\ \A j \in 1 .. n : stack'[j].symtab = stack[j].symtab
    BY <1>1, <1>2
  <2>3. Sees(stack', n, G) = Sees(stack, n, G)
    <3> HIDE DEF n, G
    <3> QED
      BY <2>1, SeesSame
  <2> QED
    BY <2>3 DEF Within
<1>5. \A k \in 1 .. n : k # n => (GoodNow(k) <=> Good(k))
  <2> HIDE DEF n, G
  <2> TAKE k \in 1 .. n
  <2>1. CASE k # n
    BY <1>2, <1>3, <2>1, InOrderSame DEF FrameInOrder
  <2> QED
    BY <2>1
<1>6. GoodNow(n) <=> InOrder(Top, b + 1, Outside, T)
  <2>1. /\ stack'[n].fn = Top.fn /\ stack'[n].node = Top.node /\ BegunCalls(stack', n) = b + 1
        /\ Sees(stack', n - 1, G) = Outside
    BY <1>1, <1>2, <1>3 DEF Outside
  <2> QED
    BY <2>1, InOrderSame DEF FrameInOrder
<1>7. Good(n) <=> InOrder(Top, b, Outside, T)
  BY <1>1 DEF FrameInOrder, Outside
<1>8. GoodNow(n + 1) <=> InOrder(f, 0, Within, T)
  <2>1. n + 1 - 1 = n
    BY <1>1
  <2>2. Sees(stack', n + 1 - 1, G) = Within
    BY <1>4, <2>1
  <2>3. GoodNow(n + 1) <=>
          InOrder(stack'[n + 1], BegunCalls(stack', n + 1), Sees(stack', n + 1 - 1, G), T)
    BY DEF FrameInOrder
  <2> QED
    BY ONLY <1>2, <2>2, <2>3
<1>9. /\ Globals' = G /\ DOMAIN lable_tab' = T /\ program' = program /\ curr' = curr
      /\ status' = "running"
  BY GlobalsStay DEF Unchanging
<1>10. FunctionFine(program[curr], G) <=> \A k \in 1 .. n : Good(k)
  BY DEF RuleInv
<1> HIDE DEF Good, GoodNow, n, G
<1>11. \A k \in 1 .. n + 1 : k \in 1 .. n \/ k = n + 1
  BY <1>1
<1>12. \A k \in 1 .. n : k \in 1 .. n + 1
  BY <1>1
<1>13. n + 1 \in 1 .. n + 1
  BY <1>1
<1>14. (\A k \in 1 .. n + 1 : GoodNow(k)) <=> \A k \in 1 .. n : Good(k)
  BY <1>1, <1>5, <1>6, <1>7, <1>8, <1>11, <1>12, <1>13
<1>15. \A k \in 1 .. n + 1 : TableKept(stack'[k])
  <2>1. \A k \in 1 .. n : TableKept(stack[k])
    BY DEF RuleInv, n
  <2>2. \A k \in 1 .. n : TableKept(stack'[k])
    BY <1>2, <2>1, TableSame
  <2> QED
    BY <1>2, <1>11, <2>2
<1>16. \A k \in 1 .. n : AutoCalled(stack'[k], stack'[k + 1])
  <2>1. \A k \in 1 .. n - 1 : AutoCalled(stack[k], stack[k + 1])
    BY DEF RuleInv, n
  <2> TAKE k \in 1 .. n
  <2>2. CASE k = n
    <3>1. stack'[n].fn = Top.fn /\ stack'[n].node = Top.node /\ stack'[n].got = Top.got
      BY <1>1, <1>2
    <3>2. AutoCalled(stack'[n], f)
      BY <3>1, AutoSame
    <3> QED
      BY <1>2, <2>2, <3>2
  <2>3. CASE k # n
    <3>1. k \in 1 .. n - 1 /\ k + 1 \in 1 .. n
      BY <1>1, <2>3
    <3>2. /\ stack'[k].fn = stack[k].fn /\ stack'[k].node = stack[k].node
          /\ stack'[k].got = stack[k].got
          /\ stack'[k + 1].fn = stack[k + 1].fn /\ stack'[k + 1].node = stack[k + 1].node
      BY <1>2, <3>1
    <3>3. AutoCalled(stack[k], stack[k + 1])
      BY <2>1, <3>1
    <3> QED
      BY ONLY <3>2, <3>3, AutoSame
  <2> QED
    BY <2>2, <2>3
<1>17. /\ Len(stack') = n + 1 /\ Len(stack') - 1 = n /\ stack' # <<>>
  BY <1>1, <1>2
<1>18. /\ \A i \in 1 .. curr - 1 :
            program[i].kind = "AST_FUNCTION" => FunctionFine(program[i], G)
       /\ DOMAIN lable_tab = program[curr].lables
  BY DEF RuleInv, G
<1>19. (\A i \in 1 .. curr - 1 :
          program[i].kind = "AST_FUNCTION" => FunctionFine(program[i], Globals))'
  BY ONLY <1>9, <1>18
<1>20. (DOMAIN lable_tab = program[curr].lables)'
  BY ONLY <1>9, <1>18, T = DOMAIN lable_tab
<1>21. (FunctionFine(program[curr], Globals) <=>
          \A k \in 1 .. Len(stack) : FrameInOrder(stack, k, Globals, DOMAIN lable_tab))'
  BY ONLY <1>9, <1>10, <1>14, <1>17 DEF GoodNow
<1>23. \A k \in 1 .. n + 1 : Numbered(stack'[k], BegunCalls(stack', k))
  <2>1. \A k \in 1 .. n : Numbered(stack[k], BegunCalls(stack, k))
    BY DEF RuleInv, n
  <2>2. \A k \in 1 .. n : k # n => Numbered(stack'[k], BegunCalls(stack', k))
    BY <1>2, <2>1, NumberedSame
  <2>3. Numbered(stack'[n], BegunCalls(stack', n))
    BY <1>2 DEF n
  <2>4. Numbered(stack'[n + 1], BegunCalls(stack', n + 1))
    BY <1>2 DEF Numbered
  <2> QED
    BY <1>11, <2>2, <2>3, <2>4
<1>22. /\ (\A k \in 1 .. Len(stack) : /\ TableKept(stack[k])
                                       /\ Numbered(stack[k], BegunCalls(stack, k)))'
       /\ (\A k \in 1 .. Len(stack) - 1 : AutoCalled(stack[k], stack[k + 1]))'
  BY ONLY <1>15, <1>16, <1>17, <1>23
<1> QED
  BY ONLY <1>9, <1>19, <1>20, <1>21, <1>22 DEF RuleInv

\* The frame on top is gone, and its caller has one more result.
Popped ==
  /\ Len(stack) > 1 /\ Len(stack') = Len(stack) - 1
  /\ \A k \in 1 .. Len(stack) - 1 :
       /\ stack'[k].fn = stack[k].fn /\ stack'[k].node = stack[k].node
       /\ stack'[k].lab = stack[k].lab
       /\ k # Len(stack) - 1 => stack'[k].symtab = stack[k].symtab /\ stack'[k].got = stack[k].got
       /\ k = Len(stack) - 1 => Len(stack'[k].got) = Len(stack[k].got) + 1

\* A handler that returns leaves nothing of its own to be found in order.
LEMMA RulesAfterReturn ==
  ASSUME TypeInv, RuleInv, stack # <<>>, status = "running", Unchanging, Popped,
         TableKept(stack'[Len(stack) - 1]),
         NEW T, T = DOMAIN lable_tab, InOrder(Top, Len(Top.got), Outside, T)
  PROVE  RuleInv'
<1> DEFINE n == Len(stack) - 1
           G == Globals
           Good(k) == FrameInOrder(stack, k, G, T)
           GoodNow(k) == FrameInOrder(stack', k, G, T)
<1>1. /\ n \in Nat \ {0} /\ n + 1 = Len(stack) /\ Top = stack[n + 1]
      /\ BegunCalls(stack, n + 1) = Len(Top.got)
      /\ \A k \in 1 .. n : /\ k - 1 \in Nat /\ k \in 1 .. n + 1
                           /\ BegunCalls(stack, k) = Len(stack[k].got) + 1
      /\ n + 1 - 1 = n /\ Len(stack) - 1 = n
  <2>1. /\ Len(stack) \in Nat /\ Len(stack) > 1 /\ Top = stack[Len(stack)]
        /\ BegunCalls(stack, Len(stack)) = Len(Top.got)
        /\ \A k \in 1 .. Len(stack) - 1 : BegunCalls(stack, k) = Len(stack[k].got) + 1
    BY StackFacts DEF Popped
  <2>2. n \in Nat \ {0} /\ n + 1 = Len(stack) /\ n + 1 - 1 = n /\ Len(stack) - 1 = n
    BY <2>1
  <2>3. \A k \in 1 .. n : k - 1 \in Nat /\ k \in 1 .. n + 1
    BY <2>2
  <2> HIDE DEF n
  <2> QED
    BY <2>1, <2>2, <2>3
<1>2. /\ Len(stack') = n
      /\ \A k \in 1 .. n :
           /\ stack'[k].fn = stack[k].fn /\ stack'[k].node = stack[k].node
           /\ stack'[k].lab = stack[k].lab
           /\ k # n => stack'[k].symtab = stack[k].symtab /\ stack'[k].got = stack[k].got
           /\ k = n => Len(stack'[k].got) = Len(stack[k].got) + 1
  BY DEF Popped
<1> HIDE DEF n, G
<1>3. ASSUME NEW k \in 1 .. n PROVE Sees(stack', k - 1, G) = Sees(stack, k - 1, G)
  <2>1. \A j \in 1 .. k - 1 : j \in 1 .. n /\ j # n
    BY <1>1
  <2>2. k - 1 \in Nat /\ \A j \in 1 .. k - 1 : stack'[j].symtab = stack[j].symtab
    BY <1>1, <1>2, <2>1
  <2> QED
    BY <2>2, SeesSame
<1>4. ASSUME NEW k \in 1 .. n PROVE BegunCalls(stack', k) = BegunCalls(stack, k)
  <2>1. CASE k # n
    <3>1. BegunCalls(stack', k) = Len(stack'[k].got) + 1
      BY <1>2, <2>1 DEF BegunCalls
    <3> QED
      BY <1>1, <1>2, <2>1, <3>1
  <2>2. CASE k = n
    <3>1. BegunCalls(stack', k) = Len(stack'[k].got) + 0
      BY <1>2, <2>2 DEF BegunCalls
    <3>2. Len(stack[k].got) \in Nat
      BY <1>1, StackFacts
    <3>3. Len(stack'[k].got) + 0 = Len(stack[k].got) + 1
      BY <1>2, <2>2, <3>2
    <3> QED
      BY <1>1, <3>1, <3>3
  <2> QED
    BY <2>1, <2>2
<1>5. ASSUME NEW k \in 1 .. n PROVE GoodNow(k) <=> Good(k)
  <2>1. Sees(stack', k - 1, G) = Sees(stack, k - 1, G)
    BY <1>3
  <2>2. BegunCalls(stack', k) = BegunCalls(stack, k)
    BY <1>4
  <2>3. stack'[k].fn = stack[k].fn /\ stack'[k].node = stack[k].node
    BY <1>2
  <2> QED
    BY <2>1, <2>2, <2>3, InOrderSame DEF FrameInOrder
<1>6. Good(n + 1)
  <2> DEFINE m == n + 1
  <2>1. m = n + 1 /\ m = Len(stack) /\ m - 1 = n
    BY <1>1
  <2> HIDE DEF m
  <2>2. Sees(stack, m - 1, G) = Outside
    BY <1>1, <2>1 DEF Outside, G
  <2>3. InOrder(stack[m], BegunCalls(stack, m), Sees(stack, m - 1, G), T)
    BY <1>1, <2>1, <2>2
  <2>4. FrameInOrder(stack, m, G, T)
    BY <2>3 DEF FrameInOrder
  <2> QED
    BY <2>1, <2>4
<1>7. /\ Globals' = G /\ DOMAIN lable_tab' = T /\ program' = program /\ curr' = curr
      /\ status' = "running"
  BY GlobalsStay DEF Unchanging, G
<1>8. FunctionFine(program[curr], G) <=> \A k \in 1 .. n + 1 : Good(k)
  BY <1>1 DEF RuleInv, G
<1> HIDE DEF Good, GoodNow
<1>9. \A k \in 1 .. n + 1 : k \in 1 .. n \/ k = n + 1
  BY <1>1
<1>10. FunctionFine(program[curr], G) <=> \A k \in 1 .. n : GoodNow(k)
  BY <1>1, <1>5, <1>6, <1>8, <1>9
<1>11. \A k \in 1 .. n : TableKept(stack'[k])
  <2>1. \A k \in 1 .. n : TableKept(stack[k])
    BY <1>1 DEF RuleInv
  <2> TAKE k \in 1 .. n
  <2>2. CASE k = n
    BY <1>1, <2>2
  <2>3. CASE k # n
    BY <1>2, <2>1, <2>3, TableSame
  <2> QED
    BY <2>2, <2>3
<1>12. \A k \in 1 .. n - 1 : AutoCalled(stack'[k], stack'[k + 1])
  <2>1. \A k \in 1 .. n : AutoCalled(stack[k], stack[k + 1])
    BY <1>1 DEF RuleInv
  <2> TAKE k \in 1 .. n - 1
  <2>2. k \in 1 .. n /\ k # n /\ k + 1 \in 1 .. n
    BY <1>1
  <2>3. /\ stack'[k].fn = stack[k].fn /\ stack'[k].node = stack[k].node
        /\ stack'[k].got = stack[k].got
        /\ stack'[k + 1].fn = stack[k + 1].fn /\ stack'[k + 1].node = stack[k + 1].node
    BY <1>2, <2>2
  <2>4. AutoCalled(stack[k], stack[k + 1])
    BY <2>1, <2>2
  <2> QED
    BY ONLY <2>3, <2>4, AutoSame
<1>13. /\ \A i \in 1 .. curr - 1 :
            program[i].kind = "AST_FUNCTION" => FunctionFine(program[i], G)
       /\ T = program[curr].lables
  BY DEF RuleInv, G
<1>14. stack' # <<>>
  BY <1>1, <1>2
<1>15. (\A i \in 1 .. curr - 1 :
          program[i].kind = "AST_FUNCTION" => FunctionFine(program[i], Globals))'
  BY ONLY <1>7, <1>13
<1>16. (DOMAIN lable_tab = program[curr].lables)'
  BY ONLY <1>7, <1>13
<1>17. (FunctionFine(program[curr], Globals) <=>
          \A k \in 1 .. Len(stack) : FrameInOrder(stack, k, Globals, DOMAIN lable_tab))'
  BY ONLY <1>2, <1>7, <1>10 DEF GoodNow
<1>19. \A k \in 1 .. n : Numbered(stack'[k], BegunCalls(stack', k))
  <2>1. \A k \in 1 .. n : Numbered(stack[k], BegunCalls(stack, k))
    BY <1>1 DEF RuleInv
  <2> QED
    BY <1>2, <1>4, <2>1, NumberedSame
<1>18. /\ (\A k \in 1 .. Len(stack) : /\ TableKept(stack[k])
                                       /\ Numbered(stack[k], BegunCalls(stack, k)))'
       /\ (\A k \in 1 .. Len(stack) - 1 : AutoCalled(stack[k], stack[k + 1]))'
  BY ONLY <1>2, <1>11, <1>12, <1>19
<1> QED
  BY ONLY <1>7, <1>15, <1>16, <1>17, <1>18 DEF RuleInv

LEMMA DeclaredNext ==
  ASSUME NEW body, NEW S, body \in Seq(S), NEW m \in Nat, m < Len(body)
  PROVE  Declared(body, m + 1) =
           Declared(body, m) \cup (IF body[m + 1].kind = "AST_AUTO" THEN {body[m + 1].name} ELSE {})
<1>1. /\ \A j \in DOMAIN body : j <= m + 1 <=> j <= m \/ j = m + 1
      /\ m + 1 \in DOMAIN body
  OBVIOUS
<1> QED
  BY <1>1 DEF Declared

LEMMA Deep ==
  ASSUME TypeInv, stack # <<>>, Top.fn # "ir_function_s"
  PROVE  Len(stack) > 1
<1>1. /\ Len(stack) \in Nat \ {0} /\ Top = stack[Len(stack)] /\ stack[1].fn = "ir_function_s"
  BY StackFacts DEF TypeInv, Nesting
<1> QED
  BY <1>1

\* Any return but that of ir_auto_s leaves the tables alone.
LEMMA RulesAfterPlainReturn ==
  ASSUME TypeInv, RuleInv, stack # <<>>, status = "running", Unchanging,
         Top.fn \notin {"ir_function_s", "ir_auto_s"}, NEW r, Return(r),
         NEW T, T = DOMAIN lable_tab, InOrder(Top, Len(Top.got), Outside, T)
  PROVE  RuleInv'
<1> DEFINE n == Len(stack) - 1
<1>1. /\ Len(stack) > 1 /\ StackOk /\ n \in Nat \ {0} /\ n + 1 = Len(stack) /\ n = Len(stack) - 1
      /\ n \in 1 .. Len(stack) /\ n \in 1 .. n
      /\ Top = stack[n + 1] /\ FrameOk(stack[n])
  BY Deep, StackFacts
<1> DEFINE caller == [stack[n] EXCEPT !.got = Append(@, r)]
<1>2. /\ caller.fn = stack[n].fn /\ caller.node = stack[n].node /\ caller.lab = stack[n].lab
      /\ caller.symtab = stack[n].symtab /\ caller.got = Append(stack[n].got, r)
  <2> HIDE DEF n
  <2> QED
    BY <1>1 DEF FrameOk
<1>8. stack' = [k \in 1 .. n |-> IF k = n THEN caller ELSE stack[k]]
  BY <1>1 DEF Return
<1> HIDE DEF n, caller
<1>9. Len(stack') = n /\ stack'[n] = caller /\ \A k \in 1 .. n : k # n => stack'[k] = stack[k]
  <2>1. n \in Nat /\ n \in 1 .. n
    BY <1>1
  <2>2. Len(stack') = n
    BY <1>8, <2>1
  <2>3. \A k \in 1 .. n : stack'[k] = IF k = n THEN caller ELSE stack[k]
    BY <1>8
  <2> QED
    BY <2>1, <2>2, <2>3
<1>3. Len(stack'[n].got) = Len(stack[n].got) + 1
  <2>1. stack[n].got \in Seq(ResultSet)
    BY <1>1 DEF FrameOk
  <2> QED
    BY <1>2, <1>9, <2>1
<1>5. Popped
  <2>1. /\ Len(stack) > 1 /\ Len(stack') = n
        /\ \A k \in 1 .. n :
             /\ stack'[k].fn = stack[k].fn /\ stack'[k].node = stack[k].node
             /\ stack'[k].lab = stack[k].lab
             /\ k # n => stack'[k].symtab = stack[k].symtab /\ stack'[k].got = stack[k].got
             /\ k = n => Len(stack'[k].got) = Len(stack[k].got) + 1
    BY <1>1, <1>2, <1>3, <1>9
  <2> QED
    BY <1>1, <2>1 DEF Popped
<1>6. TableKept(stack[n]) /\ AutoCalled(stack[n], Top)
  BY <1>1 DEF RuleInv
<1>7. TableKept(stack'[n])
  <2> DEFINE f == stack[n]
             g == stack'[n]
  <2>1. g.fn = f.fn /\ g.node = f.node /\ g.symtab = f.symtab /\ Len(g.got) = Len(f.got) + 1
    BY <1>2, <1>3, <1>9
  <2>2. FrameOk(f) /\ Len(f.got) \in Nat
    BY <1>1 DEF FrameOk
  <2> HIDE DEF f, g
  <2>3. CASE f.fn = "ir_scope"
    <3>1. f.node.body \in Seq(Stmt)
      BY <2>2, <2>3, StmtFrame, StmtAssumption DEF ExprFn
    <3>2. Len(f.got) < Len(f.node.body) /\ f.node.body[Len(f.got) + 1].kind # "AST_AUTO"
      BY <1>6, <2>3 DEF AutoCalled, f
    <3>3. Declared(f.node.body, Len(f.got) + 1) = Declared(f.node.body, Len(f.got))
      <4>1. Declared(f.node.body, Len(f.got) + 1) =
              Declared(f.node.body, Len(f.got))
                \cup (IF f.node.body[Len(f.got) + 1].kind = "AST_AUTO"
                         THEN {f.node.body[Len(f.got) + 1].name} ELSE {})
        BY <2>2, <3>1, <3>2, DeclaredNext
      <4> QED
        BY <3>2, <4>1
    <3> QED
      BY <1>6, <2>1, <2>3, <3>3 DEF TableKept, f, g
  <2>4. CASE f.fn # "ir_scope"
    BY <1>6, <2>1, <2>4 DEF TableKept, f, g
  <2> QED
    BY <2>3, <2>4
<1> QED
  BY <1>1, <1>5, <1>7, RulesAfterReturn

-----------------------------------------------------------------------------
(* What a handler calls                                                     *)

LEMMA FreshFrame ==
  ASSUME NEW fn, NEW n, NEW end, fn # "ir_function_s", fn = "ir_scope" => n.body \in Seq(Stmt)
  PROVE  TableKept(Frame(fn, n, end)) /\ Frame(fn, n, end).got = <<>>
<1> DEFINE f == Frame(fn, n, end)
<1>1. f.fn = fn /\ f.node = n /\ f.got = <<>> /\ Len(f.got) = 0
  BY FrameFields
<1>2. CASE fn = "ir_scope"
  <2>1. f.symtab = ScopeTab(n.body)
    BY <1>2, FrameFields
  <2>2. DOMAIN f.symtab = {n.body[i].name : i \in {j \in DOMAIN n.body : n.body[j].kind = "AST_AUTO"}}
        /\ \A x \in DOMAIN f.symtab : f.symtab[x].temp_dest = 0
    BY <2>1 DEF ScopeTab, VarInfo
  <2>3. Autos(n.body) = {n.body[i].name : i \in {j \in DOMAIN n.body : n.body[j].kind = "AST_AUTO"}}
    <3>1. \A j \in DOMAIN n.body : j <= Len(n.body)
      BY <1>2
    <3> QED
      BY <3>1 DEF Autos, Declared
  <2>4. Declared(n.body, 0) = {}
    <3>1. \A j \in DOMAIN n.body : ~ (j <= 0)
      BY <1>2
    <3> QED
      BY <3>1 DEF Declared
  <2> QED
    BY <1>1, <1>2, <2>2, <2>3, <2>4 DEF TableKept
<1>3. CASE fn # "ir_scope"
  <2>1. DOMAIN f.symtab = {}
    BY <1>3, FrameFields DEF NoTab
  <2> QED
    BY <1>1, <1>3, <2>1 DEF TableKept
<1> QED
  BY <1>2, <1>3

\* A frame that has its labels, or needs none, may call.
LEMMA NumberedNext ==
  ASSUME TypeInv, RuleInv, stack # <<>>, NEW f, FrameOk(f), NEW b,
         \/ /\ Call(f)
            /\ \/ Len(Top.got) # 0
               \/ Top.fn \notin {"ir_if_s", "ir_while_s", "ir_if_chain_s"}
               \/ Top.node.kind = "AST_ELSE"
         \/ \E l \in Nat \ {0} : CallFrom(l, f)
  PROVE  Numbered(stack'[Len(stack)], b)
<1> DEFINE n == Len(stack)
<1>1. StackOk /\ n \in 1 .. n /\ Top = stack[n] /\ BegunCalls(stack, n) = Len(Top.got)
  BY StackFacts
<1>2. CASE Call(f)
  <2>1. stack'[n] = Top
    BY <1>1, <1>2, CallShape
  <2>2. Numbered(Top, Len(Top.got))
    BY <1>1 DEF RuleInv
  <2>3. CASE Len(Top.got) # 0 \/ Top.fn \notin {"ir_if_s", "ir_while_s", "ir_if_chain_s"}
             \/ Top.node.kind = "AST_ELSE"
    BY <2>1, <2>2, <2>3 DEF Numbered
  <2>4. CASE \E l \in Nat \ {0} : CallFrom(l, f)
    <3>1. PICK l \in Nat \ {0} : CallFrom(l, f)
      BY <2>4
    <3>2. stack'[n].lab = l
      BY <1>1, <3>1, CallFromShape
    <3> QED
      BY <3>1, <3>2 DEF Numbered
  <2> QED
    BY <2>3, <2>4
<1>3. CASE \E l \in Nat \ {0} : CallFrom(l, f)
  <2>1. PICK l \in Nat \ {0} : CallFrom(l, f)
    BY <1>3
  <2>2. stack'[n].lab = l
    BY <1>1, <2>1, CallFromShape
  <2> QED
    BY <2>1, <2>2 DEF Numbered
<1> QED
  BY <1>2, <1>3

-----------------------------------------------------------------------------
(* Expressions                                                              *)

LEMMA Running ==
  ASSUME NEW fn, InCall(fn)
  PROVE  status = "running" /\ stack # <<>> /\ Top.fn = fn
  BY DEF InCall

\* The step into ir_fatal: the function breaks a rule.
LEMMA FatalRules == TypeInv /\ RuleInv /\ Fatal => RuleInv'
<1> SUFFICES ASSUME TypeInv, RuleInv, Fatal PROVE RuleInv'
  OBVIOUS
<1> DEFINE n == Len(stack)
<1>1. stack # <<>> /\ status = "running" /\ Rejected(Top)
  BY DEF Fatal
<1>2. ~ Accepted(Top, Outside, DOMAIN lable_tab)
  BY <1>1, RejectedIs
<1>3. n \in 1 .. n /\ Top = stack[n]
  BY <1>1, StackFacts
<1>4. ~ FrameInOrder(stack, n, Globals, DOMAIN lable_tab)
  BY <1>2, <1>3 DEF FrameInOrder, InOrder, Outside
<1>5. ~ FunctionFine(program[curr], Globals)
  BY <1>1, <1>3, <1>4 DEF RuleInv
<1>6. UNCHANGED <<program, curr, stack, lable_tab>> /\ status' = "fatal"
  BY DEF Fatal
<1>7. Globals' = Globals
  BY <1>6, GlobalsStay
<1> QED
  BY <1>1, <1>5, <1>6, <1>7 DEF RuleInv

LEMMA ReadyInOrder ==
  ASSUME TypeInv, RuleInv, stack # <<>>, ~ Rejected(Top),
         Top.fn \in ExprFn \cup {"ir_return_s"}, Len(Top.got) = Len(Operands(Top))
  PROVE  InOrder(Top, Len(Top.got), Outside, DOMAIN lable_tab)
<1>1. Accepted(Top, Outside, DOMAIN lable_tab)
  BY RejectedIs
<1>2. Len(Top.got) \in Nat
  BY StackFacts
<1>3. \A i \in Len(Top.got) + 1 .. Len(Top.got) : FALSE
  BY <1>2
<1>4. Remaining(Top, Len(Top.got), Outside, DOMAIN lable_tab)
  BY <1>3 DEF Remaining, ExprFn
<1> QED
  BY <1>1, <1>4 DEF InOrder

LEMMA YieldIs ==
  ASSUME NEW nodes, NEW n, NEW r, Yield(nodes, n, r)
  PROVE  Unchanging /\ Return(r)
  BY DEF Yield, Unchanging

LEMMA ExprYields ==
  ASSUME TypeInv, RuleInv, NEW fn \in ExprFn, NEW kind, Ready(fn, kind),
         NEW nodes, NEW n, NEW r, Yield(nodes, n, r)
  PROVE  RuleInv'
<1>1. status = "running" /\ stack # <<>> /\ Top.fn = fn
  BY Running DEF Ready
<1>2. InOrder(Top, Len(Top.got), Outside, DOMAIN lable_tab)
  BY <1>1, ReadyInOrder DEF Ready
<1>3. Top.fn \notin {"ir_function_s", "ir_auto_s"}
  BY <1>1 DEF ExprFn
<1> QED
  BY <1>1, <1>2, <1>3, YieldIs, RulesAfterPlainReturn

LEMMA OperandInOrder ==
  ASSUME NEW f, FrameOk(f), f.fn \in ExprFn \cup {"ir_return_s"},
         NEW i \in 1 .. Len(Operands(f)), NEW E, NEW T
  PROVE  /\ InOrder(Operands(f)[i], 0, E, T) <=> FineCall(Operands(f)[i], E)
         /\ TableKept(Operands(f)[i]) /\ Operands(f)[i].got = <<>>
<1>1. \A e : /\ Value(e).fn = "ir_expr_f" /\ Value(e).node = e
             /\ Place(e).fn = "ir_lvalue" /\ Place(e).node = e
  BY FrameFields DEF Value, Place
<1>2. \A e \in Expr : \A g \in {Value(e), Place(e)} : InOrder(g, 0, E, T) <=> FineCall(g, E)
  BY <1>1, ValueInOrder, PlaceInOrder DEF FineCall
<1>3. \A e : \A g \in {Value(e), Place(e)} : TableKept(g) /\ g.got = <<>>
  BY FreshFrame DEF Value, Place
<1>4. \E e : Operands(f)[i] \in {Value(e), Place(e)}
  <2> DEFINE n == f.node
  <2>1. CASE f.fn = "ir_return_s"
    BY <2>1 DEF Operands
  <2>2. CASE f.fn = "ir_lvalue" /\ n.kind = "AST_UNARY"
    BY <2>2 DEF Operands
  <2>3. CASE f.fn = "ir_expr_f" /\ n.kind = "AST_UNARY"
    BY <2>3 DEF Operands
  <2>4. CASE f.fn = "ir_expr_f" /\ n.kind = "AST_BINARY"
    <3>1. \/ Operands(f) = <<Value(n.right), Place(n.left)>>
          \/ Operands(f) = <<Value(n.left), Value(n.right)>>
      BY <2>4 DEF Operands
    <3> QED
      BY <3>1
  <2>5. CASE f.fn = "ir_expr_f" /\ n.kind = "AST_FUNCTION_CALL"
    <3>1. n \in Expr
      BY <2>5, ExprFrame DEF ExprFn
    <3>2. n.args \in Seq(Expr)
      BY <2>5, <3>1, ExprAssumption
    <3>3. Operands(f) = [j \in 1 .. Len(n.args) |-> Value(n.args[j])]
      BY <2>5 DEF Operands
    <3>4. Operands(f)[i] = Value(n.args[i])
      BY <3>2, <3>3
    <3> QED
      BY <3>4
  <2>6. CASE \/ f.fn = "ir_lvalue" /\ n.kind # "AST_UNARY"
             \/ f.fn = "ir_expr_f" /\ n.kind \notin {"AST_UNARY", "AST_BINARY", "AST_FUNCTION_CALL"}
    <3>1. Operands(f) = <<>>
      BY <2>6 DEF Operands
    <3> QED
      BY <3>1
  <2> QED
    BY <2>1, <2>2, <2>3, <2>4, <2>5, <2>6 DEF ExprFn
<1>5. PICK e : Operands(f)[i] \in {Value(e), Place(e)}
  BY <1>4
<1>6. Operands(f)[i].node = e /\ Operands(f)[i].fn \in ExprFn /\ FrameOk(Operands(f)[i])
  BY <1>1, <1>5, OperandOk DEF ExprFn
<1>7. e \in Expr
  BY <1>6, ExprFrame
<1> QED
  BY <1>2, <1>3, <1>5, <1>7

LEMMA OperandRules == TypeInv /\ RuleInv /\ EvaluateOperand => RuleInv'
<1> SUFFICES ASSUME TypeInv, RuleInv, EvaluateOperand PROVE RuleInv'
  OBVIOUS
<1> DEFINE b == Len(Top.got)
           T == DOMAIN lable_tab
           f == Operands(Top)[b + 1]
<1>1. /\ status = "running" /\ stack # <<>> /\ Top.fn \in ExprFn \cup {"ir_return_s"}
      /\ b < Len(Operands(Top)) /\ Call(f)
  BY DEF EvaluateOperand, InCall, ExprFn
<1>2. Unchanging
  BY DEF EvaluateOperand, Unchanging
<1>3. FrameOk(Top) /\ b \in Nat
  BY <1>1, StackFacts
<1>4. Len(Operands(Top)) \in Nat /\ b + 1 \in 1 .. Len(Operands(Top))
  BY <1>1, <1>3, OperandOk
<1>5. FrameOk(f) /\ f.fn \in ExprFn
  BY <1>1, <1>3, <1>4, OperandOk
<1>6. /\ InOrder(f, 0, Within, T) <=> FineCall(f, Within)
      /\ TableKept(f) /\ f.got = <<>>
  BY <1>1, <1>3, <1>4, OperandInOrder
<1>7. Within = Outside
  BY <1>1, TopInForce DEF ExprFn
<1>8. AutoCalled(Top, f)
  BY <1>1, <1>5 DEF AutoCalled, ExprFn
<1>9. Numbered(stack'[Len(stack)], b + 1)
  BY <1>1, <1>5, NumberedNext DEF ExprFn
<1>10. InOrder(Top, b, Outside, T) <=> InOrder(Top, b + 1, Outside, T) /\ InOrder(f, 0, Within, T)
  <2> DEFINE Fine(i) == FineCall(Operands(Top)[i], Outside)
  <2>1. \A c : Remaining(Top, c, Outside, T) <=> \A i \in c + 1 .. Len(Operands(Top)) : Fine(i)
    BY <1>1 DEF Remaining, ExprFn
  <2>2. Fine(b + 1) <=> InOrder(f, 0, Within, T)
    BY <1>6, <1>7
  <2> HIDE DEF Fine, b, f, T
  <2>3. \A i \in b + 1 .. Len(Operands(Top)) : i = b + 1 \/ i \in b + 1 + 1 .. Len(Operands(Top))
    BY <1>3, <1>4
  <2>4. /\ \A i \in b + 1 + 1 .. Len(Operands(Top)) : i \in b + 1 .. Len(Operands(Top))
        /\ b + 1 \in b + 1 .. Len(Operands(Top))
    BY <1>3, <1>4
  <2>5. Remaining(Top, b, Outside, T) <=> Remaining(Top, b + 1, Outside, T) /\ Fine(b + 1)
    BY <2>1, <2>3, <2>4
  <2> QED
    BY <2>2, <2>5 DEF InOrder
<1>11. b = Len(Top.got) /\ T = DOMAIN lable_tab
  OBVIOUS
<1> HIDE DEF b, T, f
<1> QED
  BY <1>1, <1>2, <1>5, <1>6, <1>8, <1>9, <1>10, <1>11, RulesAfterCall

LEMMA ExprStepRules == TypeInv /\ RuleInv /\ ExprStep => RuleInv'
<1> SUFFICES ASSUME TypeInv, RuleInv, ExprStep PROVE RuleInv'
  OBVIOUS
<1>0. "ir_expr_f" \in ExprFn /\ "ir_lvalue" \in ExprFn
  BY DEF ExprFn
<1>1. CASE Fatal
  BY <1>1, FatalRules
<1>2. CASE EvaluateOperand
  BY <1>2, OperandRules
<1>3. CASE Literal
  BY <1>0, <1>3, ExprYields DEF Literal
<1>4. CASE LoadVariable
  BY <1>0, <1>4, ExprYields DEF LoadVariable
<1>5. CASE AddressOf
  BY <1>0, <1>5, ExprYields DEF AddressOf, ReadyUnary
<1>6. CASE DerefOrNegate
  BY <1>0, <1>6, ExprYields DEF DerefOrNegate, ReadyUnary
<1>7. CASE Not
  BY <1>0, <1>7, ExprYields DEF Not, ReadyUnary
<1>8. CASE IncDec
  BY <1>0, <1>8, ExprYields DEF IncDec, ReadyUnary
<1>9. CASE Assign
  BY <1>0, <1>9, ExprYields DEF Assign
<1>10. CASE BinaryOp
  BY <1>0, <1>10, ExprYields DEF BinaryOp
<1>11. CASE EmitCall
  BY <1>0, <1>11, ExprYields DEF EmitCall
<1>12. CASE LvalueName
  BY <1>0, <1>12, ExprYields DEF LvalueName
<1>13. CASE LvalueDeref
  BY <1>0, <1>13, ExprYields DEF LvalueDeref
<1> QED
  BY <1>1, <1>2, <1>3, <1>4, <1>5, <1>6, <1>7, <1>8, <1>9, <1>10, <1>11, <1>12, <1>13 DEF ExprStep

-----------------------------------------------------------------------------
(* Statements                                                               *)

\* A block: its statements one by one, each in the variables of its own.
LEMMA ScopeStatementRules == TypeInv /\ RuleInv /\ ScopeStatement => RuleInv'
<1> SUFFICES ASSUME TypeInv, RuleInv, ScopeStatement PROVE RuleInv'
  OBVIOUS
<1> DEFINE b == Len(Top.got)
           T == DOMAIN lable_tab
           body == Top.node.body
           s == body[b + 1]
           f == ir_statements(s)
           A == Autos(body)
<1>1. /\ status = "running" /\ stack # <<>> /\ Top.fn = "ir_scope"
      /\ b < Len(body) /\ Call(f) /\ Unchanging
  BY DEF ScopeStatement, InCall, Unchanging
<1>2. FrameOk(Top) /\ b \in Nat
  BY <1>1, StackFacts
<1>3. /\ body \in Seq(Stmt)
      /\ \A i \in 1 .. Len(body) : body[i].kind \notin {"AST_ELSE_IF", "AST_ELSE"}
  BY <1>1, <1>2, StmtFrame, StmtAssumption DEF ExprFn
<1>4. b + 1 \in 1 .. Len(body) /\ s \in Stmt /\ s.kind \notin {"AST_ELSE_IF", "AST_ELSE"}
  BY <1>1, <1>2, <1>3
<1>5. FrameOk(f) /\ f.fn # "ir_function_s"
  BY <1>4, StatementOk
<1>6. TableKept(f) /\ f.got = <<>>
  <2>1. s.kind = "AST_EXPR" => f = Frame("ir_expr_f", s.node, 0)
    BY DEF ir_statements, Value
  <2>2. s.kind # "AST_EXPR" => f = Frame(HandlerOf[s.kind], s, 0)
    BY DEF ir_statements
  <2>3. s.kind # "AST_EXPR" =>
          /\ HandlerOf[s.kind] # "ir_function_s"
          /\ HandlerOf[s.kind] = "ir_scope" => s.kind = "AST_SCOPE" /\ s.body \in Seq(Stmt)
    BY <1>4, StmtAssumption DEF HandlerOf, StmtKind
  <2> QED
    BY <2>1, <2>2, <2>3, FreshFrame
<1>7. AutoCalled(Top, f)
  <2>1. s.kind = "AST_EXPR" => f.fn = "ir_expr_f"
    BY FrameFields DEF ir_statements, Value
  <2>2. s.kind # "AST_EXPR" => f.fn = HandlerOf[s.kind] /\ f.node = s
    BY FrameFields DEF ir_statements
  <2>3. s.kind # "AST_EXPR" => (HandlerOf[s.kind] = "ir_auto_s" <=> s.kind = "AST_AUTO")
    BY <1>4, StmtAssumption DEF HandlerOf, StmtKind
  <2> HIDE DEF f
  <2> QED
    BY <1>1, <2>1, <2>2, <2>3 DEF AutoCalled
<1>8. Numbered(stack'[Len(stack)], b + 1)
  BY <1>1, <1>5, NumberedNext
<1>9. InOrder(Top, b, Outside, T) <=> InOrder(Top, b + 1, Outside, T) /\ InOrder(f, 0, Within, T)
  <2> DEFINE Fine(i) == FineStmt(body[i], (Outside \ A) \cup Declared(body, i - 1), T)
  <2>1. \A c : Remaining(Top, c, Outside, T) <=> \A i \in c + 1 .. Len(body) : Fine(i)
    BY <1>1 DEF Remaining
  <2>2. Within = (Outside \ A) \cup Declared(body, b)
    BY <1>1, TopInForce
  <2>3. b + 1 - 1 = b
    BY <1>2
  <2>4. Fine(b + 1) <=> InOrder(f, 0, Within, T)
    BY <1>4, <2>2, <2>3, StatementInOrder
  <2>5. Accepted(Top, Outside, T)
    BY <1>1 DEF Accepted
  <2> HIDE DEF Fine, b, f, T, body
  <2>6. \A i \in b + 1 .. Len(body) : i = b + 1 \/ i \in b + 1 + 1 .. Len(body)
    BY <1>2, <1>4
  <2>7. /\ \A i \in b + 1 + 1 .. Len(body) : i \in b + 1 .. Len(body)
        /\ b + 1 \in b + 1 .. Len(body)
    BY <1>2, <1>4
  <2>8. Remaining(Top, b, Outside, T) <=> Remaining(Top, b + 1, Outside, T) /\ Fine(b + 1)
    BY <2>1, <2>6, <2>7
  <2> QED
    BY <2>4, <2>5, <2>8 DEF InOrder
<1>10. b = Len(Top.got) /\ T = DOMAIN lable_tab
  OBVIOUS
<1> HIDE DEF b, T, f
<1> QED
  BY <1>1, <1>5, <1>6, <1>7, <1>8, <1>9, <1>10, RulesAfterCall

LEMMA EndScopeRules == TypeInv /\ RuleInv /\ EndScope => RuleInv'
<1> SUFFICES ASSUME TypeInv, RuleInv, EndScope PROVE RuleInv'
  OBVIOUS
<1> DEFINE b == Len(Top.got)
           T == DOMAIN lable_tab
           body == Top.node.body
<1>1. /\ status = "running" /\ stack # <<>> /\ Top.fn = "ir_scope" /\ b = Len(body)
      /\ Yield(code, 0, NoTemp)
  BY DEF EndScope, InCall
<1>2. b \in Nat
  BY <1>1, StackFacts
<1>3. \A i \in b + 1 .. Len(body) : FALSE
  BY <1>1, <1>2
<1>4. InOrder(Top, b, Outside, T)
  BY <1>1, <1>3 DEF InOrder, Accepted, Remaining
<1> QED
  BY <1>1, <1>4, YieldIs, RulesAfterPlainReturn

\* The tables after ir_auto_s.
LEMMA AutoTables ==
  ASSUME StackOk, Len(stack) > 1, temp_c \in Nat, ir_auto_s,
         NEW n, n = Len(stack) - 1, NEW x, x = Top.node.name, Innermost(x) = n
  PROVE  /\ \A k \in 1 .. n : k # n => stack'[k].symtab = stack[k].symtab
         /\ DOMAIN stack'[n].symtab = DOMAIN stack[n].symtab
         /\ \A y \in DOMAIN stack[n].symtab :
              stack'[n].symtab[y].temp_dest =
                IF y = x THEN temp_c + 1 ELSE stack[n].symtab[y].temp_dest
<1> DEFINE tab == [stack[n].symtab EXCEPT ![x].temp_dest = temp_c + 1]
           grown(k) == IF k = n THEN Append(stack[k].got, NoTemp) ELSE stack[k].got
           filled(k) == IF k = n THEN tab ELSE stack[k].symtab
           g(k) == [stack[k] EXCEPT !.got = grown(k), !.symtab = filled(k)]
<1>1. n \in 1 .. n /\ FrameOk(stack[n]) /\ \A k \in 1 .. n : FrameOk(stack[k])
  BY DEF StackOk
<1>2. stack' = [k \in 1 .. n |-> g(k)]
  <2>1. stack' = [k \in 1 .. Len(stack) - 1 |->
                   [stack[k] EXCEPT
                      !.got = IF k = Len(stack) - 1 THEN Append(@, NoTemp) ELSE @,
                      !.symtab = IF k = Innermost(Top.node.name)
                                   THEN [@ EXCEPT ![Top.node.name].temp_dest = temp_c + 1] ELSE @]]
    BY DEF ir_auto_s
  <2> QED
    BY <2>1
<1>3. ASSUME NEW k \in 1 .. n PROVE stack'[k].symtab = filled(k)
  <2>1. FrameOk(stack[k])
    BY <1>1
  <2> HIDE DEF filled, grown, tab
  <2>2. g(k).symtab = filled(k)
    BY <2>1 DEF FrameOk
  <2> HIDE DEF g
  <2>3. stack'[k] = g(k)
    BY <1>2
  <2> QED
    BY <2>2, <2>3
<1>4. /\ DOMAIN tab = DOMAIN stack[n].symtab
      /\ \A y \in DOMAIN stack[n].symtab :
           tab[y].temp_dest = IF y = x THEN temp_c + 1 ELSE stack[n].symtab[y].temp_dest
  <2> DEFINE t == stack[n].symtab
  <2>1. IsTable(t, VarInfoSet)
    BY <1>1 DEF FrameOk
  <2> HIDE DEF t
  <2>2. DOMAIN [t EXCEPT ![x].temp_dest = temp_c + 1] = DOMAIN t
    OBVIOUS
  <2>3. \A y \in DOMAIN t :
          [t EXCEPT ![x].temp_dest = temp_c + 1][y].temp_dest =
            IF y = x THEN temp_c + 1 ELSE t[y].temp_dest
    BY <2>1 DEF IsTable, VarInfoSet
  <2> QED
    BY <2>2, <2>3 DEF t
<1>5. filled(n) = tab /\ \A k \in 1 .. n : k # n => filled(k) = stack[k].symtab
  OBVIOUS
<1> HIDE DEF tab, filled, g, grown
<1> QED
  BY <1>1, <1>3, <1>4, <1>5

LEMMA AutoRules == TypeInv /\ RuleInv /\ ir_auto_s => RuleInv'
<1> SUFFICES ASSUME TypeInv, RuleInv, ir_auto_s PROVE RuleInv'
  OBVIOUS
<1> DEFINE n == Len(stack) - 1
           x == Top.node.name
           f == stack[n]
           body == f.node.body
           b == Len(f.got)
<1>1. InCall("ir_auto_s") /\ Unchanging
  BY ZenonT(30) DEF ir_auto_s, Unchanging
<1>2. status = "running" /\ stack # <<>> /\ Top.fn = "ir_auto_s" /\ temp_c \in Nat
  BY <1>1 DEF InCall, TypeInv, TypeOK
<1>3. /\ Len(stack) > 1 /\ StackOk /\ n \in Nat \ {0} /\ n + 1 = Len(stack)
      /\ n \in 1 .. n /\ n = Len(stack) - 1 /\ n \in 1 .. Len(stack) - 1 /\ n \in 1 .. Len(stack)
      /\ Top = stack[n + 1] /\ FrameOk(f) /\ b \in Nat /\ n + 1 \in 1 .. Len(stack)
  <2>1. Len(stack) > 1
    BY <1>2, Deep
  <2> QED
    BY <1>2, <2>1, StackFacts
<1>4. /\ AutoCalled(f, Top) /\ TableKept(f) /\ TableKept(Top)
  BY <1>2, <1>3 DEF RuleInv
<1>5. /\ f.fn = "ir_scope" /\ b < Len(body) /\ body[b + 1].kind = "AST_AUTO"
      /\ body[b + 1].name = x
  BY <1>2, <1>4 DEF AutoCalled
<1>6. body \in Seq(Stmt) /\ b + 1 \in DOMAIN body
  <2>1. f.node \in Stmt /\ f.node.kind \in {"AST_SCOPE", "AST_ELSE"}
    BY <1>3, <1>5, StmtFrame DEF ExprFn
  <2>2. body \in Seq(Stmt)
    BY <2>1, StmtAssumption
  <2> QED
    BY <1>3, <1>5, <2>2
<1>7. DOMAIN f.symtab = Autos(body)
      /\ \A y \in DOMAIN f.symtab : f.symtab[y].temp_dest # 0 <=> y \in Declared(body, b)
  BY <1>4, <1>5 DEF TableKept
<1>8. x \in Autos(body)
  <2>1. b + 1 <= Len(body)
    BY <1>6
  <2> QED
    BY <1>5, <1>6, <2>1 DEF Autos, Declared
<1>9. Innermost(x) = n
  <2>1. DOMAIN Top.symtab = {}
    BY <1>2, <1>4 DEF TableKept
  <2>2. DOMAIN stack = 1 .. Len(stack)
    BY <1>3 DEF StackOk
  <2>3. n \in Holders(x)
    BY <1>3, <1>7, <1>8, <2>2 DEF Holders
  <2>4. \A j \in Holders(x) : j \in 1 .. Len(stack) /\ j # n + 1
    BY <1>3, <2>1, <2>2 DEF Holders
  <2> HIDE DEF n, x
  <2>5. \A j \in Holders(x) : j <= n
    BY <1>3, <2>4
  <2>6. Innermost(x) \in Holders(x) /\ \A j \in Holders(x) : j <= Innermost(x)
    BY <2>3, <2>5 DEF Innermost
  <2>7. Innermost(x) \in 1 .. Len(stack)
    BY <2>4, <2>6
  <2> QED
    BY <1>3, <2>3, <2>5, <2>6, <2>7
<1>10. /\ Len(stack') = n
       /\ \A k \in 1 .. n :
            /\ stack'[k].fn = stack[k].fn /\ stack'[k].node = stack[k].node
            /\ stack'[k].lab = stack[k].lab
            /\ k # n => stack'[k].got = stack[k].got
       /\ stack'[n].got = Append(f.got, NoTemp)
  BY <1>2, <1>3, AutoShape
<1>11. /\ \A k \in 1 .. n : k # n => stack'[k].symtab = stack[k].symtab
       /\ DOMAIN stack'[n].symtab = DOMAIN f.symtab
       /\ \A y \in DOMAIN f.symtab :
            stack'[n].symtab[y].temp_dest = IF y = x THEN temp_c + 1 ELSE f.symtab[y].temp_dest
  BY ZenonT(30), <1>2, <1>3, <1>9, AutoTables
<1>12. Len(stack'[n].got) = b + 1
  <2>1. f.got \in Seq(ResultSet)
    BY <1>3 DEF FrameOk
  <2> QED
    BY <1>10, <2>1
<1>13. TableKept(stack'[n])
  <2> DEFINE g == stack'[n]
  <2>1. g.fn = "ir_scope" /\ g.node.body = body /\ Len(g.got) = b + 1
    BY <1>3, <1>5, <1>10, <1>12
  <2>2. Declared(body, b + 1) = Declared(body, b) \cup {x}
    BY <1>3, <1>5, <1>6, DeclaredNext
  <2> HIDE DEF g
  <2>3. DOMAIN g.symtab = Autos(body)
    BY <1>7, <1>11 DEF g
  <2>4. temp_c + 1 # 0
    BY <1>2
  <2>5. \A y \in DOMAIN g.symtab : g.symtab[y].temp_dest # 0 <=> y \in Declared(body, b + 1)
    BY <1>7, <1>11, <2>2, <2>3, <2>4 DEF g
  <2>6. TableKept(g)
    BY <2>1, <2>3, <2>5 DEF TableKept
  <2> QED
    BY <2>6 DEF g
<1>14. Popped
  <2> HIDE DEF n, b, f
  <2>1. /\ Len(stack) > 1 /\ Len(stack') = n
        /\ \A k \in 1 .. n :
             /\ stack'[k].fn = stack[k].fn /\ stack'[k].node = stack[k].node
             /\ stack'[k].lab = stack[k].lab
             /\ k # n => stack'[k].symtab = stack[k].symtab /\ stack'[k].got = stack[k].got
             /\ k = n => Len(stack'[k].got) = Len(stack[k].got) + 1
    BY <1>3, <1>10, <1>11, <1>12 DEF f, b
  <2> QED
    BY <1>3, <2>1 DEF Popped
<1>15. InOrder(Top, Len(Top.got), Outside, DOMAIN lable_tab)
  BY <1>2 DEF InOrder, Accepted, Remaining
<1> QED
  BY <1>1, <1>2, <1>3, <1>13, <1>14, <1>15, RulesAfterReturn

LEMMA NameRules ==
  TypeInv /\ RuleInv /\ (ir_extrn_s \/ ir_return_s \/ LableOrGoto) => RuleInv'
<1> SUFFICES ASSUME TypeInv, RuleInv, ir_extrn_s \/ ir_return_s \/ LableOrGoto PROVE RuleInv'
  OBVIOUS
<1> DEFINE T == DOMAIN lable_tab
<1>1. CASE ir_extrn_s
  <2>1. /\ status = "running" /\ stack # <<>> /\ Top.fn = "ir_extrn_s" /\ Return(NoTemp)
        /\ Unchanging
    BY <1>1 DEF ir_extrn_s, InCall, Unchanging
  <2>2. InOrder(Top, Len(Top.got), Outside, T)
    BY <2>1 DEF InOrder, Accepted, Remaining
  <2> QED
    BY <2>1, <2>2, RulesAfterPlainReturn
<1>2. CASE ir_return_s
  <2>1. /\ status = "running" /\ stack # <<>> /\ Top.fn = "ir_return_s" /\ Len(Top.got) = 1
        /\ Yield(Emit1(Node("IR_RETURN", 0, <<Got(1)>>)), 0, NoTemp)
    BY <1>2 DEF ir_return_s, InCall
  <2>2. Return(NoTemp) /\ Unchanging
    BY <2>1, YieldIs
  <2>3. Len(Operands(Top)) = 1
    BY <2>1 DEF Operands
  <2>4. ~ Rejected(Top)
    BY <2>1 DEF Rejected
  <2>5. InOrder(Top, Len(Top.got), Outside, T)
    BY <2>1, <2>3, <2>4, ReadyInOrder
  <2> QED
    BY <2>1, <2>2, <2>5, RulesAfterPlainReturn
<1>3. CASE LableOrGoto
  <2>1. /\ status = "running" /\ stack # <<>> /\ Top.fn \in {"ir_lable_s", "ir_goto_s"}
        /\ ~ Rejected(Top) /\ Return(NoTemp) /\ UNCHANGED <<program, curr, status>>
    BY <1>3 DEF LableOrGoto, InCall
  <2>2. Unchanging
    BY <1>3, <2>1 DEF LableOrGoto, Unchanging
  <2>3. Accepted(Top, Outside, T)
    BY <2>1, RejectedIs
  <2>4. InOrder(Top, Len(Top.got), Outside, T)
    BY <2>1, <2>3 DEF InOrder, Remaining
  <2> QED
    BY <2>1, <2>2, <2>4, RulesAfterPlainReturn
<1> QED
  BY <1>1, <1>2, <1>3

ControlFn == {"ir_if_s", "ir_if_chain_s", "ir_while_s"}

\* The handlers with labels declare nothing: what they call is in the variables
\* they are in themselves.
LEMMA RulesAfterBranchCall ==
  ASSUME TypeInv, RuleInv, stack # <<>>, status = "running", Unchanging, Top.fn \in ControlFn,
         NEW f, FrameOk(f), TableKept(f), f.got = <<>>, f.fn # "ir_auto_s",
         \/ Call(f) /\ (Len(Top.got) # 0 \/ Top.node.kind = "AST_ELSE")
         \/ \E l \in Nat \ {0} : CallFrom(l, f),
         NEW b, b = Len(Top.got), NEW T, T = DOMAIN lable_tab,
         InOrder(Top, b, Outside, T) <=> InOrder(Top, b + 1, Outside, T) /\ InOrder(f, 0, Outside, T)
  PROVE  RuleInv'
<1>1. Within = Outside
  BY TopInForce DEF ControlFn
<1>2. Numbered(stack'[Len(stack)], b + 1)
  BY NumberedNext
<1>3. AutoCalled(Top, f)
  BY DEF AutoCalled, ControlFn
<1>4. Call(f) \/ \E l \in Nat : CallFrom(l, f)
  OBVIOUS
<1> QED
  BY <1>1, <1>2, <1>3, <1>4, RulesAfterCall

\* A handler that has no labels yet has called nothing.
LEMMA NoLabelsYet ==
  ASSUME TypeInv, RuleInv, stack # <<>>, Top.fn \in ControlFn, Top.node.kind # "AST_ELSE",
         Top.lab = 0
  PROVE  Len(Top.got) = 0
<1>1. Numbered(Top, Len(Top.got))
  BY StackFacts DEF RuleInv
<1> QED
  BY <1>1 DEF Numbered, ControlFn

LEMMA ControlFrame ==
  ASSUME TypeInv, stack # <<>>, Top.fn \in ControlFn
  PROVE  /\ Top.node \in Stmt /\ Len(Top.got) \in Nat /\ Top.end \in Nat
         /\ Top.node.kind \in {"AST_IF", "AST_ELSE_IF", "AST_ELSE", "AST_WHILE"}
         /\ Top.fn = "ir_if_s" => Top.node.kind = "AST_IF"
         /\ Top.fn = "ir_while_s" => Top.node.kind = "AST_WHILE"
         /\ Top.fn = "ir_if_chain_s" => Top.node.kind \in {"AST_IF", "AST_ELSE_IF", "AST_ELSE"}
         /\ Top.node.kind = "AST_ELSE" => Top.node.body \in Seq(Stmt)
         /\ Top.node.kind # "AST_ELSE" =>
              /\ Top.node.Condition \in Expr
              /\ Top.node.body \in Stmt /\ Top.node.body.kind = "AST_SCOPE"
              /\ Top.node.body.body \in Seq(Stmt)
         /\ Top.node.kind \in {"AST_IF", "AST_ELSE_IF"} =>
              \/ Top.node.chain = NULL
              \/ Top.node.chain \in Stmt /\ Top.node.chain.kind \in {"AST_ELSE_IF", "AST_ELSE"}
<1>1. FrameOk(Top) /\ Top.end \in Nat /\ Len(Top.got) \in Nat
  BY TopOk
<1>2. /\ Top.node \in Stmt
      /\ Top.fn = "ir_if_s" => Top.node.kind = "AST_IF"
      /\ Top.fn = "ir_while_s" => Top.node.kind = "AST_WHILE"
      /\ Top.fn = "ir_if_chain_s" => Top.node.kind \in {"AST_IF", "AST_ELSE_IF", "AST_ELSE"}
  BY <1>1, StmtFrame DEF ControlFn, ExprFn
<1> QED
  BY <1>1, <1>2, StmtAssumption DEF ControlFn

\* What is left of a handler of each sort.
LEMMA IfRemains ==
  ASSUME TypeInv, stack # <<>>, Top.fn = "ir_if_s", NEW b, NEW E, NEW T
  PROVE  InOrder(Top, b, E, T) <=> (b = 0 => FineStmt(Top.node, E, T))
  BY DEF InOrder, Accepted, Remaining

LEMMA ElseRemains ==
  ASSUME TypeInv, stack # <<>>, Top.fn = "ir_if_chain_s", Top.node.kind = "AST_ELSE",
         NEW b, NEW E, NEW T
  PROVE  InOrder(Top, b, E, T) <=> (b = 0 => FineStmt(Top.node, E, T))
  BY DEF InOrder, Accepted, Remaining

LEMMA BranchRemains ==
  ASSUME TypeInv, stack # <<>>, Top.fn \in {"ir_if_chain_s", "ir_while_s"},
         Top.node.kind # "AST_ELSE", NEW b \in Nat, NEW E, NEW T
  PROVE  InOrder(Top, b, E, T) <=>
           /\ b = 0 => FineExpr(Top.node.Condition, E)
           /\ b <= 1 => FineStmt(Top.node.body, E, T)
           /\ Top.fn = "ir_if_chain_s" /\ b <= 2 /\ Top.node.chain # NULL =>
                FineStmt(Top.node.chain, E, T)
<1>1. Accepted(Top, E, T)
  BY DEF Accepted
<1>2. Remaining(Top, b, E, T) <=>
           /\ b = 0 => FineExpr(Top.node.Condition, E)
           /\ b <= 1 => FineStmt(Top.node.body, E, T)
           /\ Top.fn = "ir_if_chain_s" /\ b <= 2 /\ Top.node.chain # NULL =>
                FineStmt(Top.node.chain, E, T)
  <2>1. CASE Top.fn = "ir_while_s"
    BY <2>1 DEF Remaining
  <2>2. CASE Top.fn = "ir_if_chain_s"
    BY <2>2 DEF Remaining
  <2> QED
    BY <2>1, <2>2
<1> QED
  BY <1>1, <1>2 DEF InOrder

LEMMA IfRules == TypeInv /\ RuleInv /\ (IfBegin \/ IfEnd) => RuleInv'
<1> SUFFICES ASSUME TypeInv, RuleInv, IfBegin \/ IfEnd PROVE RuleInv'
  OBVIOUS
<1> DEFINE T == DOMAIN lable_tab
<1>1. status = "running" /\ stack # <<>> /\ Top.fn = "ir_if_s" /\ Top.fn \in ControlFn
  BY DEF IfBegin, IfEnd, InCall, ControlFn
<1>2. Top.node \in Stmt /\ Top.node.kind = "AST_IF" /\ Len(Top.got) \in Nat
  BY <1>1, ControlFrame
<1>3. CASE IfBegin
  <2> DEFINE f == Frame("ir_if_chain_s", Top.node, lable_c + 1)
  <2>1. Top.lab = 0 /\ CallFrom(lable_c + 1, f) /\ Unchanging
    BY <1>3 DEF IfBegin, Unchanging
  <2>2. lable_c + 1 \in Nat \ {0}
    BY DEF TypeInv, TypeOK
  <2>3. FrameOk(f)
    BY <1>2, <2>2, ChainOk
  <2>4. f.fn = "ir_if_chain_s" /\ f.got = <<>> /\ TableKept(f)
    BY FreshFrame, FrameFields
  <2>5. Len(Top.got) = 0
    BY <1>1, <1>2, <2>1, NoLabelsYet
  <2>6. InOrder(f, 0, Outside, T) <=> FineStmt(Top.node, Outside, T)
    BY <1>2, ChainInOrder
  <2>7. /\ InOrder(Top, 0, Outside, T) <=> FineStmt(Top.node, Outside, T)
        /\ InOrder(Top, 0 + 1, Outside, T)
    BY <1>1, IfRemains
  <2> HIDE DEF f, T
  <2>8. InOrder(Top, 0, Outside, T) <=> InOrder(Top, 0 + 1, Outside, T) /\ InOrder(f, 0, Outside, T)
    BY <2>6, <2>7
  <2>9. T = DOMAIN lable_tab /\ f.fn # "ir_auto_s" /\ \E l \in Nat \ {0} : CallFrom(l, f)
    BY <2>1, <2>2, <2>4 DEF T
  <2> QED
    BY <1>1, <2>1, <2>3, <2>4, <2>5, <2>8, <2>9, RulesAfterBranchCall
<1>4. CASE IfEnd
  <2>1. Len(Top.got) = 1 /\ Yield(Emit1(Label(Top.lab)), 0, NoTemp)
    BY <1>4 DEF IfEnd
  <2>2. InOrder(Top, Len(Top.got), Outside, T)
    BY <1>1, <2>1, IfRemains
  <2> QED
    BY <1>1, <2>1, <2>2, YieldIs, RulesAfterPlainReturn
<1> QED
  BY <1>3, <1>4

\* The condition, which ir_if_chain_s and ir_while_s evaluate first.
LEMMA ConditionRules == TypeInv /\ RuleInv /\ (ChainCondition \/ WhileCondition) => RuleInv'
<1> SUFFICES ASSUME TypeInv, RuleInv, ChainCondition \/ WhileCondition PROVE RuleInv'
  OBVIOUS
<1> DEFINE T == DOMAIN lable_tab
           f == Value(Top.node.Condition)
           E == Outside
<1>1. /\ status = "running" /\ stack # <<>> /\ Top.fn \in {"ir_if_chain_s", "ir_while_s"}
      /\ Top.fn \in ControlFn /\ Top.lab = 0 /\ CallFrom(lable_c + 1, f) /\ Unchanging
  BY DEF ChainCondition, WhileCondition, InChain, InCall, ControlFn, Unchanging
<1>2. Top.node.kind # "AST_ELSE"
  <2>1. CASE ChainCondition
    BY <2>1 DEF ChainCondition, InChain
  <2>2. CASE WhileCondition
    BY <1>1, <2>2, ControlFrame DEF WhileCondition, InCall
  <2> QED
    BY <2>1, <2>2
<1>3. Top.node.Condition \in Expr
  BY <1>1, <1>2, ControlFrame
<1>4. lable_c + 1 \in Nat \ {0}
  BY DEF TypeInv, TypeOK
<1>5. FrameOk(f)
  BY <1>3, ValueOk
<1>6. f.fn = "ir_expr_f" /\ f.got = <<>> /\ TableKept(f)
  BY FreshFrame, FrameFields DEF Value
<1>7. Len(Top.got) = 0
  BY <1>1, <1>2, NoLabelsYet
<1>8. InOrder(f, 0, E, T) <=> FineExpr(Top.node.Condition, E)
  BY <1>3, ValueInOrder
<1> HIDE DEF f, T, E
<1>9. InOrder(Top, 0, E, T) <=> InOrder(Top, 0 + 1, E, T) /\ InOrder(f, 0, E, T)
  <2>1. \A b \in Nat : InOrder(Top, b, E, T) <=>
           /\ b = 0 => FineExpr(Top.node.Condition, E)
           /\ b <= 1 => FineStmt(Top.node.body, E, T)
           /\ Top.fn = "ir_if_chain_s" /\ b <= 2 /\ Top.node.chain # NULL =>
                FineStmt(Top.node.chain, E, T)
    BY <1>1, <1>2, BranchRemains
  <2> QED
    BY <1>8, <2>1
<1>10. T = DOMAIN lable_tab /\ f.fn # "ir_auto_s" /\ \E l \in Nat \ {0} : CallFrom(l, f)
  BY <1>1, <1>4, <1>6 DEF T
<1> QED
  BY <1>1, <1>5, <1>6, <1>7, <1>9, <1>10, RulesAfterBranchCall DEF E

\* The block, which both generate second.
LEMMA BlockRules == TypeInv /\ RuleInv /\ (ChainThen \/ WhileBody) => RuleInv'
<1> SUFFICES ASSUME TypeInv, RuleInv, ChainThen \/ WhileBody PROVE RuleInv'
  OBVIOUS
<1> DEFINE T == DOMAIN lable_tab
           f == Frame("ir_scope", Top.node.body, 0)
           E == Outside
<1>1. /\ status = "running" /\ stack # <<>> /\ Top.fn \in {"ir_if_chain_s", "ir_while_s"}
      /\ Top.fn \in ControlFn /\ Len(Top.got) = 1 /\ Call(f) /\ Unchanging
  BY DEF ChainThen, WhileBody, InChain, InCall, ControlFn, Unchanging
<1>2. Top.node.kind # "AST_ELSE"
  <2>1. CASE ChainThen
    BY <2>1 DEF ChainThen, InChain
  <2>2. CASE WhileBody
    BY <1>1, <2>2, ControlFrame DEF WhileBody, InCall
  <2> QED
    BY <2>1, <2>2
<1>3. /\ Top.node.body \in Stmt /\ Top.node.body.kind = "AST_SCOPE"
      /\ Top.node.body.body \in Seq(Stmt)
  BY <1>1, <1>2, ControlFrame
<1>4. FrameOk(f)
  BY <1>3, ScopeOk
<1>5. f.fn = "ir_scope" /\ f.got = <<>> /\ TableKept(f)
  BY <1>3, FreshFrame, FrameFields
<1>6. InOrder(f, 0, E, T) <=> FineStmt(Top.node.body, E, T)
  BY <1>3, ScopeInOrder
<1> HIDE DEF f, T, E
<1>7. InOrder(Top, 1, E, T) <=> InOrder(Top, 1 + 1, E, T) /\ InOrder(f, 0, E, T)
  <2>1. \A b \in Nat : InOrder(Top, b, E, T) <=>
           /\ b = 0 => FineExpr(Top.node.Condition, E)
           /\ b <= 1 => FineStmt(Top.node.body, E, T)
           /\ Top.fn = "ir_if_chain_s" /\ b <= 2 /\ Top.node.chain # NULL =>
                FineStmt(Top.node.chain, E, T)
    BY <1>1, <1>2, BranchRemains
  <2> QED
    BY <1>6, <2>1
<1>8. T = DOMAIN lable_tab /\ f.fn # "ir_auto_s" /\ Len(Top.got) # 0
  BY <1>1, <1>5 DEF T
<1> QED
  BY <1>1, <1>4, <1>5, <1>7, <1>8, RulesAfterBranchCall DEF E

\* The rest of a chain, and its else.
LEMMA ChainGoesOn == TypeInv /\ RuleInv /\ (ChainNext \/ ChainElse) => RuleInv'
<1> SUFFICES ASSUME TypeInv, RuleInv, ChainNext \/ ChainElse PROVE RuleInv'
  OBVIOUS
<1> DEFINE T == DOMAIN lable_tab
           E == Outside
<1>1. /\ status = "running" /\ stack # <<>> /\ Top.fn = "ir_if_chain_s"
      /\ Top.fn \in ControlFn /\ Unchanging
  BY DEF ChainNext, ChainElse, InChain, InCall, ControlFn, Unchanging
<1>2. CASE ChainNext
  <2>1. /\ Top.node.kind \in {"AST_IF", "AST_ELSE_IF"} /\ Len(Top.got) = 2
        /\ IF Top.node.chain = NULL THEN Return(NoTemp)
           ELSE Call(Frame("ir_if_chain_s", Top.node.chain, Top.end))
    BY <1>2 DEF ChainNext, InChain
  <2>2. \A b \in Nat : InOrder(Top, b, E, T) <=>
           /\ b = 0 => FineExpr(Top.node.Condition, E)
           /\ b <= 1 => FineStmt(Top.node.body, E, T)
           /\ Top.fn = "ir_if_chain_s" /\ b <= 2 /\ Top.node.chain # NULL =>
                FineStmt(Top.node.chain, E, T)
    BY <1>1, <2>1, BranchRemains
  <2>3. CASE Top.node.chain = NULL
    <3>1. InOrder(Top, Len(Top.got), E, T)
      BY <2>1, <2>2, <2>3
    <3> QED
      BY <1>1, <2>1, <2>3, <3>1, RulesAfterPlainReturn
  <2>4. CASE Top.node.chain # NULL
    <3> DEFINE f == Frame("ir_if_chain_s", Top.node.chain, Top.end)
    <3>1. /\ Top.node.chain \in Stmt /\ Top.node.chain.kind \in {"AST_ELSE_IF", "AST_ELSE"}
          /\ Top.end \in Nat
      BY <1>1, <2>1, <2>4, ControlFrame
    <3>2. FrameOk(f)
      BY <3>1, ChainOk
    <3>3. f.fn = "ir_if_chain_s" /\ f.got = <<>> /\ TableKept(f)
      BY FreshFrame, FrameFields
    <3>4. InOrder(f, 0, E, T) <=> FineStmt(Top.node.chain, E, T)
      BY <3>1, ChainInOrder
    <3>5. Call(f)
      BY <2>1, <2>4
    <3> HIDE DEF f, T, E
    <3>6. InOrder(Top, 2, E, T) <=> InOrder(Top, 2 + 1, E, T) /\ InOrder(f, 0, E, T)
      BY <1>1, <2>2, <2>4, <3>4
    <3>7. T = DOMAIN lable_tab /\ f.fn # "ir_auto_s" /\ Len(Top.got) # 0
      BY <2>1, <3>3 DEF T
    <3> QED
      BY <1>1, <2>1, <3>2, <3>3, <3>5, <3>6, <3>7, RulesAfterBranchCall DEF E
  <2> QED
    BY <2>3, <2>4
<1>3. CASE ChainElse
  <2> DEFINE f == Frame("ir_scope", Top.node, 0)
  <2>1. Top.node.kind = "AST_ELSE" /\ Len(Top.got) = 0 /\ Call(f)
    BY <1>3 DEF ChainElse, InChain
  <2>2. Top.node \in Stmt /\ Top.node.body \in Seq(Stmt)
    BY <1>1, <2>1, ControlFrame
  <2>3. FrameOk(f)
    BY <2>1, <2>2, ScopeOk
  <2>4. f.fn = "ir_scope" /\ f.got = <<>> /\ TableKept(f)
    BY <2>2, FreshFrame, FrameFields
  <2>5. InOrder(f, 0, E, T) <=> FineStmt(Top.node, E, T)
    BY <2>1, <2>2, ScopeInOrder
  <2>6. /\ InOrder(Top, 0, E, T) <=> FineStmt(Top.node, E, T)
        /\ InOrder(Top, 0 + 1, E, T)
    BY <1>1, <2>1, ElseRemains
  <2> HIDE DEF f, T, E
  <2>7. InOrder(Top, 0, E, T) <=> InOrder(Top, 0 + 1, E, T) /\ InOrder(f, 0, E, T)
    BY <2>5, <2>6
  <2>8. T = DOMAIN lable_tab /\ f.fn # "ir_auto_s"
    BY <2>4 DEF T
  <2> QED
    BY <1>1, <2>1, <2>3, <2>4, <2>7, <2>8, RulesAfterBranchCall DEF E
<1> QED
  BY <1>2, <1>3

LEMMA BranchEndRules == TypeInv /\ RuleInv /\ (ChainEnd \/ WhileEnd) => RuleInv'
<1> SUFFICES ASSUME TypeInv, RuleInv, ChainEnd \/ WhileEnd PROVE RuleInv'
  OBVIOUS
<1> DEFINE T == DOMAIN lable_tab
           E == Outside
<1>1. /\ status = "running" /\ stack # <<>> /\ Top.fn \in {"ir_if_chain_s", "ir_while_s"}
      /\ \E nodes : Yield(nodes, 0, NoTemp)
  BY DEF ChainEnd, WhileEnd, InChain, InCall
<1>2. Return(NoTemp) /\ Unchanging
  BY <1>1, YieldIs
<1>3. InOrder(Top, Len(Top.got), E, T)
  <2>1. CASE Top.node.kind = "AST_ELSE"
    <3>1. Top.fn = "ir_if_chain_s"
      BY <1>1, <2>1, ControlFrame DEF ControlFn
    <3>2. Len(Top.got) # 0
      BY SMTT(30), <2>1, <3>1 DEF ChainEnd, WhileEnd, InChain, InCall
    <3> QED
      BY <1>1, <2>1, <3>1, <3>2, ElseRemains
  <2>2. CASE Top.node.kind # "AST_ELSE"
    <3>1. \/ Len(Top.got) = 3
          \/ Len(Top.got) = 2 /\ Top.fn = "ir_while_s"
      BY <2>2 DEF ChainEnd, WhileEnd, InChain, InCall
    <3>2. \A b \in Nat : InOrder(Top, b, E, T) <=>
             /\ b = 0 => FineExpr(Top.node.Condition, E)
             /\ b <= 1 => FineStmt(Top.node.body, E, T)
             /\ Top.fn = "ir_if_chain_s" /\ b <= 2 /\ Top.node.chain # NULL =>
                  FineStmt(Top.node.chain, E, T)
      BY <1>1, <2>2, BranchRemains
    <3> QED
      BY <3>1, <3>2
  <2> QED
    BY <2>1, <2>2
<1> QED
  BY <1>1, <1>2, <1>3, RulesAfterPlainReturn

LEMMA StatementStepRules == TypeInv /\ RuleInv /\ StatementStep => RuleInv'
<1>1. StatementStep =>
        \/ ScopeStatement \/ EndScope \/ ir_auto_s
        \/ (ir_extrn_s \/ ir_return_s \/ LableOrGoto)
        \/ (IfBegin \/ IfEnd) \/ (ChainCondition \/ WhileCondition)
        \/ (ChainThen \/ WhileBody) \/ (ChainNext \/ ChainElse) \/ (ChainEnd \/ WhileEnd)
  BY DEF StatementStep
<1> QED
  BY <1>1, ScopeStatementRules, EndScopeRules, AutoRules, NameRules, IfRules, ConditionRules,
     BlockRules, ChainGoesOn, BranchEndRules

-----------------------------------------------------------------------------
(* Functions and the module                                                 *)

\* A function whose own frame is alone on the stack.
LEMMA OneFrameRules ==
  ASSUME TypeInv, UNCHANGED <<program, curr>>, status' = "running",
         NEW f, Len(stack') = 1, stack'[1] = f, f.fn = "ir_function_s", TableKept(f),
         Len(f.got) \in Nat,
         NEW T, DOMAIN lable_tab' = T, T = program[curr].lables,
         \A i \in 1 .. curr - 1 :
           program[i].kind = "AST_FUNCTION" => FunctionFine(program[i], Globals),
         FunctionFine(program[curr], Globals) <=> InOrder(f, Len(f.got), Globals, T)
  PROVE  RuleInv'
<1> DEFINE G == Globals
<1>1. Globals' = G /\ program' = program /\ curr' = curr
  BY GlobalsStay
<1>2. stack'[1] = f /\ Len(stack') = 1 /\ stack' # <<>>
  OBVIOUS
<1>3. Sees(stack', 0, G) = G
  BY SeesNone, GlobalsNamed
<1>4. BegunCalls(stack', 1) = Len(f.got)
  <2>1. BegunCalls(stack', 1) = Len(f.got) + 0
    BY <1>2 DEF BegunCalls
  <2> QED
    BY <2>1
<1> HIDE DEF G
<1>5. FrameInOrder(stack', 1, G, T) <=> InOrder(f, Len(f.got), G, T)
  <2>1. 1 - 1 = 0
    OBVIOUS
  <2> QED
    BY <1>2, <1>3, <1>4, <2>1 DEF FrameInOrder
<1>6. \A k \in 1 .. 1 : k = 1
  OBVIOUS
<1>7. FunctionFine(program[curr], G) <=> \A k \in 1 .. 1 : FrameInOrder(stack', k, G, T)
  <2>1. FunctionFine(program[curr], G) <=> InOrder(f, Len(f.got), G, T)
    BY DEF G
  <2>2. 1 \in 1 .. 1
    OBVIOUS
  <2> QED
    BY ONLY <1>5, <1>6, <2>1, <2>2
<1>8. (FunctionFine(program[curr], Globals) <=>
          \A k \in 1 .. Len(stack) : FrameInOrder(stack, k, Globals, DOMAIN lable_tab))'
  <2>1. DOMAIN lable_tab' = T
    OBVIOUS
  <2> QED
    BY ONLY <1>1, <1>2, <1>7, <2>1
<1>9. (\A i \in 1 .. curr - 1 :
          program[i].kind = "AST_FUNCTION" => FunctionFine(program[i], Globals))'
  <2>1. \A i \in 1 .. curr - 1 :
          program[i].kind = "AST_FUNCTION" => FunctionFine(program[i], G)
    BY DEF G
  <2> QED
    BY ONLY <1>1, <2>1
<1>10. /\ \A k \in 1 .. 1 : TableKept(stack'[k]) /\ Numbered(stack'[k], BegunCalls(stack', k))
       /\ \A k \in 1 .. 0 : AutoCalled(stack'[k], stack'[k + 1])
  <2>1. \A k \in 1 .. 0 : FALSE
    OBVIOUS
  <2>2. TableKept(stack'[1]) /\ Numbered(stack'[1], BegunCalls(stack', 1))
    BY <1>2 DEF Numbered
  <2> QED
    BY <1>6, <2>1, <2>2
<1>11. (\A k \in 1 .. Len(stack) : /\ TableKept(stack[k])
                                   /\ Numbered(stack[k], BegunCalls(stack, k)))'
  BY ONLY <1>2, <1>10
<1>12. (\A k \in 1 .. Len(stack) - 1 : AutoCalled(stack[k], stack[k + 1]))'
  <2>1. Len(stack') - 1 = 0
    BY <1>2
  <2> QED
    BY ONLY <1>10, <2>1
<1>13. (DOMAIN lable_tab = program[curr].lables)'
  BY <1>1
<1> QED
  BY <1>2, <1>8, <1>9, <1>11, <1>12, <1>13 DEF RuleInv

\* The frame of ir_function_s, when it is on top.
LEMMA FunctionTop ==
  ASSUME TypeInv, RuleInv, stack # <<>>, Top.fn = "ir_function_s"
  PROVE  /\ Len(stack) = 1 /\ DOMAIN stack = 1 .. 1 /\ Top = stack[1] /\ FrameOk(Top)
         /\ Len(Top.got) \in Nat /\ IsFunction(Top.node) /\ Top.node = program[curr]
         /\ TableKept(Top) /\ DOMAIN lable_tab = program[curr].lables
         /\ FunctionFine(program[curr], Globals) <=>
              InOrder(Top, Len(Top.got), Globals, DOMAIN lable_tab)
<1>1. /\ Len(stack) \in Nat \ {0} /\ Top = stack[Len(stack)] /\ FrameOk(Top)
      /\ Len(Top.got) \in Nat /\ Len(stack) \in 1 .. Len(stack) /\ DOMAIN stack = 1 .. Len(stack)
      /\ BegunCalls(stack, Len(stack)) = Len(Top.got)
  BY StackFacts DEF StackOk
<1>2. Len(stack) = 1
  <2>1. \A k \in 2 .. Len(stack) : stack[k].fn # "ir_function_s"
    BY DEF TypeInv, Nesting
  <2>2. Len(stack) \notin 2 .. Len(stack)
    BY <1>1, <2>1
  <2>3. \A n \in Nat \ {0} : n \notin 2 .. n => n = 1
    OBVIOUS
  <2> QED
    BY <1>1, <2>2, <2>3
<1>3. Top.node = program[curr]
  BY <1>1, <1>2 DEF TypeInv, Nesting
<1>4. Outside = Globals
  BY TopInForce
<1>5. FrameInOrder(stack, 1, Globals, DOMAIN lable_tab) <=>
        InOrder(Top, Len(Top.got), Globals, DOMAIN lable_tab)
  BY <1>1, <1>2, <1>4 DEF FrameInOrder, Outside
<1>6. \A k \in 1 .. 1 : k = 1
  OBVIOUS
<1>7. FunctionFine(program[curr], Globals) <=> FrameInOrder(stack, 1, Globals, DOMAIN lable_tab)
  <2>1. FunctionFine(program[curr], Globals) <=>
          \A k \in 1 .. 1 : FrameInOrder(stack, k, Globals, DOMAIN lable_tab)
    BY <1>2 DEF RuleInv
  <2>2. 1 \in 1 .. 1
    OBVIOUS
  <2> QED
    BY ONLY <1>6, <2>1, <2>2
<1>8. TableKept(Top) /\ DOMAIN lable_tab = program[curr].lables
  BY <1>1 DEF RuleInv
<1> QED
  BY <1>1, <1>2, <1>3, <1>5, <1>7, <1>8, FunctionFrame

LEMMA FunctionRemains ==
  ASSUME NEW f, f.fn = "ir_function_s", NEW b, NEW E, NEW T
  PROVE  InOrder(f, b, E, T) <=>
           (b <= Len(f.node.params) => FineStmt(f.node.body, E \cup ParamsOf(f.node), T))
  BY DEF InOrder, Accepted, Remaining

LEMMA SpillRules == TypeInv /\ RuleInv /\ SpillParam => RuleInv'
<1> SUFFICES ASSUME TypeInv, RuleInv, SpillParam PROVE RuleInv'
  OBVIOUS
<1> DEFINE T == DOMAIN lable_tab
           f == [Top EXCEPT !.got = Append(@, NoTemp)]
<1>1. /\ status = "running" /\ stack # <<>> /\ Top.fn = "ir_function_s"
      /\ Len(Top.got) < Len(Top.node.params)
      /\ UNCHANGED <<program, curr, lable_tab, status>>
      /\ stack' = [stack EXCEPT ![Len(stack)].got = Append(@, NoTemp)]
  BY DEF SpillParam, InCall
<1>2. /\ Len(stack) = 1 /\ DOMAIN stack = 1 .. 1 /\ Top = stack[1] /\ FrameOk(Top)
      /\ Len(Top.got) \in Nat /\ IsFunction(Top.node) /\ Top.node = program[curr]
      /\ TableKept(Top) /\ DOMAIN lable_tab = program[curr].lables
      /\ FunctionFine(program[curr], Globals) <=>
           InOrder(Top, Len(Top.got), Globals, DOMAIN lable_tab)
  BY <1>1, FunctionTop
<1>3. Len(stack') = 1 /\ stack'[1] = f
  <2>1. stack' = [stack EXCEPT ![1] = f]
    BY <1>1, <1>2
  <2> HIDE DEF f
  <2>2. DOMAIN stack' = 1 .. 1 /\ stack'[1] = f
    BY <1>2, <2>1
  <2>3. Len(stack') = 1
    BY <1>2, <2>2
  <2> QED
    BY <2>2, <2>3
<1>4. FrameOk(f) /\ SameCall(f, Top) /\ f.got = Append(Top.got, NoTemp)
  BY SMTT(30), <1>2, FrameGrows, TempOk
<1>5. Len(f.got) = Len(Top.got) + 1
  <2>1. Top.got \in Seq(ResultSet)
    BY <1>2 DEF FrameOk
  <2> QED
    BY <1>4, <2>1
<1> HIDE DEF f
<1>6. f.fn = "ir_function_s" /\ f.node = Top.node /\ f.symtab = Top.symtab
  BY <1>1, <1>4 DEF SameCall
<1>7. TableKept(f)
  BY <1>1, <1>2, <1>6 DEF TableKept
<1>8. InOrder(f, Len(f.got), Globals, T) <=> InOrder(Top, Len(Top.got), Globals, T)
  <2>1. Len(f.node.params) \in Nat
    BY <1>2, <1>6 DEF IsFunction
  <2>2. Len(f.got) <= Len(f.node.params) /\ Len(Top.got) <= Len(f.node.params)
    BY <1>1, <1>2, <1>5, <1>6, <2>1
  <2> QED
    BY <1>1, <1>6, <2>2, FunctionRemains
<1>9. \A i \in 1 .. curr - 1 :
        program[i].kind = "AST_FUNCTION" => FunctionFine(program[i], Globals)
  BY DEF RuleInv
<1>10. Len(f.got) \in Nat
  BY <1>2, <1>5
<1>11. /\ FunctionFine(program[curr], Globals) <=> InOrder(f, Len(f.got), Globals, T)
       /\ DOMAIN lable_tab' = T /\ T = program[curr].lables
  BY <1>1, <1>2, <1>8
<1> HIDE DEF T
<1> QED
  BY <1>1, <1>3, <1>6, <1>7, <1>9, <1>10, <1>11, OneFrameRules

LEMMA FunctionBodyRules == TypeInv /\ RuleInv /\ FunctionBody => RuleInv'
<1> SUFFICES ASSUME TypeInv, RuleInv, FunctionBody PROVE RuleInv'
  OBVIOUS
<1> DEFINE T == DOMAIN lable_tab
           b == Len(Top.got)
           f == Frame("ir_scope", Top.node.body, 0)
<1>1. /\ status = "running" /\ stack # <<>> /\ Top.fn = "ir_function_s"
      /\ b = Len(Top.node.params) /\ Call(f) /\ Unchanging
  BY DEF FunctionBody, InCall, Unchanging
<1>2. b \in Nat /\ IsFunction(Top.node)
  BY <1>1, FunctionTop
<1>3. /\ Top.node.body \in Stmt /\ Top.node.body.kind = "AST_SCOPE"
      /\ Top.node.body.body \in Seq(Stmt)
  BY <1>2, StmtAssumption DEF IsFunction
<1>4. FrameOk(f)
  BY <1>3, ScopeOk
<1>5. f.fn = "ir_scope" /\ f.got = <<>> /\ TableKept(f)
  BY <1>3, FreshFrame, FrameFields
<1>6. InOrder(f, 0, Within, T) <=> FineStmt(Top.node.body, Within, T)
  BY <1>3, ScopeInOrder
<1>7. Outside = Globals /\ Within = Globals \cup ParamsOf(Top.node)
  BY <1>1, TopInForce
<1> HIDE DEF f, T
<1>8. InOrder(Top, b, Outside, T) <=> InOrder(Top, b + 1, Outside, T) /\ InOrder(f, 0, Within, T)
  <2>1. b <= Len(Top.node.params) /\ ~ (b + 1 <= Len(Top.node.params))
    BY <1>1, <1>2
  <2> HIDE DEF b
  <2> QED
    BY <1>1, <1>6, <1>7, <2>1, FunctionRemains
<1>9. AutoCalled(Top, f)
  BY <1>1, <1>5 DEF AutoCalled
<1>10. Numbered(stack'[Len(stack)], b + 1)
  BY <1>1, <1>4, NumberedNext
<1>11. b = Len(Top.got) /\ T = DOMAIN lable_tab
  BY DEF T
<1> HIDE DEF b
<1> QED
  BY <1>1, <1>4, <1>5, <1>8, <1>9, <1>10, <1>11, RulesAfterCall

LEMMA EndFunctionRules == TypeInv /\ RuleInv /\ EndFunction => RuleInv'
<1> SUFFICES ASSUME TypeInv, RuleInv, EndFunction PROVE RuleInv'
  OBVIOUS
<1>1. /\ status = "running" /\ stack # <<>> /\ Top.fn = "ir_function_s"
      /\ Len(Top.got) = Len(Top.node.params) + 1
      /\ stack' = <<>> /\ curr' = curr + 1 /\ UNCHANGED <<program, lable_tab, status>>
  BY DEF EndFunction, InCall
<1>2. FunctionFine(program[curr], Globals)
  <2>1. Len(Top.node.params) \in Nat
    BY <1>1, FunctionTop DEF IsFunction
  <2>2. ~ (Len(Top.got) <= Len(Top.node.params))
    BY <1>1, <2>1
  <2>3. InOrder(Top, Len(Top.got), Globals, DOMAIN lable_tab)
    BY <1>1, <2>2, FunctionRemains
  <2> QED
    BY <1>1, <2>3, FunctionTop
<1>3. curr \in Nat /\ \A i \in 1 .. curr : i \in 1 .. curr - 1 \/ i = curr
  BY DEF TypeInv, TypeOK
<1>4. \A i \in 1 .. curr - 1 :
        program[i].kind = "AST_FUNCTION" => FunctionFine(program[i], Globals)
  BY DEF RuleInv
<1>5. Globals' = Globals /\ curr' - 1 = curr
  BY <1>1, <1>3, GlobalsStay
<1>6. (\A i \in 1 .. curr - 1 :
          program[i].kind = "AST_FUNCTION" => FunctionFine(program[i], Globals))'
  BY <1>1, <1>2, <1>3, <1>4, <1>5
<1> QED
  BY <1>1, <1>6 DEF RuleInv

LEMMA FunctionStepRules == TypeInv /\ RuleInv /\ FunctionStep => RuleInv'
  BY SpillRules, FunctionBodyRules, EndFunctionRules DEF FunctionStep

\* The prologue of ir_function_s: everything of the function is still to come.
LEMMA BeginRules == TypeInv /\ RuleInv /\ BeginFunction => RuleInv'
<1> SUFFICES ASSUME TypeInv, RuleInv, BeginFunction PROVE RuleInv'
  OBVIOUS
<1> DEFINE d == program[curr]
           f == Frame("ir_function_s", d, 0)
<1>1. /\ status' = "running" /\ UNCHANGED <<program, curr>> /\ d.kind = "AST_FUNCTION"
      /\ DOMAIN lable_tab' = d.lables /\ stack' = <<f>> /\ curr <= Len(program)
  BY DEF BeginFunction, AtTopLevel
<1>2. IsFunction(d)
  <2>1. program \in Programs /\ curr \in 1 .. Len(program) + 1
    BY DEF TypeInv, TypeOK
  <2>2. curr \in 1 .. Len(program)
    BY <1>1, <2>1, ProgramAssumption
  <2> QED
    BY <1>1, <2>1, <2>2, ProgramAssumption DEF IsDeclaration
<1>3. /\ f.fn = "ir_function_s" /\ f.node = d /\ Len(f.got) = 0
      /\ f.symtab = ParamTab(d.params)
  BY FrameFields
<1>4. Len(stack') = 1 /\ stack'[1] = f
  BY <1>1
<1> HIDE DEF f, d
<1>5. TableKept(f)
  <2>1. d.params \in Seq(Name) /\ DOMAIN d.params = 1 .. Len(d.params)
    BY <1>2 DEF IsFunction
  <2>2. DOMAIN f.symtab = ParamsOf(d)
    BY <1>3, <2>1 DEF ParamTab, ParamsOf
  <2>3. ASSUME NEW x \in DOMAIN f.symtab PROVE f.symtab[x].temp_dest # 0
    <3>1. \E i \in DOMAIN d.params : d.params[i] = x
      BY <2>1, <2>2, <2>3 DEF ParamsOf
    <3>2. (CHOOSE i \in DOMAIN d.params : d.params[i] = x) \in DOMAIN d.params
      BY <3>1
    <3>3. f.symtab[x].temp_dest = (CHOOSE i \in DOMAIN d.params : d.params[i] = x)
      BY <1>3, <2>3, UnsetIsAuto DEF ParamTab, VarInfo
    <3> DEFINE at == CHOOSE i \in DOMAIN d.params : d.params[i] = x
    <3>4. at \in 1 .. Len(d.params) /\ f.symtab[x].temp_dest = at
      BY <2>1, <3>2, <3>3
    <3> HIDE DEF at
    <3>5. Len(d.params) \in Nat
      BY <2>1
    <3>6. at # 0
      BY <3>4, <3>5
    <3> QED
      BY <3>4, <3>6
  <2> QED
    BY <1>3, <2>2, <2>3 DEF TableKept
<1>6. FunctionFine(d, Globals) <=> InOrder(f, Len(f.got), Globals, d.lables)
  <2>1. Len(d.params) \in Nat
    BY <1>2 DEF IsFunction
  <2>2. 0 <= Len(d.params)
    BY <2>1
  <2> QED
    BY <1>3, <2>2, FunctionRemains DEF FunctionFine
<1>7. \A i \in 1 .. curr - 1 :
        program[i].kind = "AST_FUNCTION" => FunctionFine(program[i], Globals)
  BY DEF RuleInv
<1>8. Len(f.got) \in Nat
  BY <1>3
<1> QED
  BY <1>1, <1>3, <1>4, <1>5, <1>6, <1>7, <1>8, OneFrameRules DEF d

LEMMA ModuleStepRules == TypeInv /\ RuleInv /\ ModuleStep => RuleInv'
<1> SUFFICES ASSUME TypeInv, RuleInv, ModuleStep PROVE RuleInv'
  OBVIOUS
<1>1. CASE BeginFunction
  BY <1>1, BeginRules
<1>2. CASE GenDeclaration
  <2>1. /\ stack' = <<>> /\ curr' = curr + 1 /\ UNCHANGED program /\ status' = "running"
        /\ program[curr].kind # "AST_FUNCTION"
    BY <1>2 DEF GenDeclaration, AtTopLevel
  <2>2. curr \in Nat /\ \A i \in 1 .. curr : i \in 1 .. curr - 1 \/ i = curr
    BY DEF TypeInv, TypeOK
  <2>3. \A i \in 1 .. curr - 1 :
          program[i].kind = "AST_FUNCTION" => FunctionFine(program[i], Globals)
    BY DEF RuleInv
  <2>4. Globals' = Globals /\ curr' - 1 = curr
    BY <2>1, <2>2, GlobalsStay
  <2>5. (\A i \in 1 .. curr - 1 :
            program[i].kind = "AST_FUNCTION" => FunctionFine(program[i], Globals))'
    BY <2>1, <2>2, <2>3, <2>4
  <2> QED
    BY <2>1, <2>5 DEF RuleInv
<1>3. CASE GenDone
  <2>1. /\ stack' = <<>> /\ UNCHANGED <<program, curr>> /\ status' = "done" /\ curr > Len(program)
    BY <1>3 DEF GenDone, AtTopLevel
  <2>2. curr = Len(program) + 1
    <3>1. Len(program) \in Nat /\ curr \in 1 .. Len(program) + 1
      BY ProgramAssumption DEF TypeInv, TypeOK
    <3> QED
      BY <2>1, <3>1
  <2>3. Globals' = Globals
    BY <2>1, GlobalsStay
  <2> QED
    BY <2>1, <2>2, <2>3 DEF RuleInv
<1> QED
  BY <1>1, <1>2, <1>3 DEF ModuleStep

LEMMA RulesStay == RuleInv /\ UNCHANGED vars => RuleInv'
<1> SUFFICES ASSUME RuleInv, UNCHANGED vars PROVE RuleInv'
  OBVIOUS
<1>1. UNCHANGED <<program, curr, stack, lable_tab, status>>
  BY DEF vars
<1>2. Globals' = Globals
  BY <1>1, GlobalsStay
<1> QED
  BY <1>1, <1>2 DEF RuleInv

LEMMA RulesInvariant == Spec => [](TypeInv /\ RuleInv)
<1>1. Init => TypeInv /\ RuleInv
  <2> SUFFICES ASSUME Init PROVE TypeInv /\ RuleInv
    OBVIOUS
  <2>1. TypeInv
    BY InitTyped
  <2>2. /\ stack = <<>> /\ curr = 1 /\ status = "running" /\ \A i \in 1 .. 1 - 1 : FALSE
    BY DEF Init
  <2> QED
    BY <2>1, <2>2 DEF RuleInv
<1>2. TypeInv /\ RuleInv /\ [Next]_vars => (TypeInv /\ RuleInv)'
  BY TypeInvStutters, ModuleStepTyped, FunctionStepTyped, ExprStepTyped, StatementStepTyped,
     RulesStay, ModuleStepRules, FunctionStepRules, ExprStepRules, StatementStepRules
     DEF Next
<1> QED
  BY <1>1, <1>2, PTL DEF Spec

\* For every program: while a function is generated, it keeps the rules of B if
\* and only if what the activations of the ir_* functions have still to
\* evaluate keeps them, each in the variables that its place in the nest of
\* symbol tables shows.
THEOREM RulesKept == Spec => []RuleInv
<1> QED
  BY RulesInvariant, PTL

LEMMA RulesServe == TypeInv /\ RuleInv => RefusesIllFormed
<1> SUFFICES ASSUME TypeInv, RuleInv PROVE RefusesIllFormed
  OBVIOUS
<1>1. /\ program \in Programs /\ DOMAIN program = 1 .. Len(program) /\ Len(program) \in Nat
      /\ curr \in 1 .. Len(program) + 1
  BY ProgramAssumption DEF TypeInv, TypeOK
<1>2. Globals = {program[j].name : j \in {k \in 1 .. Len(program) : program[k].kind = "AST_GLOBAL"}}
  BY <1>1 DEF Globals
<1>3. WellFormed(program) <=>
        \A i \in 1 .. Len(program) :
          program[i].kind = "AST_FUNCTION" => FunctionFine(program[i], Globals)
  BY <1>2 DEF WellFormed
<1>4. status = "done" => WellFormed(program)
  <2>1. status = "done" => curr - 1 = Len(program)
    BY <1>1 DEF RuleInv
  <2> QED
    BY <1>3, <2>1 DEF RuleInv
<1>5. ASSUME status = "fatal" PROVE ~ WellFormed(program)
  <2>1. stack # <<>> /\ ~ FunctionFine(program[curr], Globals)
    BY <1>5 DEF RuleInv
  <2>2. stack[1].fn = "ir_function_s" /\ stack[1].node = program[curr] /\ curr <= Len(program)
    BY <2>1 DEF TypeInv, Nesting
  <2>3. FrameOk(stack[1])
    BY <2>1, StackFacts
  <2>4. program[curr].kind = "AST_FUNCTION"
    BY <2>2, <2>3, FunctionFrame DEF IsFunction
  <2>5. curr \in 1 .. Len(program)
    BY <1>1, <2>2
  <2> QED
    BY <1>3, <2>1, <2>4, <2>5
<1> QED
  BY <1>4, <1>5 DEF RefusesIllFormed

\* For every program, gen_ir accepts it if and only if it keeps the rules of B:
\* it ends only with one that does, and calls ir_fatal only for one that does
\* not.
THEOREM RefusalsRight == Spec => []RefusesIllFormed
<1>1. TypeInv /\ RuleInv => RefusesIllFormed
  BY RulesServe
<1> QED
  BY <1>1, RulesInvariant, PTL
=============================================================================
