---------------------------- MODULE IrGenLabels ----------------------------
(***************************************************************************)
(* The account of the label ids of IrGen: which ids are owed a label, by    *)
(* whom, and why every one of them is paid before the function ends.        *)
(*                                                                         *)
(* LablesOf is the set of label names each statement defines, what          *)
(* parse_lable_s put into t_lable_tab.  A label defined twice in a function  *)
(* reaches the assembler, which refuses the file; such trees are left out.   *)
(***************************************************************************)
EXTENDS IrGen

CONSTANT LablesOf

Apart(S, T) == S \cap T = {}

ASSUME LablesAssumption ==
  /\ LablesOf \in [Stmt -> SUBSET Name]
  /\ \A s \in Stmt :
       /\ s.kind = "AST_LABLE" => LablesOf[s] = {s.name}
       /\ s.kind \in {"AST_SCOPE", "AST_ELSE"} =>
            /\ LablesOf[s] = UNION {LablesOf[s.body[i]] : i \in 1 .. Len(s.body)}
            /\ \A i, j \in 1 .. Len(s.body) :
                 i # j => Apart(LablesOf[s.body[i]], LablesOf[s.body[j]])
       /\ s.kind = "AST_WHILE" => LablesOf[s] = LablesOf[s.body]
       /\ s.kind \in {"AST_IF", "AST_ELSE_IF"} =>
            IF s.chain = NULL THEN LablesOf[s] = LablesOf[s.body]
            ELSE /\ LablesOf[s] = LablesOf[s.body] \cup LablesOf[s.chain]
                 /\ Apart(LablesOf[s.body], LablesOf[s.chain])
       /\ s.kind \in {"AST_RETURN", "AST_AUTO", "AST_EXTRN", "AST_EXPR", "AST_GOTO"} =>
            LablesOf[s] = {}
  /\ \A p \in Programs : \A i \in 1 .. Len(p) :
       p[i].kind = "AST_FUNCTION" => p[i].lables = LablesOf[p[i].body]

-----------------------------------------------------------------------------
\* The names frame f defines in the calls it makes after the first b.
Ahead(f, b) ==
  LET n == f.node IN
  CASE f.fn = "ir_function_s" -> IF b <= Len(n.params) THEN LablesOf[n.body] ELSE {}
    [] f.fn = "ir_scope" -> UNION {LablesOf[n.body[i]] : i \in b + 1 .. Len(n.body)}
    [] f.fn = "ir_lable_s" -> {n.name}
    [] f.fn = "ir_if_s" -> IF b = 0 THEN LablesOf[n] ELSE {}
    [] f.fn = "ir_while_s" -> IF b <= 1 THEN LablesOf[n.body] ELSE {}
    [] f.fn = "ir_if_chain_s" /\ n.kind = "AST_ELSE" -> IF b = 0 THEN LablesOf[n] ELSE {}
    [] f.fn = "ir_if_chain_s" /\ n.kind # "AST_ELSE" ->
         (IF b <= 1 THEN LablesOf[n.body] ELSE {})
           \cup (IF b <= 2 /\ n.chain # NULL THEN LablesOf[n.chain] ELSE {})
    [] OTHER -> {}

\* The ids frame f reserved and places after its first b calls.
Reserved(f, b) ==
  CASE f.fn = "ir_if_s" /\ b >= 1 -> {f.lab}
    [] f.fn = "ir_while_s" /\ b = 1 -> {f.lab + 1, f.lab + 2}
    [] f.fn = "ir_while_s" /\ b >= 2 -> {f.lab + 2}
    [] f.fn = "ir_if_chain_s" /\ f.node.kind # "AST_ELSE" /\ b = 1 -> {f.lab, f.lab + 1}
    [] f.fn = "ir_if_chain_s" /\ f.node.kind # "AST_ELSE" /\ b = 2 -> {f.lab + 1}
    [] OTHER -> {}

\* The calls frame k of stack st has begun: those that returned, and the one it waits for.
Begun(st, k) == Len(st[k].got) + (IF k = Len(st) THEN 0 ELSE 1)

Names(st) == [k \in 1 .. Len(st) |-> Ahead(st[k], Begun(st, k))]
Ids(st)   == [k \in 1 .. Len(st) |-> Reserved(st[k], Begun(st, k))]

All(S, n)   == UNION {S[k] : k \in 1 .. n}
AllApart(S, n) == \A j, k \in 1 .. n : j # k => Apart(S[j], S[k])

\* With the names N and the ids R still owed, code c, the table tab and the
\* counter m: an id up to m stands once in the code, or is owed exactly once
\* and does not stand there; a name without an id is owed.
Settled(N, R, c, tab, m) ==
  /\ N \subseteq DOMAIN tab /\ R \subseteq 1 .. m
  /\ \A x \in DOMAIN tab : tab[x] \in 0 .. m /\ tab[x] \notin R /\ (tab[x] = 0 => x \in N)
  /\ \A x, y \in DOMAIN tab : tab[x] = tab[y] /\ tab[x] # 0 => x = y
  /\ \A l \in R : Placed(c, l) = {}
  /\ \A x \in N : tab[x] # 0 => Placed(c, tab[x]) = {}
  /\ \A l \in 1 .. m : \/ l \in R
                       \/ \E x \in N : tab[x] = l
                       \/ \E i \in DOMAIN c : Placed(c, l) = {i}
  /\ \A i \in DOMAIN c : c[i].op = "IR_LABEL" => c[i].id \in 1 .. m
  /\ Targets(c) \subseteq 1 .. m

\* The labels a frame remembers.
Remembers(f, b, m) ==
  /\ f.lab <= m /\ f.end <= m
  /\ f.fn = "ir_if_chain_s" => f.end >= 1
  /\ \/ f.fn \in {"ir_if_s", "ir_while_s"}
     \/ f.fn = "ir_if_chain_s" /\ f.node.kind # "AST_ELSE"
     => (b >= 1 => f.lab >= 1)

\* While a function is generated, each id the counter has given, by any of
\* goto, label, if, chain and while and however they nest, stands for one label
\* in the code, or one activation, and no other, has it yet to place; nothing
\* jumps to an id that was not given.
LabelInv ==
  stack # <<>> =>
    /\ AllApart(Names(stack), Len(stack)) /\ AllApart(Ids(stack), Len(stack))
    /\ Settled(All(Names(stack), Len(stack)), All(Ids(stack), Len(stack)),
               code, lable_tab, lable_c)
    /\ \A k \in 1 .. Len(stack) : Remembers(stack[k], Begun(stack, k), lable_c)
=============================================================================
