------------------------------ MODULE MCIrGen ------------------------------
(***************************************************************************)
(* The programs of BPool for IrGen.                                         *)
(***************************************************************************)
EXTENDS Frames, IrGenLabels, IrGenRules, BRules, BPool

\* Named in two steps: TLC keeps the value of a definition it is not asked to
\* put in the place of a constant.
PoolExprs == ExprsIn(Pool)
PoolStmts == StmtsIn(Pool)
MCName     == PoolNames
MCPrograms == Pool
MCExpr     == PoolExprs
MCStmt     == PoolStmts
PoolLables == [s \in PoolStmts |-> LablesIn(s)]
MCLablesOf == PoolLables

\* The solution of the rules' equations for the pool.
RECURSIVE NamesIn(_), IsProper(_), NeedsOf(_), IsSane(_), MeetsOf(_)
NamesIn(e) == (IF e.kind = "IDENTIFIER" THEN {e.value} ELSE {})
                \cup UNION {NamesIn(x) : x \in ExprsUnder(e)}
IsProper(e) ==
  /\ e.kind # "OTHER"
  /\ e.kind = "AST_UNARY" => e.op # "ADD" /\ (e.op \in {"BIT_AND", "INC", "DEC"} => IsPlace(e.node))
  /\ e.kind = "AST_BINARY" /\ e.op = "ASSIGN" => IsPlace(e.left)
  /\ \A x \in ExprsUnder(e) : IsProper(x)
NeedsOf(s) ==
  UNION {NamesIn(e) : e \in ExprsOf(s)}
    \cup (UNION {NeedsOf(t) : t \in StmtsUnder(s)}
            \ (IF s.kind \in {"AST_SCOPE", "AST_ELSE"} THEN AutosOf(s.body) ELSE {}))
IsSane(s) ==
  /\ \A e \in ExprsOf(s) : IsProper(e)
  /\ \A t \in StmtsUnder(s) : IsSane(t)
  /\ s.kind \in {"AST_SCOPE", "AST_ELSE"} =>
       \A i, j \in DOMAIN s.body :
         s.body[j].kind = "AST_AUTO" /\ s.body[j].name \in NeedsOf(s.body[i]) =>
           \E k \in 1 .. i - 1 : s.body[k] = s.body[j]
MeetsOf(s) == (IF s.kind \in {"AST_LABLE", "AST_GOTO"} THEN {s.name} ELSE {})
                \cup UNION {MeetsOf(t) : t \in StmtsUnder(s)}
PoolProper == {e \in PoolExprs : IsProper(e)}
PoolUses   == [e \in PoolExprs |-> NamesIn(e)]
PoolSane   == {s \in PoolStmts : IsSane(s)}
PoolNeeds  == [s \in PoolStmts |-> NeedsOf(s)]
PoolMeets  == [s \in PoolStmts |-> MeetsOf(s)]
MCProper == PoolProper
MCUses   == PoolUses
MCSane   == PoolSane
MCNeeds  == PoolNeeds
MCMeets  == PoolMeets

\* The rules agree with their recursive reading in BRules.
ASSUME \A p \in Pool : WellFormed(p) <=> ProgramWellFormed(p)

-----------------------------------------------------------------------------
\* Where control may go from node k of code c.
Successors(c, k) ==
  CASE c[k].op = "IR_JUMP"   -> Placed(c, c[k].id)
    [] c[k].op = "IR_BRANCH" -> Placed(c, c[k].id) \cup Placed(c, c[k].id_f)
    [] c[k].op = "IR_RETURN" -> {}
    [] OTHER -> {k + 1} \cap DOMAIN c
\* The nodes that some path from the first reaches with t not written yet.
Unwritten(c, t) ==
  LET to[n \in Nat] ==
        IF n = 0 THEN {1}
        ELSE LET near == to[n - 1] IN
               near \cup UNION {Successors(c, k) : k \in {j \in near : c[j].dest # t}}
  IN to[Len(c)]

\* However control goes through a function, by gotos, loops and chains, the
\* temporaries a node reads have been written on the way: an auto's address is
\* never used where its OP_ALLOC was not passed.  (DefBeforeUse only says that
\* the text has it earlier.)  Programs with a goto over an auto into its scope
\* are excepted; ir_goto_s accepts them and the address is then whatever the
\* frame held.
WrittenOnEveryPath ==
  status = "done" /\ JumpsKeepScopes(program) =>
    \A m \in FunctionsDone :
      \A t \in UNION {Range(m.nodes[k].use) : k \in DOMAIN m.nodes} \ (1 .. m.size) :
        \A k \in Unwritten(m.nodes, t) : t \notin Range(m.nodes[k].use)
=============================================================================
