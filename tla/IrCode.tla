------------------------------- MODULE IrCode -------------------------------
(***************************************************************************)
(* What the list of IR nodes of a function must be for a back end to make    *)
(* sense of it.  A node's `use' are the temporaries it reads, `dest' the one *)
(* it writes or 0, `id' and `id_f' the labels it places or goes to.          *)
(***************************************************************************)
EXTENDS Integers, Sequences

\* A node reads the parameters, and what earlier nodes wrote.
UsesOk(c, params) ==
  \A i \in DOMAIN c : \A j \in DOMAIN c[i].use :
    \/ c[i].use[j] \in 1 .. params
    \/ \E k \in 1 .. i - 1 : c[k].dest = c[i].use[j] /\ c[k].dest # 0

\* A temporary is written once.
UniqueDests(c) ==
  \A i, j \in DOMAIN c : c[i].dest = c[j].dest /\ c[i].dest # 0 => i = j

Targets(c) ==
  {c[i].id : i \in {j \in DOMAIN c : c[j].op \in {"IR_JUMP", "IR_BRANCH"}}}
    \cup {c[i].id_f : i \in {j \in DOMAIN c : c[j].op = "IR_BRANCH"}}
Placed(c, l) == {i \in DOMAIN c : c[i].op = "IR_LABEL" /\ c[i].id = l}

\* Control leaves it by a return only.
Contained(c) ==
  /\ \A l \in Targets(c) : \E i \in DOMAIN c : Placed(c, l) = {i}
  /\ c[Len(c)].op = "IR_RETURN"
=============================================================================
