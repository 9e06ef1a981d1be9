------------------------------ MODULE Lowering ------------------------------
(***************************************************************************)
(* What gen_ir promises to compile_file and to the back ends, whatever way   *)
(* it goes through the trees: the module holds the declarations and the      *)
(* functions of the program, in their order, with the externs of a function  *)
(* before it; every function's code is usable; and the program is refused    *)
(* if and only if it breaks the rules of B.                                  *)
(***************************************************************************)
EXTENDS IrCode

CONSTANTS
  Programs,   \* the top-level lists
  Good(_)     \* whether one keeps the rules

VARIABLES program, curr, module, status
vars == <<program, curr, module, status>>

Init == program \in Programs /\ curr = 1 /\ module = <<>> /\ status = "running"

\* The node at curr is of one of the kinds given.
At(kinds) == status = "running" /\ curr <= Len(program) /\ program[curr].kind \in kinds

\* The module grows by one node.
Added == module'[Len(module')]
Add(kind) ==
  /\ Len(module') = Len(module) + 1 /\ module' = Append(module, Added)
  /\ Added.kind = kind
  /\ UNCHANGED <<program, status>>

AddGlobal ==
  /\ At({"AST_GLOBAL"}) /\ Add("IR_GLOBAL")
  /\ Added.name = program[curr].name /\ Added.size = program[curr].size
  /\ curr' = curr + 1

AddExtern ==
  /\ At({"AST_EXTRN"}) /\ Add("IR_EXTRN")
  /\ Added.name = program[curr].name
  /\ curr' = curr + 1

\* One of a function's own, while the function is generated.
AddLocalExtern ==
  /\ At({"AST_FUNCTION"}) /\ Add("IR_EXTRN")
  /\ UNCHANGED curr

AddFunction ==
  /\ At({"AST_FUNCTION"}) /\ Add("IR_FUNCTION")
  /\ Added.name = program[curr].name /\ Added.size = Len(program[curr].params)
  /\ UsesOk(Added.nodes, Added.size) /\ UniqueDests(Added.nodes) /\ Contained(Added.nodes)
  /\ curr' = curr + 1

Refuse ==
  /\ At({"AST_FUNCTION"})
  /\ status' = "fatal" /\ ~ Good(program)
  /\ UNCHANGED <<program, curr, module>>

Finish ==
  /\ status = "running" /\ curr = Len(program) + 1
  /\ status' = "done" /\ Good(program)
  /\ UNCHANGED <<program, curr, module>>

Next == AddGlobal \/ AddExtern \/ AddLocalExtern \/ AddFunction \/ Refuse \/ Finish

Spec == Init /\ [][Next]_vars
=============================================================================
