------------------------------- MODULE Frames -------------------------------
(***************************************************************************)
(* The stack frames of the functions IrGen makes, as Amd64 lays them out:   *)
(* word w of a frame is at rbp - 8 * w.  A temporary has the word of its     *)
(* number, and the n-th OP_ALLOC the n-th word above max_t.                 *)
(***************************************************************************)
EXTENDS IrGen

Asm == INSTANCE Amd64

FrameWords(fn) == 1 .. Asm!FrameSize(fn) \div 8
Temporaries(fn) ==
  LET writers == {j \in DOMAIN fn.nodes : Asm!Writes(fn.nodes[j])} IN
    (1 .. fn.size) \cup ({fn.nodes[k].dest : k \in writers} \ {0})
Allocs(fn) == {k \in DOMAIN fn.nodes : Asm!IsAlloc(fn.nodes[k])}
AllocWord(fn, k) == Asm!MaxTemp(fn) + Asm!AllocIndex(fn, k)

FrameApart(fn) ==
  /\ Asm!FrameSize(fn) % 16 = 0
  /\ Temporaries(fn) \subseteq FrameWords(fn)
  /\ \A k \in Allocs(fn) : AllocWord(fn, k) \in FrameWords(fn) \ Temporaries(fn)
  /\ \A j, k \in Allocs(fn) : AllocWord(fn, j) = AllocWord(fn, k) => j = k
  /\ \A k \in DOMAIN fn.nodes : fn.nodes[k].op = "IR_CALL" =>
       (Asm!StackArgs(Len(fn.nodes[k].use)) + Asm!Pad(Len(fn.nodes[k].use))) % 2 = 0

\* Two loops of asm_function count slots, one to size the frame and one to place
\* them: in every function of the module each temporary and each auto has a
\* word of its own inside the frame, so that no push and no callee overwrites
\* it; and rsp is a multiple of 16 where a call is, the frame, the arguments on
\* the stack and the pad being an even number of words.
FramesApart == \A fn \in FunctionsDone : FrameApart(fn)
=============================================================================
