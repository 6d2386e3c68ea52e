----------------------------- MODULE MCHeapBoot -----------------------------
(***************************************************************************)
(* The heap in the layout boot.asm gives it: stack_bottom lies below       *)
(* stack_top, where the heap starts.                                       *)
(***************************************************************************)
EXTENDS Heap

CONSTANT RamUnits   \* units of memory the machine has (Makefile: -m 1024)

(* What the comment at sbrk.c line 16 says of a refusal: "No more heap".   *)
(* A request is refused only when it reaches beyond the machine's memory.  *)
NoMoreHeap ==
  [][pc = "grow" /\ pc' = "idle" => Break + Growth > RamUnits]_vars

=============================================================================
