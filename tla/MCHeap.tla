------------------------------- MODULE MCHeap -------------------------------
(* The heap in the layout sbrk.c assumes: stack_bottom above stack_top.    *)
EXTENDS Heap
=============================================================================
