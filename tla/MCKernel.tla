------------------------------ MODULE MCKernel ------------------------------
(* The boot in the layout boot.asm gives the heap: stack_bottom lies below *)
(* stack_top.  Two buses with two functions each, any of four drives.      *)
EXTENDS Kernel
=============================================================================
