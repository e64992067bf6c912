------------------------------ MODULE MCKernel ------------------------------
(***************************************************************************)
(* Kernel for TLC: the two programs that kernel_main() starts, one of      *)
(* which makes system calls.                                               *)
(***************************************************************************)
EXTENDS Kernel

MCCallers == {1}
=============================================================================
