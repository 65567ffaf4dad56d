------------------------------ MODULE MCKernel ------------------------------
(***************************************************************************)
(* The kernel with a table of three slots.                                 *)
(***************************************************************************)
EXTENDS Kernel

\* Spawning without a mask, which inherits everything.
MCInherit == {{}}
=============================================================================
