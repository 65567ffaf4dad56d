-------------------------- MODULE MCContextSwitch --------------------------
(***************************************************************************)
(* Two processes, two SYSCALL sites, the call number and one argument.     *)
(***************************************************************************)
EXTENDS ContextSwitch

MCSites == {10, 20}
=============================================================================
