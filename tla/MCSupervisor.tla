---------------------------- MODULE MCSupervisor ----------------------------
(***************************************************************************)
(* The window manager, one service that is never started, and room for     *)
(* three processes.                                                        *)
(***************************************************************************)
EXTENDS Supervisor
=============================================================================
