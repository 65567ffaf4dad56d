---------------------------- MODULE MCScheduler ----------------------------
(***************************************************************************)
(* The scheduler with three processes and three places.                    *)
(***************************************************************************)
EXTENDS Scheduler
=============================================================================
