----------------------------- MODULE MCServices -----------------------------
(***************************************************************************)
(* Five parts that wait for one another or for a device, and share no      *)
(* state: the message queue of a process, the serial terminal, Cogman with *)
(* its services, the page allocator and the NVMe driver.  A behaviour is   *)
(* one of one part; the others stay as they were at the start.  Each part  *)
(* has the fairness of its own specification.                              *)
(***************************************************************************)
EXTENDS IpcRing, Tty, Supervisor, Buddy, Nvme

VARIABLE part

ServicesInit ==
    /\ part \in {"ring", "tty", "cogman", "buddy", "nvme"}
    /\ Init /\ TtyInit /\ SupInit /\ BuddyInit /\ NvmeInit

ServicesNext ==
    /\ UNCHANGED part
    /\ \/ part = "ring" /\ Next /\ UNCHANGED <<ttyVars, supVars, buddyVars, nvVars>>
       \/ part = "tty" /\ TtyNext /\ UNCHANGED <<vars, supVars, buddyVars, nvVars>>
       \/ part = "cogman" /\ SupNext /\ UNCHANGED <<vars, ttyVars, buddyVars, nvVars>>
       \/ part = "buddy" /\ BuddyNext /\ UNCHANGED <<vars, ttyVars, supVars, nvVars>>
       \/ part = "nvme" /\ NvmeNext /\ UNCHANGED <<vars, ttyVars, supVars, buddyVars>>

\* The fairness of a part counts in its own behaviours.
Fairly(p, A) == part = p /\ A

ServicesSpec ==
    /\ ServicesInit /\ [][ServicesNext]_<<part, vars, ttyVars, supVars, buddyVars, nvVars>>
    /\ WF_ttyVars(Fairly("tty", ReadTurn)) /\ WF_ttyVars(Fairly("tty", GetlineTurn))
    /\ WF_supVars(Fairly("cogman", Cogman)) /\ WF_supVars(Fairly("cogman", ShellWaits))
=============================================================================
