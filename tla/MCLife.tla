------------------------------- MODULE MCLife -------------------------------
(***************************************************************************)
(* The lives of processes in a table of three slots, and two parts of a    *)
(* process that the kernel's model leaves out: the saving and restoring of *)
(* its registers, and the debug and performance registers it asked for.    *)
(* The three share no state.  A behaviour is one of one part; the others   *)
(* stay as they were at the start.                                         *)
(***************************************************************************)
EXTENDS Kernel, ContextSwitch, DebugUnits

VARIABLE part

\* Spawning without a mask, which inherits everything.
MCInherit == {{}}

MCSites == {10, 20}

\* A part that does not run has one initial state.
AtRest == LET v == CHOOSE u \in Val : TRUE
          IN  rsp = v /\ user_rsp = v /\ rip = 10 /\ regs = [r \in Regs |-> v]

LivesInit ==
    /\ part \in {"kernel", "context", "units"}
    /\ Init /\ CtxInit /\ DebugInit
    /\ part = "context" \/ AtRest
    /\ part = "units" \/ duCur = 1

LivesNext ==
    /\ UNCHANGED part
    /\ \/ part = "kernel" /\ LifeCycle /\ UNCHANGED <<ctxVars, duVars>>
       \/ part = "context" /\ CtxNext /\ UNCHANGED <<vars, duVars>>
       \/ part = "units" /\ DebugNext /\ UNCHANGED <<vars, ctxVars>>

LivesSpec == LivesInit /\ [][LivesNext]_<<part, vars, ctxVars, duVars>>
=============================================================================
