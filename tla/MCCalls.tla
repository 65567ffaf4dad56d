------------------------------ MODULE MCCalls -------------------------------
(***************************************************************************)
(* What programs ask of the kernel: the calls about processes, messages,   *)
(* capabilities and labels in a table of two slots, the calls of the       *)
(* display server, and the keys and the mouse they poll.  The three share  *)
(* no state.  A behaviour is one of one part; the others stay as they were *)
(* at the start.                                                           *)
(***************************************************************************)
EXTENDS Kernel, Display, Input

VARIABLE part

\* Spawning without a mask, and a child that may only spawn and send.
MCMasks == {{}, {"SPAWN", "IPC_SEND"}}

MCGrants == {{"GRANT"}, {"SPAWN", "IPC_SEND"}}

Modes == {[w |-> 2, h |-> 2, stride |-> 3, size |-> 6]}
SomeRects == {[x |-> 0, y |-> 0, w |-> 3, h |-> 3], [x |-> 2, y |-> 1, w |-> 3, h |-> 1],
              [x |-> 1, y |-> 3, w |-> 1, h |-> 1], [x |-> 4, y |-> 0, w |-> 1, h |-> 2]}

\* A part that does not run has one initial state.
CallsInit ==
    /\ part \in {"kernel", "display", "input"}
    /\ Init /\ DsInit /\ InputInit
    /\ part = "input" \/ ~lateAck

CallsNext ==
    /\ UNCHANGED part
    /\ \/ part = "kernel" /\ Next /\ UNCHANGED <<dsVars, inVars>>
       \/ part = "display" /\ DsNext /\ UNCHANGED <<vars, inVars>>
       \/ part = "input" /\ InputNext /\ UNCHANGED <<vars, dsVars>>

CallsSpec == CallsInit /\ [][CallsNext]_<<part, vars, dsVars, inVars>>
=============================================================================
