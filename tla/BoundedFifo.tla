---------------------------- MODULE BoundedFifo ----------------------------
(***************************************************************************)
(* What a process's IPC queue promises its users: a first-in first-out     *)
(* queue of at most Depth messages.  A send to a full queue is refused and *)
(* changes nothing, a receive returns the oldest message or reports that   *)
(* there is none, and clearing the queue forgets every message.            *)
(*                                                                         *)
(* out is the answer of the last call: what the caller of ipc_enqueue and  *)
(* ipc_dequeue (kernel/process/ipc.rs) gets to see.                        *)
(***************************************************************************)
EXTENDS Naturals, Sequences

CONSTANTS Depth,  \* IPC_QUEUE_DEPTH
          Msg     \* the messages (RwmMsg) that can be sent

VARIABLES q,      \* the pending messages, oldest first
          out     \* the answer of the last call

vars == <<q, out>>

Init == q = << >> /\ out = [op |-> "none"]

Enqueue(m) ==
    IF Len(q) < Depth
    THEN q' = Append(q, m) /\ out' = [op |-> "accepted"]
    ELSE q' = q /\ out' = [op |-> "refused"]

Dequeue ==
    IF q # << >>
    THEN q' = Tail(q) /\ out' = [op |-> "delivered", msg |-> Head(q)]
    ELSE q' = q /\ out' = [op |-> "empty"]

Clear == q' = << >> /\ out' = [op |-> "cleared"]

Next == (\E m \in Msg : Enqueue(m)) \/ Dequeue \/ Clear

Spec == Init /\ [][Next]_vars
=============================================================================
