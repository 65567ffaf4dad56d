------------------------------ MODULE IpcRing ------------------------------
(***************************************************************************)
(* One per-process IPC ring buffer (kernel/process/ipc.rs): a fixed array  *)
(* with a read index, a write index and a length.  ipc_enqueue,            *)
(* ipc_dequeue and ipc_clear are the three calls the kernel makes on it.   *)
(* The kernel is single-core and runs a system call with interrupts off,   *)
(* so each call is one step.                                               *)
(***************************************************************************)
EXTENDS Integers, Sequences

CONSTANTS Depth,  \* IPC_QUEUE_DEPTH
          Msg,    \* the messages (RwmMsg) that can be sent
          Zero    \* RwmMsg::ZERO, what the array holds at boot

ASSUME DepthAssumption == Depth \in Nat \ {0}
ASSUME ZeroAssumption == Zero \in Msg

VARIABLES buf, head, tail, len,  \* the fields of IpcRing
          out                    \* the answer of the last call

vars == <<buf, head, tail, len, out>>

Index == 0 .. (Depth - 1)

Answer == [op : {"none", "accepted", "refused", "empty", "cleared"}]
            \cup [op : {"delivered"}, msg : Msg]

Init ==
    /\ buf = [i \in Index |-> Zero]
    /\ head = 0 /\ tail = 0 /\ len = 0
    /\ out = [op |-> "none"]

Enqueue(m) ==
    IF len = Depth
    THEN out' = [op |-> "refused"] /\ UNCHANGED <<buf, head, tail, len>>
    ELSE /\ buf' = [buf EXCEPT ![tail] = m]
         /\ tail' = (tail + 1) % Depth
         /\ len' = len + 1
         /\ out' = [op |-> "accepted"]
         /\ UNCHANGED head

Dequeue ==
    IF len = 0
    THEN out' = [op |-> "empty"] /\ UNCHANGED <<buf, head, tail, len>>
    ELSE /\ out' = [op |-> "delivered", msg |-> buf[head]]
         /\ head' = (head + 1) % Depth
         /\ len' = len - 1
         /\ UNCHANGED <<buf, tail>>

\* Clearing that rewinds the read index and the length, not the write index.
ClearKeepTail ==
    /\ head' = 0 /\ len' = 0
    /\ out' = [op |-> "cleared"]
    /\ UNCHANGED <<buf, tail>>

\* The array keeps its old contents: only the indices are reset.
Clear ==
    /\ head' = 0 /\ tail' = 0 /\ len' = 0
    /\ out' = [op |-> "cleared"]
    /\ UNCHANGED buf

Next == (\E m \in Msg : Enqueue(m)) \/ Dequeue \/ Clear

Spec == Init /\ [][Next]_vars

-----------------------------------------------------------------------------
\* Every field keeps its type: in particular both indices stay inside the
\* array, so no access of enqueue or dequeue is out of bounds.
TypeOK ==
    /\ buf \in [Index -> Msg]
    /\ head \in Index
    /\ tail \in Index
    /\ len \in 0 .. Depth
    /\ out \in Answer

\* The three fields never drift apart: the write index is always len places
\* after the read index, around the end of the array.  enqueue advances tail
\* and len, dequeue advances head and decrements len, clear resets all three,
\* and nothing but this relation ties them together.
TailIsHeadPlusLen == tail = (head + len) % Depth

\* The pending messages, oldest first, as the ring holds them.
Contents == [i \in 1 .. len |-> buf[(head + i - 1) % Depth]]

Fifo == INSTANCE BoundedFifo WITH q <- Contents

\* The ring implements the bounded FIFO queue: whatever the sequence of calls,
\* wrap-arounds and clears in the middle of the array included, every answer
\* is the one the abstract queue gives.
RingIsFifo == Fifo!Spec
=============================================================================
