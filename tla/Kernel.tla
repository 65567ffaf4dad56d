------------------------------- MODULE Kernel -------------------------------
(***************************************************************************)
(* The process side of the kernel: the process table (pid.rs, process.rs), *)
(* the life cycle of processes (lifecycle.rs), waitpid, the runqueue       *)
(* (module Runqueue), the IPC queues (module BoundedFifo says what they    *)
(* promise, IpcRing that they keep it), capabilities and information-flow  *)
(* labels.                                                                 *)
(*                                                                         *)
(* The kernel is single-core and runs every system call and fault handler  *)
(* with interrupts off, and it switches processes only where the running   *)
(* process exits, is killed or blocks in waitpid.  So every handler, with  *)
(* all the calls it makes, is one step of the running process.  A program  *)
(* is any sequence of system calls; a call that fails without changing     *)
(* anything is a stuttering step.                                          *)
(***************************************************************************)
EXTENDS Runqueue

CONSTANTS MaxProcs,    \* MAX_PROCESSES
          QueueDepth,  \* IPC_QUEUE_DEPTH
          PidMod,      \* pids are u32: 2^32
          LastPid,     \* bound: no pid above it is handed out
          Statuses,    \* the exit statuses programs use
          Rsps,        \* the stack pointers programs block with
          Nices,       \* the nice levels programs ask for
          SpawnMasks,  \* the capability masks programs spawn with
          CapMasks,    \* the masks programs grant and revoke
          SecTags,     \* secrecy tags
          IntTags      \* integrity tags

ASSUME MaxProcsAssumption == MaxProcs \in Nat \ {0} /\ MaxRunnable >= MaxProcs
ASSUME QueueDepthAssumption == QueueDepth \in Nat \ {0}
ASSUME PidAssumption == PidMod \in Nat /\ PidMod > 2 /\ LastPid \in Nat
ASSUME InputAssumption ==
    Statuses \subseteq Nat /\ Nices \subseteq Nice /\ Rsps \subseteq {"valid", "invalid"}

Slot == 0 .. (MaxProcs - 1)
NoSlot == -1
Pid == 0 .. (PidMod - 1)
AnyPid == PidMod - 1     \* u32::MAX, "any child"
NotWaiting == -1         \* waiting_for = None
NoStatus == -1           \* exit_status = None; waitpid reports it as -1

\* The capability bits the calls of this module check.
Cap == {"SPAWN", "GRANT", "IPC_SEND", "IPC_RECV", "REBOOT", "DECLASSIFY", "ENDORSE"}

States == {"Empty", "Runnable", "Running", "Blocked", "Dead"}

\* What run_first_process tells apart of a saved user stack pointer: aligned,
\* below USER_STACK_TOP and mapped, or not.
StackPointers == {"valid", "invalid"}

VARIABLES table,       \* PROCESS_TABLE; a None entry is Vacant
          next_pid,    \* NEXT_PID
          current,     \* CURRENT_INDEX
          stack_used,  \* the slots whose KERNEL_STACK_USED is set
          rq,          \* the runqueue
          ipc,         \* IPC_QUEUES, each queue as the sequence it holds
          sys          \* "up", "idle" (hlt with nobody to run), "halted", "off"

vars == <<table, next_pid, current, stack_used, rq, ipc, sys>>

\* ProcessDescriptor.  The last two fields are history: the secrecy tags the
\* process has declassified, and the integrity tags it was endorsed with.
Descriptor ==
    [pid : Pid, state : States, nice : Nice, exit_status : Statuses \cup {NoStatus},
     waiting_for : Pid \cup {NotWaiting}, rsp : StackPointers, caps : SUBSET Cap,
     sec : SUBSET SecTags, int : SUBSET IntTags,
     declassified : SUBSET SecTags, endorsed : SUBSET IntTags]

NewDescriptor(pid, caps, sec, int) ==
    [pid |-> pid, state |-> "Runnable", nice |-> 0, exit_status |-> NoStatus,
     waiting_for |-> NotWaiting, rsp |-> "valid", caps |-> caps, sec |-> sec, int |-> int,
     declassified |-> {}, endorsed |-> {}]

Vacant == [NewDescriptor(0, {}, {}, {}) EXCEPT !.state = "Empty"]

\* A message as it sits in a queue: the stamped sender_pid and, as history, the
\* pid it was sent to and the sender's label at that time.
Message == [from : Pid, to : Pid, sec : SUBSET SecTags, int : SUBSET IntTags]

Up == sys = "up"
me == table[current]
has(c) == c \in me.caps

Live(s) == table[s].state \in {"Runnable", "Running", "Blocked"}

\* index_of_pid, as the set of its possible results: a zombie is found too.
index_of_pid(p) ==
    {s \in Slot : IsFirst(s, {t \in Slot : table[t].state # "Empty" /\ table[t].pid = p})}

nice_of(t) == [s \in Slot |-> t[s].nice]

-----------------------------------------------------------------------------
\* kernel_main has created Cogman with every capability and run it without
\* taking it off the runqueue.
Init ==
    /\ table = [s \in Slot |-> IF s = 0
                               THEN [NewDescriptor(1, Cap, {}, IntTags) EXCEPT !.state = "Running"]
                               ELSE Vacant]
    /\ next_pid = 2
    /\ current = 0
    /\ stack_used = {0}
    /\ rq = EnqueueAt(EmptyQueue, {0}, [s \in {0} |-> 0], [s \in Slot |-> 0])
    /\ ipc = [s \in Slot |-> << >>]
    /\ sys = "up"

-----------------------------------------------------------------------------
(* Creation: spawn_by_program_id and create_user_process.                  *)

\* CapSet::child_caps: an empty mask asks for everything the parent has.
child_caps(caps, mask) == IF mask = {} THEN caps ELSE caps \cap mask

FreeSlots == {s \in Slot : table[s].state = "Empty"}

Spawn(mask) ==
    /\ Up /\ has("SPAWN") /\ next_pid <= LastPid
    /\ \E s \in Slot :
         /\ IsFirst(s, FreeSlots)
         /\ s \notin stack_used
         /\ stack_used' = stack_used \cup {s}
         /\ table' = [table EXCEPT ![s] = NewDescriptor(next_pid, child_caps(me.caps, mask),
                                                        me.sec, me.int)]
         /\ \E at \in Placements(rq, {s}) : rq' = EnqueueAt(rq, {s}, at, nice_of(table'))
    /\ next_pid' = (next_pid + 1) % PidMod
    /\ UNCHANGED <<current, ipc, sys>>

\* No memory for the page tables or the stacks, a bad image: every one of the
\* error returns after allocate_process_slot uses the pid up and releases the
\* slot, which was never filled.
SpawnFails ==
    /\ Up /\ has("SPAWN") /\ next_pid <= LastPid
    /\ \E s \in Slot : IsFirst(s, FreeSlots) /\ stack_used' = stack_used \ {s}
    /\ next_pid' = (next_pid + 1) % PidMod
    /\ UNCHANGED <<table, current, rq, ipc, sys>>

-----------------------------------------------------------------------------
(* Giving up the processor.                                                *)

\* Mutant of RunNext: the last task of the runqueue is not run.
RunNextOffByOne(t, q) ==
    LET q1 == recompute_min_vruntime(q)
    IN  IF q1.count <= 1
        THEN table' = t /\ rq' = q1 /\ current' = NoSlot /\ sys' = "idle"
        ELSE \E i \in q1.occupied :
               /\ IsBest(q1, i)
               /\ rq' = TakeAt(q1, i)
               /\ current' = q1.task[i].idx
               /\ table' = [t EXCEPT ![q1.task[i].idx].state = "Running"]
               /\ sys' = sys

\* dequeue_runqueue and run_first_process, with table t and runqueue q; when
\* there is nobody to run the kernel executes hlt for ever, and when the saved
\* stack pointer of the next process is not as it likes, it halts.
RunNext(t, q) ==
    LET q1 == recompute_min_vruntime(q)
    IN  IF q1.count = 0
        THEN /\ table' = t /\ rq' = q1
             /\ current' = NoSlot /\ sys' = "idle"
        ELSE \E i \in q1.occupied :
               /\ IsBest(q1, i)
               /\ rq' = TakeAt(q1, i)
               /\ current' = q1.task[i].idx
               /\ table' = [t EXCEPT ![q1.task[i].idx].state = "Running"]
               /\ sys' = IF t[q1.task[i].idx].rsp = "valid" THEN sys ELSE "halted"

\* Mutant of Waiters: the "any child" waiters are forgotten.
WaitersByPid(dead_pid) ==
    {s \in Slot : table[s].state = "Blocked" /\ table[s].waiting_for = dead_pid}

\* The processes wake_waiters_for makes Runnable when dead_pid has died.
Waiters(dead_pid) ==
    {s \in Slot : table[s].state = "Blocked" /\ table[s].waiting_for \in {dead_pid, AnyPid}}

\* exit_current_and_schedule; status is NoStatus when the process is killed.
ExitWith(status) ==
    LET W == Waiters(me.pid)
        q == remove_from_runqueue(rq, current)
        t == [s \in Slot |->
                IF s = current THEN [table[s] EXCEPT !.state = "Dead", !.exit_status = status]
                ELSE IF s \in W THEN [table[s] EXCEPT !.state = "Runnable", !.waiting_for = NotWaiting]
                ELSE table[s]]
    IN  /\ ipc' = [ipc EXCEPT ![current] = << >>]
        /\ \E at \in Placements(q, W) : RunNext(t, EnqueueAt(q, W, at, nice_of(t)))
        /\ UNCHANGED <<next_pid, stack_used>>

Exit(status) == Up /\ ExitWith(status)

\* page_fault_handler: an access to an unmapped or null page kills the process.
KilledByFault == Up /\ ExitWith(NoStatus)

\* page_fault_handler on a protection violation by a user process, and the
\* handlers of #GP, #UD and #DF: diagnostic_halt.
FaultHalts ==
    /\ Up
    /\ sys' = "halted"
    /\ UNCHANGED <<table, next_pid, current, stack_used, rq, ipc>>

\* sys_reboot, mode 0 (halt) or 1 (reset).
Reboot ==
    /\ Up /\ has("REBOOT")
    /\ sys' = "off"
    /\ UNCHANGED <<table, next_pid, current, stack_used, rq, ipc>>

-----------------------------------------------------------------------------
(* waitpid.                                                                *)

\* The dead processes reap_dead(p) may take; it takes the first in the table.
Reapable(p) ==
    {s \in Slot : table[s].state = "Dead" /\ (p \in {0, AnyPid} \/ table[s].pid = p)}

\* reap_dead and release_slot.  The status pointer is checked after that: when
\* it is bad the call fails, and the dead process is gone all the same.
WaitReaps(p) ==
    /\ Up
    /\ \E s \in Slot :
         /\ IsFirst(s, Reapable(p))
         /\ table' = [table EXCEPT ![s] = Vacant]
         /\ stack_used' = stack_used \ {s}
    /\ UNCHANGED <<next_pid, current, rq, ipc, sys>>

\* Nothing to reap and no WNOHANG: the caller blocks, to repeat the call when
\* it is woken, with the stack pointer rsp it has now.
WaitBlocks(p, rsp) ==
    /\ Up /\ Reapable(p) = {}
    /\ RunNext([table EXCEPT ![current].state = "Blocked", ![current].waiting_for = p,
                            ![current].rsp = rsp],
               remove_from_runqueue(rq, current))
    /\ UNCHANGED <<next_pid, stack_used, ipc>>

SetNice(n) ==
    /\ Up
    /\ rq' = set_nice(rq, current, n)
    /\ table' = [table EXCEPT ![current].nice = n]
    /\ UNCHANGED <<next_pid, current, stack_used, ipc, sys>>

-----------------------------------------------------------------------------
(* IPC, with the label check of the dispatcher.                            *)

\* Mutant of can_flow: secrecy is not compared.
CanFlowIntOnly(src, dst) == dst.int \subseteq src.int

can_flow(src, dst) == src.sec \subseteq dst.sec /\ dst.int \subseteq src.int

IpcSend(p) ==
    /\ Up /\ has("IPC_SEND")
    /\ \E s \in index_of_pid(p) :
         /\ can_flow(me, table[s])
         /\ Len(ipc[s]) < QueueDepth
         /\ ipc' = [ipc EXCEPT ![s] = Append(@, [from |-> me.pid, to |-> p,
                                                 sec |-> me.sec, int |-> me.int])]
    /\ UNCHANGED <<table, next_pid, current, stack_used, rq, sys>>

\* An empty queue answers AGAIN whether or not IPC_NONBLOCK is set.
IpcRecv ==
    /\ Up /\ has("IPC_RECV") /\ ipc[current] # << >>
    /\ ipc' = [ipc EXCEPT ![current] = Tail(@)]
    /\ UNCHANGED <<table, next_pid, current, stack_used, rq, sys>>

-----------------------------------------------------------------------------
(* Capabilities and labels.                                                *)

SetField(s, d) ==
    /\ table' = [table EXCEPT ![s] = d]
    /\ UNCHANGED <<next_pid, current, stack_used, rq, ipc, sys>>

\* Mutant of CapGrant: the mask is not restricted to what the caller holds.
CapGrantAnything(p, mask) ==
    /\ Up /\ has("GRANT")
    /\ \E s \in index_of_pid(p) : SetField(s, [table[s] EXCEPT !.caps = @ \cup mask])

\* sys_cap_grant: only bits the caller holds itself.
CapGrant(p, mask) ==
    /\ Up /\ has("GRANT")
    /\ \E s \in index_of_pid(p) :
         SetField(s, [table[s] EXCEPT !.caps = @ \cup (mask \cap me.caps)])

CapRevoke(p, mask) ==
    /\ Up /\ has("GRANT")
    /\ \E s \in index_of_pid(p) : SetField(s, [table[s] EXCEPT !.caps = @ \ mask])

\* sys_iflow_taint, with no capability: more secret, less trusted.
Taint(sec, int) ==
    Up /\ SetField(current, [me EXCEPT !.sec = @ \cup sec, !.int = @ \ int])

Declassify(sec) ==
    /\ Up /\ has("DECLASSIFY")
    /\ SetField(current, [me EXCEPT !.sec = @ \ sec, !.declassified = @ \cup sec])

Endorse(p, int) ==
    /\ Up /\ has("ENDORSE")
    /\ \E s \in index_of_pid(p) :
         SetField(s, [table[s] EXCEPT !.int = @ \cup int, !.endorsed = @ \cup int])

-----------------------------------------------------------------------------
LifeCycle ==
    \/ \E mask \in SpawnMasks : Spawn(mask)
    \/ SpawnFails
    \/ \E st \in Statuses : Exit(st)
    \/ KilledByFault
    \/ FaultHalts
    \/ Reboot
    \/ \E p \in Pid : WaitReaps(p)
    \/ \E p \in Pid, rsp \in Rsps : WaitBlocks(p, rsp)
    \/ \E n \in Nices : SetNice(n)

Ipc == (\E p \in Pid : IpcSend(p)) \/ IpcRecv

Authority ==
    \/ \E p \in Pid, mask \in CapMasks : CapGrant(p, mask)
    \/ \E p \in Pid, mask \in CapMasks : CapRevoke(p, mask)
    \/ \E sec \in SUBSET SecTags, int \in SUBSET IntTags : Taint(sec, int)
    \/ \E sec \in SUBSET SecTags : Declassify(sec)
    \/ \E p \in Pid, int \in SUBSET IntTags : Endorse(p, int)

Next == LifeCycle \/ Ipc \/ Authority

Spec == Init /\ [][Next]_vars

\* The life cycle alone, for larger instances.
LifeSpec == Init /\ [][LifeCycle]_vars

-----------------------------------------------------------------------------
TypeOK ==
    /\ table \in [Slot -> Descriptor]
    /\ next_pid \in Pid
    /\ current \in Slot \cup {NoSlot}
    /\ stack_used \subseteq Slot
    /\ rq \in Queue(Slot)
    /\ ipc \in [Slot -> Seq(Message)]
    /\ \A s \in Slot : Len(ipc[s]) <= QueueDepth
    /\ sys \in {"up", "idle", "halted", "off"}

\* The process marked Running is the one CURRENT_INDEX names and no other, and
\* there is one exactly while the kernel has not gone idle: no hand-over
\* through exit, fault or waitpid leaves two processes Running, or none.
SoleRunner ==
    \A s \in Slot : table[s].state = "Running" <=> s = current

\* The runqueue and the process table agree: every Runnable process has exactly
\* one entry, nobody else has one but the first process, whom kernel_main starts
\* without dequeuing, until something is dequeued at all.  A Runnable process
\* without an entry would never run again, an entry of a Blocked, Dead or reaped
\* one would run a corpse.
RunqueueExact ==
    /\ \A i, j \in rq.occupied : rq.task[i].idx = rq.task[j].idx => i = j
    /\ \A s \in Slot : table[s].state = "Runnable" => s \in Queued(rq)
    /\ \A s \in Queued(rq) :
         table[s].state = "Runnable" \/ (s = current /\ rq.cur = NoPlace)

\* TASK_COUNT, on which dequeue_runqueue decides that nobody is left, is the
\* number of entries.
CountExact == rq.count = Cardinality(rq.occupied)

\* "Runqueue full - should not happen" (eevdf.rs:190): every process that is
\* not queued and may yet have to be has a free place, so enqueue_runqueue
\* never halts the kernel, not even when one exit wakes everybody.
RunqueueNeverFull ==
    Cardinality(Slot \ Queued(rq)) <= Cardinality(Free(rq))

\* No wake-up is lost: while a process is blocked in waitpid, no dead process
\* it is waiting for sits in the table.  (0, which the call also takes for "any
\* process", is the exception: see ZeroWaitsForAny.)
NoLostWakeup ==
    \A s \in Slot : table[s].state = "Blocked" /\ table[s].waiting_for # 0 =>
        Reapable(table[s].waiting_for) = {}

\* The kernel goes idle, which is for good, only when no process could run.
IdleMeansStuck ==
    sys = "idle" => \A s \in Slot : table[s].state \in {"Empty", "Blocked", "Dead"}

\* A slot of the table is in use exactly as long as its kernel stack is: a
\* process never runs on a stack that can be handed to another one, and a
\* reaped slot can always be filled again (alloc_kernel_stack cannot fail).
StacksOwned == stack_used = {s \in Slot : table[s].state # "Empty"}

\* "Process ID (unique, never 0)" (process.rs:58), zombies included, so that
\* waitpid, IPC and the capability calls name exactly one process.
PidsUnique ==
    /\ \A s \in Slot : table[s].state # "Empty" => table[s].pid # 0
    /\ \A s, t \in Slot :
         table[s].state # "Empty" /\ table[t].state # "Empty" /\ table[s].pid = table[t].pid
            => s = t

\* Labels are checked when a message is sent and can change before it is
\* received.  Still, a message waiting for the process it was sent to carries
\* a secrecy tag the process lacks only if the process has declassified that
\* tag, and the process has an integrity tag the sender lacked only if it has
\* been endorsed with it.
FlowRespected ==
    \A s \in Slot : \A k \in DOMAIN ipc[s] :
        (Live(s) /\ ipc[s][k].to = table[s].pid) =>
            /\ ipc[s][k].sec \subseteq table[s].sec \cup table[s].declassified
            /\ table[s].int \subseteq ipc[s][k].int \cup table[s].endorsed

\* Authority is never created: a capability that no live process holds any
\* more, after revocations and exits, is gone for good, whatever is spawned
\* with whatever mask and whatever is granted.
LiveCaps == UNION {table[s].caps : s \in {t \in Slot : Live(t)}}

CapsNeverRegenerate == [][LiveCaps' \subseteq LiveCaps]_vars

-----------------------------------------------------------------------------
(* What comments and documents say of this code and the code does not do.  *)

\* A process blocked in waitpid(0) waits for "any dead process" (ABI.md), so it
\* is not left blocked while there is one.
ZeroWaitsForAny ==
    \A s \in Slot : table[s].state = "Blocked" /\ table[s].waiting_for = 0 =>
        \A t \in Slot : table[t].state # "Dead"

\* "so stale messages do not leak to the next process that inherits the same
\* table slot" (ipc.rs:83): what a process finds in its queue was sent to it.
NoInheritedMessages ==
    \A s \in Slot : \A k \in DOMAIN ipc[s] :
        Live(s) => ipc[s][k].to = table[s].pid

\* "Returns Err(NOENT) if target_pid is not live" (dispatcher/ipc.rs:14): a
\* message never joins the queue of a dead process.
SendOnlyToLive ==
    [][\A s \in Slot : Len(ipc'[s]) > Len(ipc[s]) => Live(s)]_vars

\* Cogman, pid 1, is "the only entity that may grant or revoke capabilities on
\* other processes" (capability/mod.rs:9): nobody else changes what a process
\* other than itself may do.
OnlyCogmanGrants ==
    [][\A s \in Slot :
         (s # current /\ table'[s].pid = table[s].pid /\ table'[s].caps # table[s].caps)
            => me.pid = 1]_vars
=============================================================================
