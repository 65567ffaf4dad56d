----------------------------- MODULE Scheduler -----------------------------
(***************************************************************************)
(* The EEVDF scheduler on its own (kernel/process/scheduler/eevdf.rs),     *)
(* with the calls the rest of the kernel makes on it.  A process is        *)
(* absent, ready, running or blocked.  Creating a process                  *)
(* (create_user_process) enqueues it while another one runs; the running   *)
(* process leaves the processor when it blocks (sys_waitpid) or when it    *)
(* exits, waking some of the blocked ones (exit_current_and_schedule).     *)
(*                                                                         *)
(* Next is what the kernel does today: nothing calls tick_current or       *)
(* requeue_current.  PreemptNext adds the timer the way their comments say *)
(* it is to be used.                                                       *)
(***************************************************************************)
EXTENDS Runqueue

CONSTANTS NumProcs,   \* processes 0 .. NumProcs - 1
          Nices,      \* the nice levels processes ask for
          MaxVrt      \* bound: no tick once a vruntime has reached it

ASSUME NumProcsAssumption == NumProcs \in Nat \ {0}
ASSUME NicesAssumption == Nices \subseteq Nice

VARIABLES rq,         \* the runqueue
          ready,      \* the processes the kernel has made Runnable
          running,    \* the running process, or NoProc
          blocked,    \* the processes blocked in waitpid
          nice        \* ProcessDescriptor.nice of every process

vars == <<rq, ready, running, blocked, nice>>

Procs == 0 .. (NumProcs - 1)
NoProc == -1

\* kernel_main creates process 0 and runs it without dequeuing it.
Init ==
    /\ rq = EnqueueAt(EmptyQueue, {0}, [s \in {0} |-> 0], [s \in Procs |-> 0])
    /\ ready = {}
    /\ running = 0
    /\ blocked = {}
    /\ nice = [s \in Procs |-> 0]

\* A new process (ProcessDescriptor::new sets nice 0) joins the runqueue.
Arrive(p) ==
    /\ running # NoProc
    /\ p \notin ready \cup blocked \cup {running}
    /\ nice' = [nice EXCEPT ![p] = 0]
    /\ \E at \in Placements(rq, {p}) : rq' = EnqueueAt(rq, {p}, at, nice')
    /\ ready' = ready \cup {p}
    /\ UNCHANGED <<running, blocked>>

\* dequeue_runqueue and run_first_process; the processor stops for good when
\* the runqueue is empty.
Dispatch(q, r) ==
    LET q1 == recompute_min_vruntime(q)
    IN  IF q1.count = 0 \/ q1.occupied = {}
        THEN rq' = q1 /\ running' = NoProc /\ ready' = r
        ELSE \E i \in q1.occupied :
               /\ IsBest(q1, i)
               /\ rq' = TakeAt(q1, i)
               /\ running' = q1.task[i].idx
               /\ ready' = r \ {q1.task[i].idx}

\* sys_waitpid finds no dead child.
Block ==
    /\ running # NoProc
    /\ Dispatch(remove_from_runqueue(rq, running), ready)
    /\ blocked' = blocked \cup {running}
    /\ UNCHANGED nice

\* exit_current_and_schedule: wake_waiters_for enqueues the waiters of W.
Exit(W) ==
    /\ running # NoProc
    /\ LET q == remove_from_runqueue(rq, running)
       IN  \E at \in Placements(q, W) :
             Dispatch(EnqueueAt(q, W, at, nice), ready \cup W)
    /\ blocked' = blocked \ W
    /\ UNCHANGED nice

SetNice(n) ==
    /\ running # NoProc
    /\ rq' = set_nice(rq, running, n)
    /\ nice' = [nice EXCEPT ![running] = n]
    /\ UNCHANGED <<ready, running, blocked>>

Next ==
    \/ \E p \in Procs : Arrive(p)
    \/ Block
    \/ \E W \in SUBSET blocked : Exit(W)
    \/ \E n \in Nices : SetNice(n)

Spec == Init /\ [][Next]_vars

\* Every running process eventually gives up the processor.
FairSpec == Spec /\ WF_vars(Block \/ \E W \in SUBSET blocked : Exit(W))

-----------------------------------------------------------------------------
(* The timer, as documented: every tick charges the running task, and a    *)
(* task whose deadline has passed goes back to the runqueue.               *)

Tick ==
    /\ running # NoProc
    /\ rq.cur # NoPlace => rq.task[rq.cur].vruntime < MaxVrt
    /\ rq' = tick_current(rq)
    /\ UNCHANGED <<ready, running, blocked, nice>>

Preempt ==
    /\ running # NoProc
    /\ rq.cur # NoPlace
    /\ rq.task[rq.cur].vruntime >= rq.task[rq.cur].deadline
    /\ Dispatch(requeue_current(rq), ready \cup {running})
    /\ UNCHANGED <<blocked, nice>>

PreemptNext == Next \/ Tick \/ Preempt

PreemptSpec == Init /\ [][PreemptNext]_vars

-----------------------------------------------------------------------------
TypeOK ==
    /\ rq \in Queue(Procs)
    /\ ready \subseteq Procs /\ blocked \subseteq Procs
    /\ running \in Procs \cup {NoProc}
    /\ nice \in [Procs -> Nice]

\* No queued task is behind the virtual clock: a task that slept or was just
\* created gets no credit for the time it was away (enqueue_runqueue starts it
\* at MIN_VRUNTIME, requeue_current raises it to MIN_VRUNTIME), so nobody can
\* hold the processor for as long as it once was off it.
NobodyBehindClock ==
    \A i \in rq.occupied : rq.task[i].vruntime >= rq.min

\* The entry at CURRENT_TASK_SLOT describes the running process: "We keep a
\* shadow copy in CURRENT_TASK_SLOT area even when occupied=false"
\* (eevdf.rs:273), which is what tick_current charges and requeue_current puts
\* back.
ShadowIsRunning ==
    rq.cur # NoPlace => rq.task[rq.cur].idx = running

\* Nice levels are priorities: "-20 = highest prio, +19 = lowest prio"
\* (process.rs:66).  Whenever the processor is handed to a ready process, no
\* process with a smaller nice level is left waiting with no more virtual
\* runtime than the chosen one.
NiceIsPriority ==
    [][ (running' # running /\ running' # NoProc) =>
          \A i \in rq'.occupied :
             nice[rq'.task[i].idx] < nice[running'] =>
                rq'.task[i].vruntime > rq'.task[rq'.cur].vruntime ]_vars

\* Nobody waits for ever: the scheduler's header promises that it "guarantees
\* proportional fairness" and "prevents starvation" (eevdf.rs:14 and 45), so a
\* ready process is run, provided every running process gives up the processor.
NoStarvation == \A p \in Procs : (p \in ready) ~> (running = p \/ running = NoProc)
=============================================================================
