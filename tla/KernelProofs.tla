---------------------------- MODULE KernelProofs ----------------------------
(***************************************************************************)
(* The process table, the runqueue and the waiters stay consistent in      *)
(* every instance of module Kernel.                                        *)
(***************************************************************************)
EXTENDS Kernel, RunqueueProofs

\* NoLostWakeup, of a process table t.
NoneLost(t) ==
    \A s, u \in Slot :
        t[s].state = "Blocked" /\ t[s].waiting_for # 0 /\ t[u].state = "Dead"
           => t[s].waiting_for # AnyPid /\ t[u].pid # t[s].waiting_for

\* Every Runnable process of t is queued in q, and nobody else but the running
\* process c before anything was dequeued.
Agree(t, q, c) ==
    /\ \A s \in Slot : t[s].state = "Runnable" => s \in Queued(q)
    /\ \A s \in Queued(q) : t[s].state = "Runnable" \/ (s = c /\ q.cur = NoPlace)

Alive == {"Runnable", "Running", "Blocked"}

\* Descriptors d, before a step, and e, after it, are of the same process with
\* the same authority, which has not come back to life.
SameProcess(d, e) ==
    /\ e.pid = d.pid /\ e.caps = d.caps
    /\ e.sec = d.sec /\ e.int = d.int
    /\ e.declassified = d.declassified /\ e.endorsed = d.endorsed
    /\ e.state = "Empty" <=> d.state = "Empty"
    /\ e.state \in Alive => d.state \in Alive

\* The inductive invariant.  The conjuncts lean on each other: RunNext picks a
\* Runnable process because the queue and the table agree, the queue and the
\* table agree after an exit because the process that leaves is the only one
\* Running, and the kernel idles only with an empty queue because TASK_COUNT
\* counts the entries.
KInv ==
    /\ TypeOK
    /\ SoleRunner
    /\ WellFormed(rq, Slot)
    /\ Agree(table, rq, current)
    /\ StacksOwned
    /\ NoneLost(table)
    /\ sys = "idle" <=> current = NoSlot
    /\ sys = "idle" => rq.occupied = {}

-----------------------------------------------------------------------------
\* The slots are finitely many integers, -1 is none of them.
LEMMA Slots ==
    /\ Slot \subseteq Int /\ NoSlot \notin Slot /\ 0 \in Slot
    /\ IsFiniteSet(Slot) /\ Cardinality(Slot) = MaxProcs
<1>1. MaxProcs \in Nat \ {0}
  BY MaxProcsAssumption
<1>2. Slot \subseteq Int /\ NoSlot \notin Slot /\ 0 \in Slot
  BY <1>1 DEF Slot, NoSlot
<1>3. IsFiniteSet(Slot) /\ Cardinality(Slot) = MaxProcs
  BY <1>1, FS_Interval DEF Slot
<1> QED BY <1>2, <1>3

\* Every subset of the slots is finite.
LEMMA SomeSlots == ASSUME NEW W \in SUBSET Slot PROVE IsFiniteSet(W)
BY Slots, FS_Subset

\* While the kernel is up the current process exists and is Running.
LEMMA UpRuns ==
    ASSUME KInv, Up
    PROVE  current \in Slot /\ table[current] \in Descriptor /\ table[current].state = "Running"
<1>1. sys # "idle"
  BY DEF Up
<1>2. current \in Slot
  BY <1>1 DEF KInv, TypeOK
<1> QED BY <1>2 DEF KInv, TypeOK, SoleRunner

\* A descriptor with another state is one.
LEMMA StateType ==
    ASSUME NEW d \in Descriptor, NEW st \in States
    PROVE  /\ [d EXCEPT !.state = st] \in Descriptor
           /\ [d EXCEPT !.state = st].state = st
           /\ [d EXCEPT !.state = st].pid = d.pid
           /\ [d EXCEPT !.state = st].waiting_for = d.waiting_for
BY DEF Descriptor

\* A table with the entry of i made Running.
LEMMA MakeRunning ==
    ASSUME NEW t \in [Slot -> Descriptor], NEW i \in Slot, NEW u,
           u = [t EXCEPT ![i].state = "Running"]
    PROVE  /\ u \in [Slot -> Descriptor]
           /\ u[i] = [t[i] EXCEPT !.state = "Running"] /\ u[i].state = "Running"
           /\ \A s \in Slot \ {i} : u[s] = t[s]
<1>1. t[i] \in Descriptor /\ "Running" \in States
  BY DEF States
<1>2. [t[i] EXCEPT !.state = "Running"] \in Descriptor
      /\ [t[i] EXCEPT !.state = "Running"].state = "Running"
  BY <1>1, StateType
<1> QED BY <1>2

\* Handing over the processor when nobody is Running and exactly the Runnable
\* processes are queued: one of them becomes the sole Running one, or there is
\* none and the kernel idles.
LEMMA RunNextKeeps ==
    ASSUME NEW t \in [Slot -> Descriptor], NEW q, WellFormed(q, Slot), Up,
           \A s \in Slot : t[s].state # "Running",
           \A s \in Slot : t[s].state = "Runnable" <=> s \in Queued(q),
           RunNext(t, q)
    PROVE  /\ table' \in [Slot -> Descriptor]
           /\ current' \in Slot \cup {NoSlot}
           /\ sys' \in {"up", "idle", "halted"}
           /\ WellFormed(rq', Slot)
           /\ SoleRunner'
           /\ Agree(table', rq', current')
           /\ sys' = "idle" <=> current' = NoSlot
           /\ sys' = "idle" => rq'.occupied = {}
           /\ \A s \in Slot : \/ table'[s] = t[s]
                              \/ /\ t[s].state = "Runnable"
                                 /\ table'[s] = [t[s] EXCEPT !.state = "Running"]
<1> DEFINE q1 == recompute_min_vruntime(q)
<1>1. WellFormed(q1, Slot) /\ q1.task = q.task /\ q1.occupied = q.occupied
  BY RecomputeKeeps
<1>2. Queued(q1) = Queued(q) /\ Queued(q) \subseteq Slot
  <2>1. \A i \in q.occupied : q.task[i].idx \in Slot
    BY DEF WellFormed, Queue
  <2> QED BY <1>1, <2>1 DEF Queued
<1>3. CASE q1.count = 0
  <2>1. table' = t /\ rq' = q1 /\ current' = NoSlot /\ sys' = "idle"
    BY <1>3 DEF RunNext
  <2> HIDE DEF q1
  <2>2. q1.occupied = {}
    BY <1>1, <1>3, EntriesFinite DEF WellFormed
  <2>3. Queued(q1) = {}
    BY <2>2 DEF Queued
  <2>4. SoleRunner'
    BY <2>1, Slots DEF SoleRunner
  <2>5. Agree(table', rq', current')
    BY <1>2, <2>1, <2>3 DEF Agree
  <2> QED BY <1>1, <2>1, <2>2, <2>4, <2>5
<1>4. CASE q1.count # 0
  <2>1. PICK i \in q1.occupied :
          /\ rq' = TakeAt(q1, i)
          /\ current' = q1.task[i].idx
          /\ table' = [t EXCEPT ![q1.task[i].idx].state = "Running"]
          /\ sys' = IF t[q1.task[i].idx].rsp = "valid" THEN sys ELSE "halted"
    BY <1>4 DEF RunNext
  <2> DEFINE n == q1.task[i].idx
  <2> HIDE DEF q1
  <2>2. n \in Slot /\ n \in Queued(q1)
    BY <1>2 DEF Queued
  <2>3. t[n].state = "Runnable"
    BY <1>2, <2>2
  <2>4. WellFormed(rq', Slot) /\ Queued(rq') = Queued(q1) \ {n}
    BY <1>1, <2>1, TakeAtKeeps
  <2> HIDE DEF n
  <2>5. table' = [t EXCEPT ![n].state = "Running"] /\ current' = n
        /\ sys' \in {"up", "halted"}
    BY <2>1 DEF n, Up
  <2>6. /\ table' \in [Slot -> Descriptor]
        /\ table'[n] = [t[n] EXCEPT !.state = "Running"] /\ table'[n].state = "Running"
        /\ \A s \in Slot \ {n} : table'[s] = t[s]
    BY <2>2, <2>5, MakeRunning
  <2>7. SoleRunner'
    BY <2>2, <2>5, <2>6 DEF SoleRunner
  <2>8. Agree(table', rq', current')
    BY <1>2, <2>2, <2>4, <2>5, <2>6 DEF Agree
  <2>9. current' \in Slot /\ current' # NoSlot /\ sys' # "idle"
    BY <2>2, <2>5, Slots
  <2>10. \A s \in Slot : \/ table'[s] = t[s]
                         \/ /\ t[s].state = "Runnable"
                            /\ table'[s] = [t[s] EXCEPT !.state = "Running"]
    BY <2>3, <2>6
  <2> QED BY <2>4, <2>5, <2>6, <2>7, <2>8, <2>9, <2>10
<1> QED BY <1>3, <1>4

\* A process that starts to run is still the same.
LEMMA RunningIsSame ==
    ASSUME NEW d \in Descriptor, d.state = "Runnable"
    PROVE  SameProcess(d, [d EXCEPT !.state = "Running"])
BY DEF Descriptor, SameProcess, Alive

\* Handing over the processor keeps the invariant.
LEMMA HandOver ==
    ASSUME KInv, Up, NEW t \in [Slot -> Descriptor], NEW q, WellFormed(q, Slot),
           \A s \in Slot : t[s].state # "Running",
           \A s \in Slot : t[s].state = "Runnable" <=> s \in Queued(q),
           \A s \in Slot : SameProcess(table[s], t[s]),
           NoneLost(t), RunNext(t, q),
           next_pid' = next_pid, stack_used' = stack_used,
           ipc' \in [Slot -> Seq(Message)], \A s \in Slot : Len(ipc'[s]) <= QueueDepth
    PROVE  KInv' /\ \A s \in Slot : SameProcess(table[s], table'[s])
<1>1. /\ table' \in [Slot -> Descriptor]
      /\ current' \in Slot \cup {NoSlot}
      /\ sys' \in {"up", "idle", "halted"}
      /\ WellFormed(rq', Slot)
      /\ SoleRunner'
      /\ Agree(table', rq', current')
      /\ sys' = "idle" <=> current' = NoSlot
      /\ sys' = "idle" => rq'.occupied = {}
      /\ \A s \in Slot : \/ table'[s] = t[s]
                         \/ /\ t[s].state = "Runnable"
                            /\ table'[s] = [t[s] EXCEPT !.state = "Running"]
  BY RunNextKeeps
<1>2. \A s \in Slot : table'[s].state \in {"Empty", "Blocked", "Dead"} => table'[s] = t[s]
  <2> SUFFICES ASSUME NEW s \in Slot, table'[s] = [t[s] EXCEPT !.state = "Running"]
               PROVE  table'[s].state = "Running"
    BY <1>1
  <2> QED BY StateType DEF States
<1>3. \A s \in Slot : table'[s].state = "Empty" <=> t[s].state = "Empty"
  BY <1>1, <1>2
<1>4. TypeOK'
  BY <1>1 DEF TypeOK, WellFormed, KInv
<1>5. StacksOwned'
  BY <1>3 DEF StacksOwned, KInv, SameProcess
<1>6. NoneLost(table')
  BY <1>2 DEF NoneLost
<1>7. ASSUME NEW s \in Slot PROVE SameProcess(table[s], table'[s])
  <2>1. CASE table'[s] = t[s]
    BY <2>1
  <2>2. CASE t[s].state = "Runnable" /\ table'[s] = [t[s] EXCEPT !.state = "Running"]
    <3>1. SameProcess(t[s], table'[s])
      BY <2>2, RunningIsSame
    <3> QED BY <3>1 DEF SameProcess
  <2> QED BY <1>1, <2>1, <2>2
<1> QED BY <1>1, <1>4, <1>5, <1>6, <1>7 DEF KInv

\* EnqueueKeeps, for the slots of the process table.
LEMMA EnqueueSlots ==
    ASSUME NEW q, WellFormed(q, Slot), NEW W, \A s \in W : s \in Slot /\ s \notin Queued(q),
           NEW at, at \in Placements(q, W), NEW nice, nice \in [Slot -> Nice]
    PROVE  /\ WellFormed(EnqueueAt(q, W, at, nice), Slot)
           /\ Queued(EnqueueAt(q, W, at, nice)) = Queued(q) \cup W
<1>1. IsFiniteSet(W) /\ W \subseteq Int
  BY Slots, SomeSlots
<1>2. OneToOne(at, W)
  BY <1>1, PlacementsOneToOne
<1>3. CanEnqueue(q, Slot, W, at, nice)
  BY <1>1, <1>2 DEF CanEnqueue
<1> QED BY <1>3, EnqueueKeeps

\* wake_waiters_for, on one descriptor.
LEMMA WokenType ==
    ASSUME NEW d \in Descriptor, d.state = "Blocked"
    PROVE  /\ [d EXCEPT !.state = "Runnable", !.waiting_for = NotWaiting] \in Descriptor
           /\ [d EXCEPT !.state = "Runnable", !.waiting_for = NotWaiting].state = "Runnable"
           /\ SameProcess(d, [d EXCEPT !.state = "Runnable", !.waiting_for = NotWaiting])
<1>1. /\ [d EXCEPT !.state = "Runnable", !.waiting_for = NotWaiting] \in Descriptor
      /\ [d EXCEPT !.state = "Runnable", !.waiting_for = NotWaiting].state = "Runnable"
  BY DEF Descriptor, States
<1>2. SameProcess(d, [d EXCEPT !.state = "Runnable", !.waiting_for = NotWaiting])
  BY DEF Descriptor, SameProcess, Alive
<1> QED BY <1>1, <1>2

\* exit_current_and_schedule.
LEMMA ExitKeeps ==
    ASSUME KInv, Up, NEW st \in Statuses \cup {NoStatus}, ExitWith(st)
    PROVE  KInv' /\ \A s \in Slot : SameProcess(table[s], table'[s])
<1> DEFINE W == Waiters(me.pid)
           q == remove_from_runqueue(rq, current)
           t == [s \in Slot |->
                   IF s = current THEN [table[s] EXCEPT !.state = "Dead", !.exit_status = st]
                   ELSE IF s \in W THEN [table[s] EXCEPT !.state = "Runnable",
                                                         !.waiting_for = NotWaiting]
                   ELSE table[s]]
<1>1. /\ ipc' = [ipc EXCEPT ![current] = << >>]
      /\ next_pid' = next_pid /\ stack_used' = stack_used
  BY DEF ExitWith
<1>2. PICK at \in Placements(q, W) : RunNext(t, EnqueueAt(q, W, at, nice_of(t)))
  BY DEF ExitWith
<1>3. current \in Slot /\ table[current].state = "Running" /\ table \in [Slot -> Descriptor]
  BY UpRuns DEF KInv, TypeOK
<1>4. W \subseteq Slot /\ \A s \in W : table[s].state = "Blocked"
  BY DEF Waiters
<1>5. WellFormed(q, Slot) /\ Queued(q) = Queued(rq) \ {current}
  BY RemoveKeeps DEF KInv
<1>6. /\ t[current] \in Descriptor /\ t[current].state = "Dead"
      /\ t[current].pid = table[current].pid /\ SameProcess(table[current], t[current])
  <2> DEFINE d == table[current]
  <2>1. d \in Descriptor /\ d.state = "Running"
    BY <1>3
  <2>2. t[current] = [d EXCEPT !.state = "Dead", !.exit_status = st]
    BY <1>3
  <2> HIDE DEF d, t
  <2>3. SameProcess(d, t[current])
    BY <2>1, <2>2 DEF Descriptor, SameProcess, Alive
  <2>4. t[current] \in Descriptor /\ t[current].state = "Dead" /\ t[current].pid = d.pid
    BY <2>1, <2>2 DEF Descriptor, States
  <2> QED BY <2>3, <2>4 DEF d
<1>7. ASSUME NEW s \in W
      PROVE  t[s] \in Descriptor /\ t[s].state = "Runnable" /\ SameProcess(table[s], t[s])
  <2>1. s # current /\ s \in Slot
    BY <1>3, <1>4
  <2>2. t[s] = [table[s] EXCEPT !.state = "Runnable", !.waiting_for = NotWaiting]
    BY <2>1
  <2>3. table[s] \in Descriptor /\ table[s].state = "Blocked"
    BY <1>3, <1>4, <2>1
  <2> HIDE DEF t
  <2> QED BY <2>2, <2>3, WokenType
<1>8. \A s \in Slot \ (W \cup {current}) : t[s] = table[s]
  OBVIOUS
<1> HIDE DEF t
<1>9. t \in [Slot -> Descriptor]
  <2>1. \A s \in Slot : t[s] \in Descriptor
    BY <1>3, <1>6, <1>7, <1>8
  <2>2. t = [s \in Slot |-> t[s]]
    BY DEF t
  <2> QED BY <2>1, <2>2
<1> HIDE DEF q, W
<1>10. \A s \in W : s \in Slot /\ s \notin Queued(q)
  BY <1>3, <1>4, <1>5 DEF KInv, Agree
<1>11. nice_of(t) \in [Slot -> Nice]
  BY <1>9 DEF nice_of, Descriptor
<1> DEFINE r == EnqueueAt(q, W, at, nice_of(t))
<1>12. WellFormed(r, Slot) /\ Queued(r) = Queued(q) \cup W
  <2> DEFINE nice == nice_of(t)
  <2>1. nice \in [Slot -> Nice]
    BY <1>11
  <2> HIDE DEF nice
  <2>2. /\ WellFormed(EnqueueAt(q, W, at, nice), Slot)
        /\ Queued(EnqueueAt(q, W, at, nice)) = Queued(q) \cup W
    BY <1>5, <1>10, <2>1, EnqueueSlots
  <2> QED BY <2>2 DEF nice
<1> HIDE DEF r
<1>13. \A s \in Slot : t[s].state # "Running"
  BY <1>3, <1>6, <1>7, <1>8 DEF KInv, SoleRunner
<1>14. ASSUME NEW s \in Slot PROVE t[s].state = "Runnable" <=> s \in Queued(r)
  <2>1. CASE s = current
    BY <1>3, <1>4, <1>5, <1>6, <1>12, <2>1
  <2>2. CASE s \in W
    BY <1>7, <1>12, <2>2
  <2>3. CASE s \notin W \cup {current}
    BY <1>5, <1>8, <1>12, <2>3 DEF KInv, Agree
  <2> QED BY <2>1, <2>2, <2>3
<1>15. ASSUME NEW s \in Slot PROVE SameProcess(table[s], t[s])
  <2>1. CASE s \in W \cup {current}
    BY <1>6, <1>7, <2>1
  <2>2. CASE s \notin W \cup {current}
    BY <1>8, <2>2 DEF SameProcess
  <2> QED BY <2>1, <2>2
<1>16. NoneLost(t)
  <2> SUFFICES ASSUME NEW s \in Slot, NEW u \in Slot,
                      t[s].state = "Blocked", t[s].waiting_for # 0, t[u].state = "Dead"
               PROVE  t[s].waiting_for # AnyPid /\ t[u].pid # t[s].waiting_for
    BY DEF NoneLost
  <2>1. s \notin W \cup {current} /\ t[s] = table[s]
    BY <1>6, <1>7, <1>8
  <2>2. table[s].waiting_for # AnyPid /\ table[s].waiting_for # table[current].pid
    BY <2>1 DEF W, Waiters, me
  <2>3. CASE u = current
    BY <1>6, <2>1, <2>2, <2>3
  <2>4. CASE u # current
    <3>1. t[u] = table[u]
      BY <1>7, <1>8, <2>4
    <3> QED BY <2>1, <3>1 DEF KInv, NoneLost
  <2> QED BY <2>3, <2>4
<1>17. ipc' \in [Slot -> Seq(Message)] /\ \A s \in Slot : Len(ipc'[s]) <= QueueDepth
  <2>1. << >> \in Seq(Message) /\ Len(<< >>) <= QueueDepth
    BY QueueDepthAssumption
  <2>2. ipc \in [Slot -> Seq(Message)] /\ \A s \in Slot : Len(ipc[s]) <= QueueDepth
    BY DEF KInv, TypeOK
  <2> QED BY <1>1, <1>3, <2>1, <2>2
<1>18. RunNext(t, r)
  BY <1>2 DEF r
<1> QED BY <1>1, <1>9, <1>12, <1>13, <1>14, <1>15, <1>16, <1>17, <1>18, HandOver

\* sys_waitpid with nothing to reap.
LEMMA WaitBlocksKeeps ==
    ASSUME KInv, NEW p \in Pid, NEW rsp \in Rsps, WaitBlocks(p, rsp)
    PROVE  KInv' /\ \A s \in Slot : SameProcess(table[s], table'[s])
<1> DEFINE d == [table[current] EXCEPT !.state = "Blocked", !.waiting_for = p, !.rsp = rsp]
           t == [table EXCEPT ![current] = d]
           q == remove_from_runqueue(rq, current)
<1>0. Up /\ Reapable(p) = {}
  BY DEF WaitBlocks
<1>1. next_pid' = next_pid /\ stack_used' = stack_used /\ ipc' = ipc
  BY DEF WaitBlocks
<1>2. current \in Slot /\ table[current].state = "Running" /\ table \in [Slot -> Descriptor]
  BY <1>0, UpRuns DEF KInv, TypeOK
<1>3. RunNext(t, q)
  <2>1. [table EXCEPT ![current].state = "Blocked", ![current].waiting_for = p,
                      ![current].rsp = rsp] = t
    BY <1>2
  <2>2. RunNext([table EXCEPT ![current].state = "Blocked", ![current].waiting_for = p,
                              ![current].rsp = rsp], q)
    BY DEF WaitBlocks
  <2> QED BY <2>1, <2>2
<1>4. WellFormed(q, Slot) /\ Queued(q) = Queued(rq) \ {current}
  BY RemoveKeeps DEF KInv
<1>5. d \in Descriptor /\ d.state = "Blocked" /\ d.waiting_for = p
      /\ SameProcess(table[current], d)
  <2>1. table[current] \in Descriptor /\ rsp \in StackPointers
    BY <1>2, InputAssumption DEF StackPointers
  <2>2. d \in Descriptor /\ d.state = "Blocked" /\ d.waiting_for = p
    BY <2>1 DEF Descriptor, States
  <2>3. SameProcess(table[current], d)
    BY <1>2, <2>1 DEF Descriptor, SameProcess, Alive
  <2> QED BY <2>2, <2>3
<1> HIDE DEF d, q
<1>6. /\ t \in [Slot -> Descriptor] /\ t[current] = d
      /\ \A s \in Slot \ {current} : t[s] = table[s]
  BY <1>2, <1>5
<1> HIDE DEF t
<1>7. \A s \in Slot : t[s].state # "Running"
  BY <1>2, <1>5, <1>6 DEF KInv, SoleRunner
<1>8. \A s \in Slot : t[s].state = "Runnable" <=> s \in Queued(q)
  BY <1>2, <1>4, <1>5, <1>6 DEF KInv, Agree
<1>9. ASSUME NEW s \in Slot PROVE SameProcess(table[s], t[s])
  BY <1>2, <1>5, <1>6 DEF SameProcess
<1>10. NoneLost(t)
  <2> SUFFICES ASSUME NEW s \in Slot, NEW u \in Slot,
                      t[s].state = "Blocked", t[s].waiting_for # 0, t[u].state = "Dead"
               PROVE  t[s].waiting_for # AnyPid /\ t[u].pid # t[s].waiting_for
    BY DEF NoneLost
  <2>1. u # current /\ t[u] = table[u]
    BY <1>5, <1>6
  <2>2. CASE s = current
    BY <1>0, <1>5, <1>6, <2>1, <2>2 DEF Reapable
  <2>3. CASE s # current
    BY <1>6, <2>1, <2>3 DEF KInv, NoneLost
  <2> QED BY <2>2, <2>3
<1>11. ipc' \in [Slot -> Seq(Message)] /\ \A s \in Slot : Len(ipc'[s]) <= QueueDepth
  BY <1>1 DEF KInv, TypeOK
<1> QED BY <1>0, <1>1, <1>3, <1>4, <1>6, <1>7, <1>8, <1>9, <1>10, <1>11, HandOver

-----------------------------------------------------------------------------
(* The calls after which the caller still runs.                            *)

\* A step that starts and stops nobody.
LEMMA SameShape ==
    ASSUME KInv, Up, table' \in [Slot -> Descriptor],
           \A s \in Slot : /\ table'[s].pid = table[s].pid
                           /\ table'[s].state = table[s].state
                           /\ table'[s].waiting_for = table[s].waiting_for,
           WellFormed(rq', Slot), Queued(rq') = Queued(rq), rq'.cur = rq.cur,
           current' = current, next_pid' = next_pid, stack_used' = stack_used,
           sys' \in {"up", "halted", "off"},
           ipc' \in [Slot -> Seq(Message)], \A s \in Slot : Len(ipc'[s]) <= QueueDepth
    PROVE  KInv'
<1>1. current \in Slot /\ current # NoSlot
  BY UpRuns, Slots
<1>2. TypeOK'
  BY <1>1 DEF TypeOK, WellFormed, KInv
<1>3. SoleRunner'
  BY DEF SoleRunner, KInv
<1>4. Agree(table', rq', current')
  <2>1. Queued(rq) \subseteq Slot
    BY DEF KInv, WellFormed, Queue, Queued
  <2> QED BY <2>1 DEF Agree, KInv
<1>5. StacksOwned'
  BY DEF StacksOwned, KInv
<1>6. NoneLost(table')
  BY DEF NoneLost, KInv
<1> QED BY <1>1, <1>2, <1>3, <1>4, <1>5, <1>6 DEF KInv

\* Setting other fields of one descriptor.
LEMMA SetFieldKeeps ==
    ASSUME KInv, Up, NEW s \in Slot, NEW d \in Descriptor, SetField(s, d),
           d.pid = table[s].pid, d.state = table[s].state,
           d.waiting_for = table[s].waiting_for
    PROVE  KInv'
<1>1. /\ table' = [table EXCEPT ![s] = d] /\ rq' = rq /\ ipc' = ipc /\ current' = current
      /\ next_pid' = next_pid /\ stack_used' = stack_used /\ sys' = sys
  BY DEF SetField
<1>2. table \in [Slot -> Descriptor]
  BY DEF KInv, TypeOK
<1>3. table' \in [Slot -> Descriptor] /\ table'[s] = d
      /\ \A u \in Slot \ {s} : table'[u] = table[u]
  BY <1>1, <1>2
<1>4. \A u \in Slot : /\ table'[u].pid = table[u].pid
                      /\ table'[u].state = table[u].state
                      /\ table'[u].waiting_for = table[u].waiting_for
  BY <1>3
<1>5. WellFormed(rq', Slot) /\ Queued(rq') = Queued(rq)
  BY <1>1 DEF KInv
<1>6. ipc' \in [Slot -> Seq(Message)] /\ \A u \in Slot : Len(ipc'[u]) <= QueueDepth
  BY <1>1 DEF KInv, TypeOK
<1>7. sys' \in {"up", "halted", "off"}
  BY <1>1 DEF Up
<1> QED BY <1>1, <1>3, <1>4, <1>5, <1>6, <1>7, SameShape

\* The calls on capabilities and labels.
LEMMA AuthorityKeeps ==
    ASSUME KInv, Authority
    PROVE  KInv'
<1>0. Up /\ current \in Slot /\ me \in Descriptor /\ me = table[current]
      /\ table \in [Slot -> Descriptor]
  <2>1. Up
    BY DEF Authority, CapGrant, CapRevoke, Taint, Declassify, Endorse
  <2> QED BY <2>1, UpRuns DEF KInv, TypeOK, me
<1>1. ASSUME NEW s \in Slot, NEW caps, SetField(s, [table[s] EXCEPT !.caps = caps]),
             caps \in SUBSET Cap
      PROVE  KInv'
  <2> DEFINE d == [table[s] EXCEPT !.caps = caps]
  <2>1. d \in Descriptor /\ d.pid = table[s].pid /\ d.state = table[s].state
        /\ d.waiting_for = table[s].waiting_for
    BY <1>0, <1>1 DEF Descriptor
  <2> HIDE DEF d
  <2>2. SetField(s, d)
    BY <1>1 DEF d
  <2> QED BY <1>0, <2>1, <2>2, SetFieldKeeps
<1>2. ASSUME NEW p \in Pid, NEW mask \in CapMasks, CapGrant(p, mask) PROVE KInv'
  <2>1. PICK s \in Slot : SetField(s, [table[s] EXCEPT !.caps = @ \cup (mask \cap me.caps)])
    BY <1>2 DEF CapGrant, index_of_pid
  <2>2. table[s].caps \cup (mask \cap me.caps) \in SUBSET Cap
    BY <1>0 DEF Descriptor
  <2> QED BY <1>1, <2>1, <2>2
<1>3. ASSUME NEW p \in Pid, NEW mask \in CapMasks, CapRevoke(p, mask) PROVE KInv'
  <2>1. PICK s \in Slot : SetField(s, [table[s] EXCEPT !.caps = @ \ mask])
    BY <1>3 DEF CapRevoke, index_of_pid
  <2>2. table[s].caps \ mask \in SUBSET Cap
    BY <1>0 DEF Descriptor
  <2> QED BY <1>1, <2>1, <2>2
<1>4. ASSUME NEW sec \in SUBSET SecTags, NEW int \in SUBSET IntTags, Taint(sec, int) PROVE KInv'
  <2> DEFINE d == [me EXCEPT !.sec = @ \cup sec, !.int = @ \ int]
  <2>1. d \in Descriptor /\ d.pid = me.pid /\ d.state = me.state
        /\ d.waiting_for = me.waiting_for
    BY <1>0 DEF Descriptor
  <2>2. SetField(current, d)
    BY <1>4 DEF Taint
  <2> HIDE DEF d
  <2> QED BY <1>0, <2>1, <2>2, SetFieldKeeps
<1>5. ASSUME NEW sec \in SUBSET SecTags, Declassify(sec) PROVE KInv'
  <2> DEFINE d == [me EXCEPT !.sec = @ \ sec, !.declassified = @ \cup sec]
  <2>1. d \in Descriptor /\ d.pid = me.pid /\ d.state = me.state
        /\ d.waiting_for = me.waiting_for
    BY <1>0 DEF Descriptor
  <2>2. SetField(current, d)
    BY <1>5 DEF Declassify
  <2> HIDE DEF d
  <2> QED BY <1>0, <2>1, <2>2, SetFieldKeeps
<1>6. ASSUME NEW p \in Pid, NEW int \in SUBSET IntTags, Endorse(p, int) PROVE KInv'
  <2>1. PICK s \in Slot : SetField(s, [table[s] EXCEPT !.int = @ \cup int,
                                                       !.endorsed = @ \cup int])
    BY <1>6 DEF Endorse, index_of_pid
  <2> DEFINE d == [table[s] EXCEPT !.int = @ \cup int, !.endorsed = @ \cup int]
  <2>2. d \in Descriptor /\ d.pid = table[s].pid /\ d.state = table[s].state
        /\ d.waiting_for = table[s].waiting_for
    BY <1>0 DEF Descriptor
  <2>3. SetField(s, d)
    BY <2>1
  <2> HIDE DEF d
  <2> QED BY <1>0, <2>2, <2>3, SetFieldKeeps
<1> QED BY <1>2, <1>3, <1>4, <1>5, <1>6 DEF Authority

\* sys_setpriority.
LEMMA SetNiceKeepsInv ==
    ASSUME KInv, NEW n \in Nices, SetNice(n)
    PROVE  KInv'
<1> DEFINE d == [table[current] EXCEPT !.nice = n]
<1>1. /\ Up /\ rq' = set_nice(rq, current, n) /\ table' = [table EXCEPT ![current].nice = n]
      /\ next_pid' = next_pid /\ current' = current /\ stack_used' = stack_used
      /\ ipc' = ipc /\ sys' = sys
  BY DEF SetNice
<1>2. current \in Slot /\ table \in [Slot -> Descriptor] /\ n \in Nice
  BY <1>1, UpRuns, InputAssumption DEF KInv, TypeOK
<1>3. d \in Descriptor /\ d.pid = table[current].pid /\ d.state = table[current].state
      /\ d.waiting_for = table[current].waiting_for
  BY <1>2 DEF Descriptor
<1>4. table' = [table EXCEPT ![current] = d]
  BY <1>1, <1>2
<1> HIDE DEF d
<1>5. /\ table' \in [Slot -> Descriptor]
      /\ \A s \in Slot : /\ table'[s].pid = table[s].pid
                         /\ table'[s].state = table[s].state
                         /\ table'[s].waiting_for = table[s].waiting_for
  BY <1>2, <1>3, <1>4
<1>6. WellFormed(rq', Slot) /\ Queued(rq') = Queued(rq)
  BY <1>1, <1>2, SetNiceKeeps DEF KInv
<1>9. rq'.cur = rq.cur
  BY <1>1, CurKept DEF KInv, TypeOK
<1>7. ipc' \in [Slot -> Seq(Message)] /\ \A u \in Slot : Len(ipc'[u]) <= QueueDepth
  BY <1>1 DEF KInv, TypeOK
<1>8. sys' \in {"up", "halted", "off"}
  BY <1>1 DEF Up
<1> QED BY <1>1, <1>5, <1>6, <1>7, <1>8, <1>9, SameShape

\* Steps that stop the machine.
LEMMA HaltKeeps ==
    ASSUME KInv, FaultHalts \/ Reboot
    PROVE  KInv'
<1>1. /\ Up /\ table' = table /\ rq' = rq /\ next_pid' = next_pid /\ current' = current
      /\ stack_used' = stack_used /\ ipc' = ipc /\ sys' \in {"up", "halted", "off"}
  BY DEF FaultHalts, Reboot
<1>2. /\ table' \in [Slot -> Descriptor]
      /\ WellFormed(rq', Slot) /\ Queued(rq') = Queued(rq)
      /\ ipc' \in [Slot -> Seq(Message)] /\ \A u \in Slot : Len(ipc'[u]) <= QueueDepth
  BY <1>1 DEF KInv, TypeOK
<1> QED BY <1>1, <1>2, SameShape

\* ipc_send and ipc_recv.
LEMMA IpcKeeps ==
    ASSUME KInv, Ipc
    PROVE  KInv'
<1>0. ipc \in [Slot -> Seq(Message)] /\ \A u \in Slot : Len(ipc[u]) <= QueueDepth
  BY DEF KInv, TypeOK
<1>1. /\ Up /\ table' = table /\ rq' = rq /\ next_pid' = next_pid /\ current' = current
      /\ stack_used' = stack_used /\ sys' = sys
  BY DEF Ipc, IpcSend, IpcRecv
<1>2. current \in Slot /\ me \in Descriptor
  BY <1>1, UpRuns DEF me
<1>3. ASSUME NEW p \in Pid, IpcSend(p)
      PROVE  ipc' \in [Slot -> Seq(Message)] /\ \A u \in Slot : Len(ipc'[u]) <= QueueDepth
  <2> DEFINE m == [from |-> me.pid, to |-> p, sec |-> me.sec, int |-> me.int]
  <2>1. PICK s \in Slot : Len(ipc[s]) < QueueDepth /\ ipc' = [ipc EXCEPT ![s] = Append(@, m)]
    BY <1>3 DEF IpcSend, index_of_pid
  <2>2. m \in Message
    BY <1>2 DEF Message, Descriptor
  <2> HIDE DEF m
  <2>3. Append(ipc[s], m) \in Seq(Message) /\ Len(Append(ipc[s], m)) = Len(ipc[s]) + 1
        /\ Len(ipc[s]) \in Nat
    BY <1>0, <2>2
  <2>4. Len(Append(ipc[s], m)) <= QueueDepth
    BY <2>1, <2>3, QueueDepthAssumption
  <2> QED BY <1>0, <2>1, <2>3, <2>4
<1>4. ASSUME IpcRecv
      PROVE  ipc' \in [Slot -> Seq(Message)] /\ \A u \in Slot : Len(ipc'[u]) <= QueueDepth
  <2>1. ipc[current] # << >> /\ ipc' = [ipc EXCEPT ![current] = Tail(@)]
    BY <1>4 DEF IpcRecv
  <2>2. Tail(ipc[current]) \in Seq(Message) /\ Len(Tail(ipc[current])) = Len(ipc[current]) - 1
        /\ Len(ipc[current]) \in Nat
    BY <1>0, <1>2, <2>1
  <2>3. Len(Tail(ipc[current])) <= QueueDepth
    BY <1>0, <1>2, <2>2, QueueDepthAssumption
  <2> QED BY <1>0, <1>2, <2>1, <2>2, <2>3
<1>5. ipc' \in [Slot -> Seq(Message)] /\ \A u \in Slot : Len(ipc'[u]) <= QueueDepth
  BY <1>3, <1>4 DEF Ipc
<1>6. /\ table' \in [Slot -> Descriptor]
      /\ WellFormed(rq', Slot) /\ Queued(rq') = Queued(rq)
  BY <1>1 DEF KInv, TypeOK
<1>7. sys' \in {"up", "halted", "off"}
  BY <1>1 DEF Up
<1> QED BY <1>1, <1>5, <1>6, <1>7, SameShape

\* Pids are closed under the wrapping increment of NEXT_PID.
LEMMA PidFacts ==
    /\ 0 \in Pid /\ 1 \in Pid /\ 2 \in Pid
    /\ \A p \in Pid : (p + 1) % PidMod \in Pid
<1>1. PidMod \in Nat /\ PidMod > 2
  BY PidAssumption
<1>2. 0 \in Pid /\ 1 \in Pid /\ 2 \in Pid
  BY <1>1 DEF Pid
<1>3. ASSUME NEW p \in Pid PROVE (p + 1) % PidMod \in Pid
  <2>1. p + 1 \in Nat
    BY <1>1 DEF Pid
  <2>2. (p + 1) % PidMod \in 0 .. (PidMod - 1)
    BY <1>1, <2>1
  <2> QED BY <2>2 DEF Pid
<1> QED BY <1>2, <1>3

\* ProcessDescriptor::new, and the empty entry of the table.
LEMMA NewType ==
    ASSUME NEW p \in Pid, NEW caps \in SUBSET Cap,
           NEW sec \in SUBSET SecTags, NEW int \in SUBSET IntTags
    PROVE  /\ NewDescriptor(p, caps, sec, int) \in Descriptor
           /\ NewDescriptor(p, caps, sec, int).state = "Runnable"
           /\ NewDescriptor(p, caps, sec, int).pid = p
BY DEF NewDescriptor, Descriptor, States, Nice, NoStatus, NotWaiting, StackPointers

\* The empty entry is a descriptor.
LEMMA VacantType == Vacant \in Descriptor /\ Vacant.state = "Empty"
<1> DEFINE d == NewDescriptor(0, {}, {}, {})
<1>1. d \in Descriptor
  BY NewType, PidFacts
<1>2. Vacant = [d EXCEPT !.state = "Empty"]
  BY DEF Vacant
<1> HIDE DEF d
<1> QED BY <1>1, <1>2, StateType DEF States

\* spawn_by_program_id.
LEMMA SpawnKeeps ==
    ASSUME KInv, NEW mask, Spawn(mask)
    PROVE  KInv'
<1>1. /\ Up /\ next_pid' = (next_pid + 1) % PidMod
      /\ current' = current /\ ipc' = ipc /\ sys' = sys
  BY DEF Spawn
<1> DEFINE d == NewDescriptor(next_pid, child_caps(me.caps, mask), me.sec, me.int)
<1>2. PICK s \in Slot :
        /\ table[s].state = "Empty"
        /\ stack_used' = stack_used \cup {s}
        /\ table' = [table EXCEPT ![s] = d]
        /\ \E at \in Placements(rq, {s}) : rq' = EnqueueAt(rq, {s}, at, nice_of(table'))
  BY DEF Spawn, IsFirst, FreeSlots
<1>3. /\ current \in Slot /\ current # NoSlot /\ me \in Descriptor
      /\ table[current].state = "Running"
      /\ table \in [Slot -> Descriptor] /\ next_pid \in Pid
  BY <1>1, UpRuns, Slots DEF KInv, TypeOK, me
<1>4. d \in Descriptor /\ d.state = "Runnable"
  <2>1. me.sec \in SUBSET SecTags /\ me.int \in SUBSET IntTags
        /\ child_caps(me.caps, mask) \in SUBSET Cap
    BY <1>3 DEF Descriptor, child_caps
  <2> QED BY <1>3, <2>1, NewType
<1> HIDE DEF d
<1>5. table' \in [Slot -> Descriptor] /\ table'[s] = d
      /\ \A u \in Slot \ {s} : table'[u] = table[u]
  BY <1>2, <1>3, <1>4
<1>6. s # current /\ s \notin Queued(rq)
  BY <1>2, <1>3 DEF KInv, Agree
<1>7. WellFormed(rq', Slot) /\ Queued(rq') = Queued(rq) \cup {s}
  <2> DEFINE nice == nice_of(table')
             W == {s}
  <2>1. nice \in [Slot -> Nice]
    BY <1>5 DEF nice_of, Descriptor
  <2>2. WellFormed(rq, Slot) /\ \A u \in W : u \in Slot /\ u \notin Queued(rq)
    BY <1>6 DEF KInv
  <2> HIDE DEF nice, W
  <2>3. PICK at \in Placements(rq, W) : rq' = EnqueueAt(rq, W, at, nice)
    BY <1>2 DEF nice, W
  <2>4. WellFormed(rq', Slot) /\ Queued(rq') = Queued(rq) \cup W
    BY <2>1, <2>2, <2>3, EnqueueSlots
  <2> QED BY <2>4 DEF W
<1>14. rq'.cur = rq.cur
  <2>1. rq \in Queue(Slot)
    BY DEF KInv, TypeOK
  <2>2. PICK at : rq' = EnqueueAt(rq, {s}, at, nice_of(table'))
    BY <1>2
  <2> QED BY <2>1, <2>2, CurKept
<1>8. TypeOK'
  <2>1. next_pid' \in Pid
    BY <1>1, <1>3, PidFacts
  <2> QED BY <1>1, <1>2, <1>5, <1>7, <2>1 DEF KInv, TypeOK, WellFormed
<1>9. SoleRunner'
  BY <1>1, <1>4, <1>5, <1>6 DEF KInv, SoleRunner
<1>10. Agree(table', rq', current')
  <2>1. Queued(rq) \subseteq Slot
    BY DEF KInv, WellFormed, Queue, Queued
  <2> QED BY <1>1, <1>4, <1>5, <1>7, <1>14, <2>1 DEF KInv, Agree
<1>11. StacksOwned'
  BY <1>2, <1>4, <1>5 DEF KInv, StacksOwned
<1>12. NoneLost(table')
  BY <1>4, <1>5 DEF KInv, NoneLost
<1>13. sys' # "idle" /\ current' # NoSlot
  BY <1>1, <1>3 DEF Up
<1> QED BY <1>7, <1>8, <1>9, <1>10, <1>11, <1>12, <1>13 DEF KInv

\* The error returns of spawn_by_program_id.
LEMMA SpawnFailsKeeps ==
    ASSUME KInv, SpawnFails
    PROVE  KInv'
<1>1. /\ Up /\ next_pid' = (next_pid + 1) % PidMod
      /\ table' = table /\ current' = current /\ rq' = rq /\ ipc' = ipc /\ sys' = sys
  BY DEF SpawnFails
<1>2. PICK s \in Slot : table[s].state = "Empty" /\ stack_used' = stack_used \ {s}
  BY DEF SpawnFails, IsFirst, FreeSlots
<1>3. stack_used' = stack_used
  BY <1>2 DEF KInv, StacksOwned
<1>4. next_pid' \in Pid
  BY <1>1, PidFacts DEF KInv, TypeOK
<1>5. TypeOK'
  BY <1>1, <1>3, <1>4 DEF KInv, TypeOK
<1>6. SoleRunner' /\ StacksOwned'
  BY <1>1, <1>3 DEF KInv, SoleRunner, StacksOwned
<1> QED BY <1>1, <1>5, <1>6 DEF KInv

\* sys_waitpid that finds a dead process.
LEMMA WaitReapsKeeps ==
    ASSUME KInv, NEW p \in Pid, WaitReaps(p)
    PROVE  KInv'
<1>1. /\ Up /\ next_pid' = next_pid /\ current' = current /\ rq' = rq /\ ipc' = ipc
      /\ sys' = sys
  BY DEF WaitReaps
<1>2. PICK s \in Slot :
        /\ table[s].state = "Dead"
        /\ table' = [table EXCEPT ![s] = Vacant]
        /\ stack_used' = stack_used \ {s}
  BY DEF WaitReaps, IsFirst, Reapable
<1>3. table \in [Slot -> Descriptor] /\ table[current].state = "Running"
  BY <1>1, UpRuns DEF KInv, TypeOK
<1>4. table' \in [Slot -> Descriptor] /\ table'[s] = Vacant
      /\ \A u \in Slot \ {s} : table'[u] = table[u]
  BY <1>2, <1>3, VacantType
<1>5. s # current /\ s \notin Queued(rq)
  BY <1>2, <1>3 DEF KInv, Agree
<1>6. TypeOK'
  BY <1>1, <1>2, <1>4 DEF KInv, TypeOK
<1>7. SoleRunner'
  BY <1>1, <1>4, <1>5, VacantType DEF KInv, SoleRunner
<1>8. Agree(table', rq', current')
  <2>1. Queued(rq) \subseteq Slot
    BY DEF KInv, WellFormed, Queue, Queued
  <2> QED BY <1>1, <1>4, <1>5, <2>1, VacantType DEF KInv, Agree
<1>9. StacksOwned'
  BY <1>2, <1>4, VacantType DEF KInv, StacksOwned
<1>10. NoneLost(table')
  BY <1>4, VacantType DEF KInv, NoneLost
<1> QED BY <1>1, <1>6, <1>7, <1>8, <1>9, <1>10 DEF KInv

-----------------------------------------------------------------------------
\* The runqueue at boot.
LEMMA EmptyQueueIsOne == WellFormed(EmptyQueue, Slot) /\ Queued(EmptyQueue) = {}
<1>1. EmptyTask \in [idx : Slot, vruntime : Nat, deadline : Nat,
                     weight : {WEIGHT_TABLE[k] : k \in 1 .. 40}]
  <2>1. NICE0_WEIGHT = WEIGHT_TABLE[21] /\ 21 \in 1 .. 40
    BY DEF NICE0_WEIGHT, WEIGHT_TABLE
  <2>2. NICE0_WEIGHT \in {WEIGHT_TABLE[k] : k \in 1 .. 40}
    BY <2>1
  <2> QED BY <2>2, Slots DEF EmptyTask
<1>2. EmptyQueue \in Queue(Slot)
  BY <1>1 DEF EmptyQueue, Queue
<1>3. EmptyQueue.occupied = {} /\ EmptyQueue.count = 0
  BY DEF EmptyQueue
<1> QED BY <1>2, <1>3, FS_EmptySet DEF WellFormed, OneEntryEach, Queued

\* kernel_main establishes the invariant.
LEMMA InitKInv == Init => KInv
<1> SUFFICES ASSUME Init PROVE KInv
  OBVIOUS
<1> DEFINE d == [NewDescriptor(1, Cap, {}, IntTags) EXCEPT !.state = "Running"]
<1>1. d \in Descriptor /\ d.state = "Running"
  <2> DEFINE n == NewDescriptor(1, Cap, {}, IntTags)
  <2>1. n \in Descriptor
    BY NewType, PidFacts
  <2> HIDE DEF n
  <2>2. [n EXCEPT !.state = "Running"] \in Descriptor
        /\ [n EXCEPT !.state = "Running"].state = "Running"
    BY <2>1, StateType DEF States
  <2> QED BY <2>2 DEF n
<1>2. /\ table = [s \in Slot |-> IF s = 0 THEN d ELSE Vacant]
      /\ next_pid = 2 /\ current = 0 /\ stack_used = {0} /\ sys = "up"
      /\ ipc = [s \in Slot |-> << >>]
  BY DEF Init
<1> HIDE DEF d
<1>3. table \in [Slot -> Descriptor] /\ table[0] = d
      /\ \A s \in Slot \ {0} : table[s] = Vacant
  BY <1>1, <1>2, VacantType, Slots
<1>4. WellFormed(rq, Slot) /\ Queued(rq) = {0}
  <2> DEFINE W == {0}
             at == [s \in W |-> 0]
             nice == [s \in Slot |-> 0]
  <2>1. rq = EnqueueAt(EmptyQueue, W, at, nice)
    BY DEF Init
  <2>2. nice \in [Slot -> Nice]
    BY DEF Nice
  <2>3. at \in Placements(EmptyQueue, W)
    <3>1. Free(EmptyQueue) = Place
      BY DEF Free, EmptyQueue
    <3>2. 0 \in Place /\ \A j \in Place : ~ (j < 0)
      BY MaxRunnableAssumption DEF Place
    <3>3. at \in [W -> Free(EmptyQueue)]
      BY <3>1, <3>2
    <3>4. \A s, t \in W : s < t => at[s] < at[t]
      OBVIOUS
    <3>5. \A s \in W : \A j \in Free(EmptyQueue) : j < at[s] => \E t \in W : at[t] = j
      BY <3>1, <3>2
    <3> HIDE DEF at, W
    <3> QED BY <3>3, <3>4, <3>5 DEF Placements
  <2>4. \A s \in W : s \in Slot /\ s \notin Queued(EmptyQueue)
    BY Slots, EmptyQueueIsOne
  <2> HIDE DEF at, nice, W
  <2>5. WellFormed(rq, Slot) /\ Queued(rq) = Queued(EmptyQueue) \cup W
    BY <2>1, <2>2, <2>3, <2>4, EmptyQueueIsOne, EnqueueSlots
  <2> QED BY <2>5, EmptyQueueIsOne DEF W
<1>5. TypeOK
  <2>1. ipc \in [Slot -> Seq(Message)] /\ \A s \in Slot : Len(ipc[s]) <= QueueDepth
    BY <1>2, QueueDepthAssumption
  <2> QED BY <1>2, <1>3, <1>4, <2>1, Slots, PidFacts DEF TypeOK, WellFormed
<1>6. SoleRunner
  BY <1>1, <1>2, <1>3, VacantType DEF SoleRunner
<1>7. Agree(table, rq, current)
  <2>1. rq.cur = NoPlace
    BY EmptyQueueIsOne, CurKept DEF Init, WellFormed, EmptyQueue
  <2> QED BY <1>1, <1>2, <1>3, <1>4, <2>1, VacantType DEF Agree
<1>8. StacksOwned
  BY <1>1, <1>2, <1>3, Slots, VacantType DEF StacksOwned
<1>9. NoneLost(table)
  BY <1>1, <1>3, VacantType DEF NoneLost
<1>10. sys # "idle" /\ current # NoSlot
  BY <1>2 DEF NoSlot
<1> QED BY <1>4, <1>5, <1>6, <1>7, <1>8, <1>9, <1>10 DEF KInv

\* Every handler keeps it.
LEMMA NextKInv == KInv /\ [Next]_vars => KInv'
<1> SUFFICES ASSUME KInv, [Next]_vars PROVE KInv'
  OBVIOUS
<1>1. CASE LifeCycle
  <2>1. ASSUME NEW mask \in SpawnMasks, Spawn(mask) PROVE KInv'
    BY <2>1, SpawnKeeps
  <2>2. ASSUME SpawnFails PROVE KInv'
    BY <2>2, SpawnFailsKeeps
  <2>3. ASSUME NEW st \in Statuses, Exit(st) PROVE KInv'
    BY <2>3, ExitKeeps DEF Exit
  <2>4. ASSUME KilledByFault PROVE KInv'
    BY <2>4, ExitKeeps DEF KilledByFault
  <2>5. ASSUME FaultHalts \/ Reboot PROVE KInv'
    BY <2>5, HaltKeeps
  <2>6. ASSUME NEW p \in Pid, WaitReaps(p) PROVE KInv'
    BY <2>6, WaitReapsKeeps
  <2>7. ASSUME NEW p \in Pid, NEW rsp \in Rsps, WaitBlocks(p, rsp) PROVE KInv'
    BY <2>7, WaitBlocksKeeps
  <2>8. ASSUME NEW n \in Nices, SetNice(n) PROVE KInv'
    BY <2>8, SetNiceKeepsInv
  <2> QED BY <1>1, <2>1, <2>2, <2>3, <2>4, <2>5, <2>6, <2>7, <2>8 DEF LifeCycle
<1>2. CASE Ipc
  BY <1>2, IpcKeeps
<1>3. CASE Authority
  BY <1>3, AuthorityKeeps
<1>4. CASE UNCHANGED vars
  <2>1. /\ table' = table /\ next_pid' = next_pid /\ current' = current
        /\ stack_used' = stack_used /\ rq' = rq /\ ipc' = ipc /\ sys' = sys
    BY <1>4 DEF vars
  <2> QED BY <2>1 DEF KInv, TypeOK, SoleRunner, StacksOwned
<1> QED BY <1>1, <1>2, <1>3, <1>4 DEF Next

\* The kernel always satisfies the inductive invariant.
THEOREM KernelInvariant == Spec => []KInv
BY InitKInv, NextKInv, PTL DEF Spec

\* Every variable of the kernel keeps its type.
THEOREM KernelTypeCorrect == Spec => []TypeOK
<1>1. KInv => TypeOK
  BY DEF KInv
<1> QED BY <1>1, KernelInvariant, PTL

\* Exactly the current process is Running, through every exit, fault and block.
THEOREM OneProcessRuns == Spec => []SoleRunner
<1>1. KInv => SoleRunner
  BY DEF KInv
<1> QED BY <1>1, KernelInvariant, PTL

\* The runqueue holds the Runnable processes once each, and nobody else but the
\* first process before it first gives up the processor.
THEOREM RunqueueMatchesTable == Spec => []RunqueueExact
<1>1. KInv => RunqueueExact
  BY DEF KInv, RunqueueExact, WellFormed, OneEntryEach, Agree
<1> QED BY <1>1, KernelInvariant, PTL

\* TASK_COUNT is the number of entries of the runqueue.
THEOREM TaskCountIsExact == Spec => []CountExact
<1>1. KInv => CountExact
  BY DEF KInv, CountExact, WellFormed
<1> QED BY <1>1, KernelInvariant, PTL

\* enqueue_runqueue never finds the runqueue full, because MAX_RUNNABLE is at
\* least MAX_PROCESSES and nobody is queued twice.
THEOREM RunqueueHasRoom == Spec => []RunqueueNeverFull
<1>1. KInv => RunqueueNeverFull
  <2> SUFFICES ASSUME KInv PROVE RunqueueNeverFull
    OBVIOUS
  <2>1. IsFiniteSet(Slot) /\ Cardinality(Slot) <= MaxRunnable
    BY Slots, MaxProcsAssumption, MaxRunnableAssumption
  <2>2. WellFormed(rq, Slot)
    BY DEF KInv
  <2> QED BY <2>1, <2>2, RoomForAll DEF RunqueueNeverFull
<1> QED BY <1>1, KernelInvariant, PTL

\* No process stays blocked in waitpid while a process it waits for is dead.
THEOREM WakeupsAreKept == Spec => []NoLostWakeup
<1>1. KInv => NoLostWakeup
  BY DEF KInv, NoLostWakeup, NoneLost, Reapable
<1> QED BY <1>1, KernelInvariant, PTL

\* The kernel idles only when no process could run.
THEOREM IdleOnlyWhenStuck == Spec => []IdleMeansStuck
<1>1. KInv => IdleMeansStuck
  <2> SUFFICES ASSUME KInv, sys = "idle", NEW s \in Slot
               PROVE  table[s].state \in {"Empty", "Blocked", "Dead"}
    BY DEF IdleMeansStuck
  <2>1. rq.occupied = {} /\ current = NoSlot
    BY DEF KInv
  <2>2. table[s].state # "Runnable"
    BY <2>1 DEF KInv, Agree, Queued
  <2>3. table[s].state # "Running"
    BY <2>1, Slots DEF KInv, SoleRunner
  <2>4. table[s].state \in States
    BY DEF KInv, TypeOK, Descriptor
  <2> QED BY <2>2, <2>3, <2>4 DEF States
<1> QED BY <1>1, KernelInvariant, PTL

\* Kernel stacks and table slots are taken and given back together.
THEOREM StacksMatchSlots == Spec => []StacksOwned
<1>1. KInv => StacksOwned
  BY DEF KInv
<1> QED BY <1>1, KernelInvariant, PTL
=============================================================================
