-------------------------- MODULE SchedulerProofs --------------------------
(***************************************************************************)
(* For every number of processes and places, and without a bound on the    *)
(* virtual time: with the timer used as documented, no queued task is      *)
(* behind MIN_VRUNTIME.                                                    *)
(***************************************************************************)
EXTENDS Scheduler, RunqueueProofs

Task == [idx : Procs, vruntime : Nat, deadline : Nat,
         weight : {WEIGHT_TABLE[k] : k \in 1 .. 40}]

\* A queue of the kernel's processes in which nobody is behind the clock.
OnTime(q) ==
    /\ q \in Queue(Procs)
    /\ \A i \in q.occupied : q.task[i].vruntime >= q.min

\* The inductive invariant.
ClockInv == TypeOK /\ OnTime(rq)

-----------------------------------------------------------------------------
(* Queues as records.                                                      *)

\* The fields of a queue.
LEMMA OpenQueue ==
    ASSUME NEW q \in Queue(Procs)
    PROVE  /\ q.task \in [Place -> Task] /\ q.occupied \in SUBSET Place
           /\ q.count \in Nat /\ q.min \in Nat /\ q.cur \in Place \cup {NoPlace}
           /\ q = [task |-> q.task, occupied |-> q.occupied, count |-> q.count,
                   min |-> q.min, cur |-> q.cur]
BY DEF Queue, Task

\* A queue is given by its fields.
LEMMA MakeQueue ==
    ASSUME NEW tk \in [Place -> Task], NEW O \in SUBSET Place, NEW n \in Nat,
           NEW m \in Nat, NEW c \in Place \cup {NoPlace}
    PROVE  [task |-> tk, occupied |-> O, count |-> n, min |-> m, cur |-> c] \in Queue(Procs)
BY DEF Queue, Task

\* The times and the weight of an entry.
LEMMA TaskFields ==
    ASSUME NEW t \in Task
    PROVE  t.idx \in Procs /\ t.vruntime \in Nat /\ t.deadline \in Nat /\ t.weight \in Nat \ {0}
BY WeightsPositive DEF Task

-----------------------------------------------------------------------------
(* The operations of the runqueue.                                         *)

\* MIN_VRUNTIME moves up to the task that is furthest behind, not past it.
LEMMA RecomputeOnTime ==
    ASSUME NEW q, OnTime(q)
    PROVE  OnTime(recompute_min_vruntime(q))
<1> DEFINE ahead == {i \in q.occupied : \A j \in q.occupied :
                                          q.task[i].vruntime <= q.task[j].vruntime}
           k == CHOOSE i \in ahead : TRUE
           m == q.task[k].vruntime
<1>0. q \in Queue(Procs) /\ \A i \in q.occupied : i \in Place /\ q.task[i] \in Task
  BY OpenQueue DEF OnTime
<1>1. CASE q.occupied = {} \/ ~ m > q.min
  BY <1>1 DEF recompute_min_vruntime
<1>2. CASE q.occupied # {} /\ m > q.min
  <2> DEFINE T == {q.task[i].vruntime : i \in q.occupied}
  <2>1. T \subseteq Nat /\ T # {}
    BY <1>0, <1>2, TaskFields
  <2>2. \E x \in T : \A y \in T : x <= y
    <3> HIDE DEF T
    <3> QED BY <2>1, LeastNatural
  <2>3. k \in ahead
    BY <2>2
  <2>4. k \in q.occupied /\ \A j \in q.occupied : m <= q.task[j].vruntime
    BY <2>3
  <2>5. recompute_min_vruntime(q) = [q EXCEPT !.min = m]
    BY <1>2 DEF recompute_min_vruntime
  <2>6. m \in Nat
    BY <1>0, <2>4, TaskFields
  <2> HIDE DEF m, k, ahead
  <2>7. [q EXCEPT !.min = m] = [task |-> q.task, occupied |-> q.occupied, count |-> q.count,
                                min |-> m, cur |-> q.cur]
    BY <1>0 DEF Queue
  <2>8. [q EXCEPT !.min = m] \in Queue(Procs)
    BY <1>0, <2>6, <2>7, OpenQueue, MakeQueue
  <2>9. \A j \in q.occupied : q.task[j].vruntime >= m
    BY <1>0, <2>4, <2>6, TaskFields
  <2> QED BY <2>5, <2>7, <2>8, <2>9 DEF OnTime
<1> QED BY <1>1, <1>2

\* A task that joins starts at MIN_VRUNTIME.
LEMMA EnqueueOnTime ==
    ASSUME NEW q, OnTime(q), NEW W, W \subseteq Procs, IsFiniteSet(W),
           NEW at \in Placements(q, W), NEW lv \in [Procs -> Nice]
    PROVE  OnTime(EnqueueAt(q, W, at, lv))
<1> DEFINE A == {at[s] : s \in W}
           tk == [i \in Place |-> IF \E s \in W : at[s] = i
                                   THEN NewTask(q, PutAt(W, at, i), lv[PutAt(W, at, i)])
                                   ELSE q.task[i]]
           n == q.count + Cardinality(W)
           r == EnqueueAt(q, W, at, lv)
<1>0. /\ q \in Queue(Procs) /\ q.task \in [Place -> Task] /\ q.occupied \in SUBSET Place
      /\ q.count \in Nat /\ q.min \in Nat /\ q.cur \in Place \cup {NoPlace}
  BY OpenQueue DEF OnTime
<1>1. A \subseteq Place
  BY DEF Placements, Free
<1>2. \A i \in Place : (\E s \in W : at[s] = i) =>
        /\ NewTask(q, PutAt(W, at, i), lv[PutAt(W, at, i)]) \in Task
        /\ NewTask(q, PutAt(W, at, i), lv[PutAt(W, at, i)]).vruntime = q.min
  <2> SUFFICES ASSUME NEW i \in Place, \E s \in W : at[s] = i
               PROVE  LET s == PutAt(W, at, i)
                      IN  NewTask(q, s, lv[s]) \in Task /\ NewTask(q, s, lv[s]).vruntime = q.min
    OBVIOUS
  <2>1. PutAt(W, at, i) \in Procs
    BY DEF PutAt
  <2>2. lv[PutAt(W, at, i)] \in Nice
    BY <2>1
  <2> QED BY <1>0, <2>1, <2>2, NewTaskType DEF Task, NewTask
<1>3. tk \in [Place -> Task]
  <2> SUFFICES ASSUME NEW i \in Place PROVE tk[i] \in Task
    OBVIOUS
  <2>1. CASE \E s \in W : at[s] = i
    BY <1>2, <2>1
  <2>2. CASE ~ \E s \in W : at[s] = i
    BY <1>0, <2>2
  <2> QED BY <2>1, <2>2
<1>4. n \in Nat
  BY <1>0, FS_CardinalityType
<1>5. r = [q EXCEPT !.task = tk, !.occupied = q.occupied \cup A, !.count = n]
  BY DEF EnqueueAt
<1>6. \A i \in q.occupied \cup A : tk[i].vruntime >= q.min
  <2> SUFFICES ASSUME NEW i \in q.occupied \cup A PROVE tk[i].vruntime >= q.min
    OBVIOUS
  <2>0. i \in Place
    BY <1>0, <1>1
  <2>1. CASE \E s \in W : at[s] = i
    <3>1. tk[i].vruntime = q.min
      BY <1>2, <2>0, <2>1
    <3> QED BY <1>0, <3>1
  <2>2. CASE ~ \E s \in W : at[s] = i
    <3>1. i \in q.occupied /\ tk[i] = q.task[i]
      BY <2>0, <2>2
    <3> QED BY <3>1 DEF OnTime
  <2> QED BY <2>1, <2>2
<1> HIDE DEF tk, A, n, r
<1>7. r = [task |-> tk, occupied |-> q.occupied \cup A, count |-> n, min |-> q.min, cur |-> q.cur]
  BY <1>0, <1>5 DEF Queue
<1>8. r \in Queue(Procs)
  <2>1. q.occupied \cup A \in SUBSET Place
    BY <1>0, <1>1
  <2> QED BY <1>0, <1>3, <1>4, <1>7, <2>1, MakeQueue
<1>9. OnTime(r)
  BY <1>6, <1>7, <1>8 DEF OnTime
<1> QED BY <1>9 DEF r

\* Taking entries away leaves nobody behind.
LEMMA FewerOnTime ==
    ASSUME NEW q, OnTime(q), NEW O \in SUBSET q.occupied, NEW n \in Nat,
           NEW c \in Place \cup {NoPlace}
    PROVE  OnTime([task |-> q.task, occupied |-> O, count |-> n, min |-> q.min, cur |-> c])
<1>1. O \in SUBSET Place
  BY OpenQueue DEF OnTime
<1>2. [task |-> q.task, occupied |-> O, count |-> n, min |-> q.min, cur |-> c] \in Queue(Procs)
  BY <1>1, OpenQueue, MakeQueue DEF OnTime
<1> QED BY <1>2 DEF OnTime

\* remove_from_runqueue, for a process with or without an entry.
LEMMA RemoveOnTime ==
    ASSUME NEW q, OnTime(q), NEW idx
    PROVE  OnTime(remove_from_runqueue(q, idx))
<1> DEFINE k == FirstOf(Entries(q, idx))
           n == IF q.count = 0 THEN 0 ELSE q.count - 1
<1>0. /\ q \in Queue(Procs) /\ q.count \in Nat /\ n \in Nat /\ q.cur \in Place \cup {NoPlace}
      /\ q = [task |-> q.task, occupied |-> q.occupied, count |-> q.count,
              min |-> q.min, cur |-> q.cur]
  BY OpenQueue DEF OnTime
<1> HIDE DEF k
<1>1. CASE Entries(q, idx) # {}
  <2>1. remove_from_runqueue(q, idx)
          = [task |-> q.task, occupied |-> q.occupied \ {k}, count |-> n,
             min |-> q.min, cur |-> q.cur]
    BY <1>0, <1>1 DEF remove_from_runqueue, Queue, k
  <2> QED BY <1>0, <2>1, FewerOnTime
<1>2. CASE Entries(q, idx) = {} /\ q.cur # NoPlace /\ q.task[q.cur].idx = idx
  <2>1. remove_from_runqueue(q, idx)
          = [task |-> q.task, occupied |-> q.occupied, count |-> q.count,
             min |-> q.min, cur |-> NoPlace]
    BY <1>0, <1>2 DEF remove_from_runqueue, Queue
  <2> QED BY <1>0, <2>1, FewerOnTime
<1>3. CASE Entries(q, idx) = {} /\ ~ (q.cur # NoPlace /\ q.task[q.cur].idx = idx)
  <2>1. remove_from_runqueue(q, idx) = q
    BY <1>3 DEF remove_from_runqueue
  <2> QED BY <2>1
<1> QED BY <1>1, <1>2, <1>3

\* dequeue_runqueue takes the entry it has chosen.
LEMMA TakeOnTime ==
    ASSUME NEW q, OnTime(q), NEW i \in q.occupied, q.count # 0
    PROVE  OnTime(TakeAt(q, i)) /\ q.task[i].idx \in Procs
<1>0. /\ q \in Queue(Procs) /\ q.count \in Nat /\ i \in Place /\ q.task[i] \in Task
  BY OpenQueue DEF OnTime
<1> DEFINE O == q.occupied \ {i}
           n == q.count - 1
<1>1. TakeAt(q, i) = [q EXCEPT !.occupied = O, !.count = n, !.cur = i]
  BY DEF TakeAt
<1>2. n \in Nat /\ O \in SUBSET q.occupied
  BY <1>0
<1> HIDE DEF O, n
<1>3. TakeAt(q, i) = [task |-> q.task, occupied |-> O, count |-> n, min |-> q.min, cur |-> i]
  BY <1>0, <1>1 DEF Queue
<1> QED BY <1>0, <1>2, <1>3, FewerOnTime, TaskFields

\* Entries that are rewritten and keep their virtual time, or gain some.
LEMMA RewriteOnTime ==
    ASSUME NEW q, OnTime(q), NEW k \in Place, NEW t \in Task,
           k \in q.occupied => t.vruntime >= q.min
    PROVE  OnTime([q EXCEPT !.task[k] = t])
<1> DEFINE tk == [q.task EXCEPT ![k] = t]
           r == [q EXCEPT !.task[k] = t]
<1>0. /\ q \in Queue(Procs) /\ q.task \in [Place -> Task] /\ q.occupied \in SUBSET Place
      /\ q.count \in Nat /\ q.min \in Nat /\ q.cur \in Place \cup {NoPlace}
  BY OpenQueue DEF OnTime
<1>1. tk \in [Place -> Task] /\ \A i \in Place : tk[i] = IF i = k THEN t ELSE q.task[i]
  BY <1>0
<1>2. r = [task |-> tk, occupied |-> q.occupied, count |-> q.count, min |-> q.min, cur |-> q.cur]
  BY <1>0 DEF Queue
<1> HIDE DEF tk, r
<1>3. r \in Queue(Procs)
  BY <1>0, <1>1, <1>2, MakeQueue
<1>4. \A i \in q.occupied : tk[i].vruntime >= q.min
  BY <1>0, <1>1 DEF OnTime
<1>5. OnTime(r)
  BY <1>2, <1>3, <1>4 DEF OnTime
<1> QED BY <1>5 DEF r

\* set_nice changes a weight and no time.
LEMMA SetNiceOnTime ==
    ASSUME NEW q, OnTime(q), NEW idx, NEW n \in Nice
    PROVE  OnTime(set_nice(q, idx, n))
<1> DEFINE k == FirstOf(Entries(q, idx))
           t == [q.task[k] EXCEPT !.weight = weight_for_nice(n)]
<1>0. q.task \in [Place -> Task] /\ q.occupied \in SUBSET Place /\ q \in Queue(Procs)
  BY OpenQueue DEF OnTime
<1>1. CASE Entries(q, idx) # {}
  <2>1. k \in Entries(q, idx)
    <3>1. Entries(q, idx) \subseteq Nat
      BY <1>0 DEF Entries, Place
    <3>2. \E i \in Entries(q, idx) : IsFirst(i, Entries(q, idx))
      BY <1>1, <3>1, LeastNatural DEF IsFirst
    <3> QED BY <3>2 DEF FirstOf
  <2>2. k \in Place /\ k \in q.occupied
    BY <1>0, <2>1 DEF Entries
  <2>3. t \in Task /\ t.vruntime = q.task[k].vruntime
    <3>1. weight_for_nice(n) \in {WEIGHT_TABLE[j] : j \in 1 .. 40}
      BY NiceHasWeight
    <3>2. q.task[k] \in Task
      BY <1>0, <2>2
    <3> DEFINE ww == weight_for_nice(n)
               WW == {WEIGHT_TABLE[j] : j \in 1 .. 40}
    <3>3. ww \in WW /\ q.task[k] \in [idx : Procs, vruntime : Nat, deadline : Nat, weight : WW]
      BY <3>1, <3>2 DEF Task
    <3> HIDE DEF ww, WW, k
    <3>4. /\ [q.task[k] EXCEPT !.weight = ww]
               \in [idx : Procs, vruntime : Nat, deadline : Nat, weight : WW]
          /\ [q.task[k] EXCEPT !.weight = ww].vruntime = q.task[k].vruntime
      BY <3>3
    <3> QED BY <3>4 DEF ww, WW, Task
  <2>4. set_nice(q, idx, n) = [q EXCEPT !.task[k] = t]
    BY <1>1 DEF set_nice
  <2> HIDE DEF k, t
  <2> QED BY <2>2, <2>3, <2>4, RewriteOnTime DEF OnTime
<1>2. CASE Entries(q, idx) = {}
  <2>1. set_nice(q, idx, n) = q
    BY <1>2 DEF set_nice
  <2> QED BY <2>1
<1> QED BY <1>1, <1>2

\* tick_current adds to the time of one entry.
LEMMA TickOnTime ==
    ASSUME NEW q, OnTime(q)
    PROVE  OnTime(tick_current(q))
<1>0. /\ q \in Queue(Procs) /\ q.task \in [Place -> Task]
      /\ q.min \in Nat /\ q.cur \in Place \cup {NoPlace}
  BY OpenQueue DEF OnTime
<1>1. CASE q.cur = NoPlace
  BY <1>1 DEF tick_current
<1>2. CASE q.cur # NoPlace
  <2> DEFINE k == q.cur
             d == (TICK_US * NICE0_WEIGHT) \div q.task[k].weight
             t == [q.task[k] EXCEPT !.vruntime = @ + d]
  <2>1. k \in Place /\ q.task[k] \in Task
    BY <1>0, <1>2
  <2>2. d \in Nat
    <3>1. TICK_US * NICE0_WEIGHT \in Nat
      BY DEF TICK_US, NICE0_WEIGHT
    <3> QED BY <2>1, <3>1, TaskFields, QuotientIsNat
  <2>3. tick_current(q) = [q EXCEPT !.task[k] = t]
    BY <1>2 DEF tick_current
  <2> HIDE DEF k, d
  <2>4. t \in Task /\ t.vruntime = q.task[k].vruntime + d
    BY <2>1, <2>2 DEF Task
  <2>5. k \in q.occupied => t.vruntime >= q.min
    BY <1>0, <2>1, <2>2, <2>4, TaskFields DEF OnTime
  <2> HIDE DEF t
  <2> QED BY <2>1, <2>3, <2>4, <2>5, RewriteOnTime
<1> QED BY <1>1, <1>2

\* requeue_current puts the task back no earlier than the clock.
LEMMA RequeueOnTime ==
    ASSUME NEW q, OnTime(q)
    PROVE  OnTime(requeue_current(q))
<1>0. /\ q \in Queue(Procs) /\ q.task \in [Place -> Task] /\ q.occupied \in SUBSET Place
      /\ q.count \in Nat /\ q.min \in Nat /\ q.cur \in Place \cup {NoPlace}
  BY OpenQueue DEF OnTime
<1>1. CASE q.cur = NoPlace
  BY <1>1 DEF requeue_current
<1>2. CASE q.cur # NoPlace
  <2> DEFINE k == q.cur
             t == q.task[k]
             v == IF t.vruntime < q.min THEN q.min ELSE t.vruntime
             u == [t EXCEPT !.vruntime = v, !.deadline = v + VirtualSlice(t.weight)]
             p == [q EXCEPT !.task[k] = u]
             n == q.count + 1
             r == [q EXCEPT !.task[k] = u, !.occupied = @ \cup {k}, !.count = @ + 1,
                            !.cur = NoPlace]
  <2>1. requeue_current(q) = recompute_min_vruntime(r)
    BY <1>2 DEF requeue_current
  <2>2. k \in Place /\ t \in Task
    BY <1>0, <1>2
  <2>3. v \in Nat /\ v >= q.min /\ v + VirtualSlice(t.weight) \in Nat
    <3>1. VirtualSlice(t.weight) \in Nat
      BY <2>2, TaskFields, VirtualSliceIsNat
    <3> QED BY <1>0, <2>2, <3>1, TaskFields
  <2>4. u \in Task /\ u.vruntime = v
    <3> DEFINE dl == v + VirtualSlice(t.weight)
    <3>1. u = [t EXCEPT !.vruntime = v, !.deadline = dl]
      OBVIOUS
    <3> HIDE DEF t, v, dl, u
    <3>2. dl \in Nat
      BY <2>3 DEF dl
    <3> QED BY <2>2, <2>3, <3>1, <3>2 DEF Task
  <2> HIDE DEF u, t
  <2>5. OnTime(p)
    BY <2>2, <2>3, <2>4, RewriteOnTime
  <2> HIDE DEF v
  <2>6. r = [task |-> p.task, occupied |-> q.occupied \cup {k}, count |-> n,
             min |-> q.min, cur |-> NoPlace]
    <3> DEFINE O == q.occupied \cup {k}
    <3>1. r = [q EXCEPT !.task = [q.task EXCEPT ![k] = u], !.occupied = O, !.count = n,
                        !.cur = NoPlace]
      BY <1>0 DEF Queue
    <3>2. p.task = [q.task EXCEPT ![k] = u]
      BY <1>0 DEF Queue
    <3> HIDE DEF r, p, O, n, k
    <3>3. r = [task |-> p.task, occupied |-> O, count |-> n, min |-> q.min, cur |-> NoPlace]
      BY <1>0, <3>1, <3>2 DEF Queue
    <3> QED BY <3>3 DEF O
  <2>7. /\ p.task \in [Place -> Task] /\ p.task[k] = u
        /\ p.occupied = q.occupied /\ p.min = q.min
    <3>1. p.task = [q.task EXCEPT ![k] = u] /\ p.occupied = q.occupied /\ p.min = q.min
      BY <1>0 DEF Queue
    <3> HIDE DEF p, k
    <3> QED BY <1>0, <2>2, <2>4, <3>1
  <2> HIDE DEF p, r, k
  <2>8. n \in Nat /\ q.occupied \cup {k} \in SUBSET Place /\ NoPlace \in Place \cup {NoPlace}
    BY <1>0, <2>2
  <2> HIDE DEF n
  <2>9. r \in Queue(Procs)
    BY <1>0, <2>6, <2>7, <2>8, MakeQueue
  <2>10. \A i \in q.occupied \cup {k} : p.task[i].vruntime >= q.min
    BY <2>3, <2>4, <2>5, <2>7 DEF OnTime
  <2>11. OnTime(r)
    BY <2>6, <2>9, <2>10 DEF OnTime
  <2> QED BY <2>1, <2>11, RecomputeOnTime
<1> QED BY <1>1, <1>2

-----------------------------------------------------------------------------
(* The scheduler.                                                          *)

\* The processes are finitely many.
LEMMA ProcsFinite == IsFiniteSet(Procs) /\ 0 \in Procs
BY NumProcsAssumption, FS_Interval DEF Procs

\* Handing over the processor, after any change of the queue that is on time.
LEMMA DispatchKeeps ==
    ASSUME NEW q, OnTime(q), NEW R, R \subseteq Procs, Dispatch(q, R)
    PROVE  OnTime(rq') /\ running' \in Procs \cup {NoProc} /\ ready' \subseteq Procs
<1> DEFINE q1 == recompute_min_vruntime(q)
<1>1. OnTime(q1)
  BY RecomputeOnTime
<1> HIDE DEF q1
<1>2. CASE q1.count = 0 \/ q1.occupied = {}
  BY <1>1, <1>2 DEF Dispatch, q1
<1>3. CASE ~ (q1.count = 0 \/ q1.occupied = {})
  <2>1. PICK i \in q1.occupied : /\ rq' = TakeAt(q1, i)
                                 /\ running' = q1.task[i].idx
                                 /\ ready' = R \ {q1.task[i].idx}
    BY <1>3 DEF Dispatch, q1
  <2> QED BY <1>1, <1>3, <2>1, TakeOnTime
<1> QED BY <1>2, <1>3

\* The first process is enqueued at time 0.
LEMMA ClockInitially == Init => ClockInv
<1> SUFFICES ASSUME Init PROVE ClockInv
  OBVIOUS
<1> DEFINE lv == [s \in Procs |-> 0]
           at == [s \in {0} |-> 0]
<1>1. OnTime(EmptyQueue)
  <2>1. EmptyTask \in Task
    <3>1. 1024 \in {WEIGHT_TABLE[k] : k \in 1 .. 40}
      <4>1. WEIGHT_TABLE[21] = 1024 /\ 21 \in 1 .. 40
        BY DEF WEIGHT_TABLE
      <4> QED BY <4>1
    <3> QED BY <3>1, ProcsFinite DEF EmptyTask, Task, NICE0_WEIGHT
  <2>2. EmptyQueue \in Queue(Procs)
    BY <2>1, MakeQueue DEF EmptyQueue
  <2> QED BY <2>2 DEF OnTime, EmptyQueue
<1>2. at \in Placements(EmptyQueue, {0})
  BY MaxRunnableAssumption DEF Placements, Free, EmptyQueue, Place
<1>3. lv \in [Procs -> Nice] /\ {0} \subseteq Procs /\ IsFiniteSet({0})
  <2>1. 0 \in Nice
    BY DEF Nice
  <2>2. IsFiniteSet({0})
    BY FS_Singleton
  <2> QED BY <2>1, <2>2, ProcsFinite
<1>4. rq = EnqueueAt(EmptyQueue, {0}, at, lv)
  BY DEF Init
<1> HIDE DEF at, lv
<1>5. OnTime(rq)
  BY <1>1, <1>2, <1>3, <1>4, EnqueueOnTime
<1>6. TypeOK
  <2>1. nice = lv
    BY DEF Init, lv
  <2> QED BY <1>3, <1>5, <2>1, ProcsFinite DEF Init, TypeOK, OnTime
<1> QED BY <1>5, <1>6 DEF ClockInv

\* Every step, timer ticks and preemptions included, keeps the invariant.
LEMMA ClockInductive == ClockInv /\ [PreemptNext]_vars => ClockInv'
<1> SUFFICES ASSUME ClockInv, [PreemptNext]_vars PROVE ClockInv'
  OBVIOUS
<1>0. /\ OnTime(rq) /\ ready \subseteq Procs /\ blocked \subseteq Procs
      /\ running \in Procs \cup {NoProc} /\ nice \in [Procs -> Nice]
  BY DEF ClockInv, TypeOK
<1> SUFFICES /\ OnTime(rq)' /\ ready' \subseteq Procs /\ blocked' \subseteq Procs
             /\ running' \in Procs \cup {NoProc} /\ nice' \in [Procs -> Nice]
  BY DEF ClockInv, TypeOK, OnTime
<1>1. CASE \E p \in Procs : Arrive(p)
  <2>1. PICK p \in Procs : Arrive(p)
    BY <1>1
  <2>2. nice' \in [Procs -> Nice]
    BY <1>0, <2>1 DEF Arrive, Nice
  <2>3. PICK at \in Placements(rq, {p}) : rq' = EnqueueAt(rq, {p}, at, nice')
    BY <2>1 DEF Arrive
  <2>4. {p} \subseteq Procs /\ IsFiniteSet({p})
    BY FS_Singleton
  <2>5. OnTime(rq')
    BY <1>0, <2>2, <2>3, <2>4, EnqueueOnTime
  <2> QED BY <1>0, <2>1, <2>2, <2>5 DEF Arrive, OnTime
<1>2. CASE Block
  <2>1. OnTime(remove_from_runqueue(rq, running))
    BY <1>0, RemoveOnTime
  <2>2. OnTime(rq') /\ running' \in Procs \cup {NoProc} /\ ready' \subseteq Procs
    BY <1>0, <1>2, <2>1, DispatchKeeps DEF Block
  <2> QED BY <1>0, <1>2, <2>2 DEF Block, OnTime
<1>3. CASE \E W \in SUBSET blocked : Exit(W)
  <2>1. PICK W \in SUBSET blocked : Exit(W)
    BY <1>3
  <2> DEFINE q == remove_from_runqueue(rq, running)
  <2>2. OnTime(q)
    BY <1>0, RemoveOnTime
  <2>3. PICK at \in Placements(q, W) : Dispatch(EnqueueAt(q, W, at, nice), ready \cup W)
    BY <2>1 DEF Exit
  <2>4. W \subseteq Procs /\ IsFiniteSet(W)
    BY <1>0, ProcsFinite, FS_Subset
  <2> HIDE DEF q
  <2>5. OnTime(EnqueueAt(q, W, at, nice))
    BY <1>0, <2>2, <2>4, EnqueueOnTime
  <2>6. OnTime(rq') /\ running' \in Procs \cup {NoProc} /\ ready' \subseteq Procs
    BY <1>0, <2>3, <2>4, <2>5, DispatchKeeps
  <2> QED BY <1>0, <2>1, <2>6 DEF Exit, OnTime
<1>4. CASE \E n \in Nices : SetNice(n)
  <2>1. PICK n \in Nices : SetNice(n)
    BY <1>4
  <2>2. n \in Nice
    BY NicesAssumption
  <2>3. OnTime(rq')
    BY <1>0, <2>1, <2>2, SetNiceOnTime DEF SetNice
  <2>4. nice' \in [Procs -> Nice]
    BY <1>0, <2>1, <2>2 DEF SetNice
  <2> QED BY <1>0, <2>1, <2>3, <2>4 DEF SetNice, OnTime
<1>5. CASE Tick
  <2>1. OnTime(rq')
    BY <1>0, <1>5, TickOnTime DEF Tick
  <2> QED BY <1>0, <1>5, <2>1 DEF Tick, OnTime
<1>6. CASE Preempt
  <2>1. OnTime(requeue_current(rq))
    BY <1>0, RequeueOnTime
  <2>2. ready \cup {running} \subseteq Procs
    BY <1>0, <1>6 DEF Preempt
  <2>3. OnTime(rq') /\ running' \in Procs \cup {NoProc} /\ ready' \subseteq Procs
    BY <1>6, <2>1, <2>2, DispatchKeeps DEF Preempt
  <2> QED BY <1>0, <1>6, <2>3 DEF Preempt, OnTime
<1>7. CASE UNCHANGED vars
  BY <1>0, <1>7 DEF vars, OnTime
<1> QED BY <1>1, <1>2, <1>3, <1>4, <1>5, <1>6, <1>7 DEF PreemptNext, Next

\* With the timer as its comments describe it, no task that waits in the
\* runqueue is behind MIN_VRUNTIME (enqueue_runqueue, requeue_current), for
\* any number of processes and any virtual time.
THEOREM ClockIsALowerBound == PreemptSpec => []NobodyBehindClock
<1>1. ClockInv => NobodyBehindClock
  BY DEF ClockInv, OnTime, NobodyBehindClock
<1> QED BY <1>1, ClockInitially, ClockInductive, PTL DEF PreemptSpec
=============================================================================
