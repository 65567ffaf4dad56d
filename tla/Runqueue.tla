------------------------------ MODULE Runqueue ------------------------------
(***************************************************************************)
(* The EEVDF runqueue (kernel/process/scheduler/eevdf.rs) as operators on  *)
(* a queue record, so that a kernel handler that makes several calls on    *)
(* the runqueue is still one step.  A queue q has the fields               *)
(*   task      TASKS: what each place of the runqueue last held; a vacated *)
(*             place keeps its old entry (the "shadow copy")               *)
(*   occupied  the places whose occupied flag is set                       *)
(*   count     TASK_COUNT                                                  *)
(*   min       MIN_VRUNTIME                                                *)
(*   cur       CURRENT_TASK_SLOT, NoPlace when there is none               *)
(***************************************************************************)
EXTENDS Integers, FiniteSets, Sequences

CONSTANTS MaxRunnable   \* MAX_RUNNABLE, the number of places

ASSUME MaxRunnableAssumption == MaxRunnable \in Nat \ {0}

Place == 0 .. (MaxRunnable - 1)
NoPlace == -1

-----------------------------------------------------------------------------
(* Nice levels, weights, slices and deadlines, in microseconds.            *)

NICE0_WEIGHT == 1024
BASE_SLICE_US == 4000
MIN_SLICE_US == 500
TICK_US == 1000

WEIGHT_TABLE ==
    << 88761, 71755, 56483, 46273, 36291, 29154, 23254, 18705, 14949, 11916,
        9548,  7620,  6100,  4904,  3906,  3121,  2501,  1991,  1586,  1277,
        1024,   820,   655,   526,   423,   335,   272,   215,   172,   137,
         110,    87,    70,    56,    45,    36,    29,    23,    18,    15 >>

Nice == -20 .. 19

weight_for_nice(nice) == WEIGHT_TABLE[nice + 21]

slice_for_weight(weight) ==
    LET s == (BASE_SLICE_US * weight) \div NICE0_WEIGHT
    IN  IF s < MIN_SLICE_US THEN MIN_SLICE_US ELSE s

\* One slice in virtual time: the distance of a deadline, and the lag a task
\* may have and still be eligible.
VirtualSlice(weight) == (slice_for_weight(weight) * NICE0_WEIGHT) \div weight

-----------------------------------------------------------------------------
\* The queues over a set S of processes.
Queue(S) ==
    [task : [Place -> [idx : S, vruntime : Nat, deadline : Nat,
                       weight : {WEIGHT_TABLE[k] : k \in 1 .. 40}]],
     occupied : SUBSET Place, count : Nat, min : Nat, cur : Place \cup {NoPlace}]

EmptyTask == [idx |-> 0, vruntime |-> 0, deadline |-> 0, weight |-> NICE0_WEIGHT]

EmptyQueue ==
    [task |-> [i \in Place |-> EmptyTask], occupied |-> {}, count |-> 0,
     min |-> 0, cur |-> NoPlace]

Free(q) == Place \ q.occupied

\* The processes (table indices) that have an entry in the runqueue.
Queued(q) == {q.task[i].idx : i \in q.occupied}

IsFirst(i, S) == i \in S /\ \A j \in S : i <= j
FirstOf(S) == CHOOSE i \in S : IsFirst(i, S)

\* The places that hold an entry of process idx.
Entries(q, idx) == {i \in q.occupied : q.task[i].idx = idx}

\* MIN_VRUNTIME follows the smallest vruntime in the queue and never goes back.
recompute_min_vruntime(q) ==
    LET ahead == {i \in q.occupied : \A j \in q.occupied :
                                       q.task[i].vruntime <= q.task[j].vruntime}
        m == q.task[CHOOSE i \in ahead : TRUE].vruntime
    IN  IF q.occupied # {} /\ m > q.min THEN [q EXCEPT !.min = m] ELSE q

\* Mutant of NewTask: a task starts at vruntime 0.
NewTaskAtZero(q, idx, nice) ==
    LET w == weight_for_nice(nice)
    IN  [idx |-> idx, vruntime |-> 0, deadline |-> VirtualSlice(w), weight |-> w]

NewTask(q, idx, nice) ==
    LET w == weight_for_nice(nice)
    IN  [idx |-> idx, vruntime |-> q.min,
         deadline |-> q.min + VirtualSlice(w), weight |-> w]

\* Where a run of enqueue_runqueue calls puts the processes of S, taken in
\* table order: each into the first free place.
Placements(q, S) ==
    {at \in [S -> Free(q)] :
        /\ \A s, t \in S : s < t => at[s] < at[t]
        /\ \A s \in S : \A j \in Free(q) : j < at[s] => \E t \in S : at[t] = j}

\* The process of S that is put at place i.
PutAt(S, at, i) == CHOOSE s \in S : at[s] = i

\* enqueue_runqueue for every process of S, nice giving their nice levels.
\* It needs Placements(q, S) # {}; the kernel halts when the queue is full.
EnqueueAt(q, S, at, nice) ==
    [q EXCEPT !.task = [i \in Place |->
                           IF \E s \in S : at[s] = i
                           THEN NewTask(q, PutAt(S, at, i), nice[PutAt(S, at, i)])
                           ELSE q.task[i]],
              !.occupied = @ \cup {at[s] : s \in S},
              !.count = @ + Cardinality(S)]

eligible(q, i) == q.task[i].vruntime <= q.min + VirtualSlice(q.task[i].weight)

\* The scan of dequeue_runqueue: among the eligible tasks the first place with
\* the earliest deadline; when nobody is eligible, the first place with the
\* smallest vruntime.
IsBest(q, i) ==
    LET E == {j \in q.occupied : eligible(q, j)}
        key(j) == IF E # {} THEN q.task[j].deadline ELSE q.task[j].vruntime
        C == IF E # {} THEN E ELSE q.occupied
    IN  i \in C /\ \A j \in C : key(i) < key(j) \/ (key(i) = key(j) /\ i <= j)

\* Mutant of TakeAt: the occupied flag is not cleared.
TakeAtKeepsEntry(q, i) == [q EXCEPT !.count = @ - 1, !.cur = i]

\* dequeue_runqueue once it has chosen place i: the entry stays as a shadow.
TakeAt(q, i) == [q EXCEPT !.occupied = @ \ {i}, !.count = @ - 1, !.cur = i]

\* remove_from_runqueue: drops the first entry of idx; only when there is none
\* does it forget a current place that shows idx.
remove_from_runqueue(q, idx) ==
    IF Entries(q, idx) # {}
    THEN [q EXCEPT !.occupied = @ \ {FirstOf(Entries(q, idx))},
                   !.count = IF @ = 0 THEN 0 ELSE @ - 1]
    ELSE IF q.cur # NoPlace /\ q.task[q.cur].idx = idx
    THEN [q EXCEPT !.cur = NoPlace]
    ELSE q

\* set_nice: reweighs the first queued entry of idx, deadline unchanged.
set_nice(q, idx, nice) ==
    IF Entries(q, idx) # {}
    THEN [q EXCEPT !.task[FirstOf(Entries(q, idx))].weight = weight_for_nice(nice)]
    ELSE q

\* tick_current: one timer tick of the task shown at the current place.
tick_current(q) ==
    IF q.cur = NoPlace THEN q
    ELSE [q EXCEPT !.task[q.cur].vruntime =
                       @ + (TICK_US * NICE0_WEIGHT) \div q.task[q.cur].weight]

\* requeue_current: the current place becomes a queue entry again.
requeue_current(q) ==
    IF q.cur = NoPlace THEN q
    ELSE LET t == q.task[q.cur]
             v == IF t.vruntime < q.min THEN q.min ELSE t.vruntime
         IN  recompute_min_vruntime(
               [q EXCEPT !.task[q.cur] = [t EXCEPT !.vruntime = v,
                                                   !.deadline = v + VirtualSlice(t.weight)],
                         !.occupied = @ \cup {q.cur},
                         !.count = @ + 1,
                         !.cur = NoPlace])
=============================================================================
