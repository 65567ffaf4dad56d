-------------------------- MODULE RunqueueProofs --------------------------
(***************************************************************************)
(* What the operations on the runqueue preserve and which entries they add *)
(* and remove, for every MAX_RUNNABLE and every set of processes.          *)
(***************************************************************************)
EXTENDS Runqueue, FiniteSetTheorems, WellFoundedInduction, TLAPS

\* What every operation of the runqueue relies on: no process has two entries,
\* and TASK_COUNT is the number of entries.
OneEntryEach(q) == \A i, j \in q.occupied : q.task[i].idx = q.task[j].idx => i = j

WellFormed(q, S) ==
    /\ q \in Queue(S)
    /\ OneEntryEach(q)
    /\ q.count = Cardinality(q.occupied)

-----------------------------------------------------------------------------
(* Numbers.                                                                *)

\* Every weight of the table is a positive number.
LEMMA WeightsPositive == {WEIGHT_TABLE[k] : k \in 1 .. 40} \subseteq Nat \ {0}
<1> SUFFICES ASSUME NEW k \in 1 .. 40 PROVE WEIGHT_TABLE[k] \in Nat \ {0}
  OBVIOUS
<1> QED BY DEF WEIGHT_TABLE

\* A nice level has a weight of the table.
LEMMA NiceHasWeight ==
    \A n \in Nice : weight_for_nice(n) \in {WEIGHT_TABLE[k] : k \in 1 .. 40}
<1> SUFFICES ASSUME NEW n \in Nice PROVE \E k \in 1 .. 40 : weight_for_nice(n) = WEIGHT_TABLE[k]
  OBVIOUS
<1>1. n + 21 \in 1 .. 40
  BY DEF Nice
<1> QED BY <1>1 DEF weight_for_nice

\* A quotient of natural numbers is one.
LEMMA QuotientIsNat == \A a \in Nat, b \in Nat \ {0} : a \div b \in Nat
OBVIOUS

\* The virtual length of a slice is a natural number.
LEMMA VirtualSliceIsNat ==
    ASSUME NEW w \in Nat \ {0}
    PROVE  VirtualSlice(w) \in Nat
<1>1. slice_for_weight(w) \in Nat
  <2>1. BASE_SLICE_US * w \in Nat /\ NICE0_WEIGHT \in Nat \ {0}
    BY DEF BASE_SLICE_US, NICE0_WEIGHT
  <2>2. (BASE_SLICE_US * w) \div NICE0_WEIGHT \in Nat
    BY <2>1, QuotientIsNat
  <2> QED BY <2>2 DEF slice_for_weight, MIN_SLICE_US
<1>2. slice_for_weight(w) * NICE0_WEIGHT \in Nat
  BY <1>1 DEF NICE0_WEIGHT
<1> QED BY <1>2, QuotientIsNat DEF VirtualSlice

\* A non-empty set of natural numbers has a least element.
LEMMA LeastNatural ==
    ASSUME NEW T, T \subseteq Nat, T # {}
    PROVE  \E x \in T : \A y \in T : x <= y
<1> DEFINE R == {ss \in Nat \X Nat : ss[1] < ss[2]}
<1>1. IsWellFoundedOn(R, Nat)
  BY NatLessThanWellFounded DEF OpToRel
<1>2. \A x, y \in Nat : y < x => <<y, x>> \in R
  OBVIOUS
<1> HIDE DEF R
<1>3. PICK x \in T : \A y \in T : ~ (<<y, x>> \in R)
  BY <1>1, WFMin
<1>4. ASSUME NEW y \in T PROVE x <= y
  <2>1. x \in Nat /\ y \in Nat
    OBVIOUS
  <2>2. ~ (y < x)
    BY <1>2, <1>3, <2>1, Zenon
  <2> QED BY <2>1, <2>2
<1> QED BY <1>4

-----------------------------------------------------------------------------
(* The operations.                                                         *)

\* There are MAX_RUNNABLE places.
LEMMA PlacesFinite == IsFiniteSet(Place) /\ Cardinality(Place) = MaxRunnable
BY MaxRunnableAssumption, FS_Interval DEF Place

\* A queue has finitely many entries.
LEMMA EntriesFinite ==
    ASSUME NEW S, NEW q \in Queue(S)
    PROVE  /\ IsFiniteSet(q.occupied)
           /\ Cardinality(q.occupied) \in Nat
           /\ Cardinality(q.occupied) = 0 <=> q.occupied = {}
<1>1. q.occupied \in SUBSET Place
  BY DEF Queue
<1> QED BY <1>1, PlacesFinite, FS_Subset, FS_CardinalityType, FS_EmptySet

\* recompute_min_vruntime touches MIN_VRUNTIME only.
LEMMA RecomputeKeeps ==
    ASSUME NEW S, NEW q, WellFormed(q, S)
    PROVE  LET r == recompute_min_vruntime(q)
           IN  /\ WellFormed(r, S)
               /\ r.task = q.task /\ r.occupied = q.occupied
               /\ r.count = q.count /\ r.cur = q.cur
<1> DEFINE ahead == {i \in q.occupied : \A j \in q.occupied :
                                          q.task[i].vruntime <= q.task[j].vruntime}
           m == q.task[CHOOSE i \in ahead : TRUE].vruntime
<1>0. q \in Queue(S)
  BY DEF WellFormed
<1>1. CASE q.occupied = {}
  <2>1. recompute_min_vruntime(q) = q
    BY <1>1 DEF recompute_min_vruntime
  <2> QED BY <2>1
<1>2. CASE q.occupied # {}
  <2> DEFINE T == {q.task[i].vruntime : i \in q.occupied}
  <2>1. T \subseteq Nat /\ T # {}
    BY <1>0, <1>2 DEF Queue
  <2>2. \E x \in T : \A y \in T : x <= y
    <3> HIDE DEF T
    <3> QED BY <2>1, LeastNatural
  <2>3. ahead # {}
    BY <2>2
  <2>4. (CHOOSE i \in ahead : TRUE) \in q.occupied
    BY <2>3
  <2>5. m \in Nat
    BY <1>0, <2>4 DEF Queue
  <2>6. recompute_min_vruntime(q) = IF m > q.min THEN [q EXCEPT !.min = m] ELSE q
    BY <1>2 DEF recompute_min_vruntime
  <2> HIDE DEF m
  <2>7. [q EXCEPT !.min = m] \in Queue(S)
    BY <1>0, <2>5 DEF Queue
  <2>8. /\ [q EXCEPT !.min = m].task = q.task
        /\ [q EXCEPT !.min = m].occupied = q.occupied
        /\ [q EXCEPT !.min = m].count = q.count
        /\ [q EXCEPT !.min = m].cur = q.cur
    BY <1>0 DEF Queue
  <2>9. WellFormed([q EXCEPT !.min = m], S)
    BY <2>7, <2>8 DEF WellFormed, OneEntryEach
  <2> QED BY <2>6, <2>8, <2>9
<1> QED BY <1>1, <1>2

\* Taking an entry off the queue: by dequeue_runqueue, or by removal.
LEMMA DropEntry ==
    ASSUME NEW S, NEW q, WellFormed(q, S), NEW i \in q.occupied,
           NEW r \in Queue(S), r.task = q.task, r.occupied = q.occupied \ {i},
           r.count = q.count - 1
    PROVE  WellFormed(r, S) /\ Queued(r) = Queued(q) \ {q.task[i].idx}
<1>1. Cardinality(r.occupied) = Cardinality(q.occupied) - 1
  <2>1. IsFiniteSet(q.occupied)
    BY EntriesFinite DEF WellFormed
  <2>2. Cardinality(q.occupied \ {i}) = Cardinality(q.occupied) - 1
    BY <2>1, FS_RemoveElement
  <2> QED BY <2>2
<1>2. OneEntryEach(r)
  BY DEF WellFormed, OneEntryEach
<1>3. Queued(r) = Queued(q) \ {q.task[i].idx}
  BY DEF WellFormed, OneEntryEach, Queued
<1> QED BY <1>1, <1>2, <1>3 DEF WellFormed

\* dequeue_runqueue removes exactly the chosen entry.
LEMMA TakeAtKeeps ==
    ASSUME NEW S, NEW q, WellFormed(q, S), NEW i \in q.occupied
    PROVE  /\ WellFormed(TakeAt(q, i), S)
           /\ Queued(TakeAt(q, i)) = Queued(q) \ {q.task[i].idx}
<1> DEFINE r == TakeAt(q, i)
<1>0. q \in Queue(S)
  BY DEF WellFormed
<1>1. q.count - 1 \in Nat
  BY <1>0, EntriesFinite DEF WellFormed
<1>2. i \in Place
  BY <1>0 DEF Queue
<1>3. r \in Queue(S)
  BY <1>0, <1>1, <1>2 DEF Queue, TakeAt
<1>4. r.task = q.task /\ r.occupied = q.occupied \ {i} /\ r.count = q.count - 1
  BY <1>0 DEF Queue, TakeAt
<1> HIDE DEF r
<1>5. WellFormed(r, S) /\ Queued(r) = Queued(q) \ {q.task[i].idx}
  BY <1>3, <1>4, DropEntry
<1> QED BY <1>5 DEF r

\* The first entry of a process is its only one.
LEMMA OnlyEntry ==
    ASSUME NEW S, NEW q, WellFormed(q, S), NEW idx, idx \in Queued(q)
    PROVE  /\ FirstOf(Entries(q, idx)) \in q.occupied
           /\ q.task[FirstOf(Entries(q, idx))].idx = idx
<1> DEFINE at == Entries(q, idx)
<1>1. PICK j \in q.occupied : q.task[j].idx = idx
  BY DEF Queued
<1>2. at = {j}
  BY <1>1 DEF WellFormed, OneEntryEach, Entries
<1>3. j \in Nat
  <2>1. j \in Place
    BY <1>1 DEF WellFormed, Queue
  <2> QED BY <2>1 DEF Place
<1> HIDE DEF at
<1>4. j \in at /\ IsFirst(j, at)
  BY <1>2, <1>3 DEF IsFirst
<1>5. FirstOf(at) \in at
  BY <1>4 DEF FirstOf
<1> QED BY <1>1, <1>2, <1>5 DEF at

\* remove_from_runqueue leaves no entry of idx and every other one.
LEMMA RemoveKeeps ==
    ASSUME NEW S, NEW q, WellFormed(q, S), NEW idx
    PROVE  /\ WellFormed(remove_from_runqueue(q, idx), S)
           /\ Queued(remove_from_runqueue(q, idx)) = Queued(q) \ {idx}
<1> DEFINE r == remove_from_runqueue(q, idx)
           k == FirstOf(Entries(q, idx))
<1>0. q \in Queue(S)
  BY DEF WellFormed
<1>1. CASE idx \in Queued(q)
  <2>1. Entries(q, idx) # {} /\ k \in q.occupied /\ q.task[k].idx = idx
    <3>1. k \in q.occupied /\ q.task[k].idx = idx
      BY <1>1, OnlyEntry
    <3> QED BY <3>1 DEF Entries
  <2>2. q.count \in Nat /\ q.count # 0
    BY <1>0, <2>1, EntriesFinite DEF WellFormed
  <2>3. r = [q EXCEPT !.occupied = @ \ {k}, !.count = IF @ = 0 THEN 0 ELSE @ - 1]
    BY <2>1 DEF remove_from_runqueue
  <2> HIDE DEF k, r
  <2>4. r \in Queue(S)
    <3>1. (IF q.count = 0 THEN 0 ELSE q.count - 1) \in Nat
      BY <2>2
    <3>2. q.occupied \ {k} \in SUBSET Place
      BY <1>0 DEF Queue
    <3> QED BY <1>0, <2>3, <3>1, <3>2 DEF Queue
  <2>5. r.task = q.task /\ r.occupied = q.occupied \ {k} /\ r.count = q.count - 1
    BY <1>0, <2>2, <2>3 DEF Queue
  <2>6. WellFormed(r, S) /\ Queued(r) = Queued(q) \ {idx}
    BY <2>1, <2>4, <2>5, DropEntry
  <2> QED BY <2>6 DEF r
<1>2. CASE idx \notin Queued(q)
  <2>1. Entries(q, idx) = {}
    BY <1>2 DEF Queued, Entries
  <2>2. r = q \/ r = [q EXCEPT !.cur = NoPlace]
    BY <2>1 DEF remove_from_runqueue
  <2> HIDE DEF r
  <2>3. r \in Queue(S) /\ r.task = q.task /\ r.occupied = q.occupied /\ r.count = q.count
    BY <1>0, <2>2 DEF Queue
  <2>4. WellFormed(r, S)
    BY <2>3 DEF WellFormed, OneEntryEach
  <2>5. Queued(r) = Queued(q) \ {idx}
    BY <1>2, <2>3 DEF Queued
  <2> QED BY <2>4, <2>5 DEF r
<1> QED BY <1>1, <1>2

\* set_nice changes no entry but its weight.
LEMMA SetNiceKeeps ==
    ASSUME NEW S, NEW q, WellFormed(q, S), NEW idx, NEW n \in Nice
    PROVE  /\ WellFormed(set_nice(q, idx, n), S)
           /\ Queued(set_nice(q, idx, n)) = Queued(q)
<1> DEFINE r == set_nice(q, idx, n)
           k == FirstOf(Entries(q, idx))
           w == weight_for_nice(n)
<1>0. q \in Queue(S)
  BY DEF WellFormed
<1>1. CASE idx \in Queued(q)
  <2>1. Entries(q, idx) # {} /\ k \in q.occupied
    <3>1. k \in q.occupied /\ q.task[k].idx = idx
      BY <1>1, OnlyEntry
    <3> QED BY <3>1 DEF Entries
  <2>2. w \in {WEIGHT_TABLE[j] : j \in 1 .. 40}
    BY NiceHasWeight
  <2>3. r = [q EXCEPT !.task[k].weight = w]
    BY <2>1 DEF set_nice
  <2> HIDE DEF k, r, w
  <2>4. k \in Place
    BY <1>0, <2>1 DEF Queue
  <2>5. r.task = [q.task EXCEPT ![k].weight = w]
    BY <1>0, <2>3 DEF Queue
  <2>6. r.task \in [Place -> [idx : S, vruntime : Nat, deadline : Nat,
                              weight : {WEIGHT_TABLE[j] : j \in 1 .. 40}]]
    <3> DEFINE W == {WEIGHT_TABLE[j] : j \in 1 .. 40}
    <3>1. q.task \in [Place -> [idx : S, vruntime : Nat, deadline : Nat, weight : W]]
      BY <1>0 DEF Queue
    <3>2. w \in W
      BY <2>2
    <3> HIDE DEF W
    <3>3. r.task \in [Place -> [idx : S, vruntime : Nat, deadline : Nat, weight : W]]
      BY <2>4, <2>5, <3>1, <3>2
    <3> QED BY <3>3 DEF W
  <2>7. /\ r.occupied = q.occupied /\ r.count = q.count
        /\ r = [task |-> r.task, occupied |-> q.occupied, count |-> q.count,
                min |-> q.min, cur |-> q.cur]
    BY <1>0, <2>3 DEF Queue
  <2>8. r \in Queue(S)
    BY <1>0, <2>6, <2>7 DEF Queue
  <2>9. \A i \in Place : r.task[i].idx = q.task[i].idx
    BY <1>0, <2>4, <2>5 DEF Queue
  <2>10. q.occupied \subseteq Place
    BY <1>0 DEF Queue
  <2>11. WellFormed(r, S)
    BY <2>7, <2>8, <2>9, <2>10 DEF WellFormed, OneEntryEach
  <2>12. Queued(r) = Queued(q)
    BY <2>7, <2>9, <2>10 DEF Queued
  <2> QED BY <2>11, <2>12 DEF r
<1>2. CASE idx \notin Queued(q)
  <2>1. Entries(q, idx) = {}
    BY <1>2 DEF Queued, Entries
  <2>2. r = q
    BY <2>1 DEF set_nice
  <2> QED BY <2>2
<1> QED BY <1>1, <1>2

\* A new entry is a well-typed one.
LEMMA NewTaskType ==
    ASSUME NEW S, NEW q \in Queue(S), NEW idx \in S, NEW n \in Nice
    PROVE  /\ NewTask(q, idx, n) \in [idx : S, vruntime : Nat, deadline : Nat,
                                      weight : {WEIGHT_TABLE[k] : k \in 1 .. 40}]
           /\ NewTask(q, idx, n).idx = idx
<1> DEFINE w == weight_for_nice(n)
           W == {WEIGHT_TABLE[k] : k \in 1 .. 40}
<1>1. w \in W
  BY NiceHasWeight
<1>2. w \in Nat \ {0}
  BY <1>1, WeightsPositive
<1>3. q.min \in Nat /\ VirtualSlice(w) \in Nat
  BY <1>2, VirtualSliceIsNat DEF Queue
<1>4. q.min + VirtualSlice(w) \in Nat
  BY <1>3
<1>5. NewTask(q, idx, n) = [idx |-> idx, vruntime |-> q.min,
                            deadline |-> q.min + VirtualSlice(w), weight |-> w]
  BY DEF NewTask
<1> HIDE DEF w, W
<1>6. NewTask(q, idx, n) \in [idx : S, vruntime : Nat, deadline : Nat, weight : W]
  BY <1>1, <1>3, <1>4, <1>5
<1> QED BY <1>5, <1>6 DEF W

\* A queue with new entries, well typed, is a queue.
LEMMA ReplaceType ==
    ASSUME NEW S, NEW q \in Queue(S), NEW n \in Nat, NEW O \in SUBSET Place,
           NEW tk \in [Place -> [idx : S, vruntime : Nat, deadline : Nat,
                                 weight : {WEIGHT_TABLE[k] : k \in 1 .. 40}]]
    PROVE  [q EXCEPT !.task = tk, !.occupied = O, !.count = n] \in Queue(S)
BY DEF Queue

\* No two processes of W are put at the same place.
OneToOne(at, W) == \A s, t \in W : at[s] = at[t] => s = t

\* enqueue_runqueue takes a free place for each process.
LEMMA PlacementsOneToOne ==
    ASSUME NEW q, NEW W, W \subseteq Int, NEW at \in Placements(q, W)
    PROVE  OneToOne(at, W)
<1>1. at \in [W -> Free(q)] /\ \A s, t \in W : s < t => at[s] < at[t]
  BY DEF Placements
<1>2. \A s \in W : at[s] \in Int
  BY <1>1 DEF Free, Place
<1> SUFFICES ASSUME NEW s \in W, NEW t \in W, at[s] = at[t], s # t PROVE FALSE
  BY DEF OneToOne
<1>3. s < t \/ t < s
  OBVIOUS
<1> QED BY <1>1, <1>2, <1>3

\* The calls of enqueue_runqueue the kernel makes: for processes of S that are
\* not queued, each with its nice level.
CanEnqueue(q, S, W, at, nice) ==
    /\ WellFormed(q, S)
    /\ IsFiniteSet(W)
    /\ \A s \in W : s \in S /\ s \notin Queued(q)
    /\ at \in Placements(q, W)
    /\ OneToOne(at, W)
    /\ nice \in [S -> Nice]

\* enqueue_runqueue adds exactly the entries of W.
LEMMA EnqueueKeeps ==
    ASSUME NEW S, NEW q, NEW W, NEW at, NEW nice, CanEnqueue(q, S, W, at, nice)
    PROVE  /\ WellFormed(EnqueueAt(q, W, at, nice), S)
           /\ Queued(EnqueueAt(q, W, at, nice)) = Queued(q) \cup W
<1> DEFINE r == EnqueueAt(q, W, at, nice)
           A == {at[s] : s \in W}
           T == [idx : S, vruntime : Nat, deadline : Nat,
                 weight : {WEIGHT_TABLE[k] : k \in 1 .. 40}]
<1>. /\ WellFormed(q, S) /\ IsFiniteSet(W) /\ \A s \in W : s \in S /\ s \notin Queued(q)
     /\ at \in Placements(q, W) /\ OneToOne(at, W) /\ nice \in [S -> Nice]
  BY DEF CanEnqueue
<1>0. q \in Queue(S) /\ q.task \in [Place -> T] /\ q.occupied \subseteq Place /\ q.count \in Nat
  BY DEF WellFormed, Queue
<1>1. at \in [W -> Free(q)] /\ \A s, t \in W : s < t => at[s] < at[t]
  BY DEF Placements
<1>2. \A s \in W : at[s] \in Place /\ at[s] \notin q.occupied /\ at[s] \in Int
  BY <1>1 DEF Free, Place
<1>3. \A s, t \in W : at[s] = at[t] => s = t
  BY DEF OneToOne
<1> DEFINE tk == [i \in Place |-> IF \E s \in W : at[s] = i
                                   THEN NewTask(q, PutAt(W, at, i), nice[PutAt(W, at, i)])
                                   ELSE q.task[i]]
           n == q.count + Cardinality(W)
<1>4. r.task = tk /\ r.occupied = q.occupied \cup A /\ r.count = n
  <2>1. r = [q EXCEPT !.task = tk, !.occupied = q.occupied \cup A, !.count = n]
    BY DEF EnqueueAt
  <2> HIDE DEF r, tk, A, n
  <2> QED BY <1>0, <2>1 DEF Queue
<1>5. \A s \in W : PutAt(W, at, at[s]) = s
  BY <1>3 DEF PutAt
<1> HIDE DEF r, T
<1>6. \A s \in W : r.task[at[s]] = NewTask(q, s, nice[s])
  BY <1>2, <1>4, <1>5
<1>7. \A i \in q.occupied : i \in Place /\ r.task[i] = q.task[i]
  BY <1>0, <1>2, <1>4
<1>8. \A s \in W : NewTask(q, s, nice[s]) \in T /\ NewTask(q, s, nice[s]).idx = s
  BY <1>0, NewTaskType DEF T
<1>9. r.task \in [Place -> T]
  <2> SUFFICES ASSUME NEW i \in Place PROVE r.task[i] \in T
    BY <1>4
  <2>1. CASE \E s \in W : at[s] = i
    BY <1>6, <1>8, <2>1
  <2>2. CASE ~ \E s \in W : at[s] = i
    BY <1>0, <1>4, <2>2
  <2> QED BY <2>1, <2>2
<1>10. IsFiniteSet(A) /\ Cardinality(A) = Cardinality(W)
  <2>1. at \in Bijection(W, A)
    BY <1>1, <1>3 DEF Bijection, Injection, Surjection, IsInjective
  <2> HIDE DEF A
  <2>2. ExistsBijection(W, A)
    BY <2>1 DEF ExistsBijection
  <2> QED BY <2>2, FS_Bijection
<1>11. Cardinality(r.occupied) = Cardinality(q.occupied) + Cardinality(W)
  <2>1. q.occupied \cap A = {}
    BY <1>2
  <2> HIDE DEF A
  <2>2. Cardinality(q.occupied \cap A) = 0
    BY <2>1, FS_EmptySet
  <2>3. IsFiniteSet(q.occupied) /\ Cardinality(q.occupied) \in Nat /\ Cardinality(W) \in Nat
    BY <1>0, EntriesFinite, FS_CardinalityType
  <2>4. Cardinality(q.occupied \cup A)
          = Cardinality(q.occupied) + Cardinality(A) - Cardinality(q.occupied \cap A)
    BY <1>10, <2>3, FS_Union
  <2> QED BY <1>4, <1>10, <2>2, <2>3, <2>4
<1>12. r \in Queue(S)
  <2>1. q.occupied \cup A \in SUBSET Place
    BY <1>0, <1>2
  <2>2. n \in Nat
    BY <1>0, FS_CardinalityType
  <2>3. tk \in [Place -> T]
    BY <1>4, <1>9
  <2>4. r = [q EXCEPT !.task = tk, !.occupied = q.occupied \cup A, !.count = n]
    BY DEF EnqueueAt, r
  <2> HIDE DEF tk, n, A
  <2>5. tk \in [Place -> [idx : S, vruntime : Nat, deadline : Nat,
                          weight : {WEIGHT_TABLE[k] : k \in 1 .. 40}]]
    BY <2>3 DEF T
  <2> QED BY <1>0, <2>1, <2>2, <2>4, <2>5, ReplaceType
<1>13. \A i \in r.occupied :
         \/ i \in q.occupied /\ r.task[i].idx = q.task[i].idx /\ r.task[i].idx \in Queued(q)
         \/ \E s \in W : i = at[s] /\ r.task[i].idx = s
  BY <1>4, <1>6, <1>7, <1>8 DEF Queued
<1>14. OneEntryEach(r)
  <2> SUFFICES ASSUME NEW i \in r.occupied, NEW j \in r.occupied,
                      r.task[i].idx = r.task[j].idx
               PROVE  i = j
    BY DEF OneEntryEach
  <2>1. CASE i \in q.occupied /\ j \in q.occupied
    BY <1>7, <2>1 DEF WellFormed, OneEntryEach
  <2>2. CASE i \notin q.occupied /\ j \notin q.occupied
    <3>1. PICK s \in W : i = at[s] /\ r.task[i].idx = s
      BY <1>13, <2>2
    <3>2. PICK t \in W : j = at[t] /\ r.task[j].idx = t
      BY <1>13, <2>2
    <3> QED BY <3>1, <3>2
  <2>3. CASE i \in q.occupied /\ j \notin q.occupied
    <3>1. r.task[i].idx \in Queued(q)
      BY <1>2, <1>13, <2>3
    <3>2. PICK t \in W : j = at[t] /\ r.task[j].idx = t
      BY <1>13, <2>3
    <3> QED BY <3>1, <3>2
  <2>4. CASE i \notin q.occupied /\ j \in q.occupied
    <3>1. r.task[j].idx \in Queued(q)
      BY <1>2, <1>13, <2>4
    <3>2. PICK s \in W : i = at[s] /\ r.task[i].idx = s
      BY <1>13, <2>4
    <3> QED BY <3>1, <3>2
  <2> QED BY <2>1, <2>2, <2>3, <2>4
<1>15. Queued(r) = Queued(q) \cup W
  <2>1. Queued(r) \subseteq Queued(q) \cup W
    BY <1>13 DEF Queued
  <2>2. ASSUME NEW s \in W PROVE s \in Queued(r)
    <3>1. at[s] \in r.occupied /\ r.task[at[s]].idx = s
      BY <1>4, <1>6, <1>8
    <3> QED BY <3>1 DEF Queued
  <2>3. ASSUME NEW s \in Queued(q) PROVE s \in Queued(r)
    <3>1. PICK i \in q.occupied : q.task[i].idx = s
      BY DEF Queued
    <3>2. i \in r.occupied /\ r.task[i].idx = s
      BY <1>4, <1>7, <3>1
    <3> QED BY <3>2 DEF Queued
  <2> QED BY <2>1, <2>2, <2>3
<1>16. WellFormed(r, S)
  BY <1>4, <1>11, <1>12, <1>14 DEF WellFormed
<1> QED BY <1>15, <1>16 DEF r

\* Enqueuing and renicing leave the current place alone.
LEMMA CurKept ==
    ASSUME NEW S, NEW q \in Queue(S)
    PROVE  /\ \A W, at, nice : EnqueueAt(q, W, at, nice).cur = q.cur
           /\ \A idx, n : set_nice(q, idx, n).cur = q.cur
BY DEF Queue, EnqueueAt, set_nice

\* There is room for everybody who is not queued, if there is a place for each
\* process.
LEMMA RoomForAll ==
    ASSUME NEW S, IsFiniteSet(S), Cardinality(S) <= MaxRunnable, NEW q, WellFormed(q, S)
    PROVE  Cardinality(S \ Queued(q)) <= Cardinality(Free(q))
<1> DEFINE f == [i \in q.occupied |-> q.task[i].idx]
<1>0. /\ q \in Queue(S) /\ q.occupied \subseteq Place
      /\ \A i \in Place : q.task[i].idx \in S
  BY DEF WellFormed, Queue
<1>1. f \in Bijection(q.occupied, Queued(q))
  <2>1. f \in [q.occupied -> Queued(q)]
    BY DEF Queued
  <2>2. \A i, j \in q.occupied : f[i] = f[j] => i = j
    BY DEF WellFormed, OneEntryEach
  <2>3. \A s \in Queued(q) : \E i \in q.occupied : f[i] = s
    BY DEF Queued
  <2> HIDE DEF f
  <2> QED BY <2>1, <2>2, <2>3 DEF Bijection, Injection, Surjection, IsInjective
<1> HIDE DEF f
<1>2. ExistsBijection(q.occupied, Queued(q))
  BY <1>1 DEF ExistsBijection
<1>3. IsFiniteSet(Queued(q)) /\ Cardinality(Queued(q)) = Cardinality(q.occupied)
  BY <1>0, <1>2, EntriesFinite, FS_Bijection
<1>4. S \cap Queued(q) = Queued(q) /\ Place \cap q.occupied = q.occupied
  BY <1>0 DEF Queued
<1>5. Cardinality(S \ Queued(q)) = Cardinality(S) - Cardinality(Queued(q))
  <2>1. Cardinality(S \ Queued(q)) = Cardinality(S) - Cardinality(S \cap Queued(q))
    BY FS_Difference
  <2> QED BY <1>4, <2>1
<1>6. Cardinality(Place \ q.occupied) = MaxRunnable - Cardinality(q.occupied)
  <2>1. IsFiniteSet(Place) /\ Cardinality(Place) = MaxRunnable
    BY PlacesFinite
  <2> HIDE DEF Place
  <2>2. Cardinality(Place \ q.occupied) = Cardinality(Place) - Cardinality(Place \cap q.occupied)
    BY <2>1, FS_Difference
  <2> QED BY <1>4, <2>1, <2>2
<1>7. Cardinality(S) \in Nat /\ Cardinality(q.occupied) \in Nat /\ MaxRunnable \in Nat
  BY <1>0, EntriesFinite, FS_CardinalityType, MaxRunnableAssumption
<1> QED BY <1>3, <1>5, <1>6, <1>7 DEF Free
=============================================================================
