----------------------------- MODULE NvmeProofs -----------------------------
(***************************************************************************)
(* The queues of the NVMe driver, for every number of commands and of      *)
(* waits that give up.                                                     *)
(***************************************************************************)
EXTENDS Nvme, TLAPS

Cmd == [cid : Nat, num : Nat]
Answer == [phase : {0, 1}, cid : Nat, ok : BOOLEAN, num : Nat]
QueueType == [sq : [0..1 -> Cmd], tail : Nat, head : Nat, cq : [0..1 -> Answer],
              fetched : Nat, posted : Nat, busy : Cmd]

DriverStates == {"off", "enabled", "identify", "identified", "create_cq", "cq_created",
                 "create_sq", "ready", "transfer", "failed"}
WaitType == [queue : Queues, cid : Nat, num : Nat]

NvType ==
    /\ nvq \in [Queues -> QueueType]
    /\ nvState \in DriverStates
    /\ nvWait \in WaitType
    /\ nvTimeouts \in Nat
    /\ nvMade \subseteq {1, 2}

\* The identifier of the command with index j of a queue.
CidOf(q, j) == IF q = "io" THEN 1 ELSE j

\* In queue q, whose record is a, the controller works on at most one command,
\* the one fetched last.
BusyIsLast(q, a) ==
    \/ a.fetched = a.posted /\ a.busy = NoCmd
    \/ /\ a.fetched = a.posted + 1
       /\ a.busy = [cid |-> CidOf(q, a.posted), num |-> a.fetched]

\* The commands behind the doorbell are in their places, all of them.
Waiting(q, a) ==
    /\ a.fetched <= a.tail /\ a.tail <= a.fetched + 2
    /\ \A j \in Nat : a.fetched <= j /\ j < a.tail =>
          a.sq[j % QUEUE_SIZE] = [cid |-> CidOf(q, j), num |-> j + 1]

\* e is the answer to the command with index j.
AnswerTo(q, e, j) ==
    e.phase = (j \div QUEUE_SIZE) % 2 /\ e.cid = CidOf(q, j) /\ e.num = j + 1

\* Each place of the completion queue holds the last answer posted to it.
Posted(q, a) ==
    \A k \in 0..1 :
        \/ a.posted <= k /\ a.cq[k] = NoAnswer
        \/ \E j \in Nat : /\ j < a.posted /\ a.posted <= j + 2 /\ j % QUEUE_SIZE = k
                          /\ AnswerTo(q, a.cq[k], j)

QueueOk(q, a) == BusyIsLast(q, a) /\ Waiting(q, a) /\ Posted(q, a)

\* How far the admin queue, of record a, is in each state st of the driver, which
\* waits for w; the answer to Identify may be taken before it is given.
AdminAt(a, st, w, made) ==
    /\ a.tail <= 3
    /\ st \in {"off", "enabled"} => a.tail = 0 /\ a.head = 0
    /\ st = "identify" => a.tail = 1 /\ a.head = 0 /\ w.queue = "admin" /\ w.cid = 0
    /\ st = "identified" => a.tail = 1 /\ a.head = 1
    /\ st = "create_cq" => /\ a.tail = 2 /\ a.head = 1
                           /\ w.queue = "admin" /\ w.cid = 1 /\ w.num = 2
    /\ st = "cq_created" => a.tail = 2 /\ a.head = 2 /\ a.posted = 2 /\ 1 \in made
    /\ st = "create_sq" => /\ a.tail = 3 /\ a.head = 2 /\ a.posted >= 2 /\ 1 \in made
                           /\ w.queue = "admin" /\ w.cid = 2 /\ w.num = 3
    /\ st \in {"ready", "transfer"} => a.tail = 1 \/ (a.tail = 3 /\ 1 \in made /\ 2 \in made)

\* A queue the controller said it created is there.
MadeIsMade(a, made) == \A k \in 0..1 : a.cq[k].ok /\ a.cq[k].cid # 0 => a.cq[k].cid \in made

\* The I/O queue: apart from commands whose wait gave up there is one at a time.
IoAt(a, st, w, timeouts) ==
    /\ st \notin {"ready", "transfer"} => a.tail = 0 /\ a.head = 0
    /\ st = "ready" => a.tail <= a.head + timeouts
    /\ st = "transfer" => /\ a.tail <= a.head + timeouts + 1
                          /\ w.queue = "io" /\ w.cid = 1 /\ w.num = a.tail
    /\ a.head <= a.posted

AdminOk(a, st, w, made) == QueueOk("admin", a) /\ AdminAt(a, st, w, made) /\ MadeIsMade(a, made)
IoOk(a, st, w, timeouts) == timeouts < 2 => QueueOk("io", a) /\ IoAt(a, st, w, timeouts)

\* The controller does not post over answers that were not taken.
NoOverrun == \A q \in Queues : nvq[q].posted <= nvq[q].head + 2

NvInv ==
    /\ NvType /\ NoOverrun
    /\ AdminOk(nvq["admin"], nvState, nvWait, nvMade)
    /\ IoOk(nvq["io"], nvState, nvWait, nvTimeouts)
    /\ AnswersAreOwn

-----------------------------------------------------------------------------
(* One queue.                                                              *)

\* Two indices that use the same place of a queue lie at least two apart.
LEMMA Places ==
    ASSUME NEW i \in Nat, NEW j \in Nat, i % QUEUE_SIZE = j % QUEUE_SIZE, i # j
    PROVE  i + 2 <= j \/ j + 2 <= i
BY DEF QUEUE_SIZE

\* Neighbouring laps have different phases.
LEMMA Phases ==
    ASSUME NEW j \in Nat
    PROVE  /\ (j \div QUEUE_SIZE) % 2 \in {0, 1} /\ j % QUEUE_SIZE \in 0..1
           /\ ((j + 2) \div QUEUE_SIZE) % 2 # (j \div QUEUE_SIZE) % 2
BY DEF QUEUE_SIZE

\* submit: the place of the new command was free when at most one was waiting.
LEMMA SubmitKeepsQueue ==
    ASSUME NEW q \in Queues, NEW a \in QueueType, NEW b \in QueueType,
           QueueOk(q, a), a.tail <= a.fetched + 1,
           b.sq = [a.sq EXCEPT ![a.tail % QUEUE_SIZE] = [cid |-> CidOf(q, a.tail), num |-> a.tail + 1]],
           b.tail = a.tail + 1, b.fetched = a.fetched, b.posted = a.posted, b.busy = a.busy,
           b.cq = a.cq
    PROVE  QueueOk(q, b)
<1>1. a.tail \in Nat /\ a.fetched \in Nat /\ a.sq \in [0..1 -> Cmd]
  BY DEF QueueType
<1>2. BusyIsLast(q, b) /\ Posted(q, b)
  BY DEF QueueOk, BusyIsLast, Posted
<1>3. ASSUME NEW j \in Nat, b.fetched <= j, j < b.tail
      PROVE  b.sq[j % QUEUE_SIZE] = [cid |-> CidOf(q, j), num |-> j + 1]
  <2>1. CASE j = a.tail
    BY <2>1, <1>1, Phases
  <2>2. CASE j # a.tail
    <3>1. a.fetched <= j /\ j < a.tail /\ a.tail < j + 2
      BY <2>2, <1>1, <1>3
    <3>2. j % QUEUE_SIZE # a.tail % QUEUE_SIZE
      BY <3>1, <1>1, Places
    <3>3. a.sq[j % QUEUE_SIZE] = [cid |-> CidOf(q, j), num |-> j + 1]
      BY <3>1 DEF QueueOk, Waiting
    <3> QED
      BY <3>2, <3>3, <1>1, Phases
  <2> QED
    BY <2>1, <2>2
<1>4. Waiting(q, b)
  BY <1>1, <1>3 DEF Waiting, QueueOk
<1> QED
  BY <1>2, <1>4 DEF QueueOk

\* A poll that succeeds moves the head only.
LEMMA AcceptKeepsQueue ==
    ASSUME NEW q, NEW a, NEW b, QueueOk(q, a),
           b.sq = a.sq, b.tail = a.tail, b.fetched = a.fetched, b.posted = a.posted,
           b.busy = a.busy, b.cq = a.cq
    PROVE  QueueOk(q, b)
BY DEF QueueOk, BusyIsLast, Waiting, Posted

\* The controller fetches the oldest command.
LEMMA FetchKeepsQueue ==
    ASSUME NEW q \in Queues, NEW a \in QueueType, NEW b \in QueueType,
           QueueOk(q, a), a.busy = NoCmd, a.fetched < a.tail,
           b.sq = a.sq, b.tail = a.tail, b.fetched = a.fetched + 1, b.posted = a.posted,
           b.busy = a.sq[a.fetched % QUEUE_SIZE], b.cq = a.cq
    PROVE  QueueOk(q, b)
<1>1. a.tail \in Nat /\ a.fetched \in Nat /\ a.posted \in Nat
  BY DEF QueueType
<1>2. a.fetched = a.posted
  <2>1. a.fetched = a.posted + 1 /\ a.busy = [cid |-> CidOf(q, a.posted), num |-> a.fetched] => FALSE
    BY <1>1 DEF NoCmd
  <2> QED
    BY <2>1 DEF QueueOk, BusyIsLast
<1>3. b.busy = [cid |-> CidOf(q, a.fetched), num |-> a.fetched + 1]
  BY <1>1 DEF QueueOk, Waiting
<1>4. BusyIsLast(q, b)
  BY <1>1, <1>2, <1>3 DEF BusyIsLast
<1>5. Waiting(q, b)
  BY <1>1 DEF QueueOk, Waiting
<1>6. Posted(q, b)
  BY DEF QueueOk, Posted
<1> QED
  BY <1>4, <1>5, <1>6 DEF QueueOk

\* The controller answers in the next place of the completion queue.
LEMMA PostKeepsQueue ==
    ASSUME NEW q \in Queues, NEW a \in QueueType, NEW b \in QueueType, NEW ok \in BOOLEAN,
           QueueOk(q, a), a.busy # NoCmd,
           b.sq = a.sq, b.tail = a.tail, b.fetched = a.fetched, b.posted = a.posted + 1,
           b.busy = NoCmd,
           b.cq = [a.cq EXCEPT ![a.posted % QUEUE_SIZE] =
                      [phase |-> (a.posted \div QUEUE_SIZE) % 2, cid |-> a.busy.cid, ok |-> ok,
                       num |-> a.busy.num]]
    PROVE  QueueOk(q, b) /\ a.busy = [cid |-> CidOf(q, a.posted), num |-> a.posted + 1]
<1>1. a.tail \in Nat /\ a.fetched \in Nat /\ a.posted \in Nat /\ a.cq \in [0..1 -> Answer]
  BY DEF QueueType
<1>2. a.fetched = a.posted + 1 /\ a.busy = [cid |-> CidOf(q, a.posted), num |-> a.posted + 1]
  BY DEF QueueOk, BusyIsLast
<1>3. BusyIsLast(q, b) /\ Waiting(q, b)
  BY <1>1, <1>2 DEF QueueOk, BusyIsLast, Waiting
<1>4. ASSUME NEW k \in 0..1
      PROVE  \/ b.posted <= k /\ b.cq[k] = NoAnswer
             \/ \E j \in Nat : /\ j < b.posted /\ b.posted <= j + 2 /\ j % QUEUE_SIZE = k
                               /\ AnswerTo(q, b.cq[k], j)
  <2>1. CASE k = a.posted % QUEUE_SIZE
    <3>1. AnswerTo(q, b.cq[k], a.posted)
      BY <2>1, <1>1, <1>2 DEF AnswerTo
    <3> QED
      BY <3>1, <2>1, <1>1
  <2>2. CASE k # a.posted % QUEUE_SIZE
    <3>1. b.cq[k] = a.cq[k]
      BY <2>2, <1>1
    <3>2. CASE a.posted <= k /\ a.cq[k] = NoAnswer
      <4>1. a.posted + 1 <= k
        BY <3>2, <2>2, <1>1 DEF QUEUE_SIZE
      <4> QED
        BY <3>1, <3>2, <4>1
    <3>3. ASSUME NEW j \in Nat, j < a.posted, a.posted <= j + 2, j % QUEUE_SIZE = k,
                 AnswerTo(q, a.cq[k], j)
          PROVE  j < b.posted /\ b.posted <= j + 2
      <4>1. a.posted # j + 2
        BY <3>3, <2>2, <1>1 DEF QUEUE_SIZE
      <4> QED
        BY <3>3, <4>1, <1>1
    <3>4. \/ a.posted <= k /\ a.cq[k] = NoAnswer
          \/ \E j \in Nat : /\ j < a.posted /\ a.posted <= j + 2 /\ j % QUEUE_SIZE = k
                            /\ AnswerTo(q, a.cq[k], j)
      BY DEF QueueOk, Posted
    <3> QED
      BY <3>1, <3>2, <3>3, <3>4
  <2> QED
    BY <2>1, <2>2
<1>5. Posted(q, b)
  BY <1>4 DEF Posted
<1> QED
  BY <1>2, <1>3, <1>5 DEF QueueOk

\* What a poll of place h finds: an answer of this lap, to the command with
\* index h; never one of the lap before.
LEMMA MatchIsOwn ==
    ASSUME NEW q \in Queues, NEW a \in QueueType, QueueOk(q, a), NEW cid \in Nat \ {0},
           a.posted <= a.head + 2,
           a.cq[a.head % QUEUE_SIZE].phase = (a.head \div QUEUE_SIZE) % 2,
           a.cq[a.head % QUEUE_SIZE].cid = cid,
           a.head <= a.posted
    PROVE  a.head < a.posted /\ AnswerTo(q, a.cq[a.head % QUEUE_SIZE], a.head)
<1>1. a.head \in Nat /\ a.posted \in Nat
  BY DEF QueueType
<1> DEFINE k == a.head % QUEUE_SIZE
<1>2. k \in 0..1
  BY <1>1, Phases
<1>3. a.cq[k] # NoAnswer
  BY DEF NoAnswer
<1>4. PICK j \in Nat : j < a.posted /\ a.posted <= j + 2 /\ j % QUEUE_SIZE = k /\ AnswerTo(q, a.cq[k], j)
  BY <1>2, <1>3 DEF QueueOk, Posted
<1>5. j # a.head => j + 2 = a.head \/ j = a.head + 1
  BY <1>1, <1>4, Places
<1>6. j + 2 # a.head
  BY <1>1, <1>4, Phases DEF AnswerTo
<1>7. j # a.head + 1
  BY <1>1, <1>4 DEF QUEUE_SIZE
<1> QED
  BY <1>4, <1>5, <1>6, <1>7
-----------------------------------------------------------------------------
(* What the steps do to the record of a queue.                             *)

\* Records with the fields of a queue, whatever the places hold.
Fields(S, C, B) == [sq : S, tail : Nat, head : Nat, cq : C, fetched : Nat, posted : Nat, busy : B]

LEMMA QueueFields == QueueType = Fields([0..1 -> Cmd], [0..1 -> Answer], Cmd)
BY DEF QueueType, Fields

OtherQueues(q) == \A r \in Queues \ {q} : nvq'[r] = nvq[r]

LEMMA SubmitEffect ==
    ASSUME NvType, NEW q \in Queues, NEW cid \in Nat, submit(q, cid)
    PROVE  LET a == nvq[q]
               b == nvq'[q]
           IN  /\ nvq' \in [Queues -> QueueType] /\ OtherQueues(q)
               /\ b.sq = [a.sq EXCEPT ![a.tail % QUEUE_SIZE] = [cid |-> cid, num |-> a.tail + 1]]
               /\ b.tail = a.tail + 1 /\ b.fetched = a.fetched /\ b.posted = a.posted
               /\ b.busy = a.busy /\ b.cq = a.cq /\ b.head = a.head
               /\ nvWait' = [queue |-> q, cid |-> cid, num |-> a.tail + 1]
<1> DEFINE a == nvq[q]
           new == [cid |-> cid, num |-> a.tail + 1]
           sq2 == [a.sq EXCEPT ![a.tail % QUEUE_SIZE] = new]
           n == a.tail + 1
           b == [a EXCEPT !.sq = sq2, !.tail = n]
<1>1. a \in QueueType /\ a.tail \in Nat
  BY DEF NvType, QueueType
<1>2. new \in Cmd
  BY <1>1 DEF Cmd
<1>3. sq2 \in [0..1 -> Cmd]
  <2> HIDE DEF new
  <2> QED
    BY <1>1, <1>2 DEF QueueType
<1>4. nvq' = [nvq EXCEPT ![q] = b]
  BY DEF submit, NvType, QueueType
<1>5. /\ b \in QueueType /\ b.sq = sq2 /\ b.tail = a.tail + 1 /\ b.fetched = a.fetched
      /\ b.posted = a.posted /\ b.busy = a.busy /\ b.cq = a.cq /\ b.head = a.head
  <2> DEFINE S == [0..1 -> Cmd]
             C == [0..1 -> Answer]
  <2>1. a \in Fields(S, C, Cmd) /\ n \in Nat /\ sq2 \in S
    BY <1>1, QueueFields, <1>3
  <2> HIDE DEF sq2, a, n, S, C
  <2>2. /\ b \in Fields(S, C, Cmd) /\ b.sq = sq2 /\ b.tail = n /\ b.fetched = a.fetched
        /\ b.posted = a.posted /\ b.busy = a.busy /\ b.cq = a.cq /\ b.head = a.head
    BY <2>1 DEF Fields
  <2> QED
    BY <2>2, QueueFields DEF n, S, C
<1>6. nvWait' = [queue |-> q, cid |-> cid, num |-> a.tail + 1]
  BY DEF submit
<1>7. nvq' \in [Queues -> QueueType] /\ OtherQueues(q) /\ nvq'[q] = b
  <2> HIDE DEF b
  <2> QED
    BY <1>4, <1>5 DEF NvType, OtherQueues
<1> QED
  BY <1>5, <1>6, <1>7

LEMMA AcceptEffect ==
    ASSUME NvType, NEW q \in Queues, nvq' = [nvq EXCEPT ![q].head = @ + 1]
    PROVE  LET a == nvq[q]
               b == nvq'[q]
           IN  /\ nvq' \in [Queues -> QueueType] /\ OtherQueues(q)
               /\ b.sq = a.sq /\ b.tail = a.tail /\ b.fetched = a.fetched /\ b.posted = a.posted
               /\ b.busy = a.busy /\ b.cq = a.cq /\ b.head = a.head + 1
<1> DEFINE a == nvq[q]
           b == [a EXCEPT !.head = a.head + 1]
<1>1. a \in QueueType
  BY DEF NvType
<1>2. nvq' = [nvq EXCEPT ![q] = b]
  OBVIOUS
<1>3. /\ b \in QueueType /\ b.sq = a.sq /\ b.tail = a.tail /\ b.fetched = a.fetched
      /\ b.posted = a.posted /\ b.busy = a.busy /\ b.cq = a.cq /\ b.head = a.head + 1
  <2> HIDE DEF a
  <2> QED
    BY <1>1 DEF QueueType
<1> HIDE DEF b
<1> QED
  BY <1>2, <1>3 DEF NvType, OtherQueues

LEMMA FetchEffect ==
    ASSUME NvType, NEW q \in Queues, Fetch(q)
    PROVE  LET a == nvq[q]
               b == nvq'[q]
           IN  /\ nvq' \in [Queues -> QueueType] /\ OtherQueues(q)
               /\ a.busy = NoCmd /\ a.fetched < a.tail
               /\ b.sq = a.sq /\ b.tail = a.tail /\ b.fetched = a.fetched + 1
               /\ b.posted = a.posted /\ b.busy = a.sq[a.fetched % QUEUE_SIZE]
               /\ b.cq = a.cq /\ b.head = a.head
<1> DEFINE a == nvq[q]
           c == a.sq[a.fetched % QUEUE_SIZE]
           n == a.fetched + 1
           b == [a EXCEPT !.fetched = n, !.busy = c]
<1>1. a \in QueueType /\ a.fetched \in Nat
  BY DEF NvType, QueueType
<1>2. nvq' = [nvq EXCEPT ![q] = b] /\ a.busy = NoCmd /\ a.fetched < a.tail
  BY DEF Fetch
<1>3. c \in Cmd
  BY <1>1, Phases DEF QueueType
<1>4. /\ b \in QueueType /\ b.sq = a.sq /\ b.tail = a.tail /\ b.fetched = a.fetched + 1
      /\ b.posted = a.posted /\ b.busy = c /\ b.cq = a.cq /\ b.head = a.head
  <2> DEFINE S == [0..1 -> Cmd]
             C == [0..1 -> Answer]
  <2>1. a \in Fields(S, C, Cmd) /\ n \in Nat /\ c \in Cmd
    BY <1>1, QueueFields, <1>3
  <2> HIDE DEF c, a, n, S, C
  <2>2. /\ b \in Fields(S, C, Cmd) /\ b.sq = a.sq /\ b.tail = a.tail /\ b.fetched = n
        /\ b.posted = a.posted /\ b.busy = c /\ b.cq = a.cq /\ b.head = a.head
    BY <2>1 DEF Fields
  <2> QED
    BY <2>2, QueueFields DEF n, S, C
<1> HIDE DEF b
<1> QED
  BY <1>2, <1>4 DEF NvType, OtherQueues

LEMMA PostEffect ==
    ASSUME NvType, NEW q \in Queues, NEW ok \in BOOLEAN, Post(q, ok)
    PROVE  LET a == nvq[q]
               b == nvq'[q]
           IN  /\ nvq' \in [Queues -> QueueType] /\ OtherQueues(q)
               /\ a.busy # NoCmd /\ a.posted < a.head + 2
               /\ b.sq = a.sq /\ b.tail = a.tail /\ b.fetched = a.fetched
               /\ b.posted = a.posted + 1 /\ b.busy = NoCmd /\ b.head = a.head
               /\ b.cq = [a.cq EXCEPT ![a.posted % QUEUE_SIZE] =
                            [phase |-> (a.posted \div QUEUE_SIZE) % 2, cid |-> a.busy.cid,
                             ok |-> ok, num |-> a.busy.num]]
<1> DEFINE a == nvq[q]
           e == [phase |-> (a.posted \div QUEUE_SIZE) % 2, cid |-> a.busy.cid, ok |-> ok,
                 num |-> a.busy.num]
           cq2 == [a.cq EXCEPT ![a.posted % QUEUE_SIZE] = e]
           n == a.posted + 1
           b == [a EXCEPT !.posted = n, !.busy = NoCmd, !.cq = cq2]
<1>1. a \in QueueType /\ a.posted \in Nat /\ a.head \in Nat /\ a.busy \in Cmd
  BY DEF NvType, QueueType
<1>2. nvq' = [nvq EXCEPT ![q] = b]
  BY DEF Post
<1>3. a.busy # NoCmd /\ a.posted < a.head + 2
  BY <1>1 DEF Post, QUEUE_SIZE
<1>4. e \in Answer
  BY <1>1, Phases DEF Answer, Cmd
<1>5. cq2 \in [0..1 -> Answer]
  <2> HIDE DEF e
  <2> QED
    BY <1>1, <1>4 DEF QueueType
<1>6. /\ b \in QueueType /\ b.sq = a.sq /\ b.tail = a.tail /\ b.fetched = a.fetched
      /\ b.posted = a.posted + 1 /\ b.busy = NoCmd /\ b.cq = cq2 /\ b.head = a.head
  <2>0. NoCmd \in Cmd
    BY DEF NoCmd, Cmd
  <2> DEFINE S == [0..1 -> Cmd]
             C == [0..1 -> Answer]
  <2>1. a \in Fields(S, C, Cmd) /\ n \in Nat /\ cq2 \in C /\ NoCmd \in Cmd
    BY <1>1, QueueFields, <1>5, <2>0
  <2> HIDE DEF a, cq2, n, S, C
  <2>2. /\ b \in Fields(S, C, Cmd) /\ b.sq = a.sq /\ b.tail = a.tail /\ b.fetched = a.fetched
        /\ b.posted = n /\ b.busy = NoCmd /\ b.cq = cq2 /\ b.head = a.head
    BY <2>1 DEF Fields
  <2> QED
    BY <2>2, QueueFields DEF n, S, C
<1>7. nvq' \in [Queues -> QueueType] /\ OtherQueues(q) /\ nvq'[q] = b
  <2> HIDE DEF b
  <2> QED
    BY <1>2, <1>6 DEF NvType, OtherQueues
<1> QED
  BY <1>3, <1>6, <1>7
-----------------------------------------------------------------------------
(* The driver's place in its queues.                                       *)

\* The order of the indices of a queue.
LEMMA QueueOrder ==
    ASSUME NEW q, NEW a \in QueueType, QueueOk(q, a)
    PROVE  /\ a.tail \in Nat /\ a.fetched \in Nat /\ a.posted \in Nat /\ a.head \in Nat
           /\ a.posted <= a.fetched /\ a.fetched <= a.tail /\ a.tail <= a.fetched + 2
           /\ a.busy # NoCmd => a.posted < a.tail
<1>1. a.tail \in Nat /\ a.fetched \in Nat /\ a.posted \in Nat /\ a.head \in Nat
  BY DEF QueueType
<1>2. (a.fetched = a.posted /\ a.busy = NoCmd) \/ a.fetched = a.posted + 1
  BY DEF QueueOk, BusyIsLast
<1>3. a.fetched <= a.tail /\ a.tail <= a.fetched + 2
  BY DEF QueueOk, Waiting
<1> QED
  BY <1>1, <1>2, <1>3

\* A command of the set-up is submitted, when the one before was answered.
LEMMA AdminSubmits ==
    ASSUME NEW a \in QueueType, NEW b \in QueueType, NEW from \in DriverStates,
           NEW to \in DriverStates, NEW cid \in Nat, NEW w \in WaitType, NEW v \in WaitType,
           NEW made \in SUBSET {1, 2}, AdminOk(a, from, w, made),
           \/ from = "enabled" /\ to = "identify" /\ cid = 0
           \/ from = "identified" /\ to = "create_cq" /\ cid = 1
           \/ from = "cq_created" /\ to = "create_sq" /\ cid = 2,
           b.sq = [a.sq EXCEPT ![a.tail % QUEUE_SIZE] = [cid |-> cid, num |-> a.tail + 1]],
           b.tail = a.tail + 1, b.fetched = a.fetched, b.posted = a.posted, b.busy = a.busy,
           b.cq = a.cq, b.head = a.head,
           v.queue = "admin", v.cid = cid, v.num = a.tail + 1
    PROVE  AdminOk(b, to, v, made)
<1>1. QueueOk("admin", a) /\ AdminAt(a, from, w, made) /\ MadeIsMade(a, made) /\ "admin" \in Queues
  BY DEF AdminOk, Queues
<1>2. /\ a.tail \in Nat /\ a.fetched \in Nat /\ a.posted \in Nat /\ a.posted <= a.fetched
  BY <1>1, QueueOrder
<1>3. cid = a.tail /\ a.tail <= a.fetched + 1 /\ CidOf("admin", a.tail) = cid
  BY <1>1, <1>2 DEF AdminAt, CidOf
<1>4. QueueOk("admin", b)
  BY <1>1, <1>3, SubmitKeepsQueue
<1>5. AdminAt(b, to, v, made)
  BY <1>1, <1>2, <1>3 DEF AdminAt
<1> QED
  BY <1>1, <1>4, <1>5 DEF AdminOk, MadeIsMade

\* b is a after its next answer was taken.
Taken(a, b) ==
    /\ b.sq = a.sq /\ b.tail = a.tail /\ b.fetched = a.fetched /\ b.posted = a.posted
    /\ b.busy = a.busy /\ b.cq = a.cq /\ b.head = a.head + 1

\* Where an answer e takes the set-up.
Outcome(from, to, e) ==
    \/ from = "identify" /\ to \in {"identified", "ready"}
    \/ from = "create_cq" /\ to = IF e.ok THEN "cq_created" ELSE "failed"
    \/ from = "create_sq" /\ to = IF e.ok THEN "ready" ELSE "failed"

\* Its answer is taken.  Only the one to Identify may be another's.
LEMMA AdminAccepts ==
    ASSUME NEW a \in QueueType, NEW b \in QueueType, NEW from \in DriverStates,
           NEW to \in DriverStates, NEW w \in WaitType, NEW made \in SUBSET {1, 2},
           AdminOk(a, from, w, made),
           NEW e \in Answer, e = a.cq[a.head % QUEUE_SIZE], e.cid = w.cid,
           Outcome(from, to, e), Taken(a, b)
    PROVE  AdminOk(b, to, w, made) /\ (w.cid = 0 \/ e.num = w.num)
<1>1. QueueOk("admin", a) /\ AdminAt(a, from, w, made) /\ MadeIsMade(a, made)
  BY DEF AdminOk
<1>2. /\ a.tail \in Nat /\ a.fetched \in Nat /\ a.posted \in Nat /\ a.head \in Nat
      /\ a.posted <= a.fetched /\ a.fetched <= a.tail
  BY <1>1, QueueOrder
<1>3. QueueOk("admin", b) /\ MadeIsMade(b, made)
  BY <1>1, AcceptKeepsQueue DEF MadeIsMade, Taken
<1>4. CASE from = "identify"
  <2>1. a.tail = 1 /\ a.head = 0 /\ w.cid = 0
    BY <1>1, <1>4 DEF AdminAt
  <2>2. AdminAt(b, to, w, made)
    BY <2>1, <1>4 DEF AdminAt, Outcome, Taken
  <2> QED
    BY <2>1, <2>2, <1>3 DEF AdminOk
<1>5. CASE from \in {"create_cq", "create_sq"}
  <2>1. /\ a.head \in {1, 2} /\ a.tail = a.head + 1 /\ w.cid = a.head /\ w.num = a.head + 1
        /\ from = "create_cq" => a.head = 1
        /\ from = "create_sq" => a.head = 2 /\ 1 \in made
    BY <1>1, <1>2, <1>5 DEF AdminAt, WaitType
  <2>2. a.head % QUEUE_SIZE \in 0..1 /\ e.cid = a.head /\ e.cid # 0
    BY <2>1, <1>2, Phases
  <2>3. e # NoAnswer
    BY <2>2 DEF NoAnswer
  <2>4. PICK j \in Nat : j < a.posted /\ AnswerTo("admin", e, j)
    BY <2>2, <2>3, <1>1 DEF QueueOk, Posted
  <2>5. j = a.head /\ e.num = j + 1
    BY <2>2, <2>4 DEF AnswerTo, CidOf
  <2>6. a.posted = a.head + 1 /\ e.num = w.num
    BY <2>1, <2>4, <2>5, <1>2
  <2>7. e.ok => a.head \in made
    BY <2>2, <1>1 DEF MadeIsMade
  <2>8. AdminAt(b, to, w, made)
    <3>1. CASE to = "failed"
      BY <3>1, <2>1 DEF AdminAt, Taken
    <3>2. CASE to = "cq_created" /\ from = "create_cq" /\ e.ok
      BY <3>2, <2>1, <2>6, <2>7 DEF AdminAt, Taken
    <3>3. CASE to = "ready" /\ from = "create_sq" /\ e.ok
      BY <3>3, <2>1, <2>6, <2>7 DEF AdminAt, Taken
    <3> QED
      BY <1>5, <3>1, <3>2, <3>3 DEF Outcome
  <2> QED
    BY <2>6, <2>8, <1>3 DEF AdminOk
<1> QED
  BY <1>4, <1>5 DEF Outcome

\* A transfer is submitted.
LEMMA IoSubmits ==
    ASSUME NEW a \in QueueType, NEW b \in QueueType, NEW w \in WaitType, NEW v \in WaitType,
           NEW t \in Nat,
           IoOk(a, "ready", w, t),
           b.sq = [a.sq EXCEPT ![a.tail % QUEUE_SIZE] = [cid |-> 1, num |-> a.tail + 1]],
           b.tail = a.tail + 1, b.fetched = a.fetched, b.posted = a.posted, b.busy = a.busy,
           b.cq = a.cq, b.head = a.head,
           v.queue = "io", v.cid = 1, v.num = a.tail + 1
    PROVE  IoOk(b, "transfer", v, t)
<1> SUFFICES ASSUME t < 2
             PROVE  QueueOk("io", b) /\ IoAt(b, "transfer", v, t)
  BY DEF IoOk
<1>1. QueueOk("io", a) /\ IoAt(a, "ready", w, t) /\ "io" \in Queues /\ CidOf("io", a.tail) = 1
  BY DEF IoOk, Queues, CidOf
<1>2. /\ a.tail \in Nat /\ a.fetched \in Nat /\ a.posted \in Nat /\ a.head \in Nat
      /\ a.posted <= a.fetched
  BY <1>1, QueueOrder
<1>3. a.tail <= a.head + t /\ a.head <= a.posted
  BY <1>1 DEF IoAt
<1>4. a.tail <= a.fetched + 1
  BY <1>2, <1>3
<1>5. QueueOk("io", b)
  BY <1>1, <1>4, SubmitKeepsQueue
<1>6. IoAt(b, "transfer", v, t)
  BY <1>2, <1>3 DEF IoAt
<1> QED
  BY <1>5, <1>6

\* The answer to a transfer is taken; if no wait gave up it is its own.
LEMMA IoAccepts ==
    ASSUME NEW a \in QueueType, NEW b \in QueueType, NEW w \in WaitType, NEW t \in Nat,
           IoOk(a, "transfer", w, t), a.posted <= a.head + 2,
           NEW e \in Answer, e = a.cq[a.head % QUEUE_SIZE], e.phase = (a.head \div QUEUE_SIZE) % 2,
           e.cid = w.cid,
           b.sq = a.sq, b.tail = a.tail, b.fetched = a.fetched, b.posted = a.posted,
           b.busy = a.busy, b.cq = a.cq, b.head = a.head + 1
    PROVE  IoOk(b, "ready", w, t) /\ (t = 0 => e.num = w.num)
<1> SUFFICES ASSUME t < 2
             PROVE  /\ QueueOk("io", b) /\ IoAt(b, "ready", w, t)
                    /\ t = 0 => e.num = w.num
  BY DEF IoOk
<1>1. QueueOk("io", a) /\ IoAt(a, "transfer", w, t) /\ "io" \in Queues
  BY DEF IoOk, Queues
<1>2. /\ a.tail \in Nat /\ a.fetched \in Nat /\ a.posted \in Nat /\ a.head \in Nat
      /\ a.posted <= a.fetched /\ a.fetched <= a.tail
  BY <1>1, QueueOrder
<1>3. a.tail <= a.head + t + 1 /\ a.head <= a.posted /\ w.cid = 1 /\ w.num = a.tail
  BY <1>1 DEF IoAt
<1>4. a.head < a.posted /\ AnswerTo("io", e, a.head)
  BY <1>1, <1>3, MatchIsOwn
<1>5. QueueOk("io", b)
  BY <1>1, AcceptKeepsQueue
<1>6. IoAt(b, "ready", w, t)
  BY <1>2, <1>3, <1>4 DEF IoAt
<1>7. t = 0 => e.num = w.num
  <2>1. e.num = a.head + 1
    BY <1>4 DEF AnswerTo
  <2> QED
    BY <2>1, <1>2, <1>3, <1>4
<1> QED
  BY <1>5, <1>6, <1>7

\* The controller fetches a command.
LEMMA FetchKeepsPlace ==
    ASSUME NEW a \in QueueType, NEW b \in QueueType, NEW st \in DriverStates, NEW w \in WaitType,
           a.busy = NoCmd, a.fetched < a.tail,
           b.sq = a.sq, b.tail = a.tail, b.fetched = a.fetched + 1, b.posted = a.posted,
           b.busy = a.sq[a.fetched % QUEUE_SIZE], b.cq = a.cq, b.head = a.head
    PROVE  /\ \A made \in SUBSET {1, 2} : AdminOk(a, st, w, made) => AdminOk(b, st, w, made)
           /\ \A t \in Nat : IoOk(a, st, w, t) => IoOk(b, st, w, t)
<1>1. \A q \in Queues : QueueOk(q, a) => QueueOk(q, b)
  BY FetchKeepsQueue
<1>2. "admin" \in Queues /\ "io" \in Queues
  BY DEF Queues
<1>3. \A made \in SUBSET {1, 2} : /\ AdminAt(a, st, w, made) => AdminAt(b, st, w, made)
                                  /\ MadeIsMade(a, made) => MadeIsMade(b, made)
  BY DEF AdminAt, MadeIsMade
<1>4. \A t \in Nat : IoAt(a, st, w, t) => IoAt(b, st, w, t)
  BY DEF IoAt
<1> QED
  BY <1>1, <1>2, <1>3, <1>4 DEF AdminOk, IoOk

\* The controller answers a command of the set-up; a queue is made with a good
\* answer only.
LEMMA AdminPosts ==
    ASSUME NEW a \in QueueType, NEW b \in QueueType, NEW st \in DriverStates, NEW w \in WaitType,
           NEW made \in SUBSET {1, 2}, NEW made2, NEW ok \in BOOLEAN,
           AdminOk(a, st, w, made), a.busy # NoCmd,
           b.sq = a.sq, b.tail = a.tail, b.fetched = a.fetched, b.posted = a.posted + 1,
           b.busy = NoCmd, b.head = a.head,
           b.cq = [a.cq EXCEPT ![a.posted % QUEUE_SIZE] =
                      [phase |-> (a.posted \div QUEUE_SIZE) % 2, cid |-> a.busy.cid, ok |-> ok,
                       num |-> a.busy.num]],
           made2 = made \/ (a.busy.cid # 0 /\ made2 = made \cup {a.busy.cid}),
           a.busy.cid # 0 /\ ok => made2 = made \cup {a.busy.cid}
    PROVE  made2 \in SUBSET {1, 2} /\ AdminOk(b, st, w, made2)
<1>1. QueueOk("admin", a) /\ AdminAt(a, st, w, made) /\ MadeIsMade(a, made) /\ "admin" \in Queues
  BY DEF AdminOk, Queues
<1>2. /\ a.tail \in Nat /\ a.posted \in Nat /\ a.posted < a.tail
  BY <1>1, QueueOrder
<1>3. QueueOk("admin", b) /\ a.busy.cid = a.posted
  <2>1. QueueOk("admin", b) /\ a.busy = [cid |-> CidOf("admin", a.posted), num |-> a.posted + 1]
    BY <1>1, PostKeepsQueue
  <2>2. CidOf("admin", a.posted) = a.posted
    BY DEF CidOf
  <2> QED
    BY <2>1, <2>2
<1>4. a.tail <= 3
  BY <1>1 DEF AdminAt
<1>5. made2 \in SUBSET {1, 2} /\ made \subseteq made2
  <2>1. a.busy.cid # 0 => a.busy.cid \in {1, 2}
    BY <1>2, <1>3, <1>4
  <2> QED
    BY <2>1
<1>6. AdminAt(b, st, w, made2)
  BY <1>1, <1>2, <1>5 DEF AdminAt
<1>7. MadeIsMade(b, made2)
  <2> SUFFICES ASSUME NEW k \in 0..1, b.cq[k].ok, b.cq[k].cid # 0
               PROVE  b.cq[k].cid \in made2
    BY DEF MadeIsMade
  <2>1. a.cq \in [0..1 -> Answer]
    BY DEF QueueType
  <2>2. CASE k = a.posted % QUEUE_SIZE
    <3>1. b.cq[k] = [phase |-> (a.posted \div QUEUE_SIZE) % 2, cid |-> a.busy.cid, ok |-> ok,
                     num |-> a.busy.num]
      BY <2>1, <2>2
    <3>2. b.cq[k].ok = ok /\ b.cq[k].cid = a.busy.cid
      BY <3>1
    <3>3. made2 = made \cup {a.busy.cid}
      BY <3>2, Zenon
    <3> QED
      BY <3>2, <3>3
  <2>3. CASE k # a.posted % QUEUE_SIZE
    <3>1. b.cq[k] = a.cq[k]
      BY <2>1, <2>3
    <3> QED
      BY <3>1, <1>1, <1>5 DEF MadeIsMade
  <2> QED
    BY <2>2, <2>3
<1> QED
  BY <1>3, <1>5, <1>6, <1>7 DEF AdminOk

\* The controller answers a transfer.
LEMMA IoPosts ==
    ASSUME NEW a \in QueueType, NEW b \in QueueType, NEW st \in DriverStates, NEW w \in WaitType,
           NEW t \in Nat, NEW ok \in BOOLEAN,
           IoOk(a, st, w, t), a.busy # NoCmd,
           b.sq = a.sq, b.tail = a.tail, b.fetched = a.fetched, b.posted = a.posted + 1,
           b.busy = NoCmd, b.head = a.head,
           b.cq = [a.cq EXCEPT ![a.posted % QUEUE_SIZE] =
                      [phase |-> (a.posted \div QUEUE_SIZE) % 2, cid |-> a.busy.cid, ok |-> ok,
                       num |-> a.busy.num]]
    PROVE  IoOk(b, st, w, t)
<1> SUFFICES ASSUME t < 2
             PROVE  QueueOk("io", b) /\ IoAt(b, st, w, t)
  BY DEF IoOk
<1>1. QueueOk("io", a) /\ IoAt(a, st, w, t) /\ "io" \in Queues
  BY DEF IoOk, Queues
<1>2. a.posted \in Nat /\ a.head \in Nat
  BY DEF QueueType
<1>3. QueueOk("io", b)
  BY <1>1, PostKeepsQueue
<1>4. IoAt(b, st, w, t)
  BY <1>1, <1>2 DEF IoAt
<1> QED
  BY <1>3, <1>4

-----------------------------------------------------------------------------
\* The inductive invariant of the driver and its controller: every command and
\* every answer is in its place, the set-up is as far as its queue says, and the
\* I/O queue holds one transfer besides those whose wait gave up.
THEOREM NvmeInvariant == NvmeSpec => []NvInv
<1> DEFINE A == nvq["admin"]
           I == nvq["io"]
<1>0. "admin" \in Queues /\ "io" \in Queues /\ \A q \in Queues : q = "admin" \/ q = "io"
  BY DEF Queues
<1>1. NvmeInit => NvInv
  <2> SUFFICES ASSUME NvmeInit
               PROVE  NvInv
    OBVIOUS
  <2>1. EmptyQueue \in QueueType
    BY DEF EmptyQueue, QueueType, Cmd, Answer, NoCmd, NoAnswer
  <2>2. A = EmptyQueue /\ I = EmptyQueue /\ nvq \in [Queues -> QueueType]
    BY <1>0, <2>1 DEF NvmeInit
  <2>3. \A q \in Queues : QueueOk(q, EmptyQueue)
    BY DEF QueueOk, BusyIsLast, Waiting, Posted, EmptyQueue
  <2>4. /\ EmptyQueue.tail = 0 /\ EmptyQueue.head = 0 /\ EmptyQueue.posted = 0
        /\ \A k \in 0..1 : EmptyQueue.cq[k].cid = 0
    BY DEF EmptyQueue, NoAnswer
  <2>5. nvState = "off" /\ nvWait \in WaitType /\ nvTimeouts = 0 /\ nvMade = {} /\ nvAlien = {}
    BY DEF NvmeInit, Idle, WaitType, Queues
  <2>6. NvType /\ NoOverrun
    BY <1>0, <2>2, <2>4, <2>5 DEF NvType, NoOverrun, DriverStates
  <2>7. AdminOk(A, nvState, nvWait, nvMade)
    BY <1>0, <2>2, <2>3, <2>4, <2>5 DEF AdminOk, AdminAt, MadeIsMade
  <2>8. IoOk(I, nvState, nvWait, nvTimeouts)
    BY <1>0, <2>2, <2>3, <2>4, <2>5 DEF IoOk, IoAt
  <2> QED
    BY <2>5, <2>6, <2>7, <2>8 DEF NvInv, AnswersAreOwn
<1>2. NvInv /\ [NvmeNext]_nvVars => NvInv'
  <2> SUFFICES ASSUME NvInv, [NvmeNext]_nvVars
               PROVE  NvInv'
    OBVIOUS
  <2>0. /\ NvType /\ NoOverrun /\ AnswersAreOwn
        /\ AdminOk(A, nvState, nvWait, nvMade) /\ IoOk(I, nvState, nvWait, nvTimeouts)
        /\ A \in QueueType /\ I \in QueueType /\ nvState \in DriverStates /\ nvWait \in WaitType
        /\ nvTimeouts \in Nat /\ nvMade \in SUBSET {1, 2}
    BY <1>0 DEF NvInv, NvType
  <2>a. A.tail \in Nat /\ A.head \in Nat /\ I.tail \in Nat /\ I.head \in Nat
        /\ A.posted \in Nat /\ I.posted \in Nat
    BY <2>0 DEF QueueType
  <2>b. A.posted <= A.head + 2 /\ I.posted <= I.head + 2
    BY <1>0, <2>0 DEF NoOverrun
  \* The new state has the invariant if its parts have.
  <2>c. ASSUME nvq' \in [Queues -> QueueType], nvState' \in DriverStates, nvWait' \in WaitType,
               nvTimeouts' \in Nat, nvMade' \in SUBSET {1, 2},
               A'.posted <= A'.head + 2, I'.posted <= I'.head + 2,
               AdminOk(A', nvState', nvWait', nvMade'), IoOk(I', nvState', nvWait', nvTimeouts'),
               AnswersAreOwn'
        PROVE  NvInv'
    BY <1>0, <2>c DEF NvInv, NvType, NoOverrun
  <2>1. CASE Enable \/ UNCHANGED nvVars
    <3>1. /\ nvq' = nvq /\ nvWait' = nvWait /\ nvTimeouts' = nvTimeouts /\ nvMade' = nvMade
          /\ nvAlien' = nvAlien
          /\ nvState' = nvState \/ (nvState = "off" /\ nvState' \in {"enabled", "failed"})
      BY <2>1 DEF Enable, nvVars
    <3>2. AdminOk(A, nvState', nvWait, nvMade) /\ IoOk(I, nvState', nvWait, nvTimeouts)
      BY <3>1, <2>0, <2>a DEF AdminOk, AdminAt, IoOk, IoAt
    <3>3. nvState' \in DriverStates
      BY <3>1, <2>0 DEF DriverStates
    <3>4. AnswersAreOwn'
      BY <3>1, <2>0 DEF AnswersAreOwn
    <3>5. nvq' \in [Queues -> QueueType]
      BY <3>1, <2>0 DEF NvType
    <3> QED
      BY <2>c, <2>0, <2>b, <3>1, <3>2, <3>3, <3>4, <3>5
  <2>2. CASE IdentifyLate \/ CreateQueueLate \/ TransferLate
    <3>1. /\ nvq' = nvq /\ nvWait' = nvWait /\ nvTimeouts' = nvTimeouts + 1 /\ nvMade' = nvMade
          /\ \/ nvState \in {"identify", "transfer"} /\ nvState' = "ready"
             \/ nvState \in {"create_cq", "create_sq"} /\ nvState' = "failed"
      BY <2>2 DEF IdentifyLate, CreateQueueLate, TransferLate, GiveUp
    <3>2. AdminOk(A, nvState', nvWait, nvMade)
      BY <3>1, <2>0 DEF AdminOk, AdminAt
    <3>3. IoOk(I, nvState', nvWait, nvTimeouts + 1)
      <4> SUFFICES ASSUME nvTimeouts + 1 < 2
                   PROVE  QueueOk("io", I) /\ IoAt(I, nvState', nvWait, nvTimeouts + 1)
        BY DEF IoOk
      <4>1. QueueOk("io", I) /\ IoAt(I, nvState, nvWait, nvTimeouts)
        BY <2>0 DEF IoOk
      <4> QED
        BY <4>1, <3>1, <2>0, <2>a DEF IoAt
    <3>4. nvState' \in DriverStates /\ nvTimeouts' \in Nat
      BY <3>1, <2>0 DEF DriverStates
    <3>5. AnswersAreOwn'
      BY <3>1, <2>0 DEF AnswersAreOwn
    <3>6. nvq' \in [Queues -> QueueType]
      BY <3>1, <2>0 DEF NvType
    <3> QED
      BY <2>c, <2>0, <2>b, <3>1, <3>2, <3>3, <3>4, <3>5, <3>6
  <2>3. CASE Identify \/ CreateQueue
    <3>1. PICK to \in DriverStates, cid \in {0, 1, 2} :
             /\ Submit(nvState, to, "admin", cid)
             /\ \/ nvState = "enabled" /\ to = "identify" /\ cid = 0
                \/ nvState = "identified" /\ to = "create_cq" /\ cid = 1
                \/ nvState = "cq_created" /\ to = "create_sq" /\ cid = 2
      <4>1. CASE Identify
        <5>1. Submit("enabled", "identify", "admin", 0) /\ nvState = "enabled"
          BY <4>1 DEF Identify, Submit
        <5>2. "identify" \in DriverStates
          BY DEF DriverStates
        <5> QED
          BY <5>1, <5>2
      <4>2. CASE nvState = "identified" /\ Submit("identified", "create_cq", "admin", 1)
        <5>1. "create_cq" \in DriverStates
          BY DEF DriverStates
        <5> QED
          BY <4>2, <5>1
      <4>3. CASE nvState = "cq_created" /\ Submit("cq_created", "create_sq", "admin", 2)
        <5>1. "create_sq" \in DriverStates
          BY DEF DriverStates
        <5> QED
          BY <4>3, <5>1
      <4> QED
        BY <2>3, <4>1, <4>2, <4>3 DEF CreateQueue, Submit
    <3>2. /\ nvState' = to /\ nvTimeouts' = nvTimeouts /\ nvMade' = nvMade /\ nvAlien' = nvAlien
          /\ submit("admin", cid) /\ cid \in Nat
      BY <3>1 DEF Submit
    <3>3. /\ nvq' \in [Queues -> QueueType] /\ I' = I
          /\ A'.sq = [A.sq EXCEPT ![A.tail % QUEUE_SIZE] = [cid |-> cid, num |-> A.tail + 1]]
          /\ A'.tail = A.tail + 1 /\ A'.fetched = A.fetched /\ A'.posted = A.posted
          /\ A'.busy = A.busy /\ A'.cq = A.cq /\ A'.head = A.head
          /\ nvWait' = [queue |-> "admin", cid |-> cid, num |-> A.tail + 1]
      BY <3>2, <2>0, <1>0, SubmitEffect DEF OtherQueues
    <3>4. /\ nvWait' \in WaitType /\ nvWait'.queue = "admin" /\ nvWait'.cid = cid
          /\ nvWait'.num = A.tail + 1
      BY <3>2, <3>3, <2>a, <1>0 DEF WaitType
    <3>5. A' \in QueueType
      BY <3>3, <1>0
    <3>6. AdminOk(A', to, nvWait', nvMade)
      <4>1. /\ A \in QueueType /\ nvState \in DriverStates /\ nvWait \in WaitType
            /\ nvMade \in SUBSET {1, 2} /\ AdminOk(A, nvState, nvWait, nvMade)
        BY <2>0
      <4>2. /\ to \in DriverStates
            /\ \/ nvState = "enabled" /\ to = "identify" /\ cid = 0
               \/ nvState = "identified" /\ to = "create_cq" /\ cid = 1
               \/ nvState = "cq_created" /\ to = "create_sq" /\ cid = 2
        BY <3>1
      <4>3. /\ A'.sq = [A.sq EXCEPT ![A.tail % QUEUE_SIZE] = [cid |-> cid, num |-> A.tail + 1]]
            /\ A'.tail = A.tail + 1 /\ A'.fetched = A.fetched /\ A'.posted = A.posted
            /\ A'.busy = A.busy /\ A'.cq = A.cq /\ A'.head = A.head
        BY <3>3
      <4> HIDE DEF A
      <4> QED
        BY <4>1, <4>2, <4>3, <3>2, <3>4, <3>5, AdminSubmits
    <3>7. IoOk(I, to, nvWait', nvTimeouts)
      BY <3>1, <2>0 DEF IoOk, IoAt
    <3>8. AnswersAreOwn'
      BY <3>2, <2>0 DEF AnswersAreOwn
    <3> QED
      BY <2>c, <2>0, <2>b, <3>2, <3>3, <3>4, <3>6, <3>7, <3>8
  <2>4. CASE IdentifyDone \/ CreateQueueDone
    <3> DEFINE e == A.cq[A.head % QUEUE_SIZE]
    <3>1. PICK onOk \in DriverStates, onError \in DriverStates :
             /\ Accept(nvState, onOk, onError)
             /\ \/ nvState = "identify" /\ onOk = "identified" /\ onError = "ready"
                \/ nvState = "create_cq" /\ onOk = "cq_created" /\ onError = "failed"
                \/ nvState = "create_sq" /\ onOk = "ready" /\ onError = "failed"
      <4>1. /\ "identified" \in DriverStates /\ "ready" \in DriverStates
            /\ "cq_created" \in DriverStates /\ "failed" \in DriverStates
        BY DEF DriverStates
      <4>2. \/ nvState = "identify" /\ Accept("identify", "identified", "ready")
            \/ nvState = "create_cq" /\ Accept("create_cq", "cq_created", "failed")
            \/ nvState = "create_sq" /\ Accept("create_sq", "ready", "failed")
        BY <2>4 DEF IdentifyDone, CreateQueueDone, Accept
      <4> QED
        BY <4>1, <4>2
    <3>2. nvWait.queue = "admin" /\ (nvState # "identify" => nvWait.cid # 0)
      BY <3>1, <2>0 DEF AdminOk, AdminAt
    <3>3. /\ nvTimeouts' = nvTimeouts /\ nvMade' = nvMade /\ nvWait' = nvWait
          /\ nvq' = [nvq EXCEPT !["admin"].head = @ + 1] /\ Matches("admin", nvWait.cid)
          /\ nvState' = (IF e.ok THEN onOk ELSE onError)
          /\ nvAlien' = (IF e.num = nvWait.num THEN nvAlien ELSE nvAlien \cup {nvWait})
      BY <3>1, <3>2 DEF Accept
    <3>4. e.cid = nvWait.cid
      BY <3>3 DEF Matches
    <3>5. /\ nvq' \in [Queues -> QueueType] /\ I' = I
          /\ A'.sq = A.sq /\ A'.tail = A.tail /\ A'.fetched = A.fetched /\ A'.posted = A.posted
          /\ A'.busy = A.busy /\ A'.cq = A.cq /\ A'.head = A.head + 1
      BY <3>3, <2>0, <1>0, AcceptEffect DEF OtherQueues
    <3>6. A' \in QueueType /\ e \in Answer
      BY <3>5, <2>0, <2>a, <1>0, Phases DEF QueueType
    <3>7. nvState' \in DriverStates /\ nvState' \in {onOk, onError}
      BY <3>3
    <3>8. Outcome(nvState, nvState', e)
      BY <3>1, <3>3, <3>7, Zenon DEF Outcome
    <3>9. AdminOk(A', nvState', nvWait, nvMade) /\ (nvWait.cid = 0 \/ e.num = nvWait.num)
      <4>1. e = A.cq[A.head % QUEUE_SIZE]
        OBVIOUS
      <4>2. /\ A \in QueueType /\ nvState \in DriverStates /\ nvWait \in WaitType
            /\ nvMade \in SUBSET {1, 2} /\ AdminOk(A, nvState, nvWait, nvMade)
        BY <2>0
      <4>3. Taken(A, A')
        BY <3>5 DEF Taken
      <4> HIDE DEF A, e
      <4> QED
        BY <4>1, <4>2, <4>3, <3>4, <3>6, <3>7, <3>8, AdminAccepts
    <3>10. IoOk(I, nvState', nvWait, nvTimeouts)
      <4>1. nvState \notin {"ready", "transfer"} /\ nvState' # "transfer"
        BY <3>1, <3>7
      <4> QED
        BY <4>1, <2>0, <2>a DEF IoOk, IoAt
    <3>11. AnswersAreOwn'
      BY <3>3, <3>9, <2>0 DEF AnswersAreOwn
    <3>12. A'.posted <= A'.head + 2 /\ I'.posted <= I'.head + 2
      BY <3>5, <2>a, <2>b
    <3>13. AdminOk(A', nvState', nvWait', nvMade') /\ IoOk(I', nvState', nvWait', nvTimeouts')
      BY <3>3, <3>5, <3>9, <3>10
    <3>14. nvWait' \in WaitType /\ nvTimeouts' \in Nat /\ nvMade' \in SUBSET {1, 2}
      BY <3>3, <2>0
    <3>15. nvq' \in [Queues -> QueueType]
      BY <3>5
    <3> QED
      BY <2>c, <3>7, <3>11, <3>12, <3>13, <3>14, <3>15
  <2>5. CASE Transfer
    <3>1. /\ nvState = "ready" /\ nvState' = "transfer" /\ nvTimeouts' = nvTimeouts
          /\ nvMade' = nvMade /\ nvAlien' = nvAlien /\ submit("io", 1)
      BY <2>5 DEF Transfer, Submit
    <3>2. /\ nvq' \in [Queues -> QueueType] /\ A' = A
          /\ I'.sq = [I.sq EXCEPT ![I.tail % QUEUE_SIZE] = [cid |-> 1, num |-> I.tail + 1]]
          /\ I'.tail = I.tail + 1 /\ I'.fetched = I.fetched /\ I'.posted = I.posted
          /\ I'.busy = I.busy /\ I'.cq = I.cq /\ I'.head = I.head
          /\ nvWait' = [queue |-> "io", cid |-> 1, num |-> I.tail + 1]
      BY <3>1, <2>0, <1>0, SubmitEffect DEF OtherQueues
    <3>3. /\ nvWait' \in WaitType /\ nvWait'.queue = "io" /\ nvWait'.cid = 1
          /\ nvWait'.num = I.tail + 1
      <4>1. nvWait' = [queue |-> "io", cid |-> 1, num |-> I.tail + 1] /\ I.tail + 1 \in Nat
        BY <3>2, <2>a
      <4> QED
        BY <4>1, <1>0 DEF WaitType
    <3>4. I' \in QueueType
      BY <3>2, <1>0
    <3>5. IoOk(I', "transfer", nvWait', nvTimeouts)
      <4> HIDE DEF I
      <4> QED
        BY <3>1, <3>2, <3>3, <3>4, <2>0, IoSubmits
    <3>6. AdminOk(A, "transfer", nvWait', nvMade)
      BY <3>1, <2>0 DEF AdminOk, AdminAt
    <3>7. AnswersAreOwn' /\ "transfer" \in DriverStates
      BY <3>1, <2>0 DEF AnswersAreOwn, DriverStates
    <3> QED
      BY <2>c, <2>0, <2>b, <3>1, <3>2, <3>3, <3>5, <3>6, <3>7
  <2>6. CASE TransferDone
    <3> DEFINE q == nvWait.queue
               e == nvq[q].cq[nvq[q].head % QUEUE_SIZE]
    <3>1. /\ nvState = "transfer" /\ nvState' = "ready" /\ nvTimeouts' = nvTimeouts
          /\ nvMade' = nvMade /\ nvWait' = nvWait /\ q \in Queues
          /\ nvq' = [nvq EXCEPT ![q].head = @ + 1] /\ Matches(q, nvWait.cid)
          /\ nvAlien' = (IF e.num = nvWait.num THEN nvAlien ELSE nvAlien \cup {nvWait})
      BY <2>6, <2>0 DEF TransferDone, Accept, WaitType
    <3>2. e.phase = (nvq[q].head \div QUEUE_SIZE) % 2 /\ e.cid = nvWait.cid
      BY <3>1 DEF Matches
    <3>3. /\ nvq' \in [Queues -> QueueType] /\ OtherQueues(q)
          /\ nvq'[q].sq = nvq[q].sq /\ nvq'[q].tail = nvq[q].tail
          /\ nvq'[q].fetched = nvq[q].fetched /\ nvq'[q].posted = nvq[q].posted
          /\ nvq'[q].busy = nvq[q].busy /\ nvq'[q].cq = nvq[q].cq
          /\ nvq'[q].head = nvq[q].head + 1
      <4> HIDE DEF q
      <4> QED
        BY <3>1, <2>0, AcceptEffect
    <3>4. /\ nvq' \in [Queues -> QueueType] /\ nvState' \in DriverStates /\ nvWait' \in WaitType
          /\ nvTimeouts' \in Nat /\ nvMade' \in SUBSET {1, 2}
      <4>1. "ready" \in DriverStates
        BY DEF DriverStates
      <4> QED
        BY <4>1, <3>1, <3>3, <2>0
    <3>5. CASE q = "io"
      <4>1. /\ A' = A /\ I' \in QueueType /\ e = I.cq[I.head % QUEUE_SIZE]
            /\ I'.sq = I.sq /\ I'.tail = I.tail /\ I'.fetched = I.fetched /\ I'.posted = I.posted
            /\ I'.busy = I.busy /\ I'.cq = I.cq /\ I'.head = I.head + 1
            /\ e.phase = (I.head \div QUEUE_SIZE) % 2
        <5>1. nvq[q] = I /\ nvq'[q] = I' /\ A' = A
          BY <3>3, <3>5, <1>0 DEF OtherQueues
        <5>2. I' \in QueueType
          BY <3>3, <1>0
        <5> HIDE DEF A, I, q
        <5> QED
          BY <5>1, <5>2, <3>2, <3>3
      <4>2. e \in Answer
        BY <4>1, <2>0, <2>a, Phases DEF QueueType
      <4>3. IoOk(I', "ready", nvWait, nvTimeouts) /\ (nvTimeouts = 0 => e.num = nvWait.num)
        <5> HIDE DEF I, e
        <5> QED
          BY <4>1, <4>2, <3>1, <3>2, <2>0, <2>b, IoAccepts
      <4>4. AdminOk(A, "ready", nvWait, nvMade)
        BY <3>1, <2>0 DEF AdminOk, AdminAt
      <4>5. AnswersAreOwn'
        BY <3>1, <4>3, <2>0 DEF AnswersAreOwn
      <4>6. A'.posted <= A'.head + 2 /\ I'.posted <= I'.head + 2
        BY <4>1, <2>a, <2>b
      <4>7. AdminOk(A', nvState', nvWait', nvMade') /\ IoOk(I', nvState', nvWait', nvTimeouts')
        BY <3>1, <4>1, <4>3, <4>4
      <4> QED
        BY <2>c, <3>4, <4>5, <4>6, <4>7
    <3>6. CASE q = "admin"
      <4>1. nvTimeouts >= 2
        BY <3>1, <3>6, <2>0 DEF IoOk, IoAt
      <4>2. /\ I' = I /\ A'.sq = A.sq /\ A'.tail = A.tail /\ A'.fetched = A.fetched
            /\ A'.posted = A.posted /\ A'.busy = A.busy /\ A'.cq = A.cq /\ A'.head = A.head + 1
        BY <3>3, <3>6, <1>0 DEF OtherQueues
      <4>3. AdminOk(A', "ready", nvWait, nvMade)
        <5>1. QueueOk("admin", A) /\ AdminAt(A, "transfer", nvWait, nvMade) /\ MadeIsMade(A, nvMade)
          BY <3>1, <2>0 DEF AdminOk
        <5>2. QueueOk("admin", A')
          BY <5>1, <4>2, AcceptKeepsQueue
        <5>3. AdminAt(A', "ready", nvWait, nvMade) /\ MadeIsMade(A', nvMade)
          BY <5>1, <4>2 DEF AdminAt, MadeIsMade
        <5> QED
          BY <5>2, <5>3 DEF AdminOk
      <4>4. IoOk(I', "ready", nvWait, nvTimeouts)
        BY <4>1, <2>0 DEF IoOk
      <4>5. AnswersAreOwn'
        <5>1. nvTimeouts' # 0
          BY <3>1, <4>1, <2>0
        <5> QED
          BY <5>1 DEF AnswersAreOwn
      <4>6. A'.posted <= A'.head + 2 /\ I'.posted <= I'.head + 2
        BY <4>2, <2>a, <2>b
      <4>7. AdminOk(A', nvState', nvWait', nvMade') /\ IoOk(I', nvState', nvWait', nvTimeouts')
        BY <3>1, <4>3, <4>4
      <4> QED
        BY <2>c, <3>4, <4>5, <4>6, <4>7
    <3> QED
      BY <3>1, <3>5, <3>6, <1>0
  <2>7. ASSUME NEW q \in Queues, Fetch(q)
        PROVE  NvInv'
    <3>1. /\ nvState' = nvState /\ nvWait' = nvWait /\ nvTimeouts' = nvTimeouts
          /\ nvMade' = nvMade /\ nvAlien' = nvAlien
      BY <2>7 DEF Fetch
    <3> DEFINE a == nvq[q]
               b == nvq'[q]
    <3>2. /\ nvq' \in [Queues -> QueueType] /\ OtherQueues(q)
          /\ a.busy = NoCmd /\ a.fetched < a.tail
          /\ b.sq = a.sq /\ b.tail = a.tail /\ b.fetched = a.fetched + 1
          /\ b.posted = a.posted /\ b.busy = a.sq[a.fetched % QUEUE_SIZE]
          /\ b.cq = a.cq /\ b.head = a.head
      BY <2>7, <2>0, FetchEffect
    <3>3. a \in QueueType /\ b \in QueueType
      BY <3>2, <2>0 DEF NvType
    <3>4. /\ \A made \in SUBSET {1, 2} : AdminOk(a, nvState, nvWait, made) => AdminOk(b, nvState, nvWait, made)
          /\ \A t \in Nat : IoOk(a, nvState, nvWait, t) => IoOk(b, nvState, nvWait, t)
      <4> HIDE DEF a, b
      <4> QED
        BY <3>2, <3>3, <2>0, FetchKeepsPlace
    <3>5. AnswersAreOwn'
      BY <3>1, <2>0 DEF AnswersAreOwn
    <3>6. CASE q = "admin"
      <4>1. I' = I /\ A'.posted = A.posted /\ A'.head = A.head /\ AdminOk(A', nvState, nvWait, nvMade)
        BY <3>2, <3>4, <3>6, <2>0, <1>0 DEF OtherQueues
      <4> QED
        BY <2>c, <2>0, <2>b, <3>1, <3>2, <3>5, <4>1
    <3>7. CASE q = "io"
      <4>1. A' = A /\ I'.posted = I.posted /\ I'.head = I.head /\ IoOk(I', nvState, nvWait, nvTimeouts)
        BY <3>2, <3>4, <3>7, <2>0, <1>0 DEF OtherQueues
      <4> QED
        BY <2>c, <2>0, <2>b, <3>1, <3>2, <3>5, <4>1
    <3> QED
      BY <3>6, <3>7, <1>0
  <2>8. ASSUME NEW q \in Queues, NEW ok \in BOOLEAN, Post(q, ok)
        PROVE  NvInv'
    <3> DEFINE a == nvq[q]
               b == nvq'[q]
    <3>1. /\ nvState' = nvState /\ nvWait' = nvWait /\ nvTimeouts' = nvTimeouts
          /\ nvAlien' = nvAlien
          /\ nvMade' = IF q = "admin" /\ a.busy.cid # 0 /\ ok THEN nvMade \cup {a.busy.cid} ELSE nvMade
      BY <2>8 DEF Post
    <3>2. /\ nvq' \in [Queues -> QueueType] /\ OtherQueues(q)
          /\ a.busy # NoCmd /\ a.posted < a.head + 2
          /\ b.sq = a.sq /\ b.tail = a.tail /\ b.fetched = a.fetched
          /\ b.posted = a.posted + 1 /\ b.busy = NoCmd /\ b.head = a.head
          /\ b.cq = [a.cq EXCEPT ![a.posted % QUEUE_SIZE] =
                       [phase |-> (a.posted \div QUEUE_SIZE) % 2, cid |-> a.busy.cid,
                        ok |-> ok, num |-> a.busy.num]]
      BY <2>8, <2>0, PostEffect
    <3>3. a \in QueueType /\ b \in QueueType
      BY <3>2, <2>0 DEF NvType
    <3>4. b.posted <= b.head + 2
      BY <3>2, <3>3 DEF QueueType
    <3>5. AnswersAreOwn'
      BY <3>1, <2>0 DEF AnswersAreOwn
    <3>6. CASE q = "admin"
      <4>1. nvMade' = IF a.busy.cid # 0 /\ ok THEN nvMade \cup {a.busy.cid} ELSE nvMade
        BY <3>1, <3>6, Zenon
      <4>2. AdminOk(a, nvState, nvWait, nvMade)
        BY <2>0, <3>6
      <4>3. nvMade' \in SUBSET {1, 2} /\ AdminOk(b, nvState, nvWait, nvMade')
        <5>1. nvState \in DriverStates /\ nvWait \in WaitType /\ nvMade \in SUBSET {1, 2}
          BY <2>0
        <5>2. ASSUME NEW made2,
                     made2 = nvMade \/ (a.busy.cid # 0 /\ made2 = nvMade \cup {a.busy.cid}),
                     a.busy.cid # 0 /\ ok => made2 = nvMade \cup {a.busy.cid}
              PROVE  made2 \in SUBSET {1, 2} /\ AdminOk(b, nvState, nvWait, made2)
          <6> HIDE DEF a, b
          <6> QED
            BY <5>1, <5>2, <4>2, <3>2, <3>3, AdminPosts
        <5>3. /\ nvMade' = nvMade \/ (a.busy.cid # 0 /\ nvMade' = nvMade \cup {a.busy.cid})
              /\ a.busy.cid # 0 /\ ok => nvMade' = nvMade \cup {a.busy.cid}
          BY <4>1, Zenon
        <5> QED
          BY <5>2, <5>3
      <4>4. I' = I /\ A' = b
        BY <3>2, <3>6, <1>0 DEF OtherQueues
      <4> QED
        BY <2>c, <2>0, <2>b, <3>1, <3>2, <3>4, <3>5, <4>3, <4>4
    <3>7. CASE q = "io"
      <4>1. nvMade' = nvMade
        BY <3>1, <3>7
      <4>2. IoOk(a, nvState, nvWait, nvTimeouts)
        BY <2>0, <3>7
      <4>3. IoOk(b, nvState, nvWait, nvTimeouts)
        <5> HIDE DEF a, b
        <5> QED
          BY <4>2, <3>2, <3>3, <2>0, IoPosts
      <4>4. A' = A /\ I' = b
        BY <3>2, <3>7, <1>0 DEF OtherQueues
      <4> QED
        BY <2>c, <2>0, <2>b, <3>1, <3>2, <3>4, <3>5, <4>1, <4>3, <4>4
    <3> QED
      BY <3>6, <3>7, <1>0
  <2> QED
    BY <2>1, <2>2, <2>3, <2>4, <2>5, <2>6, <2>7, <2>8 DEF NvmeNext, NvmeDriver, Controller
<1> QED
  BY <1>1, <1>2, PTL DEF NvmeSpec

\* For every number of commands: an answer is taken for its own command, the
\* controller works on live buffers only, and no command is overwritten before it
\* is fetched, each as long as waits give up no more often than stated.
THEOREM CommandsAreAnswered == NvmeSpec => []CommandsAnswered
<1>1. NvInv => CommandsAnswered
  <2> SUFFICES ASSUME NvInv
               PROVE  CommandsAnswered
    OBVIOUS
  <2>1. /\ nvq["admin"] \in QueueType /\ nvq["io"] \in QueueType /\ QueueOk("admin", nvq["admin"])
        /\ nvTimeouts \in Nat
        /\ nvTimeouts < 2 => QueueOk("io", nvq["io"]) /\ IoAt(nvq["io"], nvState, nvWait, nvTimeouts)
    BY DEF NvInv, NvType, AdminOk, IoOk, Queues
  <2>2. CommandsKept
    <3> SUFFICES ASSUME nvTimeouts < 2, NEW q \in Queues,
                        NEW n \in nvq[q].fetched..(nvq[q].tail - 1)
                 PROVE  nvq[q].sq[n % QUEUE_SIZE].num = n + 1
      BY DEF CommandsKept
    <3>1. QueueOk(q, nvq[q]) /\ nvq[q] \in QueueType
      BY <2>1 DEF Queues
    <3> DEFINE a == nvq[q]
    <3>2. a.fetched \in Nat /\ a.tail \in Nat
      BY <3>1 DEF QueueType
    <3>3. n \in Nat /\ a.fetched <= n /\ n < a.tail
      BY <3>2
    <3>4. a.sq[n % QUEUE_SIZE] = [cid |-> CidOf(q, n), num |-> n + 1]
      BY <3>1, <3>3 DEF QueueOk, Waiting
    <3> QED
      BY <3>4
  <2>3. BufferAlive
    <3> DEFINE a == nvq["io"]
    <3> SUFFICES ASSUME nvTimeouts = 0, a.busy # NoCmd
                 PROVE  nvState = "transfer" /\ nvWait.num = a.busy.num
      BY DEF BufferAlive
    <3>1. QueueOk("io", a) /\ IoAt(a, nvState, nvWait, nvTimeouts) /\ a \in QueueType
      BY <2>1
    <3>2. /\ a.tail \in Nat /\ a.fetched \in Nat /\ a.posted \in Nat /\ a.head \in Nat
          /\ a.posted < a.tail /\ a.fetched <= a.tail
      BY <3>1, QueueOrder
    <3>3. a.fetched = a.posted + 1 /\ a.busy.num = a.fetched
      BY <3>1 DEF QueueOk, BusyIsLast
    <3> HIDE DEF a
    <3>4. nvState = "transfer"
      BY <3>1, <3>2 DEF IoAt
    <3>5. a.tail <= a.head + 1 /\ a.head <= a.posted /\ nvWait.num = a.tail
      BY <3>1, <3>2, <3>4 DEF IoAt
    <3> QED
      BY <3>2, <3>3, <3>4, <3>5
  <2> QED
    BY <2>2, <2>3 DEF NvInv, CommandsAnswered
<1> QED
  BY <1>1, NvmeInvariant, PTL

\* For every number of commands and time-outs a driver that counts as
\* initialised, and asked for its I/O queues, has them.
THEOREM ReadyDriverHasQueues == NvmeSpec => []ReadyMeansQueues
<1>1. NvInv => ReadyMeansQueues
  <2> SUFFICES ASSUME NvInv, nvState \in {"ready", "transfer"}, nvq["admin"].tail > 1
               PROVE  nvMade = {1, 2}
    BY DEF ReadyMeansQueues
  <2>1. AdminAt(nvq["admin"], nvState, nvWait, nvMade) /\ nvMade \in SUBSET {1, 2}
    BY DEF NvInv, AdminOk, NvType
  <2>2. 1 \in nvMade /\ 2 \in nvMade
    BY <2>1 DEF AdminAt
  <2> QED
    BY <2>1, <2>2
<1> QED
  BY <1>1, NvmeInvariant, PTL
=============================================================================
