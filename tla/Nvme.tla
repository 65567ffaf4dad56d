-------------------------------- MODULE Nvme --------------------------------
(***************************************************************************)
(* The NVMe driver (kernel/drivers/nvme.rs): one admin queue and one I/O   *)
(* queue of two entries, polled, with a bounded number of polls.  The      *)
(* controller is external and does what the driver expects of it: it takes *)
(* the commands of a queue in order, and answers each in the next entry of *)
(* the completion queue, with the identifier of the command and a phase    *)
(* bit that changes at every lap.                                          *)
(*                                                                         *)
(* Every command has a number, so that an answer can be compared with the  *)
(* command it is taken for.  The tails and heads of the driver are 32-bit  *)
(* counters; the bound NvmeMaxCmds keeps them far from wrapping.           *)
(***************************************************************************)
EXTENDS Integers, FiniteSets

CONSTANTS NvmeMaxCmds,      \* bound: commands per queue
          NvmeMaxTimeouts   \* bound: waits that give up

QUEUE_SIZE == 2             \* ADMIN_QUEUE_SIZE and IO_QUEUE_SIZE
Queues == {"admin", "io"}

VARIABLES nvq,        \* per queue: entries, tails, heads, and what the controller holds
          nvState,    \* what the driver is doing
          nvWait,     \* the queue, identifier and number of the command waited for
          nvTimeouts, \* waits that gave up
          nvMade,     \* the I/O queues that the controller has created
          nvAlien     \* answers that were taken for the answer of another command

nvVars == <<nvq, nvState, nvWait, nvTimeouts, nvMade, nvAlien>>

NoAnswer == [phase |-> 0, cid |-> 0, ok |-> TRUE, num |-> 0]
NoCmd == [cid |-> 0, num |-> 0]
EmptyQueue == [sq |-> [k \in 0..1 |-> NoCmd], tail |-> 0, head |-> 0,
               cq |-> [k \in 0..1 |-> NoAnswer], fetched |-> 0, posted |-> 0, busy |-> NoCmd]
Idle == [queue |-> "io", cid |-> 0, num |-> 0]

NvmeInit ==
    /\ nvq = [q \in Queues |-> EmptyQueue]
    /\ nvState = "off" /\ nvWait = Idle
    /\ nvTimeouts = 0 /\ nvMade = {} /\ nvAlien = {}

\* admin_submit, io_submit_read and io_submit_write: the entry, the tail, the doorbell.
submit(q, cid) ==
    LET n == nvq[q].tail + 1
    IN  /\ n <= NvmeMaxCmds
        /\ nvq' = [nvq EXCEPT ![q].sq[nvq[q].tail % QUEUE_SIZE] = [cid |-> cid, num |-> n],
                              ![q].tail = n]
        /\ nvWait' = [queue |-> q, cid |-> cid, num |-> n]

\* Mutant of Matches: the phase is not looked at.
MatchesAnyPhase(q, cid) == nvq[q].cq[nvq[q].head % QUEUE_SIZE].cid = cid

\* The test of one poll: the entry at the head has the phase of this lap and the identifier.
Matches(q, cid) ==
    LET e == nvq[q].cq[nvq[q].head % QUEUE_SIZE]
    IN  e.phase = (nvq[q].head \div QUEUE_SIZE) % 2 /\ e.cid = cid

\* A poll of admin_wait_completion or io_wait_completion that succeeds; the next state
\* of the driver depends on the status.
Accept(from, onOk, onError) ==
    LET q == nvWait.queue
        e == nvq[q].cq[nvq[q].head % QUEUE_SIZE]
    IN  /\ nvState = from
        /\ Matches(q, nvWait.cid)
        /\ nvq' = [nvq EXCEPT ![q].head = @ + 1]
        /\ nvState' = IF e.ok THEN onOk ELSE onError
        /\ nvAlien' = IF e.num = nvWait.num THEN nvAlien ELSE nvAlien \cup {nvWait}
        /\ UNCHANGED <<nvWait, nvTimeouts, nvMade>>

\* The polls are used up.
GiveUp(from, to) ==
    /\ nvState = from
    /\ nvTimeouts < NvmeMaxTimeouts
    /\ nvTimeouts' = nvTimeouts + 1
    /\ nvState' = to
    /\ UNCHANGED <<nvq, nvWait, nvMade, nvAlien>>

Submit(from, to, q, cid) ==
    /\ nvState = from
    /\ submit(q, cid)
    /\ nvState' = to
    /\ UNCHANGED <<nvTimeouts, nvMade, nvAlien>>

-----------------------------------------------------------------------------
(* init_from_boot_info: without a BAR, or when the controller does not     *)
(* come up, the driver stays off; a failed Identify is ignored.            *)

Enable ==
    /\ nvState = "off"
    /\ nvState' \in {"enabled", "failed"}
    /\ UNCHANGED <<nvq, nvWait, nvTimeouts, nvMade, nvAlien>>

Identify == Submit("enabled", "identify", "admin", 0)
IdentifyDone == Accept("identify", "identified", "ready")
IdentifyLate == GiveUp("identify", "ready")

\* Mutant of CreateQueueDone: the answer to Create I/O CQ is not looked at.
CreateQueueDoneAnyhow ==
    \/ Accept("create_cq", "cq_created", "cq_created")
    \/ Accept("create_sq", "ready", "ready")

CreateQueue ==
    \/ Submit("identified", "create_cq", "admin", 1)
    \/ Submit("cq_created", "create_sq", "admin", 2)

CreateQueueDone ==
    \/ Accept("create_cq", "cq_created", "failed")
    \/ Accept("create_sq", "ready", "failed")

CreateQueueLate == \E s \in {"create_cq", "create_sq"} : GiveUp(s, "failed")

\* read_blocks and write_blocks: identifier 1, always.
Transfer == Submit("ready", "transfer", "io", 1)
TransferDone == Accept("transfer", "ready", "ready")
TransferLate == GiveUp("transfer", "ready")

-----------------------------------------------------------------------------
(* The controller.  It does not fetch beyond the doorbell, and does not    *)
(* post an answer over one that was not taken.                             *)

Fetch(q) ==
    LET c == nvq[q].sq[nvq[q].fetched % QUEUE_SIZE]
    IN  /\ nvState # "off" /\ nvq[q].busy = NoCmd
        /\ nvq[q].fetched < nvq[q].tail
        /\ q = "io" => nvMade = {1, 2}
        /\ nvq' = [nvq EXCEPT ![q].fetched = @ + 1, ![q].busy = c]
        /\ UNCHANGED <<nvState, nvWait, nvTimeouts, nvMade, nvAlien>>

Post(q, ok) ==
    LET c == nvq[q].busy
        k == nvq[q].posted
    IN  /\ c # NoCmd
        /\ k - nvq[q].head < QUEUE_SIZE
        /\ nvq' = [nvq EXCEPT ![q].posted = k + 1, ![q].busy = NoCmd,
                              ![q].cq[k % QUEUE_SIZE] = [phase |-> (k \div QUEUE_SIZE) % 2,
                                                         cid |-> c.cid, ok |-> ok, num |-> c.num]]
        /\ nvMade' = IF q = "admin" /\ c.cid # 0 /\ ok THEN nvMade \cup {c.cid} ELSE nvMade
        /\ UNCHANGED <<nvState, nvWait, nvTimeouts, nvAlien>>

NvmeDriver ==
    \/ Enable \/ Identify \/ IdentifyDone \/ IdentifyLate
    \/ CreateQueue \/ CreateQueueDone \/ CreateQueueLate
    \/ Transfer \/ TransferDone \/ TransferLate

Controller == \E q \in Queues : Fetch(q) \/ \E ok \in BOOLEAN : Post(q, ok)

NvmeNext == NvmeDriver \/ Controller

NvmeSpec == NvmeInit /\ [][NvmeNext]_nvVars

-----------------------------------------------------------------------------
(***************************************************************************)
(* While no wait has given up, the answer that ends the wait for a         *)
(* transfer or for the creation of a queue is the answer to that command:  *)
(* the phase bit keeps the answers of the previous lap apart, although all *)
(* transfers have the identifier 1.  (Identify has the identifier of an    *)
(* entry nobody has written, and is not waited for at all.)                *)
(***************************************************************************)
AnswersAreOwn == nvTimeouts = 0 => \A w \in nvAlien : w.cid = 0

(***************************************************************************)
(* The controller works on a transfer only while its caller waits, so that *)
(* the buffer is still there; a wait that gave up ends this.               *)
(***************************************************************************)
BufferAlive ==
    nvTimeouts = 0 /\ nvq["io"].busy # NoCmd =>
        nvState = "transfer" /\ nvWait.num = nvq["io"].busy.num

(***************************************************************************)
(* A command is not overwritten in its queue before the controller has     *)
(* fetched it, as long as at most one wait has given up: the queues have   *)
(* room for one command that nobody waits for.                             *)
(***************************************************************************)
CommandsKept ==
    nvTimeouts < 2 =>
        \A q \in Queues : \A n \in nvq[q].fetched..(nvq[q].tail - 1) :
            nvq[q].sq[n % QUEUE_SIZE].num = n + 1

(***************************************************************************)
(* A driver that counts as initialised has both I/O queues, whatever the   *)
(* controller refuses and whatever comes late; a refused Identify, after   *)
(* which none are asked for, is the one way around it.                     *)
(***************************************************************************)
ReadyMeansQueues ==
    nvState \in {"ready", "transfer"} /\ nvq["admin"].tail > 1 => nvMade = {1, 2}

\* Submission and completion queues keep commands and answers together: every
\* command is fetched, answered to its own caller, and works on a buffer that
\* is still there (submit_admin, submit_io and the waits).
CommandsAnswered == AnswersAreOwn /\ BufferAlive /\ CommandsKept
=============================================================================
