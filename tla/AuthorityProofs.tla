--------------------------- MODULE AuthorityProofs ---------------------------
(***************************************************************************)
(* Pids, labels and capabilities in every instance of module Kernel: pids  *)
(* are unique as long as the u32 counter has not wrapped around, labels    *)
(* bound what a waiting message can carry, and capabilities only get fewer.*)
(***************************************************************************)
EXTENDS KernelProofs

\* Fewer than 2^32 processes have been created since boot.
NoWrap == LastPid + 1 < PidMod

\* Message m may wait for the process of descriptor d (FlowRespected; it holds
\* of zombies too, which is what makes it inductive).
Within(m, d) ==
    d.state # "Empty" /\ m.to = d.pid =>
        /\ m.sec \subseteq d.sec \cup d.declassified
        /\ d.int \subseteq m.int \cup d.endorsed

PidsPast ==
    /\ next_pid # 0
    /\ \A s \in Slot : table[s].state # "Empty" => table[s].pid # 0 /\ table[s].pid < next_pid
    /\ \A s \in Slot : \A k \in DOMAIN ipc[s] : ipc[s][k].to < next_pid

\* The inductive invariant.  A message left in the queue of a reaped process
\* was sent to a pid that will not be used again, so it says nothing of the
\* label of the process that gets the slot next.
AInv ==
    /\ KInv
    /\ PidsPast
    /\ PidsUnique
    /\ \A s \in Slot : \A k \in DOMAIN ipc[s] : Within(ipc[s][k], table[s])

\* From d to e a process is reaped, or its label changes by recorded
\* declassification and endorsement only.
Keeps(d, e) ==
    \/ e.state = "Empty"
    \/ /\ d.state # "Empty" /\ e.pid = d.pid
       /\ d.sec \cup d.declassified \subseteq e.sec \cup e.declassified
       /\ e.int \subseteq d.int \cup e.endorsed
       /\ d.endorsed \subseteq e.endorsed

\* A process that only changed state has kept its label.
LEMMA KeepsSame ==
    ASSUME NEW d, NEW e, SameProcess(d, e)
    PROVE  Keeps(d, e)
BY DEF SameProcess, Keeps

\* Such a step widens what may wait for the process, never narrows it.
LEMMA KeepsWithin ==
    ASSUME NEW d, NEW e, Keeps(d, e), NEW m, Within(m, d)
    PROVE  Within(m, e)
BY DEF Keeps, Within

\* A step that creates no process and sends no message.
LEMMA AFrame ==
    ASSUME AInv, KInv', \A s \in Slot : Keeps(table[s], table'[s]),
           next_pid' \in {next_pid, next_pid + 1},
           \A s \in Slot : \A k \in DOMAIN ipc'[s] :
              \E j \in DOMAIN ipc[s] : ipc'[s][k] = ipc[s][j]
    PROVE  AInv'
<1>1. next_pid \in Nat /\ \A s \in Slot : table[s].pid \in Nat
  <2>1. Pid \subseteq Nat
    BY PidAssumption DEF Pid
  <2> QED BY <2>1 DEF AInv, KInv, TypeOK, Descriptor
<1>2. ASSUME NEW s \in Slot, NEW k \in DOMAIN ipc[s] PROVE ipc[s][k].to \in Nat
  <2>1. ipc[s] \in Seq(Message)
    BY DEF AInv, KInv, TypeOK
  <2>2. ipc[s][k] \in Message
    BY <2>1
  <2> QED BY <2>2, PidAssumption DEF Message, Pid
<1>3. \A s \in Slot : table'[s].state # "Empty" =>
        table[s].state # "Empty" /\ table'[s].pid = table[s].pid
  BY DEF Keeps
<1>4. PidsPast'
  <2>1. next_pid' # 0
    BY <1>1 DEF AInv, PidsPast
  <2>2. \A s \in Slot : table'[s].state # "Empty" =>
          table'[s].pid # 0 /\ table'[s].pid < next_pid'
    BY <1>1, <1>3 DEF AInv, PidsPast
  <2>3. ASSUME NEW s \in Slot, NEW k \in DOMAIN ipc'[s] PROVE ipc'[s][k].to < next_pid'
    <3>1. PICK j \in DOMAIN ipc[s] : ipc'[s][k] = ipc[s][j]
      OBVIOUS
    <3>2. ipc[s][j].to < next_pid /\ ipc[s][j].to \in Nat
      BY <1>2 DEF AInv, PidsPast
    <3> QED BY <1>1, <3>1, <3>2
  <2> QED BY <2>1, <2>2, <2>3 DEF PidsPast
<1>5. PidsUnique'
  BY <1>3 DEF AInv, PidsUnique
<1>6. ASSUME NEW s \in Slot, NEW k \in DOMAIN ipc'[s] PROVE Within(ipc'[s][k], table'[s])
  <2>1. PICK j \in DOMAIN ipc[s] : ipc'[s][k] = ipc[s][j]
    OBVIOUS
  <2>2. Within(ipc[s][j], table[s])
    BY DEF AInv
  <2> QED BY <2>1, <2>2, KeepsWithin
<1> QED BY <1>4, <1>5, <1>6 DEF AInv

\* spawn_by_program_id: the new pid is larger than all others and than every pid
\* a message was ever sent to.
LEMMA ASpawn ==
    ASSUME NoWrap, AInv, NEW mask, Spawn(mask), KInv'
    PROVE  AInv'
<1> DEFINE d == NewDescriptor(next_pid, child_caps(me.caps, mask), me.sec, me.int)
<1>1. /\ Up /\ next_pid <= LastPid /\ next_pid' = (next_pid + 1) % PidMod /\ ipc' = ipc
  BY DEF Spawn
<1>2. PICK s \in Slot : table[s].state = "Empty" /\ table' = [table EXCEPT ![s] = d]
  BY DEF Spawn, IsFirst, FreeSlots
<1>3. next_pid \in Nat /\ next_pid # 0 /\ PidMod \in Nat /\ LastPid \in Nat
      /\ table \in [Slot -> Descriptor]
  BY PidAssumption DEF AInv, KInv, TypeOK, Pid, PidsPast
<1>4. next_pid' = next_pid + 1
  BY <1>1, <1>3 DEF NoWrap
<1>5. d.pid = next_pid
  BY DEF NewDescriptor
<1> HIDE DEF d
<1>6. table'[s] = d /\ \A u \in Slot \ {s} : table'[u] = table[u]
  BY <1>2, <1>3
<1>7. ASSUME NEW u \in Slot, NEW k \in DOMAIN ipc[u]
      PROVE  ipc[u][k].to < next_pid /\ ipc[u][k].to \in Nat
  <2>1. ipc[u] \in Seq(Message)
    BY DEF AInv, KInv, TypeOK
  <2>2. ipc[u][k] \in Message
    BY <2>1
  <2> QED BY <2>2, PidAssumption DEF Message, Pid, AInv, PidsPast
<1>8. \A u \in Slot \ {s} : table[u].state # "Empty" =>
        table[u].pid \in Nat /\ table[u].pid # 0 /\ table[u].pid < next_pid
  BY <1>3, PidAssumption DEF Descriptor, Pid, AInv, PidsPast
<1>9. PidsPast'
  <2>1. \A u \in Slot : table'[u].state # "Empty" =>
          table'[u].pid # 0 /\ table'[u].pid < next_pid'
    BY <1>3, <1>4, <1>5, <1>6, <1>8
  <2>2. \A u \in Slot : \A k \in DOMAIN ipc'[u] : ipc'[u][k].to < next_pid'
    BY <1>1, <1>3, <1>4, <1>7
  <2>3. next_pid' # 0
    BY <1>3, <1>4
  <2> QED BY <2>1, <2>2, <2>3 DEF PidsPast
<1>10. PidsUnique'
  <2>1. \A u \in Slot \ {s} : table'[u].state # "Empty" => table'[u].pid # table'[s].pid
    BY <1>3, <1>5, <1>6, <1>8
  <2>2. \A u \in Slot : table'[u].state # "Empty" => table'[u].pid # 0
    BY <1>9 DEF PidsPast
  <2>3. \A u, v \in Slot \ {s} :
          table'[u].state # "Empty" /\ table'[v].state # "Empty" /\ table'[u].pid = table'[v].pid
             => u = v
    BY <1>6 DEF AInv, PidsUnique
  <2> QED BY <2>1, <2>2, <2>3 DEF PidsUnique
<1>11. ASSUME NEW u \in Slot, NEW k \in DOMAIN ipc'[u] PROVE Within(ipc'[u][k], table'[u])
  <2>1. CASE u = s
    <3>1. ipc'[u][k].to # table'[u].pid
      BY <1>1, <1>3, <1>5, <1>6, <1>7, <2>1
    <3> QED BY <3>1 DEF Within
  <2>2. CASE u # s
    BY <1>1, <1>6, <2>2 DEF AInv
  <2> QED BY <2>1, <2>2
<1> QED BY <1>9, <1>10, <1>11 DEF AInv

\* ipc_send: the label check of the dispatcher covers the new message.
LEMMA ASend ==
    ASSUME AInv, NEW p \in Pid, IpcSend(p), KInv'
    PROVE  AInv'
<1> DEFINE m == [from |-> me.pid, to |-> p, sec |-> me.sec, int |-> me.int]
<1>1. table' = table /\ next_pid' = next_pid
  BY DEF IpcSend
<1>2. PICK s \in Slot : /\ table[s].state # "Empty" /\ table[s].pid = p
                        /\ can_flow(me, table[s])
                        /\ ipc' = [ipc EXCEPT ![s] = Append(@, m)]
  BY DEF IpcSend, index_of_pid, IsFirst
<1>3. ipc \in [Slot -> Seq(Message)]
  BY DEF AInv, KInv, TypeOK
<1>4. m.to = p /\ m.sec = me.sec /\ m.int = me.int
  OBVIOUS
<1>5. Within(m, table[s]) /\ m.to < next_pid
  BY <1>2, <1>4 DEF Within, can_flow, AInv, PidsPast
<1> HIDE DEF m
<1>6. \A u \in Slot : \A k \in DOMAIN ipc'[u] :
        (\E j \in DOMAIN ipc[u] : ipc'[u][k] = ipc[u][j]) \/ (u = s /\ ipc'[u][k] = m)
  BY <1>2, <1>3
<1>7. ASSUME NEW u \in Slot, NEW k \in DOMAIN ipc'[u]
      PROVE  ipc'[u][k].to < next_pid' /\ Within(ipc'[u][k], table'[u])
  <2>1. CASE u = s /\ ipc'[u][k] = m
    BY <1>1, <1>5, <2>1
  <2>2. CASE \E j \in DOMAIN ipc[u] : ipc'[u][k] = ipc[u][j]
    BY <1>1, <2>2 DEF AInv, PidsPast
  <2> QED BY <1>6, <2>1, <2>2
<1>8. PidsPast' /\ PidsUnique'
  BY <1>1, <1>7 DEF AInv, PidsPast, PidsUnique
<1> QED BY <1>1, <1>7, <1>8 DEF AInv

\* The steps of the life cycle that create no process.
LEMMA ALife ==
    ASSUME NoWrap, AInv, LifeCycle, KInv', \A mask \in SpawnMasks : ~ Spawn(mask)
    PROVE  AInv'
<1>0. table \in [Slot -> Descriptor]
  BY DEF AInv, KInv, TypeOK
<1>1. ASSUME NEW st \in Statuses \cup {NoStatus}, Up, ExitWith(st) PROVE AInv'
  <2>1. \A s \in Slot : SameProcess(table[s], table'[s])
    BY <1>1, ExitKeeps DEF AInv
  <2>2. next_pid' = next_pid /\ ipc' = [ipc EXCEPT ![current] = << >>]
    BY <1>1 DEF ExitWith
  <2>3. ipc \in [Slot -> Seq(Message)]
    BY DEF AInv, KInv, TypeOK
  <2>4. \A s \in Slot : \A k \in DOMAIN ipc'[s] :
          \E j \in DOMAIN ipc[s] : ipc'[s][k] = ipc[s][j]
    BY <2>2, <2>3
  <2> QED BY <2>1, <2>2, <2>4, KeepsSame, AFrame
<1>2. ASSUME NEW p \in Pid, NEW rsp \in Rsps, WaitBlocks(p, rsp) PROVE AInv'
  <2>1. \A s \in Slot : SameProcess(table[s], table'[s])
    BY <1>2, WaitBlocksKeeps DEF AInv
  <2>2. next_pid' = next_pid /\ ipc' = ipc
    BY <1>2 DEF WaitBlocks
  <2> QED BY <2>1, <2>2, KeepsSame, AFrame
<1>3. ASSUME NEW p \in Pid, WaitReaps(p) PROVE AInv'
  <2>1. next_pid' = next_pid /\ ipc' = ipc
    BY <1>3 DEF WaitReaps
  <2>2. PICK s \in Slot : table' = [table EXCEPT ![s] = Vacant]
    BY <1>3 DEF WaitReaps
  <2>3. \A u \in Slot : table'[u] = Vacant \/ table'[u] = table[u]
    BY <1>0, <2>2
  <2>4. \A u \in Slot : Keeps(table[u], table'[u])
    BY <2>3, VacantType DEF Keeps
  <2> QED BY <2>1, <2>4, AFrame
<1>4. ASSUME NEW n \in Nices, SetNice(n) PROVE AInv'
  <2>1. next_pid' = next_pid /\ ipc' = ipc /\ table' = [table EXCEPT ![current].nice = n]
    BY <1>4 DEF SetNice
  <2>2. ASSUME NEW u \in Slot PROVE Keeps(table[u], table'[u])
    <3>1. table'[u] = table[u] \/ table'[u] = [table[u] EXCEPT !.nice = n]
      BY <1>0, <2>1
    <3>2. table[u] \in Descriptor
      BY <1>0
    <3> QED BY <3>1, <3>2 DEF Keeps, Descriptor
  <2> QED BY <2>1, <2>2, AFrame
<1>5. ASSUME FaultHalts \/ Reboot \/ SpawnFails PROVE AInv'
  <2>1. table' = table /\ ipc' = ipc
        /\ (next_pid' = next_pid \/ SpawnFails)
    BY <1>5 DEF FaultHalts, Reboot, SpawnFails
  <2>2. \A u \in Slot : Keeps(table[u], table'[u])
    BY <2>1 DEF Keeps
  <2>3. CASE next_pid' = next_pid
    BY <2>1, <2>2, <2>3, AFrame
  <2>4. CASE SpawnFails
    <3>1. next_pid <= LastPid /\ next_pid' = (next_pid + 1) % PidMod
      BY <2>4 DEF SpawnFails
    <3>2. next_pid \in Nat /\ PidMod \in Nat /\ LastPid \in Nat
      BY PidAssumption DEF AInv, KInv, TypeOK, Pid
    <3>3. next_pid' = next_pid + 1
      BY <3>1, <3>2 DEF NoWrap
    <3> QED BY <2>1, <2>2, <3>3, AFrame
  <2> QED BY <2>1, <2>3, <2>4
<1> QED BY <1>1, <1>2, <1>3, <1>4, <1>5 DEF LifeCycle, Exit, KilledByFault

\* ipc_recv.
LEMMA ARecv ==
    ASSUME AInv, IpcRecv, KInv'
    PROVE  AInv'
<1>1. /\ Up /\ table' = table /\ next_pid' = next_pid /\ ipc[current] # << >>
      /\ ipc' = [ipc EXCEPT ![current] = Tail(@)]
  BY DEF IpcRecv
<1>2. ipc \in [Slot -> Seq(Message)] /\ current \in Slot
  BY <1>1, UpRuns DEF AInv, KInv, TypeOK
<1>3. ASSUME NEW s \in Slot, NEW k \in DOMAIN ipc'[s]
      PROVE  \E j \in DOMAIN ipc[s] : ipc'[s][k] = ipc[s][j]
  <2>1. CASE s = current
    <3> DEFINE q == ipc[current]
    <3>1. q \in Seq(Message) /\ q # << >> /\ ipc'[s] = Tail(q)
      BY <1>1, <1>2, <2>1
    <3> HIDE DEF q
    <3>2. k + 1 \in DOMAIN q /\ Tail(q)[k] = q[k + 1]
      BY <3>1
    <3> QED BY <2>1, <3>1, <3>2 DEF q
  <2>2. CASE s # current
    BY <1>1, <1>2, <2>2
  <2> QED BY <2>1, <2>2
<1>4. \A s \in Slot : Keeps(table[s], table'[s])
  BY <1>1 DEF Keeps
<1> QED BY <1>1, <1>3, <1>4, AFrame

\* The calls on capabilities and labels.
LEMMA AAuthority ==
    ASSUME AInv, Authority, KInv'
    PROVE  AInv'
<1>0. table \in [Slot -> Descriptor] /\ me = table[current]
  BY DEF AInv, KInv, TypeOK, me
<1>1. ASSUME NEW s, NEW d, SetField(s, d), Keeps(table[s], d) PROVE AInv'
  <2>1. table' = [table EXCEPT ![s] = d] /\ next_pid' = next_pid /\ ipc' = ipc
    BY <1>1 DEF SetField
  <2>2. \A u \in Slot : table'[u] = table[u] \/ (u = s /\ table'[u] = d)
    BY <1>0, <2>1
  <2>3. \A u \in Slot : Keeps(table[u], table'[u])
    BY <1>1, <2>2 DEF Keeps
  <2> QED BY <2>1, <2>3, AFrame
<1>2. ASSUME NEW p \in Pid, NEW mask \in CapMasks, CapGrant(p, mask) \/ CapRevoke(p, mask)
      PROVE  AInv'
  <2>1. PICK s \in Slot :
          \/ SetField(s, [table[s] EXCEPT !.caps = @ \cup (mask \cap me.caps)])
          \/ SetField(s, [table[s] EXCEPT !.caps = @ \ mask])
    BY <1>2 DEF CapGrant, CapRevoke, index_of_pid
  <2>2. \A caps : Keeps(table[s], [table[s] EXCEPT !.caps = caps])
    <3>1. table[s] \in Descriptor
      BY <1>0
    <3> QED BY <3>1 DEF Descriptor, Keeps
  <2> QED BY <1>1, <2>1, <2>2
<1>3. ASSUME NEW sec \in SUBSET SecTags, NEW int \in SUBSET IntTags, Taint(sec, int) PROVE AInv'
  <2> DEFINE d == [me EXCEPT !.sec = @ \cup sec, !.int = @ \ int]
  <2>1. SetField(current, d) /\ me \in Descriptor
    BY <1>3, UpRuns DEF Taint, AInv, me
  <2>2. Keeps(me, d)
    BY <2>1 DEF Descriptor, Keeps
  <2> HIDE DEF d
  <2> QED BY <1>0, <1>1, <2>1, <2>2
<1>4. ASSUME NEW sec \in SUBSET SecTags, Declassify(sec) PROVE AInv'
  <2> DEFINE d == [me EXCEPT !.sec = @ \ sec, !.declassified = @ \cup sec]
  <2>1. SetField(current, d) /\ me \in Descriptor
    BY <1>4, UpRuns DEF Declassify, AInv, me
  <2>2. Keeps(me, d)
    BY <2>1 DEF Descriptor, Keeps
  <2> HIDE DEF d
  <2> QED BY <1>0, <1>1, <2>1, <2>2
<1>5. ASSUME NEW p \in Pid, NEW int \in SUBSET IntTags, Endorse(p, int) PROVE AInv'
  <2>1. PICK s \in Slot : SetField(s, [table[s] EXCEPT !.int = @ \cup int,
                                                       !.endorsed = @ \cup int])
    BY <1>5 DEF Endorse, index_of_pid
  <2> DEFINE d == [table[s] EXCEPT !.int = @ \cup int, !.endorsed = @ \cup int]
  <2>2. Keeps(table[s], d)
    <3>1. table[s] \in Descriptor
      BY <1>0
    <3> QED BY <3>1 DEF Descriptor, Keeps
  <2>3. SetField(s, d)
    BY <2>1
  <2> HIDE DEF d
  <2> QED BY <1>1, <2>2, <2>3
<1> QED BY <1>2, <1>3, <1>4, <1>5 DEF Authority

\* Cogman alone, with pid 1 and empty queues.
LEMMA InitAInv == Init => AInv
<1> SUFFICES ASSUME Init PROVE AInv
  OBVIOUS
<1>1. KInv /\ next_pid = 2 /\ ipc = [s \in Slot |-> << >>]
  BY InitKInv DEF Init
<1>2. \A s \in Slot : \A k \in DOMAIN ipc[s] : FALSE
  BY <1>1
<1>3. table[0].pid = 1 /\ \A s \in Slot \ {0} : table[s].state = "Empty"
  BY VacantType, Slots DEF Init, NewDescriptor
<1>4. PidsPast
  BY <1>1, <1>2, <1>3 DEF PidsPast
<1>5. PidsUnique
  BY <1>3 DEF PidsUnique
<1> QED BY <1>1, <1>2, <1>4, <1>5 DEF AInv

\* Every step keeps the invariant.
LEMMA NextAInv == ASSUME NoWrap PROVE AInv /\ [Next]_vars => AInv'
<1> SUFFICES ASSUME AInv, [Next]_vars PROVE AInv'
  OBVIOUS
<1>1. KInv'
  BY NextKInv DEF AInv
<1>2. CASE LifeCycle
  BY <1>1, <1>2, ALife, ASpawn
<1>3. CASE Ipc
  BY <1>1, <1>3, ASend, ARecv DEF Ipc
<1>4. CASE Authority
  BY <1>1, <1>4, AAuthority
<1>5. CASE UNCHANGED vars
  <2>1. table' = table /\ next_pid' = next_pid /\ ipc' = ipc
    BY <1>5 DEF vars
  <2>2. \A s \in Slot : Keeps(table[s], table'[s])
    BY <2>1 DEF Keeps
  <2> QED BY <1>1, <2>1, <2>2, AFrame
<1> QED BY <1>2, <1>3, <1>4, <1>5 DEF Next

\* Unless the counter of pids wraps around, no two processes, zombies included,
\* have the same pid, and none has pid 0.
THEOREM PidsStayUnique == ASSUME NoWrap PROVE Spec => []PidsUnique
<1>1. AInv => PidsUnique
  BY DEF AInv
<1>2. AInv /\ [Next]_vars => AInv'
  BY NextAInv
<1> QED BY <1>1, <1>2, InitAInv, PTL DEF Spec

\* Unless the counter of pids wraps around, a message waiting for the process it
\* was sent to never exceeds the label of that process, but for recorded
\* declassifications and endorsements.
THEOREM MessagesRespectLabels == ASSUME NoWrap PROVE Spec => []FlowRespected
<1>1. AInv => FlowRespected
  BY DEF AInv, FlowRespected, Within, Live
<1>2. AInv /\ [Next]_vars => AInv'
  BY NextAInv
<1> QED BY <1>1, <1>2, InitAInv, PTL DEF Spec

-----------------------------------------------------------------------------
(* Capabilities.                                                           *)

\* A step after which every capability of a live process was one before.
LEMMA CapsFrame ==
    ASSUME \A s \in Slot : table'[s].state \in Alive =>
              table'[s].caps \subseteq LiveCaps
    PROVE  LiveCaps' \subseteq LiveCaps
BY DEF LiveCaps, Live, Alive

\* What a live process holds is held by a live process.
LEMMA CapsOfLive ==
    ASSUME NEW s \in Slot, table[s].state \in Alive
    PROVE  table[s].caps \subseteq LiveCaps
BY DEF LiveCaps, Live, Alive

\* A step after which a live process has what it had, or less.
LEMMA CapsShrink ==
    ASSUME \A s \in Slot : table'[s].state \in Alive =>
              table[s].state \in Alive /\ table'[s].caps \subseteq table[s].caps
    PROVE  LiveCaps' \subseteq LiveCaps
<1>1. \A s \in Slot : table'[s].state \in Alive => table'[s].caps \subseteq LiveCaps
  BY CapsOfLive
<1> QED BY <1>1, CapsFrame

\* No step gives a live process a capability that none had.
LEMMA NextCaps == KInv /\ [Next]_vars => LiveCaps' \subseteq LiveCaps
<1> SUFFICES ASSUME KInv, [Next]_vars PROVE LiveCaps' \subseteq LiveCaps
  OBVIOUS
<1>0. table \in [Slot -> Descriptor]
  BY DEF KInv, TypeOK
<1>1. Up => current \in Slot /\ me = table[current] /\ me \in Descriptor /\ me.caps \subseteq LiveCaps
  <2> SUFFICES ASSUME Up PROVE current \in Slot /\ me = table[current] /\ me \in Descriptor
                               /\ me.caps \subseteq LiveCaps
    OBVIOUS
  <2> QED BY UpRuns, CapsOfLive DEF me, Alive
<1>2. ASSUME NEW mask, Spawn(mask) PROVE LiveCaps' \subseteq LiveCaps
  <2> DEFINE d == NewDescriptor(next_pid, child_caps(me.caps, mask), me.sec, me.int)
  <2>1. Up /\ \E s \in Slot : table' = [table EXCEPT ![s] = d]
    BY <1>2 DEF Spawn
  <2>2. d.caps \subseteq me.caps
    BY DEF NewDescriptor, child_caps
  <2> HIDE DEF d
  <2>3. \A u \in Slot : table'[u] = table[u] \/ table'[u] = d
    BY <1>0, <2>1
  <2>4. ASSUME NEW u \in Slot, table'[u].state \in Alive PROVE table'[u].caps \subseteq LiveCaps
    BY <1>1, <2>1, <2>2, <2>3, <2>4, CapsOfLive
  <2> QED BY <2>4, CapsFrame
<1>3. ASSUME NEW st \in Statuses \cup {NoStatus}, Up, ExitWith(st)
      PROVE  LiveCaps' \subseteq LiveCaps
  <2>1. \A s \in Slot : SameProcess(table[s], table'[s])
    BY <1>3, ExitKeeps
  <2> QED BY <2>1, CapsShrink DEF SameProcess
<1>4. ASSUME NEW p \in Pid, NEW rsp \in Rsps, WaitBlocks(p, rsp) PROVE LiveCaps' \subseteq LiveCaps
  <2>1. \A s \in Slot : SameProcess(table[s], table'[s])
    BY <1>4, WaitBlocksKeeps
  <2> QED BY <2>1, CapsShrink DEF SameProcess
<1>5. ASSUME NEW p \in Pid, WaitReaps(p) PROVE LiveCaps' \subseteq LiveCaps
  <2>1. PICK s \in Slot : table' = [table EXCEPT ![s] = Vacant]
    BY <1>5 DEF WaitReaps
  <2>2. \A u \in Slot : table'[u] = Vacant \/ table'[u] = table[u]
    BY <1>0, <2>1
  <2> QED BY <2>2, VacantType, CapsShrink DEF Alive
<1>6. ASSUME NEW n \in Nices, SetNice(n) PROVE LiveCaps' \subseteq LiveCaps
  <2>1. table' = [table EXCEPT ![current].nice = n]
    BY <1>6 DEF SetNice
  <2>2. ASSUME NEW u \in Slot
        PROVE  table'[u].state = table[u].state /\ table'[u].caps = table[u].caps
    <3>1. table'[u] = table[u] \/ table'[u] = [table[u] EXCEPT !.nice = n]
      BY <1>0, <2>1
    <3>2. table[u] \in Descriptor
      BY <1>0
    <3> QED BY <3>1, <3>2 DEF Descriptor
  <2> QED BY <2>2, CapsShrink
<1>7. ASSUME table' = table PROVE LiveCaps' \subseteq LiveCaps
  BY <1>7, CapsShrink
<1>8. CASE LifeCycle
  <2>1. FaultHalts \/ Reboot \/ SpawnFails => table' = table
    BY DEF FaultHalts, Reboot, SpawnFails
  <2> QED BY <1>2, <1>3, <1>4, <1>5, <1>6, <1>7, <1>8, <2>1 DEF LifeCycle, Exit, KilledByFault
<1>9. CASE Ipc
  <2>1. table' = table
    BY <1>9 DEF Ipc, IpcSend, IpcRecv
  <2> QED BY <1>7, <2>1
<1>10. ASSUME NEW s, NEW d, SetField(s, d), d.state = table[s].state,
              d.caps \subseteq table[s].caps \cup LiveCaps
       PROVE  LiveCaps' \subseteq LiveCaps
  <2>1. table' = [table EXCEPT ![s] = d]
    BY <1>10 DEF SetField
  <2>2. \A u \in Slot : table'[u] = table[u] \/ (u = s /\ table'[u] = d)
    BY <1>0, <2>1
  <2>3. ASSUME NEW u \in Slot, table'[u].state \in Alive PROVE table'[u].caps \subseteq LiveCaps
    <3>1. table[u].state \in Alive
      BY <1>10, <2>2, <2>3
    <3>2. table[u].caps \subseteq LiveCaps
      BY <3>1, CapsOfLive
    <3> QED BY <1>10, <2>2, <3>2
  <2> QED BY <2>3, CapsFrame
<1>11. CASE Authority
  <2>1. ASSUME NEW p \in Pid, NEW mask \in CapMasks, CapGrant(p, mask) \/ CapRevoke(p, mask)
        PROVE  LiveCaps' \subseteq LiveCaps
    <3>1. PICK s \in Slot :
            \/ SetField(s, [table[s] EXCEPT !.caps = @ \cup (mask \cap me.caps)])
            \/ SetField(s, [table[s] EXCEPT !.caps = @ \ mask])
      BY <2>1 DEF CapGrant, CapRevoke, index_of_pid
    <3>2. me.caps \subseteq LiveCaps
      BY <1>1, <2>1 DEF CapGrant, CapRevoke
    <3>3. table[s] \in Descriptor
      BY <1>0
    <3>4. \A caps : /\ [table[s] EXCEPT !.caps = caps].state = table[s].state
                    /\ [table[s] EXCEPT !.caps = caps].caps = caps
      BY <3>3 DEF Descriptor
    <3>5. CASE SetField(s, [table[s] EXCEPT !.caps = @ \cup (mask \cap me.caps)])
      BY <1>10, <3>2, <3>4, <3>5
    <3>6. CASE SetField(s, [table[s] EXCEPT !.caps = @ \ mask])
      BY <1>10, <3>4, <3>6
    <3> QED BY <3>1, <3>5, <3>6
  <2>2. ASSUME NEW sec \in SUBSET SecTags, NEW int \in SUBSET IntTags,
               Taint(sec, int) \/ Declassify(sec)
        PROVE  LiveCaps' \subseteq LiveCaps
    <3>1. PICK d : /\ SetField(current, d)
                   /\ \/ d = [me EXCEPT !.sec = @ \cup sec, !.int = @ \ int]
                      \/ d = [me EXCEPT !.sec = @ \ sec, !.declassified = @ \cup sec]
      BY <2>2 DEF Taint, Declassify
    <3>2. me \in Descriptor /\ me = table[current]
      BY <1>1, <2>2 DEF Taint, Declassify
    <3>3. d.state = me.state /\ d.caps = me.caps
      BY <3>1, <3>2 DEF Descriptor
    <3> QED BY <1>10, <3>1, <3>2, <3>3
  <2>3. ASSUME NEW p \in Pid, NEW int \in SUBSET IntTags, Endorse(p, int)
        PROVE  LiveCaps' \subseteq LiveCaps
    <3>1. PICK s \in Slot : SetField(s, [table[s] EXCEPT !.int = @ \cup int,
                                                         !.endorsed = @ \cup int])
      BY <2>3 DEF Endorse, index_of_pid
    <3> DEFINE d == [table[s] EXCEPT !.int = @ \cup int, !.endorsed = @ \cup int]
    <3>2. table[s] \in Descriptor
      BY <1>0
    <3>3. d.state = table[s].state /\ d.caps = table[s].caps
      BY <3>2 DEF Descriptor
    <3>4. SetField(s, d)
      BY <3>1
    <3> HIDE DEF d
    <3> QED BY <1>10, <3>3, <3>4
  <2> QED BY <1>11, <2>1, <2>2, <2>3 DEF Authority
<1>12. CASE UNCHANGED vars
  BY <1>7, <1>12 DEF vars
<1> QED BY <1>8, <1>9, <1>11, <1>12 DEF Next

\* A capability that no live process holds is never held again: spawn masks it
\* with the parent's, and a grant with the caller's.
THEOREM AuthorityNeverGrows == Spec => CapsNeverRegenerate
<1>1. KInv /\ [Next]_vars => [LiveCaps' \subseteq LiveCaps]_vars
  BY NextCaps
<1> QED BY <1>1, KernelInvariant, PTL DEF Spec, CapsNeverRegenerate
=============================================================================
