-------------------------- MODULE SupervisorProofs --------------------------
(***************************************************************************)
(* What Cogman knows of its services, for every set of services and pids,  *)
(* every back-off and every inbox.                                         *)
(***************************************************************************)
EXTENDS Supervisor, TLAPS

States == {"Stopped", "Running", "Restarting", "Failed"}

\* A service record has the fields of Service; its numbers do not matter here.
IsService(t) ==
    /\ t = [pid |-> t.pid, state |-> t.state, restart_count |-> t.restart_count,
            restart_delay |-> t.restart_delay, last_exit |-> t.last_exit]
    /\ t.pid \in Pids \cup {NoPid}
    /\ t.state \in States

IsTable(t) == t = [s \in Services |-> t[s]] /\ \A s \in Services : IsService(t[s])

ProcessType == [st : {"none", "live", "dead"}, prog : Services \cup {"other"}, exit : Exits]

SupShape ==
    /\ IsTable(svc)
    /\ proc \in [Pids -> ProcessType]
    /\ cog \in {"start", "reap", "blocked", "restart", "ipc", "off"}
    /\ shell \in [pc : {"prompt", "wait", "blocked"}, child : Pids \cup {NoPid}]

\* A place of the process table that is free says nothing of a program.
FreeIsBlank == \A p \in Pids : proc[p].st = "none" => proc[p].prog = "other"

\* What the shell waits for is no service.
ShellChildIsOther ==
    shell.pc # "prompt" => shell.child \in Pids /\ proc[shell.child].prog = "other"

\* Only a running service has a pid, so that no reaped pid can match another entry.
PidOnlyWhileRunning == \A s \in Services : svc[s].state # "Running" => svc[s].pid = NoPid

NothingStarted == cog = "start" => \A s \in Services : svc[s].state # "Running"

\* OneInstance, process by process.
Known ==
    \A s \in Services :
        /\ svc[s].state = "Running" => svc[s].pid \in Pids
        /\ \A p \in Pids : (proc[p].st # "none" /\ proc[p].prog = s)
                              <=> (svc[s].state = "Running" /\ svc[s].pid = p)

SupInv ==
    /\ SupShape /\ FreeIsBlank /\ ShellChildIsOther
    /\ PidOnlyWhileRunning /\ NothingStarted
    /\ Up => Known
    /\ JournalCurrent

-----------------------------------------------------------------------------
\* The process-by-process form is the property the runs check.
LEMMA KnownIsOneInstance == Known => OneInstance
BY DEF Known, OneInstance

\* spawn_service for services that have no process: the table t it works on is
\* the supervisor's up to delays (CountedDown).
LEMMA SpawnKeepsKnowledge ==
    ASSUME SupShape, FreeIsBlank, ShellChildIsOther, PidOnlyWhileRunning, Known,
           NEW t, IsTable(t),
           \A s \in Services : t[s].pid = svc[s].pid /\ t[s].state = svc[s].state,
           NEW S \in SUBSET Services, \A s \in S : svc[s].state # "Running",
           NEW got \in SpawnResults(S),
           svc' = Spawned(t, got), proc' = WithProcesses(got), shell' = shell
    PROVE  /\ IsTable(svc)' /\ proc' \in [Pids -> ProcessType]
           /\ FreeIsBlank' /\ ShellChildIsOther' /\ PidOnlyWhileRunning' /\ Known'
PROOF
<1>1. /\ got \in [S -> Unused \cup {NoPid}] /\ DOMAIN got = S
      /\ \A s, r \in S : s # r /\ got[s] = got[r] => got[s] = NoPid
  BY DEF SpawnResults
<1>2. Unused \subseteq Pids /\ NoPid \notin Pids
  BY ServicesAssumption DEF Unused
<1>3. ASSUME NEW s \in Services, s \notin S
      PROVE  svc'[s] = t[s]
  BY <1>1, <1>3 DEF Spawned
<1>4. ASSUME NEW s \in S, got[s] = NoPid
      PROVE  svc'[s] = [t[s] EXCEPT !.state = "Failed"]
  BY <1>1, <1>4 DEF Spawned
<1>5. ASSUME NEW s \in S, got[s] # NoPid
      PROVE  svc'[s] = [t[s] EXCEPT !.pid = got[s], !.state = "Running"]
  BY <1>1, <1>5 DEF Spawned
<1>6. ASSUME NEW s \in Services
      PROVE  /\ IsService(svc'[s])
             /\ s \notin S => svc'[s].pid = svc[s].pid /\ svc'[s].state = svc[s].state
             /\ s \in S /\ got[s] = NoPid => svc'[s].pid = NoPid /\ svc'[s].state = "Failed"
             /\ s \in S /\ got[s] # NoPid => svc'[s].pid = got[s] /\ svc'[s].state = "Running"
  <2>0. IsService(t[s]) /\ t[s].pid = svc[s].pid /\ t[s].state = svc[s].state
    BY DEF IsTable
  <2>1. CASE s \notin S
    BY <2>0, <2>1, <1>3
  <2>2. CASE s \in S /\ got[s] = NoPid
    <3>1. svc'[s] = [t[s] EXCEPT !.state = "Failed"]
      BY <2>2, <1>4
    <3>2. svc[s].pid = NoPid
      BY <2>2 DEF PidOnlyWhileRunning
    <3> QED
      BY <3>1, <3>2, <2>0, <2>2 DEF IsService, States
  <2>3. CASE s \in S /\ got[s] # NoPid
    <3>1. svc'[s] = [t[s] EXCEPT !.pid = got[s], !.state = "Running"]
      BY <2>3, <1>5
    <3>2. got[s] \in Pids
      BY <1>1, <1>2, <2>3
    <3> QED
      BY <3>1, <3>2, <2>0, <2>3 DEF IsService, States
  <2> QED
    BY <2>1, <2>2, <2>3
<1>7. IsTable(svc)'
  <2>1. svc' = [s \in Services |-> svc'[s]]
    BY DEF Spawned
  <2> QED
    BY <2>1, <1>6 DEF IsTable, IsService
<1>8. PidOnlyWhileRunning'
  BY <1>6 DEF PidOnlyWhileRunning
<1>9. ASSUME NEW p \in Pids
      PROVE  \/ \E s \in S : got[s] = p /\ p \in Unused
                             /\ proc'[p] = [st |-> "live", prog |-> s, exit |-> 0]
             \/ (\A s \in S : got[s] # p) /\ proc'[p] = proc[p]
  <2>1. CASE \E s \in S : got[s] = p
    <3> DEFINE c == CHOOSE s \in DOMAIN got : got[s] = p
    <3>1. c \in S /\ got[c] = p
      BY <2>1, <1>1
    <3>2. proc'[p] = [st |-> "live", prog |-> c, exit |-> 0]
      BY <2>1, <1>1 DEF WithProcesses
    <3> HIDE DEF c
    <3> QED
      BY <3>1, <3>2, <1>1, <1>2
  <2>2. CASE \A s \in S : got[s] # p
    BY <2>2, <1>1 DEF WithProcesses
  <2> QED
    BY <2>1, <2>2
<1>10. proc' \in [Pids -> ProcessType]
  <2>1. ASSUME NEW p \in Pids
        PROVE  proc'[p] \in ProcessType
    <3>1. CASE proc'[p] = proc[p]
      BY <3>1 DEF SupShape
    <3>2. ASSUME NEW s \in S, proc'[p] = [st |-> "live", prog |-> s, exit |-> 0]
          PROVE  proc'[p] \in ProcessType
      BY <3>2, ExitsAssumption DEF ProcessType
    <3> QED
      BY <3>1, <3>2, <1>9
  <2>2. proc' = [p \in Pids |-> proc'[p]]
    BY DEF WithProcesses
  <2> QED
    BY <2>1, <2>2
<1>11. FreeIsBlank'
  <2> SUFFICES ASSUME NEW p \in Pids
               PROVE  proc'[p].st = "none" => proc'[p].prog = "other"
    BY DEF FreeIsBlank
  <2>1. CASE proc'[p] = proc[p]
    BY <2>1 DEF FreeIsBlank
  <2>2. ASSUME NEW s \in S, proc'[p] = [st |-> "live", prog |-> s, exit |-> 0]
        PROVE  proc'[p].st # "none"
    BY <2>2
  <2> QED
    BY <2>1, <2>2, <1>9
<1>12. ShellChildIsOther'
  BY <1>9 DEF ShellChildIsOther, Unused
<1>13. Known'
  <2> SUFFICES ASSUME NEW s \in Services
               PROVE  /\ svc'[s].state = "Running" => svc'[s].pid \in Pids
                      /\ \A p \in Pids : (proc'[p].st # "none" /\ proc'[p].prog = s)
                                          <=> (svc'[s].state = "Running" /\ svc'[s].pid = p)
    BY DEF Known
  <2>1. svc'[s].state = "Running" => svc'[s].pid \in Pids
    BY <1>1, <1>2, <1>6 DEF Known
  <2>2. ASSUME NEW p \in Pids
        PROVE  (proc'[p].st # "none" /\ proc'[p].prog = s)
                  <=> (svc'[s].state = "Running" /\ svc'[s].pid = p)
    <3>1. CASE \A r \in S : got[r] # p
      <4>1. proc'[p] = proc[p]
        BY <3>1, <1>9
      <4>2. (svc'[s].state = "Running" /\ svc'[s].pid = p)
               <=> (svc[s].state = "Running" /\ svc[s].pid = p)
        BY <3>1, <1>6
      <4> QED
        BY <4>1, <4>2 DEF Known
    <3>2. ASSUME NEW r \in S, got[r] = p
          PROVE  (proc'[p].st # "none" /\ proc'[p].prog = s)
                    <=> (svc'[s].state = "Running" /\ svc'[s].pid = p)
      <4>1. p \in Unused /\ proc[p].st = "none" /\ p # NoPid
        BY <3>2, <1>1, <1>2 DEF Unused
      <4>2. \A q \in S : got[q] = p => q = r
        BY <3>2, <4>1, <1>1
      <4>3. proc'[p] = [st |-> "live", prog |-> r, exit |-> 0]
        BY <3>2, <4>2, <1>9
      <4>4. (svc'[s].state = "Running" /\ svc'[s].pid = p) <=> s = r
        BY <3>2, <4>1, <4>2, <1>6 DEF Known
      <4> QED
        BY <4>3, <4>4
    <3> QED
      BY <3>1, <3>2
  <2> QED
    BY <2>1, <2>2
<1> QED
  BY <1>7, <1>8, <1>10, <1>11, <1>12, <1>13

-----------------------------------------------------------------------------
\* Steps that leave the table of services alone, and make at most processes come
\* and go that are no service.
LEMMA OthersKeepKnowledge ==
    ASSUME SupShape, Known, svc' = svc, proc' \in [Pids -> ProcessType],
           \A p \in Pids : \/ proc'[p].prog = proc[p].prog
                              /\ ((proc'[p].st = "none") <=> (proc[p].st = "none"))
                           \/ proc'[p].prog = "other" /\ proc[p].prog = "other"
    PROVE  Known'
BY ServicesAssumption DEF Known

\* The inductive invariant: the table knows every process of a service, only
\* running services have a pid, the shell waits for no service, and the journal
\* says what the table says.
THEOREM SupervisorInvariant == SupSpec => []SupInv
PROOF
<1>1. SupInit => SupInv
  <2> SUFFICES ASSUME SupInit
               PROVE  SupInv
    OBVIOUS
  <2> USE ServicesAssumption, ExitsAssumption DEF SupInit, NewService, NoProcess
  <2>1. IsTable(svc)
    BY DEF IsTable, IsService, States
  <2>2. SupShape
    BY <2>1 DEF SupShape, ProcessType
  <2>3. FreeIsBlank /\ ShellChildIsOther /\ PidOnlyWhileRunning /\ NothingStarted /\ Known
    BY DEF FreeIsBlank, ShellChildIsOther, PidOnlyWhileRunning, NothingStarted, Known
  <2> QED
    BY <2>2, <2>3 DEF SupInv, JournalCurrent
<1>2. SupInv /\ [SupNext]_supVars => SupInv'
  <2> SUFFICES ASSUME SupInv, [SupNext]_supVars
               PROVE  SupInv'
    OBVIOUS
  <2> USE DEF SupInv
  <2>1. CASE StartAll
    <3>1. PICK got \in SpawnResults({WM}) : svc' = Spawned(svc, got) /\ proc' = WithProcesses(got)
      BY <2>1 DEF StartAll
    <3>2. /\ cog = "start" /\ cog' = "reap" /\ shell' = shell
          /\ journal' = journal_state(svc')
      BY <2>1 DEF StartAll
    <3>3. Known /\ IsTable(svc) /\ {WM} \in SUBSET Services /\ \A s \in {WM} : svc[s].state # "Running"
      BY <3>2, ServicesAssumption DEF Up, NothingStarted, SupShape
    <3>4. /\ IsTable(svc)' /\ proc' \in [Pids -> ProcessType]
          /\ FreeIsBlank' /\ ShellChildIsOther' /\ PidOnlyWhileRunning' /\ Known'
      BY <3>1, <3>2, <3>3, SpawnKeepsKnowledge
    <3> QED
      BY <3>2, <3>4 DEF SupShape, NothingStarted, JournalCurrent
  <2>2. ASSUME NEW p \in Pids, ReapPass(p)
        PROVE  SupInv'
    <3>1. /\ cog = "reap" /\ proc[p].st = "dead" /\ proc' = [proc EXCEPT ![p] = NoProcess]
          /\ shell' = shell /\ Known
      BY <2>2 DEF ReapPass, Up
    <3>2. /\ proc' \in [Pids -> ProcessType] /\ proc'[p] = NoProcess
          /\ \A q \in Pids \ {p} : proc'[q] = proc[q]
      BY <3>1, ExitsAssumption DEF SupShape, ProcessType, NoProcess
    <3>3. FreeIsBlank' /\ ShellChildIsOther'
      BY <3>1, <3>2 DEF FreeIsBlank, ShellChildIsOther, NoProcess
    <3>4. CASE proc[p].exit \in HaltExits
      <4>1. cog' = "off" /\ svc' = svc
        BY <2>2, <3>4 DEF ReapPass
      <4> QED
        BY <4>1, <3>1, <3>2, <3>3
        DEF SupShape, IsTable, IsService, PidOnlyWhileRunning, NothingStarted, Up, JournalCurrent
    <3>5. CASE proc[p].exit \notin HaltExits
      <4>1. /\ cog' = "restart" /\ journal' = journal_state(svc')
            /\ svc' = [s \in Services |-> svc'[s]]
        BY <2>2, <3>5 DEF ReapPass
      <4>2. ASSUME NEW s \in Services
            PROVE  /\ IsService(svc'[s])
                   /\ svc[s].pid # p => svc'[s] = svc[s]
                   /\ svc[s].pid = p => svc'[s].pid = NoPid /\ svc'[s].state # "Running"
        <5>0. IsService(svc[s])
          BY DEF SupShape, IsTable
        <5>1. CASE svc[s].pid # p
          BY <5>0, <5>1, <2>2, <3>5 DEF ReapPass
        <5>2. CASE svc[s].pid = p /\ should_restart(s, proc[p].exit)
          <6> DEFINE d == backoff_ticks(svc[s].restart_count)
                     n == IF svc[s].restart_count < MaxCount
                          THEN svc[s].restart_count + 1 ELSE MaxCount
          <6>1. svc'[s] = [pid |-> NoPid, state |-> "Restarting", last_exit |-> proc[p].exit,
                           restart_delay |-> d, restart_count |-> n]
            BY <5>2, <2>2, <3>5 DEF ReapPass
          <6> HIDE DEF d, n
          <6> QED
            BY <6>1, <5>2 DEF IsService, States
        <5>3. CASE svc[s].pid = p /\ ~should_restart(s, proc[p].exit)
          <6>1. svc'[s] = [svc[s] EXCEPT !.pid = NoPid, !.state = "Stopped", !.last_exit = proc[p].exit]
            BY <5>3, <2>2, <3>5 DEF ReapPass
          <6> QED
            BY <6>1, <5>0, <5>3 DEF IsService, States
        <5> QED
          BY <5>1, <5>2, <5>3
      <4>3. IsTable(svc)' /\ PidOnlyWhileRunning'
        BY <4>1, <4>2 DEF IsTable, IsService, PidOnlyWhileRunning
      <4>4. Known'
        <5> SUFFICES ASSUME NEW s \in Services
                     PROVE  /\ svc'[s].state = "Running" => svc'[s].pid \in Pids
                            /\ \A q \in Pids : (proc'[q].st # "none" /\ proc'[q].prog = s)
                                                <=> (svc'[s].state = "Running" /\ svc'[s].pid = q)
          BY DEF Known
        <5>1. CASE svc[s].pid # p
          BY <5>1, <4>2, <3>1, <3>2 DEF Known, NoProcess
        <5>2. CASE svc[s].pid = p
          BY <5>2, <4>2, <3>1, <3>2 DEF Known, NoProcess
        <5> QED
          BY <5>1, <5>2
      <4> QED
        BY <4>1, <4>3, <4>4, <3>1, <3>2, <3>3 DEF SupShape, NothingStarted, JournalCurrent
    <3> QED
      BY <3>4, <3>5
  <2>3. CASE RestartPass
    <3>1. PICK got \in SpawnResults(Due) :
             svc' = Spawned(CountedDown(svc), got) /\ proc' = WithProcesses(got)
      BY <2>3 DEF RestartPass
    <3>2. /\ cog = "restart" /\ cog' = "ipc" /\ shell' = shell /\ Known
          /\ journal' = IF Due # {} THEN journal_state(svc') ELSE journal
      BY <2>3 DEF RestartPass, Up
    <3> DEFINE t == CountedDown(svc)
    <3>3. ASSUME NEW s \in Services
          PROVE  IsService(t[s]) /\ Entry(t[s]) = Entry(svc[s])
      <4>1. IsService(svc[s])
        BY DEF SupShape, IsTable
      <4>2. t[s] = svc[s] \/ t[s] = [svc[s] EXCEPT !.restart_delay = @ - 1]
        BY DEF CountedDown
      <4> QED
        BY <4>1, <4>2 DEF IsService, Entry
    <3>4. \A s \in Services : t[s].pid = svc[s].pid /\ t[s].state = svc[s].state
      BY <3>3 DEF Entry
    <3>5. IsTable(t)
      BY <3>3 DEF IsTable, CountedDown
    <3>6. Due \in SUBSET Services /\ \A s \in Due : svc[s].state # "Running"
      BY DEF Due
    <3>7. svc' = Spawned(t, got) /\ proc' = WithProcesses(got)
      BY <3>1
    <3> HIDE DEF t
    <3>8. /\ IsTable(svc)' /\ proc' \in [Pids -> ProcessType]
          /\ FreeIsBlank' /\ ShellChildIsOther' /\ PidOnlyWhileRunning' /\ Known'
      BY <3>2, <3>4, <3>5, <3>6, <3>7, SpawnKeepsKnowledge
    <3>9. JournalCurrent'
      <4>1. CASE Due # {}
        BY <4>1, <3>2 DEF JournalCurrent
      <4>2. CASE Due = {}
        <5>1. DOMAIN got = {}
          BY <4>2 DEF SpawnResults
        <5>2. \A s \in Services : svc'[s] = t[s]
          BY <3>7, <5>1 DEF Spawned
        <5>3. journal_state(svc') = journal_state(svc)
          BY <5>2, <3>3 DEF journal_state
        <5> QED
          BY <5>3, <4>2, <3>2 DEF JournalCurrent
      <4> QED
        BY <4>1, <4>2
    <3> QED
      BY <3>2, <3>8, <3>9 DEF SupShape, NothingStarted
  <2>4. CASE ReapBlocks \/ HandleIpc \/ Send \/ UNCHANGED supVars
    <3>1. /\ svc' = svc /\ proc' = proc /\ shell' = shell /\ journal' = journal
          /\ cog' = cog \/ (cog \in {"reap", "ipc"} /\ cog' \in {"blocked", "reap"})
      BY <2>4 DEF ReapBlocks, HandleIpc, Send, supVars
    <3> QED
      BY <3>1 DEF SupShape, IsTable, IsService, FreeIsBlank, ShellChildIsOther, PidOnlyWhileRunning,
                  NothingStarted, Up, Known, JournalCurrent
  <2>5. ASSUME svc' = svc, journal' = journal, Up,
               cog' = cog \/ (cog = "blocked" /\ cog' = "reap"),
               proc' \in [Pids -> ProcessType], FreeIsBlank', ShellChildIsOther',
               shell' \in [pc : {"prompt", "wait", "blocked"}, child : Pids \cup {NoPid}],
               \A p \in Pids : \/ proc'[p].prog = proc[p].prog
                                  /\ ((proc'[p].st = "none") <=> (proc[p].st = "none"))
                               \/ proc'[p].prog = "other" /\ proc[p].prog = "other"
        PROVE  SupInv'
    <3>1. Known'
      BY <2>5, OthersKeepKnowledge
    <3> QED
      BY <2>5, <3>1 DEF SupShape, IsTable, IsService, PidOnlyWhileRunning, NothingStarted,
                        JournalCurrent
  <2>6. ASSUME NEW p \in Pids, NEW e \in Exits, Die(p, e)
        PROVE  SupInv'
    <3>1. /\ Up /\ svc' = svc /\ journal' = journal /\ proc[p].st = "live"
          /\ cog' = cog \/ (cog = "blocked" /\ cog' = "reap")
          /\ proc' = [proc EXCEPT ![p].st = "dead", ![p].exit = e]
          /\ shell' = shell \/ (shell.pc = "blocked" /\ shell' = [shell EXCEPT !.pc = "wait"])
      BY <2>6 DEF Die
    <3>2. /\ proc' \in [Pids -> ProcessType]
          /\ \A q \in Pids : /\ proc'[q].prog = proc[q].prog
                             /\ (proc'[q].st = "none") <=> (proc[q].st = "none")
      <4> DEFINE d == [proc[p] EXCEPT !.st = "dead", !.exit = e]
      <4>1. d \in ProcessType /\ d.st = "dead" /\ d.prog = proc[p].prog
        BY DEF SupShape, ProcessType
      <4>2. proc' = [proc EXCEPT ![p] = d]
        BY <3>1 DEF SupShape, ProcessType
      <4> HIDE DEF d
      <4> QED
        BY <4>1, <4>2, <3>1 DEF SupShape
    <3>3. /\ shell' \in [pc : {"prompt", "wait", "blocked"}, child : Pids \cup {NoPid}]
          /\ shell'.child = shell.child /\ (shell'.pc = "prompt" <=> shell.pc = "prompt")
      BY <3>1 DEF SupShape
    <3>4. FreeIsBlank' /\ ShellChildIsOther'
      BY <3>2, <3>3 DEF FreeIsBlank, ShellChildIsOther
    <3> QED
      BY <3>1, <3>2, <3>3, <3>4, <2>5
  <2>7. ASSUME NEW p \in Pids, Appear(p) \/ ShellRuns(p)
        PROVE  SupInv'
    <3>1. /\ Up /\ svc' = svc /\ journal' = journal /\ cog' = cog
          /\ proc[p].st = "none" /\ shell.child # p
          /\ proc' = [proc EXCEPT ![p].st = "live"]
          /\ shell' = shell \/ shell' = [pc |-> "wait", child |-> p]
      BY <2>7 DEF Appear, ShellRuns, Unused
    <3>2. /\ proc' \in [Pids -> ProcessType] /\ proc'[p].st = "live" /\ proc'[p].prog = "other"
          /\ proc[p].prog = "other" /\ \A q \in Pids \ {p} : proc'[q] = proc[q]
      BY <3>1 DEF SupShape, ProcessType, FreeIsBlank
    <3>3. FreeIsBlank'
      BY <3>2 DEF FreeIsBlank
    <3>4. /\ shell' \in [pc : {"prompt", "wait", "blocked"}, child : Pids \cup {NoPid}]
          /\ ShellChildIsOther'
      <4>1. CASE shell' = shell
        BY <4>1, <3>1, <3>2 DEF SupShape, ShellChildIsOther
      <4>2. CASE shell' = [pc |-> "wait", child |-> p]
        BY <4>2, <3>2 DEF ShellChildIsOther
      <4> QED
        BY <4>1, <4>2, <3>1
    <3> QED
      BY <3>1, <3>2, <3>3, <3>4, <2>5
  <2>8. CASE ShellWaits
    <3>0. /\ Up /\ shell.pc = "wait" /\ svc' = svc /\ journal' = journal /\ cog' = cog
          /\ shell.child \in Pids /\ proc[shell.child].prog = "other"
      BY <2>8 DEF ShellWaits, ShellChildIsOther
    <3>1. CASE proc[shell.child].st = "dead"
      <4>1. /\ proc' = [proc EXCEPT ![shell.child] = NoProcess]
            /\ shell' = [pc |-> "prompt", child |-> NoPid]
        BY <2>8, <3>1 DEF ShellWaits
      <4>2. /\ proc' \in [Pids -> ProcessType] /\ proc'[shell.child].prog = "other"
            /\ \A q \in Pids \ {shell.child} : proc'[q] = proc[q]
        BY <4>1, <3>0, ExitsAssumption DEF SupShape, ProcessType, NoProcess
      <4>3. FreeIsBlank' /\ ShellChildIsOther'
        BY <4>1, <4>2 DEF FreeIsBlank, ShellChildIsOther
      <4>4. shell' \in [pc : {"prompt", "wait", "blocked"}, child : Pids \cup {NoPid}]
        BY <4>1
      <4> QED
        BY <3>0, <4>2, <4>3, <4>4, <2>5
    <3>2. CASE proc[shell.child].st # "dead"
      <4>1. proc' = proc /\ shell' = [shell EXCEPT !.pc = "blocked"]
        BY <2>8, <3>2 DEF ShellWaits
      <4>2. /\ shell' \in [pc : {"prompt", "wait", "blocked"}, child : Pids \cup {NoPid}]
            /\ FreeIsBlank' /\ ShellChildIsOther' /\ proc' \in [Pids -> ProcessType]
        BY <4>1, <3>0 DEF SupShape, FreeIsBlank, ShellChildIsOther
      <4> QED
        BY <3>0, <4>1, <4>2, <2>5
    <3> QED
      BY <3>1, <3>2
  <2> QED
    BY <2>1, <2>2, <2>3, <2>4, <2>6, <2>7, <2>8 DEF SupNext, Cogman
<1> QED
  BY <1>1, <1>2, PTL DEF SupSpec

\* A service is Running exactly when it has one process that nobody has reaped,
\* and that is the one the table names: Cogman's blocking waitpid, the shell's
\* waitpid for the same zombies, failing spawns and the back-off never make a
\* second instance nor lose a death.
THEOREM ServicesHaveOneInstance == SupSpec => []OneInstance
<1>1. SupInv => OneInstance
  BY KnownIsOneInstance DEF SupInv, OneInstance
<1> QED
  BY <1>1, SupervisorInvariant, PTL

\* The journal written after start-up, reaping and respawning says what the table
\* says in every state after start-up; the passes that only count delays down
\* need not write it.
THEOREM JournalFollowsTable == SupSpec => []JournalCurrent
<1>1. SupInv => JournalCurrent
  BY DEF SupInv
<1> QED
  BY <1>1, SupervisorInvariant, PTL
=============================================================================
