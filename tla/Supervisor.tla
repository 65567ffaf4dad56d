----------------------------- MODULE Supervisor -----------------------------
(***************************************************************************)
(* Cogman, pid 1 (userland/src/bin/cogman): the service table, the reap    *)
(* pass with its blocking waitpid, the restart pass with its back-off, the *)
(* journal and the inbox; and with it a shell that runs a command and      *)
(* waits for it (userland/src/bin/shell.rs), whose waitpid competes with   *)
(* Cogman's for the same dead process.                                     *)
(*                                                                         *)
(* The kernel is seen through its calls: a process is live, then dead, and *)
(* is gone once somebody has reaped it; a death wakes whoever waits for    *)
(* that pid or for any, and the woken repeat their call (module Kernel).   *)
(***************************************************************************)
EXTENDS Integers, FiniteSets

CONSTANTS Services,    \* the registered services
          WM,          \* the one that is started at boot, and restarted on failure
          Pids,        \* pids; one is free again once nobody refers to it
          NoPid,       \* pid 0
          Exits,       \* exit statuses programs use
          HaltExits,   \* statuses 42 and 43: halt and reboot
          BaseDelay,   \* 200 passes
          MaxShift,    \* 6
          MaxDelay,    \* 8000 passes
          MaxCount,    \* u16::MAX
          MaxInbox     \* IPC_QUEUE_DEPTH

ASSUME ServicesAssumption == WM \in Services /\ "other" \notin Services /\ NoPid \notin Pids
ASSUME ExitsAssumption == 0 \in Exits /\ Exits \subseteq Nat /\ HaltExits \subseteq Exits
ASSUME DelayAssumption ==
    /\ BaseDelay \in Nat /\ MaxShift \in Nat /\ MaxDelay \in Nat
    /\ MaxCount \in Nat /\ MaxInbox \in Nat

VARIABLES svc,       \* Supervisor.table
          proc,      \* the processes: "none", "live" or "dead", program and status
          cog,       \* where Cogman is in its loop
          shell,     \* where the shell is, and the pid it waits for
          journal,   \* what the kernel journal holds
          inbox      \* messages waiting for Cogman

supVars == <<svc, proc, cog, shell, journal, inbox>>

NoProcess == [st |-> "none", prog |-> "other", exit |-> 0]
NoJournal == <<>>

\* A pid is handed out once; here it may come back when nobody can take the new
\* process for the old one.
Unused == {p \in Pids : proc[p].st = "none" /\ shell.child # p}

Up == cog # "off"

-----------------------------------------------------------------------------
(* The service table.                                                      *)

\* Service::new; only wm has auto_start.
NewService == [pid |-> NoPid, state |-> "Stopped", restart_count |-> 0,
               restart_delay |-> 0, last_exit |-> 0]

\* default_supervisor: wm is OnFailure, the others Never.
should_restart(s, status) == s = WM /\ status # 0

backoff_ticks(n) ==
    LET d == BaseDelay * 2 ^ (IF n < MaxShift THEN n ELSE MaxShift)
    IN  IF d < MaxDelay THEN d ELSE MaxDelay

\* What journal_state writes of a service: all but the delay.
Entry(s) == [pid |-> s.pid, state |-> s.state, restart_count |-> s.restart_count,
             last_exit |-> s.last_exit]

journal_state(t) == [s \in Services |-> Entry(t[s])]

\* Mutant of Spawned: the pid of a new process is not recorded.
SpawnedNoPid(t, got) ==
    [s \in Services |-> IF s \in DOMAIN got THEN [t[s] EXCEPT !.state = "Running"] ELSE t[s]]

\* spawn_service for the services of DOMAIN got, got[s] being the new pid or NoPid when
\* sys_spawn_capped fails.
Spawned(t, got) ==
    [s \in Services |->
        IF s \notin DOMAIN got THEN t[s]
        ELSE IF got[s] = NoPid THEN [t[s] EXCEPT !.state = "Failed"]
        ELSE [t[s] EXCEPT !.pid = got[s], !.state = "Running"]]

WithProcesses(got) ==
    [p \in Pids |-> IF \E s \in DOMAIN got : got[s] = p
                    THEN [st |-> "live", prog |-> CHOOSE s \in DOMAIN got : got[s] = p, exit |-> 0]
                    ELSE proc[p]]

SpawnResults(S) ==
    {got \in [S -> Unused \cup {NoPid}] :
        \A s, t \in S : s # t /\ got[s] = got[t] => got[s] = NoPid}

SupInit ==
    /\ svc = [s \in Services |-> NewService]
    /\ proc = [p \in Pids |-> NoProcess]
    /\ cog = "start"
    /\ shell = [pc |-> "prompt", child |-> NoPid]
    /\ journal = NoJournal
    /\ inbox = 0

\* start_all: the auto_start services, and the journal.
StartAll ==
    /\ cog = "start"
    /\ \E got \in SpawnResults({WM}) :
         /\ svc' = Spawned(svc, got)
         /\ proc' = WithProcesses(got)
    /\ journal' = journal_state(svc')
    /\ cog' = "reap"
    /\ UNCHANGED <<shell, inbox>>

-----------------------------------------------------------------------------
(* The main loop.                                                          *)

\* reap_pass finds a dead process.  A process that is no service (spawned by
\* another one) matches no entry of the table.
ReapPass(p) ==
    /\ cog = "reap" /\ proc[p].st = "dead"
    /\ proc' = [proc EXCEPT ![p] = NoProcess]
    /\ IF proc[p].exit \in HaltExits
       THEN cog' = "off" /\ UNCHANGED <<svc, journal>>
       ELSE /\ svc' = [s \in Services |->
                 IF svc[s].pid # p THEN svc[s]
                 ELSE IF should_restart(s, proc[p].exit)
                      THEN [pid |-> NoPid, state |-> "Restarting", last_exit |-> proc[p].exit,
                            restart_delay |-> backoff_ticks(svc[s].restart_count),
                            restart_count |-> IF svc[s].restart_count < MaxCount
                                              THEN svc[s].restart_count + 1 ELSE MaxCount]
                      ELSE [svc[s] EXCEPT !.pid = NoPid, !.state = "Stopped",
                                          !.last_exit = proc[p].exit]]
            /\ journal' = journal_state(svc')
            /\ cog' = "restart"
    /\ UNCHANGED <<shell, inbox>>

\* waitpid(u32::MAX, .., 0) with nobody dead blocks, children or not.
ReapBlocks ==
    /\ cog = "reap" /\ \A p \in Pids : proc[p].st # "dead"
    /\ cog' = "blocked"
    /\ UNCHANGED <<svc, proc, shell, journal, inbox>>

Due == {s \in Services : svc[s].state = "Restarting" /\ svc[s].restart_delay = 0}

\* The delays of restart_pass after one pass.
CountedDown(t) ==
    [s \in Services |-> IF t[s].state = "Restarting" /\ t[s].restart_delay > 0
                        THEN [t[s] EXCEPT !.restart_delay = @ - 1] ELSE t[s]]

\* Mutant of RestartPass: delays are not counted down.
RestartPassNoTick ==
    /\ cog = "restart"
    /\ \E got \in SpawnResults(Due) : svc' = Spawned(svc, got) /\ proc' = WithProcesses(got)
    /\ journal' = IF Due # {} THEN journal_state(svc') ELSE journal
    /\ cog' = "ipc"
    /\ UNCHANGED <<shell, inbox>>

\* Mutant of RestartPass: a respawn is not journalled.
RestartPassNoJournal ==
    /\ cog = "restart"
    /\ \E got \in SpawnResults(Due) :
         svc' = Spawned(CountedDown(svc), got) /\ proc' = WithProcesses(got)
    /\ cog' = "ipc"
    /\ UNCHANGED <<shell, journal, inbox>>

\* restart_pass: a service whose delay has run out is spawned, the other delays
\* count down by one.
RestartPass ==
    /\ cog = "restart"
    /\ \E got \in SpawnResults(Due) :
         svc' = Spawned(CountedDown(svc), got) /\ proc' = WithProcesses(got)
    /\ journal' = IF Due # {} THEN journal_state(svc') ELSE journal
    /\ cog' = "ipc"
    /\ UNCHANGED <<shell, inbox>>

\* The inbox is drained; no message of handle_ipc changes the table.
HandleIpc ==
    /\ cog = "ipc"
    /\ IF inbox > 0 THEN inbox' = inbox - 1 /\ cog' = cog
                    ELSE inbox' = inbox /\ cog' = "reap"
    /\ UNCHANGED <<svc, proc, shell, journal>>

-----------------------------------------------------------------------------
(* The others.                                                             *)

\* A process exits or is killed: wake_waiters_for.
Die(p, e) ==
    /\ Up /\ proc[p].st = "live"
    /\ proc' = [proc EXCEPT ![p].st = "dead", ![p].exit = e]
    /\ cog' = IF cog = "blocked" THEN "reap" ELSE cog
    /\ shell' = IF shell.pc = "blocked" /\ shell.child = p THEN [shell EXCEPT !.pc = "wait"] ELSE shell
    /\ UNCHANGED <<svc, journal, inbox>>

\* Another program spawns a process Cogman knows nothing of.
Appear(p) ==
    /\ Up /\ p \in Unused
    /\ proc' = [proc EXCEPT ![p].st = "live"]
    /\ UNCHANGED <<svc, cog, shell, journal, inbox>>

Send ==
    /\ Up /\ inbox < MaxInbox
    /\ inbox' = inbox + 1
    /\ UNCHANGED <<svc, proc, cog, shell, journal>>

\* run_program: sys_spawn, then waitpid for the child.
ShellRuns(p) ==
    /\ Up /\ shell.pc = "prompt" /\ p \in Unused
    /\ proc' = [proc EXCEPT ![p].st = "live"]
    /\ shell' = [pc |-> "wait", child |-> p]
    /\ UNCHANGED <<svc, cog, journal, inbox>>

ShellWaits ==
    /\ Up /\ shell.pc = "wait"
    /\ IF proc[shell.child].st = "dead"
       THEN /\ proc' = [proc EXCEPT ![shell.child] = NoProcess]
            /\ shell' = [pc |-> "prompt", child |-> NoPid]
       ELSE proc' = proc /\ shell' = [shell EXCEPT !.pc = "blocked"]
    /\ UNCHANGED <<svc, cog, journal, inbox>>

-----------------------------------------------------------------------------
Cogman ==
    \/ StartAll
    \/ \E p \in Pids : ReapPass(p)
    \/ ReapBlocks
    \/ RestartPass
    \/ HandleIpc

SupNext ==
    \/ Cogman
    \/ \E p \in Pids, e \in Exits : Die(p, e)
    \/ \E p \in Pids : Appear(p)
    \/ Send
    \/ \E p \in Pids : ShellRuns(p)
    \/ ShellWaits

SupSpec == SupInit /\ [][SupNext]_supVars

\* Cogman and the shell go on whenever they can.
SupFairSpec == SupSpec /\ WF_supVars(Cogman) /\ WF_supVars(ShellWaits)

-----------------------------------------------------------------------------
\* The table knows every process Cogman has spawned until it is reaped: a
\* service is Running exactly when it has one process, live or still to be
\* reaped, and that is the one the table names.  So a restart never makes a
\* second instance and no death of a service goes unnoticed.
OneInstance ==
    Up => \A s \in Services :
        {p \in Pids : proc[p].st # "none" /\ proc[p].prog = s} =
            IF svc[s].state = "Running" THEN {svc[s].pid} ELSE {}

\* "Cogman journals its state after every service-table mutation"
\* (supervisor.rs:7): whenever Cogman can be stopped between two passes, the
\* journal is what the table says.
JournalCurrent ==
    cog \notin {"start", "off"} => journal = journal_state(svc)

\* If children keep dying, so that Cogman's loop goes round, a service that is
\* to be restarted is restarted.
RestartsUnderLoad ==
    ([]<>(cog = "restart")) =>
        \A s \in Services : (svc[s].state = "Restarting") ~> (svc[s].state # "Restarting")

\* "If the WM crashes, Cogman tidies up and restarts it" (cogman/main.rs:7).
CrashedWmRestarts ==
    (svc[WM].state = "Restarting") ~> (svc[WM].state # "Restarting" \/ ~Up)

\* "Cogman never blocks indefinitely so it stays responsive"
\* (cogman/main.rs:17): a message is taken from the inbox some time.
StaysResponsive == (inbox = MaxInbox) ~> (inbox < MaxInbox \/ ~Up)

\* "The shell blocks (blocking waitpid) until the child exits before showing
\* the next prompt" (shell.rs:24): once the child is dead there is a prompt.
PromptReturns ==
    (shell.pc # "prompt" /\ proc[shell.child].st # "live") ~> (shell.pc = "prompt" \/ ~Up)
=============================================================================
