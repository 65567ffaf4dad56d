----------------------------- MODULE DebugUnits -----------------------------
(***************************************************************************)
(* The two units of the processor that a process may ask for: performance  *)
(* counters (kernel/arch/x86_64/perf.rs) and hardware breakpoints          *)
(* (kernel/arch/x86_64/debug_regs.rs), with their calls (dispatcher/       *)
(* perf.rs, dispatcher/debug.rs) and what happens to them when the kernel  *)
(* switches to another process or the process exits                        *)
(* (kernel/process/lifecycle.rs).                                          *)
(*                                                                         *)
(* DR7 is the set of its bits that are 1.  Counter values are left out.    *)
(***************************************************************************)
EXTENDS Integers, FiniteSets, FiniteSetsExt

CONSTANTS DuProcs,      \* slots of the process table
          DuCounters,   \* MAX_COUNTERS
          DuEvents,     \* event numbers that exist
          DuBps,        \* MAX_HW_BREAKPOINTS
          DuAddrs,      \* user addresses
          DuConds,      \* conditions: 0 Execute, 1 Write, 2 IoRw, 3 ReadWrite
          DuLens        \* lengths: 0 Byte, 1 Word, 2 Qword, 3 Dword

Handles == 0..(DuCounters - 1)
BpSlots == 0..(DuBps - 1)
Nobody == -1
NoEvent == -1

VARIABLES duAlive,    \* processes
          duCur,      \* the current one
          counters,   \* SLOTS: owner and event, or free
          ctl,        \* PERF_CTL: the event each counter counts, or none
          hwBp,       \* hw_bp of each PCB
          dr,         \* the debug registers
          asked,      \* per process, the breakpoints it asked for
          loaded,     \* the process whose state the debug registers hold
          mixed       \* processes that have read registers that were not theirs

duVars == <<duAlive, duCur, counters, ctl, hwBp, dr, asked, loaded, mixed>>

FreeCounter == [occupied |-> FALSE, owner |-> 0]

\* HwBpState::new(): only the reserved bit.
NewBpState == [addr |-> [s \in BpSlots |-> 0], dr7 |-> {10}]
NoBps == [s \in BpSlots |-> <<>>]

DebugInit ==
    /\ \E p \in DuProcs : duAlive = {p} /\ duCur = p /\ loaded = p
    /\ mixed = {}
    /\ counters = [h \in Handles |-> FreeCounter]
    /\ ctl = [h \in Handles |-> NoEvent]
    /\ hwBp = [p \in DuProcs |-> NewBpState]
    /\ dr = NewBpState
    /\ asked = [p \in DuProcs |-> NoBps]

-----------------------------------------------------------------------------
(* debug_regs.rs                                                           *)

\* The bits of the number v at the positions from shift on.
Field(v, shift) == {shift + k : k \in {j \in 0..1 : (v \div 2^j) % 2 = 1}}
SlotBits(s) == {2 * s} \cup ((16 + 4 * s)..(19 + 4 * s))

\* Mutant of set: the length overlaps the condition.
SetShiftedLength(st, s, a, cond, len) ==
    [addr |-> [st.addr EXCEPT ![s] = a],
     dr7 |-> (st.dr7 \ SlotBits(s)) \cup {2 * s} \cup Field(cond, 16 + 4 * s) \cup Field(len, 17 + 4 * s) \cup {10}]

set(st, s, a, cond, len) ==
    [addr |-> [st.addr EXCEPT ![s] = a],
     dr7 |-> (st.dr7 \ SlotBits(s)) \cup {2 * s} \cup Field(cond, 16 + 4 * s) \cup Field(len, 18 + 4 * s) \cup {10}]

clear(st, s) == [addr |-> [st.addr EXCEPT ![s] = 0], dr7 |-> st.dr7 \ SlotBits(s)]

is_enabled(st, s) == 2 * s \in st.dr7

\* What the processor makes of one slot.
Value(bits, shift) == (IF shift \in bits THEN 1 ELSE 0) + (IF shift + 1 \in bits THEN 2 ELSE 0)
Decoded(st, s) ==
    IF is_enabled(st, s)
    THEN <<st.addr[s], Value(st.dr7, 16 + 4 * s), Value(st.dr7, 18 + 4 * s)>>
    ELSE <<>>

-----------------------------------------------------------------------------
(* The calls.                                                              *)

sys_hw_bp_set(s, a, cond, len) ==
    LET l == IF cond = 0 THEN 0 ELSE len
        st == set(hwBp[duCur], s, a, cond, l)
    IN  /\ hwBp' = [hwBp EXCEPT ![duCur] = st]
        /\ dr' = st /\ loaded' = duCur
        /\ asked' = [asked EXCEPT ![duCur][s] = <<a, cond, l>>]
        /\ UNCHANGED <<duAlive, duCur, counters, ctl, mixed>>

\* One slot, or all of them (0xFF).
sys_hw_bp_clear(which) ==
    LET old == hwBp[duCur]
        st == IF Cardinality(which) = 1 THEN clear(old, CHOOSE s \in which : TRUE)
              ELSE [addr |-> [s \in BpSlots |-> 0], dr7 |-> old.dr7 \ UNION {SlotBits(s) : s \in BpSlots}]
    IN  /\ hwBp' = [hwBp EXCEPT ![duCur] = st]
        /\ dr' = st /\ loaded' = duCur
        /\ asked' = [asked EXCEPT ![duCur] = [s \in BpSlots |-> IF s \in which THEN <<>> ELSE @[s]]]
        /\ UNCHANGED <<duAlive, duCur, counters, ctl, mixed>>

\* read_dr refreshes the whole state from the registers, whose ever they are.
sys_hw_bp_query ==
    /\ hwBp' = [hwBp EXCEPT ![duCur] = dr]
    /\ mixed' = IF loaded = duCur THEN mixed ELSE mixed \cup {duCur}
    /\ UNCHANGED <<duAlive, duCur, counters, ctl, dr, asked, loaded>>

\* perf_open: the first free counter.
sys_perf_open(e) ==
    LET free == {h \in Handles : ~counters[h].occupied}
    IN  /\ free # {}
        /\ counters' = [counters EXCEPT ![Min(free)] = [occupied |-> TRUE, owner |-> duCur]]
        /\ ctl' = [ctl EXCEPT ![Min(free)] = e]
        /\ UNCHANGED <<duAlive, duCur, hwBp, dr, asked, loaded, mixed>>

\* perf_close: any counter in use.
sys_perf_close(h) ==
    /\ counters[h].occupied
    /\ ctl' = [ctl EXCEPT ![h] = NoEvent]
    /\ counters' = [counters EXCEPT ![h].occupied = FALSE]
    /\ UNCHANGED <<duAlive, duCur, hwBp, dr, asked, loaded, mixed>>

\* perf_close_for_process
HeldBy(p) == {h \in Handles : counters[h].occupied /\ counters[h].owner = p}

\* A new process has a new PCB.
SpawnProc(p) ==
    /\ p \notin duAlive
    /\ duAlive' = duAlive \cup {p}
    /\ hwBp' = [hwBp EXCEPT ![p] = NewBpState]
    /\ asked' = [asked EXCEPT ![p] = NoBps]
    /\ mixed' = mixed \ {p}
    /\ UNCHANGED <<duCur, counters, ctl, dr, loaded>>

\* A context switch does not touch the debug registers.
SwitchTo(p) ==
    /\ p \in duAlive \ {duCur}
    /\ duCur' = p
    /\ UNCHANGED <<duAlive, counters, ctl, hwBp, dr, asked, loaded, mixed>>

\* Mutant of ExitProc: the breakpoints stay in the processor.
ExitKeepsDr(p) ==
    /\ p \in duAlive \ {duCur}
    /\ ctl' = [h \in Handles |-> IF h \in HeldBy(duCur) THEN NoEvent ELSE ctl[h]]
    /\ counters' = [h \in Handles |-> IF h \in HeldBy(duCur) THEN [counters[h] EXCEPT !.occupied = FALSE] ELSE counters[h]]
    /\ duAlive' = duAlive \ {duCur} /\ duCur' = p
    /\ UNCHANGED <<hwBp, asked, dr, loaded, mixed>>

\* exit_current_and_schedule: counters released, registers cleared, the next process runs.
ExitProc(p) ==
    /\ p \in duAlive \ {duCur}
    /\ ctl' = [h \in Handles |-> IF h \in HeldBy(duCur) THEN NoEvent ELSE ctl[h]]
    /\ counters' = [h \in Handles |-> IF h \in HeldBy(duCur) THEN [counters[h] EXCEPT !.occupied = FALSE] ELSE counters[h]]
    /\ dr' = NewBpState /\ loaded' = Nobody
    /\ duAlive' = duAlive \ {duCur} /\ duCur' = p
    /\ UNCHANGED <<hwBp, asked, mixed>>

DebugNext ==
    \/ \E s \in BpSlots, a \in DuAddrs, cond \in DuConds, len \in DuLens :
         sys_hw_bp_set(s, a, cond, len)
    \/ \E s \in BpSlots : sys_hw_bp_clear({s})
    \/ sys_hw_bp_clear(BpSlots) \/ sys_hw_bp_query
    \/ \E e \in DuEvents : sys_perf_open(e)
    \/ \E h \in Handles : sys_perf_close(h)
    \/ \E p \in DuProcs : SpawnProc(p) \/ SwitchTo(p) \/ ExitProc(p)

DebugSpec == DebugInit /\ [][DebugNext]_duVars

-----------------------------------------------------------------------------
(***************************************************************************)
(* No counter is held by a process that has gone, although counters are    *)
(* keyed by the slot of the process table, which is reused; and exactly    *)
(* the counters in use are counting.                                       *)
(***************************************************************************)
CountersOwned ==
    \A h \in Handles :
        /\ counters[h].occupied => counters[h].owner \in duAlive
        /\ counters[h].occupied <=> ctl[h] # NoEvent

(***************************************************************************)
(* The breakpoints that DR7 and the addresses encode are those that were   *)
(* asked for, in every slot: setting or clearing one disturbs no other,    *)
(* and what a process asked for survives the others.  The exception is a   *)
(* process that queried its breakpoints while the registers held those of  *)
(* another: the query stores them as its own.                              *)
(***************************************************************************)
BreakpointsDecode ==
    \A p \in duAlive \ mixed : \A s \in BpSlots : Decoded(hwBp[p], s) = asked[p][s]

(***************************************************************************)
(* A breakpoint armed in the processor was set by a process that is still  *)
(* alive: exit clears the registers before anyone else runs.               *)
(***************************************************************************)
ArmedByLiving == (\E s \in BpSlots : is_enabled(dr, s)) => loaded \in duAlive

\* Nothing a process asked of the two units outlives it (lifecycle.rs releases
\* both when a process leaves): no counter, and no breakpoint in the processor.
UnitsOfLiving == CountersOwned /\ ArmedByLiving
=============================================================================
