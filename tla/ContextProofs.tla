--------------------------- MODULE ContextProofs ---------------------------
(***************************************************************************)
(* For any number of processes, registers and call sites: a process that   *)
(* blocks is resumed at its own SYSCALL, and a call that returns leaves    *)
(* the process as it was, although the two globals of the entry code are   *)
(* shared by all of them.                                                  *)
(***************************************************************************)
EXTENDS ContextSwitch, TLAPS

\* The kernel stack in use is the one of the current process, which neither
\* sleeps nor waits for its first run; and inside a call the globals and the
\* kernel stack hold what the caller entered with.
CallInProgress ==
    /\ kernel_rsp = onCpu
    /\ onCpu \notin fresh \cup asleep
    /\ mode = "kernel" =>
         /\ user_rsp = entered[onCpu].rsp
         /\ saved[onCpu].regs = entered[onCpu].regs
         /\ saved[onCpu].rcx = entered[onCpu].rip + SyscallLen

\* The inductive invariant.
CtxInv == CtxTypeOK /\ CallInProgress /\ ResumesAtItsCall

\* What the instructions at Sites and behind them have in common.
LEMMA AddressesAreNumbers == Addr \subseteq Int
<1> SUFFICES ASSUME NEW x \in Addr PROVE x \in Int
  OBVIOUS
<1>1. x \in Sites \/ \E a \in Sites : x = a + SyscallLen
  BY DEF Addr
<1>2. \A a \in Sites : a \in Nat
  BY SitesAssumption
<1>3. CASE x \in Sites
  BY <1>2, <1>3
<1>4. CASE \E a \in Sites : x = a + SyscallLen
  BY <1>2, <1>4 DEF SyscallLen
<1> QED BY <1>1, <1>3, <1>4

\* The first process starts in user mode with nothing saved.
LEMMA CtxInitially == CtxInit => CtxInv
BY ProcsAssumption DEF CtxInit, CtxInv, CtxTypeOK, CallInProgress, ResumesAtItsCall, Addr

\* Entering the kernel fills the globals for the current process only.
LEMMA SyscallKeeps == CtxInv /\ Syscall => CtxInv'
<1> SUFFICES ASSUME CtxInv, Syscall PROVE CtxInv'
  OBVIOUS
<1>1. rip + SyscallLen \in Addr
  BY DEF Syscall, Addr
<1>2. CtxTypeOK'
  BY <1>1 DEF CtxInv, CtxTypeOK, CallInProgress, Syscall
<1>3. CallInProgress'
  BY DEF CtxInv, CtxTypeOK, CallInProgress, Syscall
<1>4. ResumesAtItsCall'
  BY DEF CtxInv, CtxTypeOK, CallInProgress, ResumesAtItsCall, Syscall
<1> QED BY <1>2, <1>3, <1>4 DEF CtxInv

\* The context a blocked process leaves is that of its call.
LEMMA FrameOfCall ==
    ASSUME CtxInv, mode = "kernel"
    PROVE  SavedFrame = [rip |-> entered[onCpu].rip, rsp |-> entered[onCpu].rsp]
<1>1. entered[onCpu].rip \in Int
  BY AddressesAreNumbers DEF CtxInv, CtxTypeOK
<1>2. saved[kernel_rsp].rcx - SyscallLen = entered[onCpu].rip
  BY <1>1 DEF CtxInv, CallInProgress, SyscallLen
<1> QED BY <1>2 DEF CtxInv, CallInProgress, SavedFrame

\* Blocking in sys_waitpid and running another process.
LEMMA BlockKeeps == ASSUME NEW q \in CtxProcs, CtxInv, BlockInWait(q) PROVE CtxInv'
<1>1. SavedFrame = [rip |-> entered[onCpu].rip, rsp |-> entered[onCpu].rsp]
  BY FrameOfCall DEF BlockInWait
<1>2. CtxTypeOK'
  BY <1>1 DEF CtxInv, CtxTypeOK, BlockInWait, enter_user
<1>3. CallInProgress'
  BY DEF CtxInv, CallInProgress, BlockInWait, enter_user
<1>4. ResumesAtItsCall'
  BY <1>1 DEF CtxInv, CtxTypeOK, ResumesAtItsCall, BlockInWait
<1> QED BY <1>2, <1>3, <1>4 DEF CtxInv

\* Leaving for good and running another process.
LEMMA ExitKeeps == ASSUME NEW q \in CtxProcs, CtxInv, ExitTo(q) PROVE CtxInv'
BY DEF CtxInv, CtxTypeOK, CallInProgress, ResumesAtItsCall, ExitTo, enter_user

\* A new process gets a TrapFrame of its own.
LEMMA CreateKeeps == ASSUME NEW p \in CtxProcs, CtxInv, Create(p) PROVE CtxInv'
<1>1. PICK a \in Sites, s \in Val : frame' = [frame EXCEPT ![p] = [rip |-> a, rsp |-> s]]
  BY DEF Create
<1>2. CtxTypeOK'
  BY <1>1 DEF CtxInv, CtxTypeOK, Create, Addr
<1>3. CallInProgress' /\ ResumesAtItsCall'
  BY <1>1 DEF CtxInv, CtxTypeOK, CallInProgress, ResumesAtItsCall, Create
<1> QED BY <1>2, <1>3 DEF CtxInv

\* Every step keeps the invariant.
LEMMA CtxInductive == CtxInv /\ [CtxNext]_ctxVars => CtxInv'
<1> SUFFICES ASSUME CtxInv, [CtxNext]_ctxVars PROVE CtxInv'
  OBVIOUS
<1>1. CASE Compute
  BY <1>1 DEF CtxInv, CtxTypeOK, CallInProgress, ResumesAtItsCall, Compute, Addr
<1>2. CASE Syscall
  BY <1>2, SyscallKeeps
<1>3. CASE \E v \in Val : Sysret(v)
  <2>1. PICK v \in Val : Sysret(v)
    BY <1>3
  <2>2. CtxTypeOK'
    BY <2>1 DEF CtxInv, CtxTypeOK, Sysret
  <2>3. CallInProgress' /\ ResumesAtItsCall'
    BY <2>1 DEF CtxInv, CallInProgress, ResumesAtItsCall, Sysret
  <2> QED BY <2>2, <2>3 DEF CtxInv
<1>4. CASE \E q \in CtxProcs : BlockInWait(q)
  BY <1>4, BlockKeeps
<1>5. CASE \E q \in CtxProcs : ExitTo(q)
  BY <1>5, ExitKeeps
<1>6. CASE \E p \in CtxProcs : Create(p)
  BY <1>6, CreateKeeps
<1>7. CASE UNCHANGED ctxVars
  BY <1>7 DEF CtxInv, CtxTypeOK, CallInProgress, ResumesAtItsCall, ctxVars
<1> QED BY <1>1, <1>2, <1>3, <1>4, <1>5, <1>6, <1>7 DEF CtxNext

\* The invariant holds throughout (syscall_entry, enter_user, sys_waitpid).
THEOREM ContextInvariant == CtxSpec => []CtxInv
BY CtxInitially, CtxInductive, PTL DEF CtxSpec

\* A process blocked in sys_waitpid is to continue at the very SYSCALL it made
\* and on the stack it made it with, for any number of processes.
THEOREM BlockedAtItsCall == CtxSpec => []ResumesAtItsCall
BY ContextInvariant, PTL DEF CtxInv

\* What a return does to the process that made the call.
LEMMA ReturnStep ==
    ASSUME CtxInv, CtxNext, mode = "kernel", mode' = "user", onCpu' = onCpu
    PROVE  /\ rip' = entered[onCpu].rip + SyscallLen /\ rsp' = entered[onCpu].rsp
           /\ \A r \in Regs \ {Rax} : regs'[r] = entered[onCpu].regs[r]
<1>1. \A q \in CtxProcs : ~BlockInWait(q) /\ ~ExitTo(q)
  BY DEF CtxInv, CallInProgress, BlockInWait, ExitTo, enter_user
<1>2. ~Compute /\ ~Syscall /\ \A p \in CtxProcs : ~Create(p)
  BY DEF Compute, Syscall, Create
<1>3. PICK v \in Val : Sysret(v)
  BY <1>1, <1>2 DEF CtxNext
<1> QED BY <1>3 DEF Sysret, CtxInv, CtxTypeOK, CallInProgress

\* A call that returns changes nothing of its process but rax (syscall_entry
\* with its two globals), for any number of processes and registers.
THEOREM CallsReturnTransparently == CtxSpec => ReturnsTransparently
<1>1. CtxInv /\ [CtxNext]_ctxVars =>
        [(mode = "kernel" /\ mode' = "user" /\ onCpu' = onCpu) =>
          LET e == entered[onCpu]
          IN  /\ rip' = e.rip + SyscallLen /\ rsp' = e.rsp
              /\ \A r \in Regs \ {Rax} : regs'[r] = e.regs[r]]_ctxVars
  BY ReturnStep
<1> QED BY <1>1, ContextInvariant, PTL DEF CtxSpec, ReturnsTransparently
=============================================================================
