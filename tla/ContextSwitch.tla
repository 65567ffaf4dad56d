--------------------------- MODULE ContextSwitch ---------------------------
(***************************************************************************)
(* The user-visible machine state across system calls and switches: the    *)
(* SYSCALL entry and SYSRET return (arch/x86_64/syscall_entry.rs), the     *)
(* context sys_waitpid saves when it blocks, and enter_user                *)
(* (process/context/mod.rs).  The two entry globals, __syscall_kernel_rsp  *)
(* and __syscall_user_rsp, are shared by all processes; what a process was *)
(* doing survives a switch only in its kernel stack and its TrapFrame.     *)
(***************************************************************************)
EXTENDS Integers

CONSTANTS CtxProcs,  \* processes
          Init0,     \* the process kernel_main runs first
          Regs,      \* the registers the entry code saves and pops
          Rax,       \* the register of the call number and of the result
          Val,       \* register and stack pointer values
          Sites      \* addresses of SYSCALL instructions

ASSUME ProcsAssumption == Init0 \in CtxProcs
ASSUME RegsAssumption == Rax \in Regs
ASSUME SitesAssumption == Sites \subseteq Nat /\ Sites # {} /\ Val # {}

VARIABLES onCpu,     \* the current process
          mode,      \* "user" or "kernel"
          regs,      \* the processor's general registers, while in user mode
          rsp,       \* the user stack pointer, while in user mode
          rip,       \* where the process is: the SYSCALL it reaches next
          kernel_rsp,\* __syscall_kernel_rsp, and TSS.RSP0: whose kernel stack
          user_rsp,  \* __syscall_user_rsp
          saved,     \* SyscallRegs, with rcx, at the top of each kernel stack
          frame,     \* the TrapFrame of each process
          fresh,     \* the processes created and not yet run
          asleep,    \* the processes stopped in sys_waitpid
          entered    \* history: the state each process made its last call in

ctxVars == <<onCpu, mode, regs, rsp, rip, kernel_rsp, user_rsp, saved, frame, fresh, asleep, entered>>

SyscallLen == 2      \* 0x0F 0x05

Addr == Sites \cup {a + SyscallLen : a \in Sites}

-----------------------------------------------------------------------------
CtxInit ==
    /\ onCpu = Init0 /\ mode = "user"
    /\ regs \in [Regs -> Val] /\ rsp \in Val /\ rip \in Sites
    /\ kernel_rsp = Init0 /\ user_rsp \in Val
    /\ saved = [p \in CtxProcs |-> [regs |-> regs, rcx |-> rip]]
    /\ frame = [p \in CtxProcs |-> [rip |-> rip, rsp |-> rsp]]
    /\ fresh = {} /\ asleep = {}
    /\ entered = [p \in CtxProcs |-> [regs |-> regs, rsp |-> rsp, rip |-> rip]]

\* The program computes and gets to another SYSCALL instruction.
Compute ==
    /\ mode = "user"
    /\ regs' \in [Regs -> Val] /\ rsp' \in Val /\ rip' \in Sites
    /\ UNCHANGED <<onCpu, mode, kernel_rsp, user_rsp, saved, frame, fresh, asleep, entered>>

\* SYSCALL and the first half of syscall_entry: rcx is the return address.
Syscall ==
    /\ mode = "user" /\ rip \in Sites
    /\ user_rsp' = rsp
    /\ saved' = [saved EXCEPT ![kernel_rsp] = [regs |-> regs, rcx |-> rip + SyscallLen]]
    /\ entered' = [entered EXCEPT ![onCpu] = [regs |-> regs, rsp |-> rsp, rip |-> rip]]
    /\ mode' = "kernel"
    /\ UNCHANGED <<onCpu, regs, rsp, rip, kernel_rsp, frame, fresh, asleep>>

\* Mutant of Sysret: the stack pointer of the last TrapFrame is restored.
SysretFrameRsp(v) ==
    /\ mode = "kernel"
    /\ regs' = [saved[kernel_rsp].regs EXCEPT ![Rax] = v]
    /\ rip' = saved[kernel_rsp].rcx
    /\ rsp' = frame[onCpu].rsp
    /\ mode' = "user"
    /\ UNCHANGED <<onCpu, kernel_rsp, user_rsp, saved, frame, fresh, asleep, entered>>

\* The second half of syscall_entry and SYSRET, the call having returned v.
Sysret(v) ==
    /\ mode = "kernel"
    /\ regs' = [saved[kernel_rsp].regs EXCEPT ![Rax] = v]
    /\ rip' = saved[kernel_rsp].rcx
    /\ rsp' = user_rsp
    /\ mode' = "user"
    /\ UNCHANGED <<onCpu, kernel_rsp, user_rsp, saved, frame, fresh, asleep, entered>>

\* enter_user: both kernel stack pointers, then IRETQ from the TrapFrame.  It
\* loads no general register: the process finds in them what the kernel's own
\* code left there.
enter_user(p) ==
    /\ onCpu' = p /\ mode' = "user"
    /\ rip' = frame[p].rip /\ rsp' = frame[p].rsp
    /\ regs' \in [Regs -> Val]
    /\ kernel_rsp' = p
    /\ UNCHANGED user_rsp

\* Mutant of SavedFrame: the process is to continue after the SYSCALL.
SavedFrameAfter == [rip |-> saved[kernel_rsp].rcx, rsp |-> user_rsp]

\* The context sys_waitpid saves: back to the SYSCALL instruction itself.
SavedFrame == [rip |-> saved[kernel_rsp].rcx - SyscallLen, rsp |-> user_rsp]

\* sys_waitpid blocks and another process, q, is run.
BlockInWait(q) ==
    /\ mode = "kernel" /\ q \in fresh \cup asleep
    /\ frame' = [frame EXCEPT ![onCpu] = SavedFrame]
    /\ fresh' = fresh \ {q} /\ asleep' = (asleep \ {q}) \cup {onCpu}
    /\ enter_user(q)
    /\ UNCHANGED <<saved, entered>>

\* sys_exit, or a page fault in user mode, and q is run.
ExitTo(q) ==
    /\ q \in fresh \cup asleep
    /\ fresh' = fresh \ {q} /\ asleep' = asleep \ {q}
    /\ enter_user(q)
    /\ UNCHANGED <<saved, frame, entered>>

\* create_user_process, in sys_spawn.
Create(p) ==
    /\ mode = "kernel" /\ p \notin fresh \cup asleep \cup {onCpu}
    /\ \E a \in Sites, s \in Val : frame' = [frame EXCEPT ![p] = [rip |-> a, rsp |-> s]]
    /\ fresh' = fresh \cup {p}
    /\ UNCHANGED <<onCpu, mode, regs, rsp, rip, kernel_rsp, user_rsp, saved, asleep, entered>>

CtxNext ==
    \/ Compute
    \/ Syscall
    \/ \E v \in Val : Sysret(v)
    \/ \E q \in CtxProcs : BlockInWait(q)
    \/ \E q \in CtxProcs : ExitTo(q)
    \/ \E p \in CtxProcs : Create(p)

CtxSpec == CtxInit /\ [][CtxNext]_ctxVars

-----------------------------------------------------------------------------
CtxTypeOK ==
    /\ onCpu \in CtxProcs /\ mode \in {"user", "kernel"}
    /\ regs \in [Regs -> Val] /\ rsp \in Val /\ rip \in Addr
    /\ kernel_rsp \in CtxProcs /\ user_rsp \in Val
    /\ saved \in [CtxProcs -> [regs : [Regs -> Val], rcx : Addr]]
    /\ frame \in [CtxProcs -> [rip : Addr, rsp : Val]]
    /\ fresh \subseteq CtxProcs /\ asleep \subseteq CtxProcs
    /\ entered \in [CtxProcs -> [regs : [Regs -> Val], rsp : Val, rip : Addr]]

\* A process blocked in sys_waitpid is to continue at the very SYSCALL it made,
\* with the stack pointer it made it with, however many calls the others have
\* made since through the same two globals.
ResumesAtItsCall ==
    \A p \in asleep : frame[p].rip = entered[p].rip /\ frame[p].rsp = entered[p].rsp

\* A system call that returns changes nothing the process can see but rax: it
\* continues behind its SYSCALL, on its stack, with its registers.
ReturnsTransparently ==
    [][(mode = "kernel" /\ mode' = "user" /\ onCpu' = onCpu) =>
          LET e == entered[onCpu]
          IN  /\ rip' = e.rip + SyscallLen /\ rsp' = e.rsp
              /\ \A r \in Regs \ {Rax} : regs'[r] = e.regs[r]]_ctxVars

\* "re-executes the SYSCALL instruction and retries waitpid"
\* (dispatcher/process.rs:57): the registers that hold the call number and its
\* arguments are what they were when the process blocked.
RetriesItsCall ==
    [][\A p \in asleep \ asleep' : regs' = entered[p].regs]_ctxVars
=============================================================================
