CONSTANTS
    MaxRunnable = 3
    MaxProcs = 3
    QueueDepth = 1
    PidMod = 6
    LastPid = 4
    Statuses = {0}
    Rsps = {"valid", "invalid"}
    Nices = {5}
    SpawnMasks <- MCInherit
    CapMasks = {}
    SecTags = {}
    IntTags = {}
    CtxProcs = {p1, p2}
    Init0 = p1
    Regs = {rax, rdi}
    Rax = rax
    Val = {v1, v2}
    Sites <- MCSites
    DuProcs = {1, 2}
    DuCounters = 1
    DuEvents = {0}
    DuBps = 2
    DuAddrs = {1}
    DuConds = {0, 3}
    DuLens = {2}
SPECIFICATION LivesSpec
CHECK_DEADLOCK FALSE
INVARIANT RunqueueExact
INVARIANT NoLostWakeup
INVARIANT IdleMeansStuck
INVARIANT ResumesAtItsCall
INVARIANT UnitsOfLiving
INVARIANT BreakpointsDecode
PROPERTY ReturnsTransparently
