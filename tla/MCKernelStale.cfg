CONSTANTS
    MaxRunnable = 3
    MaxProcs = 3
    QueueDepth = 1
    PidMod = 6
    LastPid = 4
    Statuses = {0}
    Rsps = {"valid"}
    Nices = {}
    SpawnMasks <- MCInherit
    CapMasks = {}
    SecTags = {}
    IntTags = {}
SPECIFICATION Spec
INVARIANT NoInheritedMessages
CHECK_DEADLOCK FALSE
