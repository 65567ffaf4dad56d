CONSTANTS
    Depth = 3
    Msg = {m0, m1, m2}
    Zero = m0
    TtyRing = 3
    TtyCounts = {1, 3}
    TtyMaxTyped = 4
    Services = {wm, terminal}
    WM = wm
    Pids = {p1, p2, p3}
    NoPid = nopid
    Exits = {0, 1, 42}
    HaltExits = {42}
    BaseDelay = 1
    MaxShift = 2
    MaxDelay = 3
    MaxCount = 3
    MaxInbox = 1
    Pages = 10
    MaxOrder = 4
    NvmeMaxCmds = 6
    NvmeMaxTimeouts = 2
SPECIFICATION ServicesSpec
CHECK_DEADLOCK FALSE
INVARIANT TypedIsRead
INVARIANT OneInstance
INVARIANT JournalCurrent
INVARIANT Conserved
INVARIANT CommandsAnswered
INVARIANT ReadyMeansQueues
PROPERTY RingIsFifo
PROPERTY CallsReturn
PROPERTY RestartsUnderLoad
PROPERTY HandsOutDisjointBlocks
