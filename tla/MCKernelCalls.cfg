CONSTANTS
    MaxRunnable = 2
    MaxProcs = 2
    QueueDepth = 1
    PidMod = 5
    LastPid = 3
    Statuses = {0}
    Rsps = {"valid"}
    Nices = {}
    SpawnMasks <- MCMasks
    CapMasks <- MCGrants
    SecTags = {sec}
    IntTags = {}
    KeyQueueSize = 3
    PollMax = 3
    MaxStrokes = 3
    MaxPackets = 2
    MaxHeld = 4
    DsPids = {1, 2}
    MaxSurfaces = 2
    MaxSurfaceId = 2
    Zs = {0, 1}
    GopModes <- Modes
    RowBuf = 4
    Rects <- SomeRects
    U32 = 8
SPECIFICATION CallsSpec
CHECK_DEADLOCK FALSE
INVARIANT FlowRespected
 
INVARIANT SurfacesOwned
 
PROPERTY CapsNeverRegenerate
