CONSTANTS
    Services = {wm, terminal}
    WM = wm
    Pids = {p1, p2}
    NoPid = nopid
    Exits = {0, 1, 42}
    HaltExits = {42}
    BaseDelay = 1
    MaxShift = 2
    MaxDelay = 3
    MaxCount = 2
    MaxInbox = 0
SPECIFICATION SupFairSpec
PROPERTY CrashedWmRestarts
CHECK_DEADLOCK FALSE
