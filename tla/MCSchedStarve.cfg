CONSTANTS
    MaxRunnable = 3
    NumProcs = 3
    Nices = {0}
    MaxVrt = 6000
SPECIFICATION FairSpec
PROPERTY NoStarvation
CHECK_DEADLOCK FALSE
