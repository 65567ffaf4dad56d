CONSTANTS
    Pages = 10
    MaxOrder = 4
SPECIFICATION BuddySpec
INVARIANT FreeNeverHalts
CHECK_DEADLOCK FALSE
