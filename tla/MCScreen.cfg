CONSTANTS
    TermRows = 5
    TermCols = 6
    MaxPrinted = 14
    Replies = {0, 1, 6}
    TagSet = {1, 2}
    MaxTagClients = 3
    TagPrograms = {"rwm", "desktop"}
    NovaApps = {"a", "b"}
    NovaSlots = 2
    NovaTags = {1, 2}
    NovaCap = 2
    NovaSurfaces = 3
    MaxSends = 2
    XWins = {xa, xb}
    XTags = {1, 2}
    XScratch = {xb}
    XQueue = 2
    XCommands = 2
    NoWin = none
SPECIFICATION ScreenSpec
CHECK_DEADLOCK FALSE
INVARIANT TextShown
INVARIANT ClientsReachable
 
INVARIANT RequestsFollowed
