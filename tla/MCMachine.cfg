CONSTANTS
    BootPages = 7
    LowPages = 2
    MinBase = 1
    KernelPages = {1}
    FixedPages = {1, 2}
    MapCapacity = 6
    MaxEntries = 2
    MaxRegion = 2
    PageUnits = 8
    TextCheck = 4
    ImageFrames = 3
    PoolPages = 27
    RamRegions <- Regions
    DevPages = {15, 17}
    PtSlots = {s1, s2}
    MmapCounts = {1, 2}
    MaxStarts = 3
    PageWords = 16
    NumPages = 3
    Classes = {4, 8}
    AllocSizes = {1, 3, 10}
    AllocAligns = {1, 4}
    SlabSize = 2
    MaxLive = 3
    MaxRunnable = 3
    NumProcs = 3
    Nices = {19}
    MaxVrt = 1000
    FsNames = {a, b}
    FsPids = {p, q}
    FsRecords = 2
    FsOpen = 1
    BlockSize = 2
    FsLens = {3}
    FsMaxBlock = 5
    FsMaxOffset = 5
    FsFaults = TRUE
SPECIFICATION MachineSpec
CHECK_DEADLOCK FALSE
INVARIANT FramesWellChosen
INVARIANT ImageExact
 
INVARIANT PagesOwned
INVARIANT HeapApart
INVARIANT NobodyBehindClock
 
INVARIANT HeaderCoversFiles
INVARIANT TablesConsistent
