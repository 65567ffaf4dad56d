CONSTANTS
    FsNames = {a, b}
    FsPids = {p, q}
    FsRecords = 2
    FsOpen = 2
    BlockSize = 2
    FsLens = {3}
    FsMaxBlock = 8
    FsMaxOffset = 6
    FsFaults = FALSE
SYMMETRY FsSymmetry
SPECIFICATION StorageSpec
INVARIANT NoDataLoss
