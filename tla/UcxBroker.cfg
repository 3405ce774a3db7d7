CONSTANTS
    j1 = j1
    j2 = j2
    Jobs = {j1, j2}
    Bodies <- MCBodies
    LocalGpu <- MCLocalGpu
    LocalSize <- MCLocalSize
    Externals <- MCExternals
    Discovering = TRUE
    CacheSecs = 1
    FetchSecs = 1
    Price = 1
    Absent = Absent
    MaxTime = 2
    MaxReceipts = 1
    MaxPolls = 2
    Followed = {j1}
SPECIFICATION UcxSpec
INVARIANTS  PlacedOnce BestWilling
PROPERTY ListIsFresh
CHECK_DEADLOCK FALSE
