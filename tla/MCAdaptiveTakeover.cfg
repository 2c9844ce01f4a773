SPECIFICATION FairSpec
CONSTANTS
    p1 = p1
    p2 = p2
    v1 = v1
    v2 = v2
    h1 = h1
    Missing = Missing
    Unchecked = Unchecked
    NoLock = NoLock
    NoHash = NoHash
    Procs <- MCProcs
    Paths <- MCPathsOne
    Values <- MCValues
    Requests <- MCRequestsOne
    Timeout = 1
    Stale = 1
    MaxAge = 2
    Keys <- MCKeysOne
    Hashes = {h1}
    Pointers <- MCPointers
    Crashes = FALSE
    DiskFails = TRUE
PROPERTIES
    LeakedLocksGo
