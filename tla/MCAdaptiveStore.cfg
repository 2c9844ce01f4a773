SPECIFICATION FairSpec
CONSTANTS
    p1 = p1
    p2 = p2
    v1 = v1
    v2 = v2
    h1 = h1
    Missing = Missing
    Unchecked = Unchecked
    NoLock = NoLock
    NoHash = NoHash
    Procs <- MCProcs
    Paths <- MCPaths
    Values <- MCValues
    Requests <- MCRequests
    Timeout = 1
    Stale = 0
    MaxAge = 0
    Keys <- MCKeys
    Hashes = {h1}
    Pointers <- MCPointers
    Crashes = TRUE
    DiskFails = FALSE
INVARIANTS
    MutualExclusion
    IndexHasRows
PROPERTIES
    Atomic
    LogFollowsFile
    CommandsEnd
