SPECIFICATION FairSpec
CONSTANTS
    p1 = p1
    p2 = p2
    m1 = m1
    m2 = m2
    Never = Never
    Procs <- MCProcs
    Modules <- MCModules
    MinCells = 1
    MaxCells = 2
    Quota <- MCQuota
    HardwareCaps = {0}
    Jobs <- MCJobs
    MinTtl = 1
    MaxTtl = 1
    LeasesEnabled = TRUE
    SaveFails = TRUE
    MaxNow = 1
INVARIANTS
    FileWithinPool
    GrantsRecorded
PROPERTIES
    ExpiredLeasesGo
