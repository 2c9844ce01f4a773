SPECIFICATION Spec
SYMMETRY MCSymmetry
CONSTANTS
    c1 = c1
    c2 = c2
    Keys = {"k1", "k2"}
    Kinds = {"crit", "warn", "info"}
    Severity <- MCSeverity
    Score <- MCScore
    Noisy = {}
    Consumers <- MCConsumers
    Limits = {1, 2}
    MaxQueueDepth = 1
    DropBelow = "critical"
    Ttl = 2
    DedupeWindow = 1
    Retains = {0}
    MinAckeds = {1}
    Crashes = TRUE
    MaxEvents = 3
INVARIANTS
    QueueSorted
    DroppableWithinCap
    DedupeHolds
PROPERTIES
    AckNamesDelivered
    CursorNeverRewinds
    CompactKeepsUnread
    FreshCriticalFirst
