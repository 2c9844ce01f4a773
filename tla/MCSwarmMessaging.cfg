SPECIFICATION FairSpec
CONSTANTS
    c = c
    None = None
    Coordinator = Coordinator
    MailboxOrder <- MCOrder
    Parent <- MCParent
    Payloads = {"a"}
    Deliveries = {"at_most_once", "at_least_once", "exactly_once"}
    Ttls = {1}
    DefaultTtl = 2
    MaxUnread = 2
    MaxDead = 2
    Limits = {1, 2}
    MaxIds = 3
INVARIANTS
    ExactlyOnceDelivered
    OnePlace
    MailboxFifo
    NeverReadExpired
PROPERTIES
    UnreadDrains
    RetryLosesOnlyDuplicates
