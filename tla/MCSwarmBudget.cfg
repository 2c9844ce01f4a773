SPECIFICATION Spec
SYMMETRY MCSymmetry
CONSTANTS
    s1 = s1
    s2 = s2
    s3 = s3
    None = None
    Ids <- MCIds
    ReadTokens = 1
    GenerateSmall = 1
    GenerateLarge = 2
    SmallBudget = 2
    Budgets = {5}
    Actions = {"fail", "compact"}
    ContextTokens = {3}
    Lifespans = {2}
    CheckInInterval = 1
    Advances = {0}
    ThornTtl = 1
    ThornShare = 2
    MaxDepth = 3
    Roles = {TRUE}
    Probes <- MCProbes
    Modes = {"persistent"}
    Commands <- MCCommands
INVARIANTS
    TypeOK
    ReservedIsSumOfHolds
    HoldsMatchChildren
    OverspendNeedsPersistentChild
    TerminatedReturnsBudget
    LineageSound
    LedgerBalances
PROPERTY ChargedOnce
