SPECIFICATION Spec
SYMMETRY MCSymmetry
CONSTANTS
    s1 = s1
    s2 = s2
    s3 = s3
    s4 = s4
    None = None
    Ids <- MCIds
    ReadTokens = 1
    GenerateSmall = 1
    GenerateLarge = 2
    SmallBudget = 2
    Budgets = {}
    Actions = {"fail"}
    ContextTokens = {1}
    Lifespans = {1}
    CheckInInterval = 1
    Advances = {1}
    ThornTtl = 1
    ThornShare = 2
    MaxDepth = 1
    Roles = {FALSE}
    Probes <- MCProbes
    Modes = {"background"}
    Commands <- MCCommands
INVARIANTS
    QuarantineIsGuarded
    ThornCapacity
PROPERTY RevivalNeedsCell
