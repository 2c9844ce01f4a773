SPECIFICATION FairSpec
CONSTANTS
    s1 = s1
    s2 = s2
    s3 = s3
    s4 = s4
    None = None
    Ids <- MCIdsLive
    ReadTokens = 1
    GenerateSmall = 1
    GenerateLarge = 2
    SmallBudget = 2
    Budgets = {}
    Actions = {"fail"}
    ContextTokens = {1}
    Lifespans = {2}
    CheckInInterval = 1
    Advances = {1}
    ThornTtl = 2
    ThornShare = 2
    MaxDepth = 1
    Roles = {FALSE}
    Probes <- MCProbes
    Modes = {"background"}
    Commands <- MCCommandsLive
PROPERTIES QuarantineEnds
