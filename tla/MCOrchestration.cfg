SPECIFICATION Spec
SYMMETRY MCSymmetry
CHECK_DEADLOCK FALSE
CONSTANTS
    p1 = p1
    p2 = p2
    Procs <- MCProcs
    MaxAgents = 2
    Findings = {"f1"}
    ItemInterval = 1
    MaxProcessed = 2
    Programs <- MCPrograms
    Crashes = TRUE
    MaxStarts = 3
    Missing = Missing
    Blank = Blank
    Garbled = Garbled
    Nothing = Nothing
INVARIANTS
    TypeOK
    NotifiedNotEarly
    NotifiedWhenSerial
    SerialKeeps
    CheckpointFresh
    StatusAgrees
