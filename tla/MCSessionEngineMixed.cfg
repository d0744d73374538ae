SPECIFICATION Spec
CONSTANTS
    Ids = {"reads", "a"}
    Kinds <- MixedKinds
    UserScoped = {"a"}
    FirstReads = "reads"
    Sessions = {s1, s2}
    Facts <- UserOrNot
    GetStatuses = {"ok", "error"}
    Limit = 256
    Budget = 9
    Chunks = 2
    EarlyStatus = FALSE
    MaxSeq = 3
    MaxFaults = 1
    MaxResends = 1
    MaxCancels = 1
    MaxPrunes = 0
INVARIANTS TypeOK ResultsAreReal  AttemptsCover
PROPERTY UserScopeHeld
SYMMETRY SessionSymmetry
CHECK_DEADLOCK FALSE
