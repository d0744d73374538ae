SPECIFICATION FairSpec
CONSTANTS
    Ids = {"reads", "a"}
    Kinds <- LiveKinds
    UserScoped = {}
    FirstReads = "reads"
    Sessions = {"s1"}
    Facts <- Anyone
    GetStatuses = {"ok"}
    Limit = 256
    Budget = 9
    Chunks = 2
    EarlyStatus = FALSE
    MaxSeq = 2
    MaxFaults = 1
    MaxResends = 1
    MaxCancels = 1
    MaxPrunes = 1
INVARIANT AckedIsApplied
PROPERTIES FinishedIsGone EventuallyAnswered SessionsEnd
CHECK_DEADLOCK FALSE
