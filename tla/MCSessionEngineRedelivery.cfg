SPECIFICATION Spec
CONSTANTS
    Ids = {"reads", "a"}
    Kinds <- WriteGet
    UserScoped = {}
    FirstReads = "reads"
    Sessions = {"s1"}
    Facts <- Anyone
    GetStatuses = {"ok"}
    Limit = 256
    Budget = 9
    Chunks = 2
    EarlyStatus = FALSE
    MaxSeq = 3
    MaxFaults = 0
    MaxResends = 0
    MaxCancels = 0
    MaxPrunes = 0
INVARIANT AnsweredNotRedelivered
CHECK_DEADLOCK FALSE
