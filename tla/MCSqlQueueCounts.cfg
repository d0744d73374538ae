SPECIFICATION SqlSpec
CONSTANTS
    Ids <- MCIds
    Procs = {p1, p2, p3}
    p1 = p1
    p2 = p2
    p3 = p3
    Pruners = {p3}
    ShortCalls = TRUE
    Chosen = {"cmd-2"}
    AutoNames <- MCAutoNames
    MaxAttempts = 2
    MaxCalls <- MCCalls
    MaxTime = 2
    Clean = Clean
INVARIANT CountsAreExact
CHECK_DEADLOCK FALSE
