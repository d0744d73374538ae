SPECIFICATION Spec
CONSTANTS
    Keys = {"peer", "device", "other"}
    Interval <- Intervals
    Burst <- Bursts
    MaxEntries = 2
    Second = 2
    MaxTime = 6
INVARIANTS RateBound CapacityBound RetrySuffices
PROPERTY RetryIsNeeded
CHECK_DEADLOCK FALSE
