SPECIFICATION Spec
CONSTANTS
    Devices = {d1}
    Ids <- MCIds
    AutoIds <- MCAutoIds
    MaxAuto = 2
    MaxSeq = 3
    MaxAttempts = 1
    MaxTime = 2
INVARIANTS
    SeqOrder
    StateAgrees
PROPERTIES
    ImplementsContract
CHECK_DEADLOCK FALSE
