SPECIFICATION ReconcileFairSpec
CONSTANTS
    Uris = {"x"}
    Values = {"a", "b"}
    None = None
    Desired <- WantA
    Changes <- Edits
    PageSize = 1
    MaxSeq = 5
    MaxChanges = 2
    MaxTrouble = 1
INVARIANTS ReconcileTypeOK  ReadIsNotOlder
 
CHECK_DEADLOCK FALSE
