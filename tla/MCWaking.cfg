SPECIFICATION WakingFairSpec
CONSTANTS
    Serials = {s1, s2}
    NoSerial = NoSerial
    MaxCalls = 4
    Uris = {u1}
    Empty = Empty
    Filers = {f1, f2}
    Wakers = {w1, w2}
    AgeLimit = 1
    Retries = 1
    Lifetimes = {1}
    MaxTokens = 2
    MaxTime = 2
    Issuers = {i1}
    Agents = {a1}
    MaxMinted = 2
INVARIANTS DeadIsGone NewestObservationStays PostsBounded RejectedIsReplaced TokenFollowsEnrollment
PROPERTIES DeadStaysDead WakeEnds
CHECK_DEADLOCK FALSE
