SPECIFICATION FairSpec
CONSTANTS
    Unsubscribed = Unsubscribed
    k1 = k1
    k2 = k2
    v1 = v1
    v2 = v2
    Keys = {k1}
    Vals = {v1, v2}
    HashKeyed = TRUE
    MayReject = TRUE
    Timeouts = TRUE
    MaxSeen = 1
    MaxCommits = 3
    MaxOurs = 1
    MaxLosses = 2
INVARIANTS
    TypeOK
    WholeResults
    ConfirmedIsShown
 
CHECK_DEADLOCK FALSE
