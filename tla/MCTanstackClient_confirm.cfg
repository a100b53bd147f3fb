SPECIFICATION FairSpec
CONSTANTS
    Unsubscribed = Unsubscribed
    k1 = k1
    k2 = k2
    v1 = v1
    v2 = v2
    Keys = {k1}
    Vals = {v1, v2}
    HashKeyed = FALSE
    MayReject = FALSE
    Timeouts = FALSE
    MaxSeen = 2
    MaxCommits = 2
    MaxOurs = 2
    MaxLosses = 1
PROPERTY WritesConfirmed
CHECK_DEADLOCK FALSE
