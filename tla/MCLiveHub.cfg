SPECIFICATION FairSpec
CONSTANTS
    c1 = c1
    c2 = c2
    k1 = k1
    v1 = v1
    v2 = v2
    Tables = {"a", "b", "c"}
    Keys = {k1}
    Vals = {v1, v2}
    NoRow = NoRow
    NoSub = NoSub
    Clients = {c1, c2}
    Queries <- OneQuery
    Txns <- SomeTxns
    Xid <- Overlapping
    Capacity = 1
    MaxCommits = 2
    MaxIds = 2
INVARIANTS
    StreamMatchesLast
    RegisteredIsOpen
    UpToDateCovers
    QuiescentFresh
PROPERTY
    StreamsMoveForward
    EveryCommitAnswered
CHECK_DEADLOCK FALSE
