SPECIFICATION FairFeedSpec
CONSTANTS
    a = a
    b = b
    c = c
    Tables = {a, b, c}
    Queries <- MCQueries
    Recreated = {a}
    XidLimit = 8
    FirstXid = 6
    MaxCommits = 3
INVARIANTS
    FeedTypeOK
    WatchedWriteMoves
PROPERTY EveryWatchedWriteSeen
CHECK_DEADLOCK FALSE
