SPECIFICATION LiveSpec
CONSTANTS
    r1 = r1
    s1 = s1
    q1 = q1
    k1 = k1
    a = a
    b = b
    Readers = {r1}
    Subscribers = {s1}
    Queries = {q1}
    Live = q1
    Keys = {k1}
    Rows = {a, b}
    Initial <- MCInitial
    NoBody = NoBody
    NoView = NoView
    MaxCommits = 2
    MaxRestarts = 0
INVARIANTS
    LiveTypeOK
    StreamStartsFresh
    StreamFollows
