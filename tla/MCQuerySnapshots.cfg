SPECIFICATION Spec
CONSTANTS
    r1 = r1
    r2 = r2
    q1 = q1
    Readers = {r1, r2}
    Queries = {q1}
    NoBody = NoBody
    MaxCommits = 2
    MaxRestarts = 1
SYMMETRY ReaderSymmetry
INVARIANTS
    CacheNotOlder
    ResponseFresh
CHECK_DEADLOCK FALSE
