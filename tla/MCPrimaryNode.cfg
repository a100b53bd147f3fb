SPECIFICATION Spec
CONSTANTS
    n1 = n1
    n2 = n2
    w = w
    f1 = f1
    f2 = f2
    g2 = g2
    s1 = s1
    s2 = s2
    s3 = s3
    x = x
    a1 = a1
    a2 = a2
    NoFile = NoFile
    Free = Free
    NoTable = NoTable
    Nodes = {n1, n2}
    Replicas = {n2}
    Named = {n1}
    Http = {n2}
    Topologies <- MCTopologies
    MaxAttached <- MCAttached
    MaxCrashes = 1
    Dirs <- MCDirs
    Names = {f1, f2, g2}
    Ordinal <- MCOrdinal
    Sums = {s1, s2, s3}
    Unacknowledged = {s3}
    Appliers = {a1, a2}
    Changes <- MCChanges
    Origins <- MCOrigins
    Host <- MCHost
    MaxEdits = 1
INVARIANTS
    TypeOK
    AppliedOnce
    InOrder
    ReportsTrue
    Released
    BindingsNeedSource
    LockKept
PROPERTY KeepsContract
SYMMETRY Swap
CHECK_DEADLOCK FALSE
