SPECIFICATION Spec
CONSTANTS
    r1 = r1
    r2 = r2
    t1 = t1
    t2 = t2
    Tables = {t1, t2}
    Requests = {r1, r2}
    MaxChanges = 2
SYMMETRY Symmetry
INVARIANTS
    PublicIsCurrent
    EntriesNotOlder
CHECK_DEADLOCK FALSE
