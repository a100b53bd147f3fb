SPECIFICATION Spec
CONSTANTS
    Tables = {"orders", "events"}
    Columns = {"id", "tag"}
    Values = {TRUE, FALSE}
    Null = Null
    Texts = {"t", "f", "true"}
    Text <- MCText
    PK <- MCPK
    Row <- MCRow
    Full = {"events"}
    Queries <- FaithfulOnly
    InitialDbs <- MCInitialDbs
    Replicated = {"orders", "events"}
    Refusable = {"nextval", "random"}
    MaxCommits = 3
    MaxChanges = 3
INVARIANTS
    TypeOK
    VersionPinsResult
    VersionIsRelevant
PROPERTY ImplementsContract
CHECK_DEADLOCK FALSE
