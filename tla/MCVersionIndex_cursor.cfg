SPECIFICATION Spec
CONSTANTS
    Tables = {"orders", "events"}
    Columns = {"id", "tag"}
    Values = {TRUE, FALSE}
    Null = Null
    Texts = {"t", "f", "true"}
    Text <- MCText
    PK <- MCPK
    Row <- MCRow
    Full = {"events"}
    Queries <- Unfaithful
    InitialDbs <- MCInitialDbs
    Replicated = {"orders", "events"}
    Refusable = {"nextval", "random"}
    MaxCommits = 2
    MaxChanges = 3
INVARIANT EveryWriteMovesCursor
CHECK_DEADLOCK FALSE
