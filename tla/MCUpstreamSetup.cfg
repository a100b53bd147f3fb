SPECIFICATION SetupSpec
CONSTANTS
    i1 = i1
    i2 = i2
    Clients = {i1, i2}
    Levels = {"replica", "logical"}
    Counts = {0, 5, 10}
    MaxCommands = 3
    MaxRestarts = 2
INVARIANTS
    SetupTypeOK
    ReportsHold
    ServedHolds
SYMMETRY Swap
CHECK_DEADLOCK FALSE
