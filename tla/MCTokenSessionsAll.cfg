SPECIFICATION Spec
CONSTANTS
    Requests = {r1, r2}
    Roles = {"ops", "finance"}
    AccessLife = 1
    RefreshLife = 2
    MaxPairs = 3
    LastTick = 2
    MaxFaults = 1
    MaxCalls = 4
SYMMETRY Interchangeable
INVARIANT AllTokensAreOut
CHECK_DEADLOCK FALSE
