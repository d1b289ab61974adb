SPECIFICATION Spec
CONSTANTS
    Loans = {1, 2}
    Plan <- MCPlan
    Grace <- MCGrace
    Days = {45, 130}
    Amount = 2
    Workers = {"w1", "w2"}
    MaxRetries = 3
    MaxFaults = 1
    MaxEdits = 1
INVARIANTS NoMilestoneMissed AgeMatchesAmount
 
CHECK_DEADLOCK FALSE
