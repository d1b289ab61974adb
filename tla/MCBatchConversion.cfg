SPECIFICATION MCSpec
CONSTANTS
    Batches = {"b1", "b2"}
    File <- MCFile
    Portfolios = {"main"}
    Requests = {"q1", "q2"}
    Workers = {"w1", "w2"}
    Singles <- MCSingles
    None = None
    MaxCrashes = 1
INVARIANTS RowsBoardedOnce OnlyValidatedRows ReportAccounts
 
CHECK_DEADLOCK FALSE
