SPECIFICATION MCSpec
CONSTANTS
    Loans = {1, 2}
    LastNight = 2
    Payments = {"p1"}
    Workers = {"w1", "w2"}
    Order <- MCOrder
    Channels = {"s3", "sftp"}
    MaxRetries = 1
    MaxErrors = 1
    MaxExports = 2
INVARIANTS AccruedInOrder SyncedIsWritten
PROPERTIES FinishedIsFinal NightsCatchUp
CHECK_DEADLOCK FALSE
