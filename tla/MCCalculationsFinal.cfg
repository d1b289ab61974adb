SPECIFICATION CSpec
CONSTANTS
  Loans <- MCLoans
  RateScale = 100
  Levels = {0, 3, 27, 60, 140}
  None = None
  MaxPeriods = 7
  Whole = 10
  MaxAmount = 2
  PctTolerance = 0
  NoEnd = NoEnd
  Calls <- MCCalls
  MaxOwners = 2
INVARIANT FinalBalanceAlwaysZero
CHECK_DEADLOCK FALSE
