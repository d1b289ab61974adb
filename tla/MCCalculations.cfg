SPECIFICATION CSpec
CONSTANTS
  Loans <- MCLoans
  RateScale = 100
  Levels = {0, 3, 27, 60, 140}
  None = None
  MaxPeriods = 7
  Whole = 10
  MaxAmount = 23
  PctTolerance = 1
  NoEnd = NoEnd
  Calls <- MCCalls
  MaxOwners = 4
INVARIANTS PrincipalRetired PeriodsTile LargestRemainder ReportsPartition CashPeriodsTile
PROPERTY ScheduleFinishes
CHECK_DEADLOCK FALSE
