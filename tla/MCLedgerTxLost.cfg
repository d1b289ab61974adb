SPECIFICATION Spec
CONSTANTS
  Sessions = {"pay", "accrue"}
  Op <- OpMC
  Amount <- AmountMC
  AccrualDay <- AccrualDayMC
  Loan0 <- Loan0MC
  Target <- TargetMC
  Slack = 1
  NoOne = "no one"
INVARIANTS BalancesInBooks
CHECK_DEADLOCK FALSE
