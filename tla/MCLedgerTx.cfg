SPECIFICATION Spec
CONSTANTS
  Sessions = {"pay", "payoff", "reverse", "accrue", "accrue2"}
  Op <- OpMC
  Amount <- AmountMC
  AccrualDay <- AccrualDayMC
  Loan0 <- Loan0MC
  Target <- TargetMC
  Slack = 1
  NoOne = "no one"
INVARIANTS BooksFollowRows PrincipalInBooks
PROPERTIES EverySessionEnds
CHECK_DEADLOCK FALSE
