SPECIFICATION OSpec
CONSTANTS
  f1 = f1
  f2 = f2
  f3 = f3
  Funds = {f1, f2, f3}
  LeadFund = f1
  Writers = {f2, f3}
  NoOne = NoOne
  InitialFrom = 1
  Requests <- MCRequests
  Whole = 5
  PctTolerance = 1
  NoEnd = NoEnd
  MaxDay = 2
  Statuses = {"funded", "delinquent", "paid_off", "charged_off"}
  Lent = 7
  PastDues <- MCPastDues
  Principal = 11
  DailyCoupon = 6
  Grosses = {4, 17}
  MaxPayments = 2
INVARIANTS OneSetAtATime SharesAddUp PastDueReconciles ClosedWhenEmpty FundsReconcile CashOfFund
PROPERTIES ImplementsTimeline SharesByOwnership Serializable EveryRequestEnds
CHECK_DEADLOCK FALSE
