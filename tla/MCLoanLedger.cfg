SPECIFICATION Spec
CONSTANTS
  Boardings = {"originated", "converted"}
  OriginalBalance = 10
  ConvPrincipal = 8
  ConvInterest = 2
  ConvFees = 1
  AsOfDate = 0
  OriginationDate = 1
  CouponNum = 1
  PikNum = 1
  RateDen = 5
  QuoteNum = 1
  QuoteDen = 6
  LateFeeType = "flat"
  LateFeeAmount = 2
  GraceDays = 0
  PenaltyPct = 0
  Tolerance = 1
  Periods = {1}
  DueDate <- MCDueDate
  Scheduled <- MCScheduled
  NoPeriod = NoPeriod
  Grosses = {4, 20}
  Deltas <- MCDeltas
  MaxDay = 2
  MaxPayments = 2
INVARIANTS TypeOK LedgerReconciles AccrualsContiguous PayoffResidualBounded
PROPERTIES WaterfallOrder ClosedIsFinal
CHECK_DEADLOCK FALSE
