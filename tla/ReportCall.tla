----------------------------- MODULE ReportCall -----------------------------
(***************************************************************************)
(* One call of the reporting service: the tables are read in one snapshot  *)
(* and the reports are computed from it.  The cash position first builds   *)
(* its periods, one after another.                                         *)
(***************************************************************************)
EXTENDS Reports, AllocationSplit

CONSTANT Calls   \* of [db, asked]: the tables, and what is asked of them

\* Loans and shares a report may find: the shares of the funds that are asked
\* for make the whole of each loan, those in force on the day as well as those
\* that have no end.
PctSum(shares) == SumFunction([a \in shares |-> a.pct])
SharesOf(db, id, funds) == {a \in db.allocations : a.loan = id /\ a.fund \in funds}
TableNames == {"loans", "allocations", "records", "tasks", "schedule", "payments", "active"}
Tables(db) ==
  /\ DOMAIN db = TableNames
  /\ \A table \in {db.loans, db.allocations, db.records, db.tasks, db.schedule, db.payments} :
       IsFiniteSet(table)
  /\ \A l \in db.loans :
       /\ l.principal \in Int /\ l.interest \in Int /\ l.fees \in Int /\ l.maturity \in Int
       /\ \A k \in db.loans : k.id = l.id => k = l
  /\ \A a \in db.allocations : a.pct \in Int
  /\ \A r \in db.records : r.day \in Nat /\ r.dpd \in Int
  /\ \A t \in db.tasks : t.priority \in {"critical", "high", "normal", "low"}
  /\ \A s \in db.schedule : s.due \in Int /\ s.amount \in Int
  /\ \A p \in db.payments : p.day \in Int /\ p.amount \in Int
Asked == [day : Nat, horizon : Int, funds : {F \in SUBSET STRING : IsFiniteSet(F)},
          start : Date, end : Date, frequency : {"monthly", "quarterly", "custom"}]
WholeLoans(db, day, funds) ==
  \A l \in db.loans :
    /\ PctSum({a \in SharesOf(db, l.id, funds) : InForce(a, day)}) = Whole
    /\ PctSum({a \in SharesOf(db, l.id, funds) : a.to = NoEnd}) = Whole
ASSUME ReportAssumption ==
  \A c \in Calls : /\ Tables(c.db) /\ c.asked \in Asked /\ ~Earlier(c.asked.end, c.asked.start)
                   /\ WholeLoans(c.db, c.asked.day, c.asked.funds)

VARIABLES
  snapshot,    \* the tables
  asked,       \* parameters of the reports
  current,     \* start of the next period
  cashPeriods  \* <<start, end>> of the periods built so far

reportVars == <<snapshot, asked, current, cashPeriods>>

ReportInit ==
  /\ \E c \in Calls : snapshot = c.db /\ asked = c.asked
  /\ current = asked.start /\ cashPeriods = <<>>

\* "while current <= end"; a custom window is one period.
PeriodsBuilt ==
  IF asked.frequency = "custom" THEN cashPeriods # <<>> ELSE Earlier(asked.end, current)
\* A round of the loop in _build_cash_periods.
AddCashPeriod ==
  /\ ~PeriodsBuilt
  /\ cashPeriods' = Append(cashPeriods, <<current, PeriodEnd(current, asked.frequency, asked.end)>>)
  /\ current' = NextPeriod(current, asked.frequency)
  /\ UNCHANGED <<snapshot, asked>>
ReportSpec == ReportInit /\ [][AddCashPeriod]_reportVars

-----------------------------------------------------------------------------
\* However the loans fall on the edges of the buckets: the buckets of the
\* aging and of the maturity report hold every loan once, those within three
\* and within twelve months add up to the totals beside them, a report filtered
\* by a bucket is that bucket, the exceptions by priority are all of them, and
\* the funds' rollups add up to the loans.
PrincipalOfLoans(loans) == SumFunction([l \in loans |-> l.principal])
ReportsPartition ==
  LET day == asked.day
      funds == asked.funds
      aging == AgingReport(snapshot, day, funds, BUCKET_ORDER)
      pipeline == MaturityPipeline(snapshot, day, funds, asked.horizon)
      Over(S) == SumFunction([b \in S \cap DOMAIN pipeline.buckets |-> pipeline.buckets[b]])
      UpTo90 == {"overdue", "0-30", "31-60", "61-90"}
  IN /\ AgedPrincipal(aging)
          = PrincipalOfLoans({l \in snapshot.loans : l.status \in AgingStatuses}) * Whole
     /\ \A b \in BUCKET_ORDER : AgingReport(snapshot, day, funds, {b})[b] = aging[b]
     /\ Over(MATURITY_BUCKETS) = TotalExposure(Maturing(snapshot, day, funds, asked.horizon))
     /\ pipeline.in3m = Over(UpTo90)
     /\ pipeline.in12m = Over(UpTo90 \cup {"91-180", "181-365"})
     /\ \A F \in SUBSET funds :
          LET tasks == ExceptionReport(snapshot, day, F)
          IN SumFunction(tasks.counts) = tasks.total
     /\ SumFunction([f \in funds |-> Rollup(snapshot, {f}).principal])
          = PrincipalOfLoans(snapshot.loans) * Whole

\* The periods of the cash report tile its window day by day, so that every
\* instalment and payment of the window is in one period, across the ends of
\* short months, of quarters and of years; and the forward look at a span of
\* days expects what the report has scheduled for it and is not paid yet.
CashPeriodsTile ==
  LET ends == Len(cashPeriods)
      Day(i) == DayNumber(cashPeriods[i][1]) .. DayNumber(cashPeriods[i][2])
      report == CashPosition(snapshot, asked.funds, cashPeriods)
      unpaid == [snapshot EXCEPT !.schedule = {s \in @ : s.status \in {"open", "partial"}}]
  IN /\ \A i \in 1 .. ends : Day(i) # {}
     /\ \A i \in 2 .. ends :
          DayNumber(cashPeriods[i][1]) = DayNumber(cashPeriods[i - 1][2]) + 1
     /\ PeriodsBuilt =>
          /\ ends > 0 /\ cashPeriods[1][1] = asked.start /\ cashPeriods[ends][2] = asked.end
          /\ report.scheduled = Scheduled(snapshot, asked.funds, asked.start, asked.end)
          /\ report.collected = Collected(snapshot, asked.funds, asked.start, asked.end)
     /\ ForwardExpected(snapshot, asked.funds, DayNumber(asked.start) - 1,
                        DaysBetween(asked.start, asked.end) + 1)
          = Scheduled(unpaid, asked.funds, asked.start, asked.end)
=============================================================================
