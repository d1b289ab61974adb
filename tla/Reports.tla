------------------------------ MODULE Reports ------------------------------
(***************************************************************************)
(* The queries of the reporting service as operators over a snapshot of    *)
(* the tables.  A snapshot db has the sets                                 *)
(*   loans        of [id, status, principal, interest, fees, maturity],    *)
(*   allocations  of [loan, fund, pct, from, to],                          *)
(*   records      of [loan, day, dpd, pastDue], the delinquency records,   *)
(*   tasks        of [loan, priority, status],                             *)
(*   schedule     of [loan, due, amount, current, status],                 *)
(*   payments     of [loan, day, amount, status],                          *)
(*   active       of the funds with status active.                         *)
(* Shares are units of which Whole make 100 percent, and an amount         *)
(* pro-rated by a share is kept in cents times share: the database divides *)
(* by 100 without rounding.                                                *)
(***************************************************************************)
EXTENDS Calendar, EffectiveDates, FiniteSets

\* "effective_date <= :as_of AND (end_date IS NULL OR end_date > :as_of)"
\* Mutant: a share still counts on its end date.
InForceThrough(a, day) == a.from <= day /\ (a.to = NoEnd \/ a.to >= day)
InForce(a, day) == a.from <= day /\ OpenAt(a, day)

\* The rows of a join of loan and loan_allocation: one per loan and share.
Join(db, funds, day, statuses) ==
  {h \in [loan : db.loans, share : db.allocations] :
     /\ h.share.loan = h.loan.id /\ h.share.fund \in funds
     /\ InForce(h.share, day) /\ h.loan.status \in statuses}
ProRata(amount, h) == amount * h.share.pct
Exposure(l) == l.principal + l.interest + l.fees
TotalPrincipal(rows) == SumFunction([h \in rows |-> ProRata(h.loan.principal, h)])
TotalExposure(rows) == SumFunction([h \in rows |-> ProRata(Exposure(h.loan), h)])

\* "ORDER BY as_of_date DESC LIMIT 1" over the records up to the day.
NoRecord == [dpd |-> 0, pastDue |-> 0]
Latest(db, loan, day) ==
  LET upTo == {r \in db.records : r.loan = loan.id /\ r.day <= day}
  IN IF upTo = {} THEN NoRecord ELSE CHOOSE r \in upTo : \A q \in upTo : q.day <= r.day
TotalPastDue(db, day, rows) ==
  SumFunction([h \in rows |-> ProRata(Latest(db, h.loan, day).pastDue, h)])

(***************************************************************************)
(* portfolio_summary: one row per active fund, and grand totals.           *)
(***************************************************************************)
AllStatuses == {"boarding", "approved", "funded", "modified", "delinquent", "default", "workout",
                "payoff_pending", "paid_off", "charged_off", "transferred"}
SummaryStatuses == AllStatuses \ {"boarding", "transferred"}
LoanCount(rows, statuses) == Cardinality({h \in rows : h.loan.status \in statuses})
\* Mutant: past due is counted over the loans of the aging report.
PastDueOfAged(db, day, fund) ==
  TotalPastDue(db, day, Join(db, {fund}, day, SummaryStatuses \ {"paid_off", "charged_off"}))
SummaryPastDue(db, day, fund) == TotalPastDue(db, day, Join(db, {fund}, day, AllStatuses))
SummaryRow(db, day, fund) ==
  LET rows == Join(db, {fund}, day, SummaryStatuses)
  IN [count     |-> LoanCount(rows, SummaryStatuses \ {"paid_off", "charged_off"}),
      byStatus  |-> [s \in {"funded", "delinquent", "default", "workout", "paid_off"} |-> LoanCount(rows, {s})],
      principal |-> TotalPrincipal(rows),
      exposure  |-> TotalExposure(rows),
      pastDue   |-> SummaryPastDue(db, day, fund)]
PortfolioSummary(db, day, funds) == [f \in funds \cap db.active |-> SummaryRow(db, day, f)]
GrandPrincipal(summary) == SumFunction([f \in DOMAIN summary |-> summary[f].principal])
GrandPastDue(summary) == SumFunction([f \in DOMAIN summary |-> summary[f].pastDue])

(***************************************************************************)
(* aging_report: every loan and share in a bucket by days past due.        *)
(***************************************************************************)
AgingStatuses == {"funded", "modified", "delinquent", "default", "workout", "payoff_pending"}
BUCKET_ORDER == {"current", "1-30", "31-60", "61-90", "91-120", "120+"}
DpdToBucket(days) ==
  CASE days <= 0            -> "current"
    [] days \in 1 .. 30     -> "1-30"
    [] days \in 31 .. 60    -> "31-60"
    [] days \in 61 .. 90    -> "61-90"
    [] days \in 91 .. 120   -> "91-120"
    [] OTHER                -> "120+"
InBucket(db, day, funds, filter, b) ==
  {h \in Join(db, funds, day, AgingStatuses) :
     b \in filter /\ DpdToBucket(Latest(db, h.loan, day).dpd) = b}
AgingReport(db, day, funds, filter) ==
  [b \in BUCKET_ORDER |->
     LET rows == InBucket(db, day, funds, filter, b)
     IN [count     |-> Cardinality(rows),
         principal |-> TotalPrincipal(rows),
         pastDue   |-> TotalPastDue(db, day, rows)]]
AgedPrincipal(report) == SumFunction([b \in BUCKET_ORDER |-> report[b].principal])
AgedPastDue(report) == SumFunction([b \in BUCKET_ORDER |-> report[b].pastDue])

(***************************************************************************)
(* maturity_pipeline: loans that mature up to a horizon.                   *)
(***************************************************************************)
MaturityBucket(days) ==
  CASE days < 0              -> "overdue"
    [] days \in 0 .. 30      -> "0-30"
    [] days \in 31 .. 60     -> "31-60"
    [] days \in 61 .. 90     -> "61-90"
    [] days \in 91 .. 180    -> "91-180"
    [] days \in 181 .. 365   -> "181-365"
    [] OTHER                 -> "365+"
\* Mutant: the list of buckets without the one that is added to it.
BucketsAhead == {"0-30", "31-60", "61-90", "91-180", "181-365", "365+"}
MATURITY_BUCKETS == {"overdue", "0-30", "31-60", "61-90", "91-180", "181-365", "365+"}
MaturityStatuses == AgingStatuses \ {"payoff_pending"}
Maturing(db, day, funds, horizon) ==
  {h \in Join(db, funds, day, MaturityStatuses) : h.loan.maturity <= day + horizon}
MaturityPipeline(db, day, funds, horizon) ==
  LET rows == Maturing(db, day, funds, horizon)
      UpTo(days) == TotalExposure({h \in rows : h.loan.maturity - day <= days})
  IN [buckets |-> [b \in MATURITY_BUCKETS |->
                     TotalExposure({h \in rows : MaturityBucket(h.loan.maturity - day) = b})],
      in3m |-> UpTo(90), in12m |-> UpTo(365),
      overdue |-> Cardinality({h \in rows : h.loan.maturity < day})]

(***************************************************************************)
(* exception_report: the open tasks of the loans a fund has a share in.    *)
(***************************************************************************)
ExceptionReport(db, day, funds) ==
  LET Held(t) == \E a \in db.allocations : a.loan = t.loan /\ a.fund \in funds /\ InForce(a, day)
      rows == {t \in db.tasks : t.status \in {"open", "in_progress", "escalated"} /\ Held(t)}
      Of(t) == CHOOSE l \in db.loans : l.id = t.loan
  IN [counts  |-> [p \in {"critical", "high", "normal", "low"} |->
                     Cardinality({t \in rows : t.priority = p})],
      total   |-> Cardinality(rows),
      flagged |-> SumFunction([t \in rows |-> Of(t).principal])]

(***************************************************************************)
(* The rollups of the client and portfolio lists, over open shares.        *)
(***************************************************************************)
OpenShares(db, funds) == {h \in [loan : db.loans, share : db.allocations] :
                            /\ h.share.loan = h.loan.id /\ h.share.fund \in funds
                            /\ h.share.to = NoEnd}
Rollup(db, funds) ==
  LET rows == OpenShares(db, funds)
      loans(statuses) == Cardinality({h.loan : h \in {g \in rows : g.loan.status \in statuses}})
  IN [active |-> loans(AllStatuses \ {"paid_off"}), all |-> loans(AllStatuses),
      delinquent |-> loans({"delinquent"}), default |-> loans({"default"}),
      principal |-> TotalPrincipal(rows)]

(***************************************************************************)
(* cash_position_report: what was due and what came in, by month or        *)
(* quarter.  Days of rows are day numbers, those of periods are dates.     *)
(***************************************************************************)
LastMonth(dt, frequency) == IF frequency = "quarterly" THEN ((dt[2] + 2) \div 3) * 3 ELSE dt[2]
PeriodEnd(dt, frequency, end) ==
  LET m == LastMonth(dt, frequency)
  IN IF frequency = "custom" THEN end ELSE EarlierOf(<<dt[1], m, MonthLength(dt[1], m)>>, end)
\* Mutant: the period after December is January of the same year.
NextInYear(dt, frequency) == <<dt[1], (LastMonth(dt, frequency) % 12) + 1, 1>>
NextPeriod(dt, frequency) ==
  LET m == LastMonth(dt, frequency)
  IN IF m = 12 THEN <<dt[1] + 1, 1, 1>> ELSE <<dt[1], m + 1, 1>>

\* Both queries join the open shares, whatever was in force on the day.
Cash(db, funds, entries) ==
  LET shares == {x \in [entry : entries, share : db.allocations] :
                   /\ x.share.loan = x.entry.loan /\ x.share.fund \in funds /\ x.share.to = NoEnd}
  IN SumFunction([x \in shares |-> x.entry.amount * x.share.pct])
Within(day, from, to) == day \in DayNumber(from) .. DayNumber(to)
Scheduled(db, funds, from, to) ==
  Cash(db, funds, {s \in db.schedule : s.current /\ Within(s.due, from, to)})
Collected(db, funds, from, to) ==
  Cash(db, funds, {p \in db.payments : p.status \in {"posted", "returned"} /\ Within(p.day, from, to)})
CashPosition(db, funds, periods) ==
  LET lines == [i \in DOMAIN periods |->
                  [from |-> periods[i][1], to |-> periods[i][2],
                   scheduled |-> Scheduled(db, funds, periods[i][1], periods[i][2]),
                   collected |-> Collected(db, funds, periods[i][1], periods[i][2])]]
  IN [periods |-> lines,
      scheduled |-> SumFunction([i \in DOMAIN lines |-> lines[i].scheduled]),
      collected |-> SumFunction([i \in DOMAIN lines |-> lines[i].collected])]

\* _forward_expected
ForwardExpected(db, funds, day, days) ==
  Cash(db, funds, {s \in db.schedule : /\ s.current /\ s.status \in {"open", "partial"}
                                       /\ s.due > day /\ s.due <= day + days})
=============================================================================
