----------------------------- MODULE LoanLedger -----------------------------
(***************************************************************************)
(* The servicing core of one loan: the balances kept on the loan row, the  *)
(* general ledger that is posted beside them, the payments, the schedule   *)
(* periods payments are linked to and the daily interest accruals.         *)
(*                                                                         *)
(* Every request of the API and every nightly accrual task is one database *)
(* transaction; here transactions do not overlap.  A backfilling accrual   *)
(* task works through its days one step at a time while every other        *)
(* transaction waits (variable job).  Amounts are whole cents.  The ledger *)
(* is taken over all funds together: gl[a] is the net debit of account a   *)
(* over every journal entry of the loan.                                   *)
(***************************************************************************)
EXTENDS Integers, Sequences, Functions

CONSTANTS
  Boardings,       \* ways the loan may be boarded: "originated", "converted"
  OriginalBalance, \* original_balance of an originated loan
  ConvPrincipal,   \* current_principal, accrued_interest and accrued_fees
  ConvInterest,    \*   in the payload of a converted loan
  ConvFees,
  AsOfDate,        \* cutover date of a converted loan
  OriginationDate, \* origination_date of an originated loan
  CouponNum,       \* coupon per day is CouponNum / RateDen
  PikNum,          \* PIK rate per day is PikNum / RateDen
  RateDen,
  QuoteNum,        \* per diem of a payoff quote is QuoteNum / QuoteDen: it has
  QuoteDen,        \*   a day count of its own and ignores spread, floor and cap
  LateFeeType,     \* "none", "flat", "percent_of_payment", "percent_of_balance"
  LateFeeAmount,   \* cents of a flat fee, otherwise a percentage
  GraceDays,       \* grace_period_days
  PenaltyPct,      \* flat_pct prepayment penalty, in percent
  Tolerance,       \* payoff mismatch that is let through
  Periods,         \* current schedule periods of the loan
  DueDate,         \* due date of each period
  Scheduled,       \* scheduled principal + interest of each period
  NoPeriod,        \* a payment linked to no period
  Grosses,         \* amounts a client pays
  Deltas,          \* differences between a payoff amount and its quote
  MaxDay,          \* bound: last day of the model
  MaxPayments      \* bound: payments of the loan

Days == 0 .. MaxDay
NoDate == -1

ASSUME AmountsAssumption ==
  /\ OriginalBalance \in Nat \ {0}
  /\ ConvPrincipal \in Nat /\ ConvInterest \in Nat /\ ConvFees \in Nat
  /\ CouponNum \in Nat /\ PikNum \in Nat /\ RateDen \in Nat \ {0}
  /\ QuoteNum \in Nat /\ QuoteDen \in Nat \ {0}
  /\ LateFeeAmount \in Nat /\ PenaltyPct \in Nat /\ Tolerance \in Nat
  /\ Grosses \subseteq Nat \ {0} /\ Deltas \subseteq Int
ASSUME CalendarAssumption ==
  /\ Boardings \subseteq {"originated", "converted"}
  /\ MaxDay \in Nat /\ MaxPayments \in Nat /\ GraceDays \in Nat
  /\ AsOfDate \in Days /\ OriginationDate \in Int
ASSUME PeriodsAssumption ==
  /\ LateFeeType \in {"none", "flat", "percent_of_payment", "percent_of_balance"}
  /\ DueDate \in [Periods -> Int] /\ Scheduled \in [Periods -> Nat]
  /\ NoPeriod \notin Periods

VARIABLES
  boarding,   \* boarding_type
  status,     \* loan.status
  principal,  \* loan.current_principal
  interest,   \* loan.accrued_interest
  fees,       \* loan.accrued_fees
  fundedAt,   \* loan.funded_at
  gl,         \* account -> net debit over all journal entries
  payments,   \* the payment rows, in posting order
  period,     \* status of each schedule period
  accruals,   \* dates with an interest_accrual row
  job,        \* days the running accrual task has still to do
  today       \* date.today()

balances == <<principal, interest, fees>>
vars == <<boarding, status, principal, interest, fees, fundedAt, gl,
          payments, period, accruals, job, today>>

-----------------------------------------------------------------------------
(* Statuses.                                                               *)

STATUS_TRANSITIONS ==
  [boarding       |-> {"approved", "funded"},
   approved       |-> {"funded", "boarding"},
   funded         |-> {"modified", "delinquent", "default", "payoff_pending",
                       "paid_off", "transferred"},
   modified       |-> {"funded", "delinquent", "default", "payoff_pending",
                       "paid_off"},
   delinquent     |-> {"funded", "default", "workout", "payoff_pending",
                       "paid_off", "charged_off"},
   default        |-> {"workout", "payoff_pending", "charged_off", "transferred"},
   workout        |-> {"funded", "modified", "paid_off", "charged_off"},
   payoff_pending |-> {"paid_off"},
   paid_off       |-> {},
   charged_off    |-> {"funded"},
   transferred    |-> {}]
Statuses == DOMAIN STATUS_TRANSITIONS
\* Mutant: payments are still taken after payoff.
PayableAfterPayoff ==
  {"funded", "modified", "delinquent", "default", "workout", "payoff_pending",
   "paid_off"}
PAYABLE_STATUSES ==
  {"funded", "modified", "delinquent", "default", "workout", "payoff_pending"}
ACTIVE_STATUSES == {"funded", "modified", "delinquent", "default", "workout"}

-----------------------------------------------------------------------------
(* Arithmetic: Decimal.quantize rounds half to even, the accrual worker    *)
(* rounds half up.                                                         *)

Min2(a, b) == IF a <= b THEN a ELSE b
\* Mutant: balances are not held at zero.
UnclampedSub(balance, applied) == balance - applied
ClampedSub(balance, applied) == IF balance >= applied THEN balance - applied ELSE 0
RoundHalfUp(num, den) == (2 * num + den) \div (2 * den)
RoundHalfEven(num, den) ==
  LET q == num \div den
      r == num % den
  IN IF 2 * r < den \/ (2 * r = den /\ q % 2 = 0) THEN q ELSE q + 1

-----------------------------------------------------------------------------
(* The ledger.  Each operator gives the net debits of the journal entries  *)
(* that one event posts: 1010 cash, 1100 principal receivable, 1110        *)
(* interest receivable, 1120 fees receivable, 2030 suspense, 2050          *)
(* conversion suspense, 4010 interest income, 4040 penalty income.         *)

Accounts == {"1010", "1100", "1110", "1120", "2030", "2050", "4010", "4040"}

NoLines == [a \in Accounts |-> 0]

OpeningLines(p, i) ==
  [NoLines EXCEPT !["1100"] = p, !["1110"] = i, !["2050"] = -(p + i)]
\* Mutant: capitalised interest is not debited to the principal receivable.
AccrualLinesWithoutPik(i, pik) ==
  [NoLines EXCEPT !["1110"] = i, !["4010"] = -i]
AccrualLines(i, pik) ==
  [NoLines EXCEPT !["1110"] = i, !["1100"] = pik, !["4010"] = -(i + pik)]
PaymentLines(p) ==
  [NoLines EXCEPT
     !["1010"] = p.fees + p.interest + p.principal + p.penalty + p.suspense,
     !["1100"] = -p.principal, !["1110"] = -p.interest, !["1120"] = -p.fees,
     !["2030"] = -p.suspense, !["4040"] = -p.penalty]

-----------------------------------------------------------------------------
(* Posting a payment.                                                      *)

\* The latest unpaid period due before the effective date, which is the one
\* _assess_late_fee charges for.
LatestLate(eff) ==
  LET late == {q \in Periods : period[q] \in {"open", "partial"} /\ DueDate[q] < eff}
  IN {q \in late : \A r \in late : DueDate[r] <= DueDate[q]}
LateFeeFor(q) ==
  IF LateFeeType = "flat" THEN LateFeeAmount
  ELSE IF LateFeeType = "percent_of_payment"
  THEN RoundHalfEven(Scheduled[q] * LateFeeAmount, 100)
  ELSE IF LateFeeType = "percent_of_balance"
  THEN RoundHalfEven(principal * LateFeeAmount, 100)
  ELSE 0
LateFee(eff) ==
  IF \E q \in LatestLate(eff) : eff - DueDate[q] > GraceDays
  THEN LateFeeFor(CHOOSE q \in LatestLate(eff) : TRUE)
  ELSE 0

\* Mutant: interest is served before fees.
InterestFirst(gross, lateFee, penalty) ==
  LET i == Min2(gross, interest)
      f == Min2(gross - i, fees + lateFee)
      p == Min2(gross - i - f, principal)
  IN [fees |-> f, interest |-> i, principal |-> p, penalty |-> 0,
      suspense |-> gross - f - i - p]

\* _apply_waterfall: fees with the new late fee, interest, principal, penalty
\* if one is due, and the remainder to suspense.
Waterfall(gross, lateFee, penalty) ==
  LET f  == Min2(gross, fees + lateFee)
      i  == Min2(gross - f, interest)
      p  == Min2(gross - f - i, principal)
      pp == Min2(gross - f - i - p, penalty)
  IN [fees |-> f, interest |-> i, principal |-> p, penalty |-> pp,
      suspense |-> gross - f - i - p - pp]

\* The payment row post_payment builds.
Payment(kind, gross, eff, per, penalty) ==
  LET w == Waterfall(gross, LateFee(eff), penalty)
  IN [kind |-> kind, status |-> "posted", gross |-> gross, period |-> per,
      fees |-> w.fees, interest |-> w.interest, principal |-> w.principal,
      penalty |-> w.penalty, suspense |-> w.suspense, lateFee |-> LateFee(eff)]

\* The CHECK of the payment table the tenant migrations leave in force: it
\* does not count the penalty bucket.
RowAccepted(p) == p.fees + p.interest + p.principal + p.suspense = p.gross

\* _update_schedule_period looks at this payment alone.
PeriodAfter(p) ==
  LET applied == p.principal + p.interest
  IN IF p.period = NoPeriod THEN period
     ELSE IF applied >= Scheduled[p.period] THEN [period EXCEPT ![p.period] = "paid"]
     ELSE IF applied > 0 THEN [period EXCEPT ![p.period] = "partial"]
     ELSE period

\* _update_loan_balances, with the applied amounts of a payment or, negated,
\* of a reversal.
ApplyToBalances(p, i, f) ==
  /\ principal' = ClampedSub(principal, p)
  /\ interest' = ClampedSub(interest, i)
  /\ fees' = ClampedSub(fees, f)

\* No accrual task is under way.
Idle == job.next > job.until

\* The effective_date of the allocation row created with the loan; the row has
\* no end date.
AllocFrom == IF boarding = "converted" THEN AsOfDate ELSE OriginationDate

\* post_payment up to its flush; the loan must be payable and the effective
\* date covered by an allocation.
Post(p, eff) ==
  /\ status \in PAYABLE_STATUSES
  /\ eff >= AllocFrom
  /\ Len(payments) < MaxPayments
  /\ RowAccepted(p)
  /\ payments' = Append(payments, p)
  /\ gl' = [a \in Accounts |-> gl[a] + PaymentLines(p)[a]]
  /\ ApplyToBalances(p.principal, p.interest, p.fees)
  /\ period' = PeriodAfter(p)

PostPayment(gross, eff, per) ==
  /\ Idle
  /\ Post(Payment("regular", gross, eff, per, 0), eff)
  /\ UNCHANGED <<boarding, status, fundedAt, accruals, job, today>>

\* reverse_payment: offsetting entries, the row marked, the applied amounts
\* added back.  The schedule period and the late fee keep what posting made
\* of them.
ReversePayment(k) ==
  LET p == payments[k]
  IN /\ Idle
     /\ p.status = "posted"
     /\ status \in PAYABLE_STATUSES
     /\ payments' = [payments EXCEPT ![k].status = "reversed"]
     /\ gl' = [a \in Accounts |-> gl[a] - PaymentLines(p)[a]]
     /\ ApplyToBalances(-p.principal, -p.interest, -p.fees)
     /\ UNCHANGED <<boarding, status, fundedAt, period, accruals, job, today>>

-----------------------------------------------------------------------------
(* Payoff.                                                                 *)

PerDiem == RoundHalfEven(principal * QuoteNum, QuoteDen)
PrepaymentPenalty == RoundHalfEven(principal * PenaltyPct, 100)
\* Mutant: the quote leaves the outstanding fees out.
QuoteWithoutFees(payoffDate) ==
  principal + interest + PerDiem * (payoffDate - today) + PrepaymentPenalty
QuoteTotal(payoffDate) ==
  principal + interest + PerDiem * (payoffDate - today) + fees + PrepaymentPenalty

\* The payment process_payoff hands to post_payment.
PayoffPayment(amount, payoffDate) ==
  Payment("payoff", amount, payoffDate, NoPeriod, PrepaymentPenalty)
\* What process_payoff itself checks of a payoff.
PayoffAccepted(amount, payoffDate) ==
  /\ amount > 0
  /\ payoffDate >= today
  /\ amount - QuoteTotal(payoffDate) \in -Tolerance .. Tolerance

ProcessPayoff(amount, payoffDate) ==
  /\ Idle
  /\ PayoffAccepted(amount, payoffDate)
  /\ Post(PayoffPayment(amount, payoffDate), payoffDate)
  /\ status' = "paid_off"
  /\ UNCHANGED <<boarding, fundedAt, accruals, job, today>>

-----------------------------------------------------------------------------
(* Status changes.                                                         *)

UpdateStatus(new) ==
  /\ Idle
  /\ new \in STATUS_TRANSITIONS[status]
  /\ status' = new
  /\ fundedAt' = IF new = "funded" /\ fundedAt = NoDate THEN today ELSE fundedAt
  /\ UNCHANGED <<boarding, balances, gl, payments, period, accruals, job, today>>

-----------------------------------------------------------------------------
(* Daily accrual.                                                          *)

NoJob == [next |-> 1, until |-> 0]

\* Mutant: the task accrues the current day only.
IsToday(d) == d = today

\* The first day _missing_accrual_dates returns, unless there is none.
IsFirstMissing(d) ==
  IF accruals # {} THEN d - 1 \in accruals /\ \A e \in accruals : e < d
  ELSE d = IF boarding = "converted" THEN AsOfDate ELSE fundedAt

\* A task for day d finds the loan active, its accrual window open and days
\* to do.  d lies in the past when the task was retried after midnight.
StartAccrual(d) ==
  /\ Idle
  /\ d <= today
  /\ status \in ACTIVE_STATUSES
  /\ boarding = "converted" => AsOfDate <= d
  /\ \E first \in 0 .. d : IsFirstMissing(first) /\ job' = [next |-> first, until |-> d]
  /\ UNCHANGED <<boarding, status, balances, fundedAt, gl, payments, period,
                 accruals, today>>

JobAfterDay == IF job.next < job.until THEN [job EXCEPT !.next = @ + 1] ELSE NoJob
Accruable(d) == d \notin accruals /\ CouponNum > 0 /\ d >= AllocFrom

\* _accrue_loan for one day, on the principal the day before left.
AccrueDay ==
  LET i   == RoundHalfUp(principal * CouponNum, RateDen)
      pik == RoundHalfUp(principal * PikNum, RateDen)
  IN /\ ~Idle
     /\ Accruable(job.next)
     /\ accruals' = accruals \cup {job.next}
     /\ gl' = [a \in Accounts |-> gl[a] + AccrualLines(i, pik)[a]]
     /\ interest' = interest + i
     /\ principal' = principal + pik
     /\ job' = JobAfterDay
     /\ UNCHANGED <<boarding, status, fees, fundedAt, payments, period, today>>

\* _accrue_loan returns False: a row exists, no rate, or no allocation yet.
SkipDay ==
  /\ ~Idle
  /\ ~Accruable(job.next)
  /\ job' = JobAfterDay
  /\ UNCHANGED <<boarding, status, balances, fundedAt, gl, payments, period,
                 accruals, today>>

NextDay ==
  /\ Idle
  /\ today < MaxDay
  /\ today' = today + 1
  /\ UNCHANGED <<boarding, status, balances, fundedAt, gl, payments, period,
                 accruals, job>>

-----------------------------------------------------------------------------
\* create_loan leaves an originated loan in boarding with its principal and no
\* journal entry; create_converted_loan posts the opening balances.
Init ==
  /\ boarding \in Boardings
  /\ today \in AsOfDate .. MaxDay
  /\ payments = <<>> /\ accruals = {} /\ job = NoJob
  /\ period = [q \in Periods |-> "open"]
  /\ IF boarding = "originated"
     THEN /\ status = "boarding" /\ fundedAt = NoDate
          /\ principal = OriginalBalance /\ interest = 0 /\ fees = 0
          /\ gl = [a \in Accounts |-> 0]
     ELSE /\ status = "funded" /\ fundedAt = AsOfDate
          /\ principal = ConvPrincipal /\ interest = ConvInterest /\ fees = ConvFees
          /\ gl = OpeningLines(ConvPrincipal, ConvInterest)

Next ==
  \/ \E gross \in Grosses, eff \in Days, per \in Periods \cup {NoPeriod} :
       PostPayment(gross, eff, per)
  \/ \E k \in 1 .. Len(payments) : ReversePayment(k)
  \/ \E payoffDate \in Days, delta \in Deltas :
       ProcessPayoff(QuoteTotal(payoffDate) + delta, payoffDate)
  \/ \E new \in Statuses : UpdateStatus(new)
  \/ \E d \in Days : StartAccrual(d)
  \/ AccrueDay
  \/ SkipDay
  \/ NextDay

Spec == Init /\ [][Next]_vars

-----------------------------------------------------------------------------
(* Properties.                                                             *)

PaymentRows ==
  [kind : {"regular", "payoff"}, status : {"posted", "reversed"}, gross : Nat,
   period : Periods \cup {NoPeriod}, fees : Nat, interest : Nat, principal : Nat,
   penalty : Nat, suspense : Nat, lateFee : Nat]

\* Balances never go negative, rows hold non-negative amounts, and a running
\* accrual task stays within the calendar.
TypeOK ==
  /\ boarding \in Boardings /\ status \in Statuses
  /\ principal \in Nat /\ interest \in Nat /\ fees \in Nat
  /\ fundedAt \in Days \cup {NoDate}
  /\ gl \in [Accounts -> Int]
  /\ payments \in Seq(PaymentRows)
  /\ period \in [Periods -> {"open", "partial", "paid"}]
  /\ accruals \subseteq Days
  /\ job \in [next : Days \cup {1}, until : Days]
  /\ today \in Days

\* Principal and interest of the loan row are the balances of their receivable
\* accounts: posting, reversing, paying off and accruing move both by the same
\* amount, although the loan row is clamped at zero and the ledger is not.  The
\* principal of an originated loan was never debited to the ledger.  The fees
\* are the exception: a late fee is neither debited to their account nor added
\* to the row, so what a payment takes for it is credited to the one and
\* clamped away on the other, and a reversal puts it on both.  The row runs
\* ahead of the account, by no more than the late fees assessed.
Unbooked == IF boarding = "originated" THEN OriginalBalance ELSE 0
OpeningFees == IF boarding = "converted" THEN ConvFees ELSE 0
LateFeesAssessed == SumFunction([k \in 1 .. Len(payments) |-> payments[k].lateFee])
FeeDrift == fees - (gl["1120"] + OpeningFees)
LedgerReconciles ==
  /\ principal = gl["1100"] + Unbooked
  /\ interest = gl["1110"]
  /\ FeeDrift >= 0 /\ FeeDrift <= LateFeesAssessed

\* A payment reaches principal only once fees and interest are cleared, and
\* the penalty and suspense only once everything is.
PaymentTaken == Len(payments') > Len(payments)
WaterfallOrder ==
  [][PaymentTaken =>
       LET p == payments'[Len(payments')]
       IN /\ p.interest > 0 => fees' = 0
          /\ p.principal > 0 => fees' = 0 /\ interest' = 0
          /\ p.penalty + p.suspense > 0 => fees' = 0 /\ interest' = 0 /\ principal' = 0]_vars

\* Nothing is booked on a loan that was paid off or transferred: no payment,
\* no reversal of an earlier payment, no accrual, no way back.
Closed == {"paid_off", "transferred"}
ClosedIsFinal ==
  [][(status \in Closed) => UNCHANGED <<status, balances, gl, payments, accruals>>]_vars

\* Accrual rows leave no day out between the first accruable day of the loan
\* and the last day accrued, whichever days the task failed to run on.
FirstAccruable ==
  LET first == IF boarding = "converted" THEN AsOfDate ELSE fundedAt
  IN IF first < AllocFrom THEN AllocFrom ELSE first
AccrualsContiguous ==
  \A d \in accruals : FirstAccruable .. d \subseteq accruals

\* A payoff leaves at most the tolerated mismatch on the loan and the late fee
\* the quote did not contain.
PayoffResidualBounded ==
  \A k \in 1 .. Len(payments) :
    payments[k].kind = "payoff" =>
      /\ status = "paid_off"
      /\ principal + interest + fees <= Tolerance + payments[k].lateFee

=============================================================================
