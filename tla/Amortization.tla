---------------------------- MODULE Amortization ----------------------------
(***************************************************************************)
(* AmortizationEngine.generate: the payment schedule of a loan.  First the *)
(* dates of the periods are walked up to maturity, then one row per period *)
(* is computed from the balance the row before it left.                    *)
(*                                                                         *)
(* Amounts are cents, rates are units of 1 / RateScale.  The ten places to *)
(* which the engine rounds the rate of a period are not modelled: interest *)
(* is rounded to cents once.  The annuity formula is a power of a rate;    *)
(* what it yields at a rate above zero is any amount of Levels.            *)
(***************************************************************************)
EXTENDS Calendar, Sequences, FiniteSets, Functions

CONSTANTS
  Loans,      \* the loans a schedule is generated for
  RateScale,  \* units of rate in 100 percent
  Levels,     \* outcomes of the annuity formula
  None,       \* an optional value that is not given
  MaxPeriods  \* bound: periods of a schedule

\* The dates of a loan may be missing, and so may the limits of its rate.
EngineInput ==
  [origination : Date, firstPayment : Date \cup {None}, maturity : Date,
   cutover : Date \cup {None}, nextDue : Date \cup {None},
   balance : Nat, balloon : Int \cup {None},
   rateType : STRING, amortization : STRING, dayCount : STRING, frequency : STRING,
   coupon : Int, pikRate : Int, floor : Int \cup {None}, cap : Int \cup {None},
   ioMonths : Int, steps : {s \in SUBSET [from : Date, rate : Int] : IsFiniteSet(s)}]
ASSUME AmortizationAssumption ==
  /\ RateScale \in Nat \ {0}
  /\ MaxPeriods \in Nat \ {0}
  /\ Levels \subseteq Int
  /\ Loans \subseteq EngineInput

VARIABLES
  loan,     \* EngineInput
  stage,    \* "dates", "rows" or "done"
  due,      \* due date of the next period
  periods,  \* <<start, end>>; a period is due on its end
  rows,     \* SchedulePeriod, with the interest capitalised after it
  balance,  \* balance of the next row
  level     \* [rate, amount]: the level payment and the rate it stands for

amortVars == <<loan, stage, due, periods, rows, balance, level>>

-----------------------------------------------------------------------------
(* Input.                                                                  *)

Given(value, default) == IF value = None THEN default ELSE value

FrequencyMonths(l) ==
  CASE l.frequency = "MONTHLY" -> 1
    [] l.frequency = "SEMI_ANNUAL" -> 6
    [] l.frequency = "ANNUAL" -> 12
    [] l.frequency = "BULLET" -> MonthsBetween(l.origination, l.maturity)
    [] OTHER -> 3

FirstPayment(l) ==
  Given(l.firstPayment, AddMonths(l.origination, FrequencyMonths(l), FALSE))

\* Forward-only mode: a converted loan starts on its cutover date.
Anchor(l) == Given(l.cutover, l.origination)
FirstDue(l) == Given(l.nextDue, FirstPayment(l))

\* The due date of a conversion that comes without one: the first after the
\* cutover, walking by the payment frequency.
DeriveNextDue(l) ==
  LET step == FrequencyMonths(l)
      walk[d \in Nat] == IF d = 0 THEN FirstPayment(l)
                         ELSE AddMonths(walk[d - 1], step, FALSE)
      passed(d) == ~Earlier(l.cutover, walk[d]) /\ Earlier(walk[d], l.maturity)
      steps == CHOOSE n \in 0 .. MaxPeriods : ~passed(n) /\ \A d \in 0 .. n - 1 : passed(d)
  IN IF l.frequency = "BULLET" THEN l.maturity ELSE EarlierOf(walk[steps], l.maturity)

-----------------------------------------------------------------------------
(* Interest.                                                               *)

\* Decimal.quantize(CENTS, ROUND_HALF_UP): ties go away from zero.
ToCents(n, d) ==
  IF n >= 0 THEN (2 * n + d) \div (2 * d) ELSE -((-2 * n + d) \div (2 * d))

CountDays(l, start, end) ==
  IF l.dayCount = "30/360" THEN Days30360(start, end) ELSE DaysBetween(start, end)

YearDays(l, start) ==
  CASE l.dayCount = "ACT/ACT" -> DaysInYear(start[1])
    [] l.dayCount = "ACT/365" -> 365
    [] OTHER -> 360

EffectiveRate(l, dt) ==
  LET steps == {s \in l.steps : ~Earlier(dt, s.from)}
      last == CHOOSE s \in steps : \A t \in steps : ~Earlier(s.from, t.from)
      rate == IF steps = {} THEN l.coupon ELSE last.rate
      floored == IF l.floor # None /\ rate < l.floor THEN l.floor ELSE rate
  IN IF l.cap # None /\ floored > l.cap THEN l.cap ELSE floored

PeriodInterest(l, amount, period, rate) ==
  ToCents(amount * rate * CountDays(l, period[1], period[2]),
              RateScale * YearDays(l, period[1]))

-----------------------------------------------------------------------------
(* Principal.                                                              *)

\* The periods inside the interest-only window.
IoPeriods(l, ps) ==
  Cardinality({i \in DOMAIN ps :
    l.ioMonths > 0 /\ ~Earlier(AddMonths(l.origination, l.ioMonths, FALSE), ps[i][2])})

LevelPayments(amount, rate, n) ==
  IF n = 0 THEN {0}
  ELSE IF rate = 0 THEN {ToCents(amount, n)} ELSE Levels

\* The level payment towards a balloon; without one the target comes from a
\* 30-year shadow amortization, which is nothing at a coupon of zero.
LevelPaymentsToTarget(l, rate, n) ==
  IF rate = 0 /\ (l.balloon # None \/ l.coupon = 0)
  THEN {ToCents(l.balance - Given(l.balloon, 0), n)} ELSE Levels

Clamped(x, high) == IF x < 0 THEN 0 ELSE IF x > high THEN high ELSE x

\* The level payments the loop may go on with at period i: an amortizing loan
\* computes a new one when the rate has stepped.
LevelAt(l, i, rate) ==
  LET n == Len(periods)
      io == IoPeriods(l, periods)
  IN IF l.amortization = "amortizing" /\ i > io /\ i < n /\ rate # level.rate
     THEN {[rate |-> rate, amount |-> a] : a \in LevelPayments(balance, rate, n - i + 1)}
     ELSE {level}

FirstLevel(l) ==
  LET n == Len(periods)
      rate == EffectiveRate(l, FirstPayment(l))
      amounts ==
        CASE l.amortization = "amortizing" ->
               LevelPayments(l.balance, rate, n - IoPeriods(l, periods))
          [] l.amortization = "partial_amortizing" ->
               LevelPaymentsToTarget(l, rate, n)
          [] OTHER -> {0}
  IN {[rate |-> rate, amount |-> a] : a \in amounts}

\* Mutant: the last period pays the level payment like the others.
LevelToTheEnd(l, i, interest, lvl) ==
  IF l.amortization \in {"bullet", "interest_only", "custom"}
  THEN IF i = Len(periods) THEN balance ELSE 0
  ELSE IF l.amortization = "amortizing" /\ i <= IoPeriods(l, periods) THEN 0
  ELSE Clamped(lvl.amount - interest, balance)

\* The principal of period i.  A custom loan has no schedule of its own: no
\* code path sets one, and every period but the last pays nothing.
PrincipalOf(l, i, interest, lvl) ==
  IF l.amortization = "amortizing" /\ i <= IoPeriods(l, periods) THEN 0
  ELSE IF i = Len(periods) THEN balance
  ELSE IF l.amortization \in {"bullet", "interest_only", "custom"} THEN 0
  ELSE Clamped(lvl.amount - interest, balance)

-----------------------------------------------------------------------------
(* The two loops.                                                          *)

AmortInit ==
  /\ loan \in Loans
  /\ rows = <<>> /\ balance = loan.balance /\ level = [rate |-> 0, amount |-> 0]
  /\ IF loan.rateType = "zero_coupon"
     THEN /\ stage = "rows" /\ due = loan.maturity
          /\ periods = <<<<loan.origination, loan.maturity>>>>
     ELSE IF ~Earlier(FirstDue(loan), loan.maturity)
     THEN /\ stage = "rows" /\ due = loan.maturity
          /\ periods = <<<<Anchor(loan), loan.maturity>>>>
     ELSE stage = "dates" /\ due = FirstDue(loan) /\ periods = <<>>

\* Mutant: the last period is not cut at maturity.
NextDueUncapped ==
  AddMonths(due, FrequencyMonths(loan), IsMonthEnd(Anchor(loan)))
\* Mutant: the next date is counted from the first, not from the last.
NextDueFromFirst ==
  EarlierOf(AddMonths(FirstDue(loan), FrequencyMonths(loan), IsMonthEnd(Anchor(loan))), loan.maturity)
\* The due date after this one: rolled to the end of the month when the loan
\* starts at the end of one, and never past maturity.
NextDue ==
  EarlierOf(AddMonths(due, FrequencyMonths(loan), IsMonthEnd(Anchor(loan))), loan.maturity)

AddPeriod ==
  /\ stage = "dates" /\ Len(periods) < MaxPeriods
  /\ LET start == IF periods = <<>> THEN Anchor(loan) ELSE periods[Len(periods)][2]
     IN periods' = Append(periods, <<start, due>>)
  /\ IF Earlier(due, loan.maturity)
     THEN due' = NextDue /\ stage' = stage
     ELSE due' = due /\ stage' = "rows"
  /\ UNCHANGED <<loan, rows, balance, level>>

\* The level payment is computed once, before the rows.
ComputeLevel ==
  /\ stage = "rows" /\ rows = <<>>
  /\ stage' = "level"
  /\ level' \in FirstLevel(loan)
  /\ UNCHANGED <<loan, due, periods, rows, balance>>

\* Interest of a bullet loan: paid, or capitalised in part or whole (PIK).
IsBullet == loan.amortization \in {"bullet", "interest_only"}
PaidInterest(period, rate) ==
  IF loan.rateType = "zero_coupon" THEN 0
  ELSE IF IsBullet /\ loan.rateType = "pik" THEN 0
  ELSE IF IsBullet /\ loan.pikRate > 0
  THEN PeriodInterest(loan, balance, period, rate - loan.pikRate)
  ELSE PeriodInterest(loan, balance, period, rate)
PikInterest(period, rate) ==
  IF ~IsBullet \/ loan.rateType = "zero_coupon" THEN 0
  ELSE IF loan.rateType = "pik" THEN PeriodInterest(loan, balance, period, rate)
  ELSE IF loan.pikRate > 0 THEN PeriodInterest(loan, balance, period, loan.pikRate)
  ELSE 0

\* The row and the balance after a principal payment.
Row(period, rate, principal, interest, capitalised) ==
  [start |-> period[1], end |-> period[2], opening |-> balance, rate |-> rate,
   principal |-> principal, interest |-> interest, capitalised |-> capitalised]

AddRow ==
  /\ stage = "level"
  /\ LET i == Len(rows) + 1
         period == periods[i]
         rate == IF loan.rateType = "zero_coupon" THEN 0 ELSE EffectiveRate(loan, period[1])
         interest == PaidInterest(period, rate)
         pik == IF i < Len(periods) THEN PikInterest(period, rate) ELSE 0
         added == IF pik > 0 THEN pik ELSE 0
     IN \E lvl \in LevelAt(loan, i, rate) :
          LET principal == IF loan.rateType = "zero_coupon" THEN balance
                           ELSE PrincipalOf(loan, i, interest, lvl)
          IN /\ rows' = Append(rows, Row(period, rate, principal, interest, added))
             /\ balance' = balance - principal + added
             /\ level' = lvl
             /\ stage' = IF i = Len(periods) THEN "done" ELSE "level"
  /\ UNCHANGED <<loan, due, periods>>

AmortNext == AddPeriod \/ ComputeLevel \/ AddRow

AmortSpec == AmortInit /\ [][AmortNext]_amortVars /\ WF_amortVars(AmortNext)

-----------------------------------------------------------------------------
(* Properties.                                                             *)

Repaid == SumFunction([i \in DOMAIN rows |-> rows[i].principal])
Capitalised == SumFunction([i \in DOMAIN rows |-> rows[i].capitalised])

\* An amortizing loan whose interest-only window reaches maturity.
InterestOnlyToMaturity ==
  loan.amortization = "amortizing" /\ loan.rateType # "zero_coupon"
    /\ IoPeriods(loan, periods) = Len(periods)
\* What was lent and capitalised is repaid or still owed at every row, no row
\* repays more than is owed, and a schedule that leaves its interest-only window
\* before maturity ends with nothing owed, whatever the type of the loan, its rate
\* steps and its level payment.  Of the others FinalBalanceAlwaysZero is checked,
\* and fails.
PrincipalRetired ==
  /\ balance = loan.balance + Capitalised - Repaid
  /\ \A i \in DOMAIN rows : rows[i].principal \in 0 .. rows[i].opening
  /\ stage = "done" /\ ~InterestOnlyToMaturity => balance = 0

\* "Final period: clean up rounding; pay exact remaining balance"
\* (amortization_engine.py): every schedule ends with nothing owed.  The code
\* tests for the interest-only window first: a loan whose window reaches maturity
\* pays interest in its last row, and what was lent is never scheduled.
FinalBalanceAlwaysZero == stage = "done" => balance = 0

\* The periods follow each other without gap or overlap from the day the
\* schedule starts to maturity, each due after the one before (_build_period_dates:
\* stub periods, short months, rolls to month-end, a first due date in the past).
PeriodsTile ==
  /\ \A i \in 2 .. Len(periods) : periods[i][1] = periods[i - 1][2]
  /\ FrequencyMonths(loan) > 0 =>
       \A i \in 2 .. Len(periods) : Earlier(periods[i - 1][2], periods[i][2])
  /\ stage # "dates" =>
       /\ periods[1][1] = IF loan.rateType = "zero_coupon" THEN loan.origination ELSE Anchor(loan)
       /\ periods[Len(periods)][2] = loan.maturity

=============================================================================
