--------------------------- MODULE MCCalculations ---------------------------
(***************************************************************************)
(* The pure calculations over bounded inputs: the schedules of loans that  *)
(* meet every branch of the engine, the split of every small amount over   *)
(* every list of shares, and the reports over snapshots that lie on the    *)
(* edges of their buckets and windows.  An initial state is the input of   *)
(* one of them.                                                            *)
(***************************************************************************)
EXTENDS Amortization, SplitCall, ReportCall

VARIABLE scenario   \* which calculation

calcVars == <<scenario, amortVars, splitVars, reportVars>>

-----------------------------------------------------------------------------
(* Loans: each kind of schedule over dates that are plain, stubs, ends of    *)
(* months or beyond maturity, with fixed, stepped, floored, capped, PIK and  *)
(* zero rates.                                                               *)

Kinds == {"bullet", "amortizing", "partial_amortizing", "custom"}

Standard ==
  [origination |-> <<2023, 11, 15>>, firstPayment |-> None, maturity |-> <<2024, 11, 15>>,
   cutover |-> None, nextDue |-> None, balance |-> 100, rateType |-> "fixed",
   amortization |-> "bullet", dayCount |-> "ACT/360", frequency |-> "QUARTERLY",
   coupon |-> 12, pikRate |-> 0, floor |-> None, cap |-> None, ioMonths |-> 0,
   balloon |-> None, steps |-> {}]

\* The dates of a loan: with a stub, from one month-end to the next, a first
\* payment after maturity, one that falls on maturity.
Dated ==
  {Standard,
   [Standard EXCEPT !.firstPayment = <<2024, 1, 2>>],
   [Standard EXCEPT !.origination = <<2023, 11, 30>>, !.maturity = <<2024, 5, 30>>, !.frequency = "MONTHLY"],
   [Standard EXCEPT !.origination = <<2024, 1, 30>>, !.maturity = <<2024, 6, 30>>, !.frequency = "MONTHLY"],
   [Standard EXCEPT !.firstPayment = <<2024, 12, 1>>],
   [Standard EXCEPT !.frequency = "SEMI_ANNUAL", !.maturity = <<2026, 5, 1>>],
   [Standard EXCEPT !.frequency = "ANNUAL"],
   [Standard EXCEPT !.frequency = "BULLET", !.maturity = <<2024, 11, 28>>],
   [Standard EXCEPT !.frequency = "BULLET", !.maturity = <<2023, 11, 29>>]}

\* Converted loans: the next due date comes with the payload, lies before the
\* cutover, or is derived.
Converted ==
  LET c == [Standard EXCEPT !.cutover = <<2024, 3, 20>>]
  IN {[c EXCEPT !.nextDue = <<2024, 4, 1>>], [c EXCEPT !.nextDue = <<2024, 2, 15>>],
      [c EXCEPT !.nextDue = DeriveNextDue(c)],
      [c EXCEPT !.nextDue = DeriveNextDue([c EXCEPT !.frequency = "BULLET"]), !.frequency = "BULLET"]}

Rates ==
  {[r |-> [l EXCEPT !.amortization = k], rate |-> rate] :
     l \in {Standard} \cup Converted, k \in Kinds, rate \in 1 .. 6}
WithRate(l, i) ==
  CASE i = 1 -> [l EXCEPT !.coupon = 0]
    [] i = 2 -> [l EXCEPT !.steps = {[from |-> <<2024, 2, 1>>, rate |-> 24], [from |-> <<2024, 6, 1>>, rate |-> 6]}]
    [] i = 3 -> [l EXCEPT !.floor = 15, !.dayCount = "30/360"]
    [] i = 4 -> [l EXCEPT !.cap = 5, !.dayCount = "ACT/ACT"]
    [] i = 5 -> [l EXCEPT !.pikRate = 20, !.dayCount = "ACT/365"]
    [] OTHER -> [l EXCEPT !.rateType = "pik"]

MCLoans ==
  {[l EXCEPT !.amortization = k] : l \in Dated \cup Converted, k \in Kinds}
  \cup {WithRate(x.r, x.rate) : x \in Rates}
  \cup {[l EXCEPT !.ioMonths = io, !.amortization = "amortizing"] : l \in Dated, io \in {3, 6, 24}}
  \cup {[Standard EXCEPT !.amortization = "partial_amortizing", !.balloon = b, !.coupon = c] :
          b \in {40, 120}, c \in {0, 12}}
  \cup {[l EXCEPT !.rateType = "zero_coupon"] : l \in Dated \cup Converted}

-----------------------------------------------------------------------------
(* Snapshots: loan 1 is held by f1 and f2, loan 2 by f2; the report is of    *)
(* day 0, and the days of a loan that matter lie on the edge of a bucket.    *)

Loan(id, status, maturity) ==
  [id |-> id, status |-> status, maturity |-> maturity, principal |-> 7 * id, interest |-> 2, fees |-> id]
Share(id, fund, pct) == [loan |-> id, fund |-> fund, pct |-> pct, from |-> 0, to |-> NoEnd]
Snapshots ==
  {[loans       |-> {Loan(1, s, m), Loan(2, "funded", 90)},
    allocations |-> {Share(1, "f1", 4), Share(1, "f2", 6), Share(2, "f2", 10)},
    records     |-> {[loan |-> 1, day |-> 0, dpd |-> d, pastDue |-> IF d = 0 THEN 0 ELSE 5]},
    tasks       |-> {[loan |-> 1, priority |-> p, status |-> "open"], [loan |-> 2, priority |-> "high", status |-> "open"]},
    schedule    |-> {}, payments |-> {}, active |-> {"f1", "f2"}] :
     s \in {"funded", "payoff_pending", "charged_off"}, p \in {"critical", "normal"},
     m \in {-1, 0, 30, 31, 60, 61, 90, 91, 180, 181, 365, 366},
     d \in {0, 1, 30, 31, 60, 61, 90, 91, 120, 121}}
Question(horizon, start, end, frequency) ==
  [day |-> 0, horizon |-> horizon, funds |-> {"f1", "f2"}, start |-> start, end |-> end, frequency |-> frequency]

\* A year of schedule rows and payments on the edges of months, one row of
\* them superseded, one paid, one payment returned.
CashDays == {<<2023, 12, 31>>, <<2024, 1, 1>>, <<2024, 2, 29>>, <<2024, 3, 31>>, <<2024, 12, 31>>, <<2025, 1, 1>>}
CashSnapshot ==
  [loans       |-> {Loan(1, "funded", 0)},
   allocations |-> {Share(1, "f1", 4), Share(1, "f2", 6)},
   records     |-> {}, tasks |-> {}, active |-> {"f1", "f2"},
   schedule    |-> {[loan |-> 1, due |-> DayNumber(d), amount |-> 3, current |-> d[3] # 29,
                     status |-> IF d[2] = 3 THEN "paid" ELSE "open"] : d \in CashDays},
   payments    |-> {[loan |-> 1, day |-> DayNumber(d), amount |-> d[2],
                     status |-> IF d[3] = 29 THEN "reversed" ELSE "posted"] : d \in CashDays}]

NewYear == <<2024, 1, 1>>
MCCalls ==
  {[db |-> s, asked |-> Question(h, NewYear, NewYear, "custom")] : s \in Snapshots, h \in {90, 400}}
    \cup {c \in {[db |-> CashSnapshot, asked |-> Question(400, s, e, f)] :
                  s \in CashDays, e \in CashDays, f \in {"monthly", "quarterly", "custom"}} :
          ~Earlier(c.asked.end, c.asked.start)}
NoReport ==
  /\ snapshot = CashSnapshot /\ asked = Question(0, NewYear, NewYear, "custom")
  /\ current = NewYear /\ cashPeriods = <<>>

-----------------------------------------------------------------------------
NoSchedule ==
  /\ loan = Standard /\ stage = "dates" /\ due = FirstDue(Standard)
  /\ periods = <<>> /\ rows = <<>> /\ balance = Standard.balance /\ level = 0
NoSplit == given = 0 /\ weights = <<>> /\ parts = <<>>

CInit ==
  \/ scenario = "schedule" /\ AmortInit /\ NoSplit /\ NoReport
  \/ scenario = "split" /\ NoSchedule /\ SplitInit /\ NoReport
  \/ scenario = "report" /\ NoSchedule /\ NoSplit /\ ReportInit
ScheduleStep == scenario = "schedule" /\ AmortNext /\ UNCHANGED <<scenario, splitVars, reportVars>>
CNext ==
  \/ ScheduleStep
  \/ scenario = "split" /\ SplitStep /\ UNCHANGED <<scenario, amortVars, reportVars>>
  \/ scenario = "report" /\ AddCashPeriod /\ UNCHANGED <<scenario, amortVars, splitVars>>
CSpec == CInit /\ [][CNext]_calcVars /\ WF_calcVars(ScheduleStep)

-----------------------------------------------------------------------------
(* Properties.  Those of the calculations are in their modules.             *)

\* Every schedule is finished, unless the frequency is nothing at all: a BULLET
\* loan that matures in the month it starts.
ScheduleFinishes ==
  (scenario = "schedule" /\ FrequencyMonths(loan) > 0) ~> stage = "done"

=============================================================================
