-------------------------- MODULE LoanLedgerProofs --------------------------
(***************************************************************************)
(* One loan: its books and its schedule.                                   *)
(*                                                                         *)
(* LoanLedger for every schedule, rate, fee and amount: the loan row and   *)
(* the ledger agree in every reachable state, payments follow the          *)
(* waterfall, and a closed loan stays as it is.                            *)
(*                                                                         *)
(* Amortization for every loan and every level payment: the periods tile   *)
(* the life of the loan, and the rows retire its principal.                *)
(***************************************************************************)
EXTENDS LoanLedger, Amortization, CommonLemmas

(* Division of naturals stays in the naturals.                             *)
LEMMA DivNat ==
  ASSUME NEW a \in Nat, NEW b \in Nat \ {0}
  PROVE  a \div b \in Nat /\ a % b \in Nat
  OBVIOUS

(* Both roundings of a non-negative quotient are non-negative.             *)
LEMMA RoundNat ==
  ASSUME NEW num \in Nat, NEW den \in Nat \ {0}
  PROVE  RoundHalfUp(num, den) \in Nat /\ RoundHalfEven(num, den) \in Nat
<1>1. 2 * num + den \in Nat /\ 2 * den \in Nat \ {0}
  OBVIOUS
<1>2. (2 * num + den) \div (2 * den) \in Nat
  BY <1>1, DivNat
<1>3. num \div den \in Nat
  BY DivNat
<1>. QED
  BY <1>2, <1>3 DEF RoundHalfUp, RoundHalfEven

(* A product of naturals is a natural.                                     *)
LEMMA ProductNat ==
  ASSUME NEW a \in Nat, NEW b \in Nat
  PROVE  a * b \in Nat
  OBVIOUS

(* A late fee is a non-negative amount.                                    *)
LEMMA LateFeeNat ==
  ASSUME TypeOK, NEW eff \in Days
  PROVE  LateFee(eff) \in Nat
<1>1. CASE \E q \in LatestLate(eff) : eff - DueDate[q] > GraceDays
  <2>. DEFINE q == CHOOSE x \in LatestLate(eff) : TRUE
  <2>1. q \in LatestLate(eff)
    BY <1>1
  <2>0. LateFee(eff) = LateFeeFor(q)
    BY <1>1 DEF LateFee
  <2>. HIDE DEF q
  <2>2. q \in Periods
    BY <2>1 DEF LatestLate
  <2>3. Scheduled[q] \in Nat
    BY <2>2, PeriodsAssumption
  <2>4. /\ Scheduled[q] * LateFeeAmount \in Nat
        /\ principal * LateFeeAmount \in Nat
    BY <2>3, ProductNat, AmountsAssumption DEF TypeOK
  <2>5. /\ RoundHalfEven(Scheduled[q] * LateFeeAmount, 100) \in Nat
        /\ RoundHalfEven(principal * LateFeeAmount, 100) \in Nat
    BY <2>4, RoundNat, 100 \in Nat \ {0}
  <2>6. LateFeeFor(q) \in Nat
    BY <2>5, AmountsAssumption DEF LateFeeFor
  <2>. QED
    BY <2>0, <2>6
<1>2. CASE ~ \E q \in LatestLate(eff) : eff - DueDate[q] > GraceDays
  BY <1>2 DEF LateFee
<1>. QED
  BY <1>1, <1>2

(* The waterfall hands out the whole payment, takes no more interest and   *)
(* principal than there is, and fills each bucket before the next.         *)
LEMMA WaterfallSplit ==
  ASSUME TypeOK, NEW gross \in Nat, NEW lateFee \in Nat, NEW penalty \in Nat
  PROVE  LET w == Waterfall(gross, lateFee, penalty)
         IN /\ w.fees \in Nat /\ w.interest \in Nat /\ w.principal \in Nat
            /\ w.penalty \in Nat /\ w.suspense \in Nat
            /\ w.interest <= interest /\ w.principal <= principal
            /\ w.fees <= fees + lateFee
            /\ w.interest > 0 => w.fees = fees + lateFee
            /\ w.principal > 0 => w.fees = fees + lateFee /\ w.interest = interest
            /\ w.penalty + w.suspense > 0 =>
                 /\ w.fees = fees + lateFee
                 /\ w.interest = interest
                 /\ w.principal = principal
<1>. DEFINE f  == Min2(gross, fees + lateFee)
            i  == Min2(gross - f, interest)
            p  == Min2(gross - f - i, principal)
            pp == Min2(gross - f - i - p, penalty)
<1>1. principal \in Nat /\ interest \in Nat /\ fees \in Nat
  BY DEF TypeOK
<1>2. f \in Nat /\ f <= fees + lateFee /\ gross - f \in Nat /\ (gross - f > 0 => f = fees + lateFee)
  BY <1>1 DEF Min2
<1>. HIDE DEF f
<1>3. /\ i \in Nat /\ gross - f - i \in Nat /\ i <= interest /\ i <= gross - f
      /\ gross - f - i > 0 => i = interest
  BY <1>1, <1>2 DEF Min2
<1>. HIDE DEF i
<1>4. /\ p \in Nat /\ gross - f - i - p \in Nat /\ p <= principal /\ p <= gross - f - i
      /\ gross - f - i - p > 0 => p = principal
  BY <1>1, <1>2, <1>3 DEF Min2
<1>. HIDE DEF p
<1>5. pp \in Nat /\ gross - f - i - p - pp \in Nat /\ pp <= gross - f - i - p
  BY <1>1, <1>2, <1>3, <1>4 DEF Min2
<1>. HIDE DEF pp
<1>6. Waterfall(gross, lateFee, penalty) =
        [fees |-> f, interest |-> i, principal |-> p, penalty |-> pp,
         suspense |-> gross - f - i - p - pp]
  BY DEF Waterfall, f, i, p, pp
<1>. QED
  BY <1>1, <1>2, <1>3, <1>4, <1>5, <1>6

(* The row post_payment builds, and what is known of its amounts.          *)
Applicable(p) ==
  /\ p \in PaymentRows
  /\ p.status = "posted"
  /\ p.interest <= interest /\ p.principal <= principal
  /\ p.fees <= fees + p.lateFee
  /\ p.interest > 0 => p.fees >= fees
  /\ p.principal > 0 => p.fees >= fees /\ p.interest = interest
  /\ p.penalty + p.suspense > 0 =>
       p.fees >= fees /\ p.interest = interest /\ p.principal = principal

LEMMA PaymentApplicable ==
  ASSUME TypeOK, NEW kind \in {"regular", "payoff"}, NEW gross \in Nat,
         NEW eff \in Days, NEW per \in Periods \cup {NoPeriod}, NEW penalty \in Nat
  PROVE  Applicable(Payment(kind, gross, eff, per, penalty))
<1>. DEFINE w == Waterfall(gross, LateFee(eff), penalty)
            p == Payment(kind, gross, eff, per, penalty)
<1>1. LateFee(eff) \in Nat
  BY LateFeeNat
<1>2. p = [kind |-> kind, status |-> "posted", gross |-> gross, period |-> per,
           fees |-> w.fees, interest |-> w.interest, principal |-> w.principal,
           penalty |-> w.penalty, suspense |-> w.suspense, lateFee |-> LateFee(eff)]
  BY DEF Payment
<1>3. /\ w.fees \in Nat /\ w.interest \in Nat /\ w.principal \in Nat
      /\ w.penalty \in Nat /\ w.suspense \in Nat
      /\ w.interest <= interest /\ w.principal <= principal
      /\ w.fees <= fees + LateFee(eff)
      /\ w.interest > 0 => w.fees = fees + LateFee(eff)
      /\ w.principal > 0 => w.fees = fees + LateFee(eff) /\ w.interest = interest
      /\ w.penalty + w.suspense > 0 =>
           /\ w.fees = fees + LateFee(eff)
           /\ w.interest = interest
           /\ w.principal = principal
  BY <1>1, WaterfallSplit
<1>. HIDE DEF w
<1>4. p \in PaymentRows
  BY <1>1, <1>2, <1>3 DEF PaymentRows
<1>5. fees \in Nat
  BY DEF TypeOK
<1>. QED
  BY <1>1, <1>2, <1>3, <1>4, <1>5 DEF Applicable

-----------------------------------------------------------------------------
(* The inductive invariant: reconciliation needs the types, since the      *)
(* clamps are harmless only between non-negative amounts.                  *)
Inv == TypeOK /\ LedgerReconciles

(* What a ledger update does to the two receivable accounts.               *)
LEMMA LinesType ==
  ASSUME NEW p \in PaymentRows, NEW i \in Nat, NEW pik \in Nat
  PROVE  /\ PaymentLines(p) \in [Accounts -> Int]
         /\ PaymentLines(p)["1100"] = -p.principal
         /\ PaymentLines(p)["1110"] = -p.interest
         /\ PaymentLines(p)["1120"] = -p.fees
         /\ AccrualLines(i, pik) \in [Accounts -> Int]
         /\ AccrualLines(i, pik)["1100"] = pik
         /\ AccrualLines(i, pik)["1110"] = i
         /\ AccrualLines(i, pik)["1120"] = 0
         /\ OpeningLines(pik, i) \in [Accounts -> Int]
         /\ OpeningLines(pik, i)["1100"] = pik
         /\ OpeningLines(pik, i)["1110"] = i
         /\ OpeningLines(pik, i)["1120"] = 0
<1>1. /\ p.fees \in Nat /\ p.interest \in Nat /\ p.principal \in Nat
      /\ p.penalty \in Nat /\ p.suspense \in Nat
  BY DEF PaymentRows
<1>2. /\ PaymentLines(p) \in [Accounts -> Int]
      /\ PaymentLines(p)["1100"] = -p.principal
      /\ PaymentLines(p)["1110"] = -p.interest
      /\ PaymentLines(p)["1120"] = -p.fees
  BY <1>1 DEF PaymentLines, NoLines, Accounts
<1>3. /\ AccrualLines(i, pik) \in [Accounts -> Int]
      /\ AccrualLines(i, pik)["1100"] = pik
      /\ AccrualLines(i, pik)["1110"] = i
      /\ AccrualLines(i, pik)["1120"] = 0
  BY DEF AccrualLines, NoLines, Accounts
<1>4. /\ OpeningLines(pik, i) \in [Accounts -> Int]
      /\ OpeningLines(pik, i)["1100"] = pik
      /\ OpeningLines(pik, i)["1110"] = i
      /\ OpeningLines(pik, i)["1120"] = 0
  BY DEF OpeningLines, NoLines, Accounts
<1>. QED
  BY <1>2, <1>3, <1>4

(* The late fees assessed grow by that of a new payment; marking a row      *)
(* leaves them.                                                            *)
LateFees(paid) == SumFunction([k \in 1 .. Len(paid) |-> paid[k].lateFee])
LEMMA LateFeesType ==
  ASSUME NEW paid \in Seq(PaymentRows)
  PROVE  /\ Summable([k \in 1 .. Len(paid) |-> paid[k].lateFee])
         /\ LateFees(paid) \in Int
<1>1. \A k \in 1 .. Len(paid) : paid[k].lateFee \in Int
  <2>1. \A p \in PaymentRows : p.lateFee \in Int
    BY DEF PaymentRows
  <2>2. \A k \in 1 .. Len(paid) : paid[k] \in PaymentRows
    OBVIOUS
  <2>. QED
    BY <2>1, <2>2
<1>2. IsFiniteSet(1 .. Len(paid))
  BY FS_Interval
<1>3. Summable([k \in 1 .. Len(paid) |-> paid[k].lateFee])
  BY <1>1, <1>2 DEF Summable
<1>. QED
  BY <1>3, SumIsInt DEF LateFees

LEMMA LateFeesGrow ==
  ASSUME NEW paid \in Seq(PaymentRows), NEW p \in PaymentRows
  PROVE  LateFees(Append(paid, p)) = LateFees(paid) + p.lateFee
<1>. DEFINE more == Append(paid, p)
            n == Len(paid)
            f == [k \in 1 .. Len(more) |-> more[k].lateFee]
            g == [k \in 1 .. n |-> paid[k].lateFee]
<1>1. n \in Nat /\ more \in Seq(PaymentRows) /\ Len(more) = n + 1
  OBVIOUS
<1>2. Summable(f) /\ f[n + 1] = p.lateFee /\ p.lateFee \in Int
  <2>1. Summable(f)
    <3>. HIDE DEF more
    <3>. QED
      BY <1>1, LateFeesType
  <2>2. more[n + 1] = p /\ n + 1 \in 1 .. Len(more)
    BY <1>1
  <2>3. p.lateFee \in Int
    BY DEF PaymentRows
  <2>. QED
    BY <2>1, <2>2, <2>3
<1>3. DOMAIN f = 1 .. n + 1 /\ DOMAIN g = 1 .. n /\ n + 1 \in DOMAIN f
  BY <1>1
<1>4. \A k \in DOMAIN g : g[k] = f[k]
  BY <1>1
<1>5. DOMAIN g = DOMAIN f \ {n + 1}
  BY <1>1, <1>3
<1>6. SumFunction(f) = f[n + 1] + SumFunction(g)
  <2>. HIDE DEF f, g
  <2>. QED
    BY <1>2, <1>3, <1>4, <1>5, SumWithout
<1>7. SumFunction(g) = LateFees(paid) /\ SumFunction(f) = LateFees(more) /\ LateFees(paid) \in Int
  BY LateFeesType DEF LateFees
<1>. QED
  <2>. HIDE DEF f, g
  <2>. QED
    BY <1>2, <1>6, <1>7

LEMMA LateFeesStay ==
  ASSUME NEW paid \in Seq(PaymentRows), NEW k \in 1 .. Len(paid)
  PROVE  LateFees([paid EXCEPT ![k].status = "reversed"]) = LateFees(paid)
<1>. DEFINE marked == [paid EXCEPT ![k].status = "reversed"]
<1>1. Len(marked) = Len(paid) /\ DOMAIN marked = DOMAIN paid
  OBVIOUS
<1>2. \A j \in 1 .. Len(paid) : marked[j].lateFee = paid[j].lateFee
  <2>1. \A j \in 1 .. Len(paid) : paid[j] \in PaymentRows
    OBVIOUS
  <2>. QED
    BY <2>1 DEF PaymentRows
<1>. QED
  BY <1>1, <1>2 DEF LateFees

(* post_payment moves the loan row and the ledger alike.                   *)
LEMMA PostPreserves ==
  ASSUME Inv, NEW eff, NEW p, Applicable(p), Post(p, eff), boarding' = boarding
  PROVE  /\ principal' \in Nat /\ interest' \in Nat /\ fees' \in Nat
         /\ gl' \in [Accounts -> Int]
         /\ payments' \in Seq(PaymentRows)
         /\ period' \in [Periods -> {"open", "partial", "paid"}]
         /\ LedgerReconciles'
<1>1. /\ p \in PaymentRows
      /\ p.principal \in Nat /\ p.interest \in Nat /\ p.fees \in Nat
      /\ p.principal <= principal /\ p.interest <= interest
      /\ p.lateFee \in Nat /\ p.fees <= fees + p.lateFee
  BY DEF Applicable, PaymentRows
<1>2. principal \in Nat /\ interest \in Nat /\ fees \in Nat /\ gl \in [Accounts -> Int]
  BY DEF Inv, TypeOK
<1>3. /\ principal' = principal - p.principal /\ principal' \in Nat
      /\ interest' = interest - p.interest /\ interest' \in Nat
      /\ fees' \in Nat /\ fees' >= fees - p.fees /\ fees' <= fees - p.fees + p.lateFee
  <2>1. /\ principal' = ClampedSub(principal, p.principal)
        /\ interest' = ClampedSub(interest, p.interest)
        /\ fees' = ClampedSub(fees, p.fees)
    BY DEF Post, ApplyToBalances
  <2>2. ClampedSub(principal, p.principal) = principal - p.principal
    BY <1>1, <1>2 DEF ClampedSub
  <2>3. ClampedSub(interest, p.interest) = interest - p.interest
    BY <1>1, <1>2 DEF ClampedSub
  <2>4. /\ ClampedSub(fees, p.fees) \in Nat
        /\ ClampedSub(fees, p.fees) >= fees - p.fees
        /\ ClampedSub(fees, p.fees) <= fees - p.fees + p.lateFee
    BY <1>1, <1>2 DEF ClampedSub
  <2>. QED
    BY <1>1, <1>2, <2>1, <2>2, <2>3, <2>4
<1>4. gl' = [a \in Accounts |-> gl[a] + PaymentLines(p)[a]]
  BY DEF Post
<1>5. /\ PaymentLines(p) \in [Accounts -> Int]
      /\ PaymentLines(p)["1100"] = -p.principal
      /\ PaymentLines(p)["1110"] = -p.interest
      /\ PaymentLines(p)["1120"] = -p.fees
  BY <1>1, LinesType, 0 \in Nat
<1>6. gl' \in [Accounts -> Int]
  BY <1>2, <1>4, <1>5
<1>7. /\ gl'["1100"] = gl["1100"] - p.principal /\ gl'["1110"] = gl["1110"] - p.interest
      /\ gl'["1120"] = gl["1120"] - p.fees
  BY <1>1, <1>2, <1>4, <1>5 DEF Accounts
<1>8. payments' \in Seq(PaymentRows)
  BY <1>1 DEF Post, Inv, TypeOK
<1>9. period' \in [Periods -> {"open", "partial", "paid"}]
  BY <1>1 DEF Post, Inv, TypeOK, PeriodAfter, PaymentRows
<1>11. FeeDrift' >= 0 /\ FeeDrift' <= LateFeesAssessed'
  <2>1. OpeningFees' = OpeningFees /\ OpeningFees \in Int
    BY AmountsAssumption DEF OpeningFees
  <2>2. LateFeesAssessed' = LateFeesAssessed + p.lateFee /\ LateFeesAssessed \in Int
    <3>1. payments' = Append(payments, p) /\ payments \in Seq(PaymentRows)
      BY DEF Post, Inv, TypeOK
    <3>. QED
      BY <1>1, <3>1, LateFeesGrow, LateFeesType DEF LateFeesAssessed, LateFees
  <2>3. gl["1120"] \in Int
    BY <1>2 DEF Accounts
  <2>4. FeeDrift >= 0 /\ FeeDrift <= LateFeesAssessed
    BY DEF Inv, LedgerReconciles
  <2>. QED
    BY <1>1, <1>2, <1>3, <1>7, <2>1, <2>2, <2>3, <2>4 DEF FeeDrift
<1>10. LedgerReconciles'
  <2>1. Unbooked' = Unbooked /\ Unbooked \in Int
    BY AmountsAssumption DEF Unbooked
  <2>2. principal = gl["1100"] + Unbooked /\ interest = gl["1110"]
    BY DEF Inv, LedgerReconciles
  <2>3. gl["1100"] \in Int /\ gl["1110"] \in Int
    BY <1>2 DEF Accounts
  <2>. QED
    BY <1>1, <1>2, <1>3, <1>7, <2>1, <2>2, <2>3, <1>11 DEF LedgerReconciles
<1>. QED
  BY <1>3, <1>6, <1>8, <1>9, <1>10

(* A backfilling task stays on days of the calendar.                       *)
LEMMA JobStays ==
  ASSUME TypeOK, ~Idle
  PROVE  job.next \in Days /\ JobAfterDay \in [next : Days \cup {1}, until : Days]
<1>1. /\ job \in [next : Days \cup {1}, until : Days] /\ MaxDay \in Nat
  BY CalendarAssumption DEF TypeOK
<1>2. job.next \in Days /\ job.until \in Days /\ job.next <= job.until
  BY <1>1 DEF Idle, Days
<1>3. CASE job.next < job.until
  <2>1. job.next + 1 \in Days
    BY <1>1, <1>2, <1>3 DEF Days
  <2>. QED
    BY <1>1, <1>2, <1>3, <2>1 DEF JobAfterDay
<1>4. CASE ~(job.next < job.until)
  BY <1>1, <1>2, <1>4 DEF JobAfterDay, NoJob, Days
<1>. QED
  BY <1>2, <1>3, <1>4

LEMMA InitInv == Init => Inv
<1>. SUFFICES ASSUME Init PROVE Inv
  OBVIOUS
<1>1. MaxDay \in Nat /\ AsOfDate \in Days /\ Boardings \subseteq {"originated", "converted"}
  BY CalendarAssumption
<1>2. today \in Days /\ AsOfDate .. MaxDay \subseteq Days /\ 0 \in Days
  BY <1>1 DEF Init, Days
<1>3. /\ payments \in Seq(PaymentRows) /\ accruals \subseteq Days
      /\ period \in [Periods -> {"open", "partial", "paid"}]
      /\ job \in [next : Days \cup {1}, until : Days] /\ boarding \in Boardings
  BY <1>2 DEF Init, NoJob
<1>6. LateFeesAssessed = 0
  <2>1. DOMAIN [k \in 1 .. Len(payments) |-> payments[k].lateFee] = {}
    BY DEF Init
  <2>. QED
    BY <2>1, SumOfNone DEF LateFeesAssessed
<1>4. CASE boarding = "originated"
  <2>1. /\ status = "boarding" /\ fundedAt = NoDate /\ principal = OriginalBalance
        /\ interest = 0 /\ fees = 0 /\ gl = [a \in Accounts |-> 0]
    BY <1>4 DEF Init
  <2>2. gl \in [Accounts -> Int] /\ gl["1100"] = 0 /\ gl["1110"] = 0 /\ gl["1120"] = 0
    BY <2>1 DEF Accounts
  <2>. QED
    BY <1>2, <1>3, <1>4, <1>6, <2>1, <2>2, AmountsAssumption
    DEF Inv, TypeOK, LedgerReconciles, Unbooked, FeeDrift, OpeningFees, Statuses, STATUS_TRANSITIONS
<1>5. CASE boarding = "converted"
  <2>1. /\ status = "funded" /\ fundedAt = AsOfDate /\ principal = ConvPrincipal
        /\ interest = ConvInterest /\ fees = ConvFees
        /\ gl = OpeningLines(ConvPrincipal, ConvInterest)
    BY <1>5 DEF Init
  <2>2. /\ OpeningLines(ConvPrincipal, ConvInterest) \in [Accounts -> Int]
        /\ OpeningLines(ConvPrincipal, ConvInterest)["1100"] = ConvPrincipal
        /\ OpeningLines(ConvPrincipal, ConvInterest)["1110"] = ConvInterest
        /\ OpeningLines(ConvPrincipal, ConvInterest)["1120"] = 0
    BY AmountsAssumption DEF OpeningLines, NoLines, Accounts
  <2>. QED
    BY <1>1, <1>2, <1>3, <1>5, <1>6, <2>1, <2>2, AmountsAssumption
    DEF Inv, TypeOK, LedgerReconciles, Unbooked, FeeDrift, OpeningFees, Statuses, STATUS_TRANSITIONS
<1>. QED
  BY <1>1, <1>3, <1>4, <1>5

-----------------------------------------------------------------------------
(* One lemma per kind of step.                                             *)

LEMMA PostPaymentInv ==
  ASSUME Inv, NEW gross \in Grosses, NEW eff \in Days,
         NEW per \in Periods \cup {NoPeriod}, PostPayment(gross, eff, per)
  PROVE  Inv'
<1>. DEFINE p == Payment("regular", gross, eff, per, 0)
<1>1. gross \in Nat /\ 0 \in Nat
  BY AmountsAssumption
<1>2. Applicable(p)
  BY <1>1, PaymentApplicable DEF Inv
<1>3. Post(p, eff) /\ boarding' = boarding
  BY DEF PostPayment
<1>. HIDE DEF p
<1>4. /\ principal' \in Nat /\ interest' \in Nat /\ fees' \in Nat
      /\ gl' \in [Accounts -> Int] /\ payments' \in Seq(PaymentRows)
      /\ period' \in [Periods -> {"open", "partial", "paid"}] /\ LedgerReconciles'
  BY <1>2, <1>3, PostPreserves
<1>. QED
  BY <1>4 DEF Inv, TypeOK, PostPayment

LEMMA ProcessPayoffInv ==
  ASSUME Inv, NEW amount, NEW payoffDate \in Days, amount \in Int,
         ProcessPayoff(amount, payoffDate)
  PROVE  Inv'
<1>. DEFINE p == PayoffPayment(amount, payoffDate)
<1>1. amount \in Nat
  BY DEF ProcessPayoff, PayoffAccepted
<1>2. PrepaymentPenalty \in Nat
  <2>1. principal * PenaltyPct \in Nat
    BY AmountsAssumption, ProductNat DEF Inv, TypeOK
  <2>. QED
    BY <2>1, RoundNat, 100 \in Nat \ {0} DEF PrepaymentPenalty
<1>3. Applicable(p)
  BY <1>1, <1>2, PaymentApplicable DEF Inv, PayoffPayment
<1>4. Post(p, payoffDate) /\ boarding' = boarding
  BY DEF ProcessPayoff
<1>. HIDE DEF p
<1>5. /\ principal' \in Nat /\ interest' \in Nat /\ fees' \in Nat
      /\ gl' \in [Accounts -> Int] /\ payments' \in Seq(PaymentRows)
      /\ period' \in [Periods -> {"open", "partial", "paid"}] /\ LedgerReconciles'
  BY <1>3, <1>4, PostPreserves
<1>6. status' \in Statuses
  BY DEF ProcessPayoff, Statuses, STATUS_TRANSITIONS
<1>. QED
  BY <1>5, <1>6 DEF Inv, TypeOK, ProcessPayoff

LEMMA ReversePaymentInv ==
  ASSUME Inv, NEW k \in 1 .. Len(payments), ReversePayment(k)
  PROVE  Inv'
<1>0. PICK p \in PaymentRows : p = payments[k]
  BY DEF Inv, TypeOK
<1>1. p.principal \in Nat /\ p.interest \in Nat /\ p.fees \in Nat
  BY DEF PaymentRows
<1>2. principal \in Nat /\ interest \in Nat /\ fees \in Nat /\ gl \in [Accounts -> Int]
  BY DEF Inv, TypeOK
<1>3. /\ principal' = ClampedSub(principal, -p.principal)
      /\ interest' = ClampedSub(interest, -p.interest)
      /\ fees' = ClampedSub(fees, -p.fees)
      /\ gl' = [a \in Accounts |-> gl[a] - PaymentLines(p)[a]]
      /\ payments' = [payments EXCEPT ![k].status = "reversed"]
  BY <1>0 DEF ReversePayment, ApplyToBalances
<1>4. /\ PaymentLines(p) \in [Accounts -> Int]
      /\ PaymentLines(p)["1100"] = -p.principal
      /\ PaymentLines(p)["1110"] = -p.interest
      /\ PaymentLines(p)["1120"] = -p.fees
  BY LinesType, 0 \in Nat
<1>5. payments' \in Seq(PaymentRows)
  <2>1. [p EXCEPT !.status = "reversed"] \in PaymentRows
    BY DEF PaymentRows
  <2>2. payments' = [payments EXCEPT ![k] = [p EXCEPT !.status = "reversed"]]
    BY <1>0, <1>3
  <2>. QED
    BY <2>1, <2>2 DEF Inv, TypeOK
<1>6. PICK dp \in Nat, di \in Nat, df \in Nat :
        dp = p.principal /\ di = p.interest /\ df = p.fees
  BY <1>1
<1>7. principal' = principal + dp /\ interest' = interest + di /\ fees' = fees + df
  <2>1. /\ principal' = ClampedSub(principal, -dp)
        /\ interest' = ClampedSub(interest, -di)
        /\ fees' = ClampedSub(fees, -df)
    BY <1>3, <1>6
  <2>. QED
    BY <1>2, <2>1 DEF ClampedSub
<1>8. /\ PaymentLines(p) \in [Accounts -> Int]
      /\ PaymentLines(p)["1100"] = -dp /\ PaymentLines(p)["1110"] = -di
      /\ PaymentLines(p)["1120"] = -df
  BY <1>4, <1>6
<1>9. /\ gl' \in [Accounts -> Int]
      /\ gl'["1100"] = gl["1100"] + dp /\ gl'["1110"] = gl["1110"] + di
      /\ gl'["1120"] = gl["1120"] + df
  <2>. DEFINE L == PaymentLines(p)
  <2>1. /\ L \in [Accounts -> Int] /\ L["1100"] = -dp /\ L["1110"] = -di /\ L["1120"] = -df
        /\ gl' = [a \in Accounts |-> gl[a] - L[a]]
    BY <1>3, <1>8
  <2>. HIDE DEF L
  <2>2. gl' \in [Accounts -> Int]
    BY <1>2, <2>1
  <2>3. /\ gl'["1100"] = gl["1100"] - L["1100"] /\ gl'["1110"] = gl["1110"] - L["1110"]
        /\ gl'["1120"] = gl["1120"] - L["1120"]
    BY <2>1 DEF Accounts
  <2>4. gl["1100"] \in Int /\ gl["1110"] \in Int /\ gl["1120"] \in Int
    BY <1>2 DEF Accounts
  <2>5. gl'["1100"] = gl["1100"] + dp
    BY <2>1, <2>3, <2>4
  <2>6. gl'["1110"] = gl["1110"] + di
    BY <2>1, <2>3, <2>4
  <2>7. gl'["1120"] = gl["1120"] + df
    BY <2>1, <2>3, <2>4
  <2>. QED
    BY <2>2, <2>5, <2>6, <2>7
<1>12. FeeDrift' = FeeDrift /\ LateFeesAssessed' = LateFeesAssessed
  <2>1. OpeningFees' = OpeningFees /\ OpeningFees \in Int
    BY AmountsAssumption DEF OpeningFees, ReversePayment
  <2>2. gl["1120"] \in Int
    BY <1>2 DEF Accounts
  <2>3. LateFeesAssessed' = LateFeesAssessed
    <3>1. payments \in Seq(PaymentRows) /\ LateFees(payments') = LateFees(payments)
      BY <1>3, LateFeesStay DEF Inv, TypeOK
    <3>. QED
      BY <3>1 DEF LateFeesAssessed, LateFees
  <2>. QED
    BY <1>2, <1>7, <1>9, <2>1, <2>2, <2>3 DEF FeeDrift
<1>10. LedgerReconciles'
  <2>1. Unbooked' = Unbooked /\ Unbooked \in Int
    BY AmountsAssumption DEF Unbooked, ReversePayment
  <2>2. principal = gl["1100"] + Unbooked /\ interest = gl["1110"]
    BY DEF Inv, LedgerReconciles
  <2>3. gl["1100"] \in Int /\ gl["1110"] \in Int
    BY <1>2 DEF Accounts
  <2>. QED
    BY <1>2, <1>7, <1>9, <1>12, <2>1, <2>2, <2>3 DEF LedgerReconciles, Inv
<1>11. principal' \in Nat /\ interest' \in Nat /\ fees' \in Nat
  BY <1>2, <1>7
<1>. QED
  BY <1>5, <1>9, <1>10, <1>11 DEF Inv, TypeOK, ReversePayment

LEMMA AccrueDayInv ==
  ASSUME Inv, AccrueDay
  PROVE  Inv'
<1>. DEFINE i   == RoundHalfUp(principal * CouponNum, RateDen)
            pik == RoundHalfUp(principal * PikNum, RateDen)
<1>1. principal \in Nat /\ interest \in Nat /\ gl \in [Accounts -> Int] /\ TypeOK
  BY DEF Inv, TypeOK
<1>2. i \in Nat /\ pik \in Nat
  <2>1. principal * CouponNum \in Nat /\ principal * PikNum \in Nat
    BY <1>1, AmountsAssumption, ProductNat
  <2>. QED
    BY <2>1, AmountsAssumption, RoundNat
<1>3. /\ gl' = [a \in Accounts |-> gl[a] + AccrualLines(i, pik)[a]]
      /\ interest' = interest + i /\ principal' = principal + pik
      /\ accruals' = accruals \cup {job.next} /\ job' = JobAfterDay /\ ~Idle
      /\ UNCHANGED <<boarding, status, fees, fundedAt, payments, period, today>>
  BY DEF AccrueDay
<1>. HIDE DEF i, pik
<1>4. /\ AccrualLines(i, pik) \in [Accounts -> Int]
      /\ AccrualLines(i, pik)["1100"] = pik
      /\ AccrualLines(i, pik)["1110"] = i
      /\ AccrualLines(i, pik)["1120"] = 0
  BY <1>2 DEF AccrualLines, NoLines, Accounts
<1>5. /\ gl' \in [Accounts -> Int]
      /\ gl'["1100"] = gl["1100"] + pik /\ gl'["1110"] = gl["1110"] + i
      /\ gl'["1120"] = gl["1120"]
  <2>1. gl["1120"] \in Int
    BY <1>1 DEF Accounts
  <2>. QED
    BY <1>1, <1>2, <1>3, <1>4, <2>1 DEF Accounts
<1>9. FeeDrift' = FeeDrift /\ LateFeesAssessed' = LateFeesAssessed
  BY <1>3, <1>5 DEF FeeDrift, LateFeesAssessed, OpeningFees
<1>6. LedgerReconciles'
  <2>1. Unbooked' = Unbooked /\ Unbooked \in Int
    BY <1>3, AmountsAssumption DEF Unbooked
  <2>2. principal = gl["1100"] + Unbooked /\ interest = gl["1110"]
    BY DEF Inv, LedgerReconciles
  <2>3. gl["1100"] \in Int /\ gl["1110"] \in Int
    BY <1>1 DEF Accounts
  <2>. QED
    BY <1>1, <1>2, <1>3, <1>5, <1>9, <2>1, <2>2, <2>3 DEF LedgerReconciles, Inv
<1>7. job' \in [next : Days \cup {1}, until : Days] /\ accruals' \subseteq Days
  BY <1>1, <1>3, JobStays DEF TypeOK
<1>8. principal' \in Nat /\ interest' \in Nat
  BY <1>1, <1>2, <1>3
<1>. QED
  BY <1>1, <1>3, <1>5, <1>6, <1>7, <1>8 DEF Inv, TypeOK

LEMMA UpdateStatusInv ==
  ASSUME Inv, NEW new \in Statuses, UpdateStatus(new)
  PROVE  Inv'
<1>1. status' \in Statuses /\ fundedAt' \in Days \cup {NoDate}
  BY DEF UpdateStatus, Inv, TypeOK
<1>. QED
  BY <1>1 DEF UpdateStatus, balances, Inv, TypeOK, LedgerReconciles, Unbooked,
         FeeDrift, OpeningFees, LateFeesAssessed

LEMMA StartAccrualInv ==
  ASSUME Inv, NEW d \in Days, StartAccrual(d)
  PROVE  Inv'
<1>1. job' \in [next : Days \cup {1}, until : Days]
  BY CalendarAssumption DEF StartAccrual, Days
<1>. QED
  BY <1>1 DEF StartAccrual, balances, Inv, TypeOK, LedgerReconciles, Unbooked,
         FeeDrift, OpeningFees, LateFeesAssessed

LEMMA SkipDayInv ==
  ASSUME Inv, SkipDay
  PROVE  Inv'
<1>1. job' \in [next : Days \cup {1}, until : Days]
  BY JobStays DEF SkipDay, Inv
<1>. QED
  BY <1>1 DEF SkipDay, balances, Inv, TypeOK, LedgerReconciles, Unbooked,
         FeeDrift, OpeningFees, LateFeesAssessed

LEMMA NextDayInv ==
  ASSUME Inv, NextDay
  PROVE  Inv'
<1>1. today' \in Days
  BY CalendarAssumption DEF NextDay, Inv, TypeOK, Days
<1>. QED
  BY <1>1 DEF NextDay, balances, Inv, TypeOK, LedgerReconciles, Unbooked,
         FeeDrift, OpeningFees, LateFeesAssessed

(* A quote is at least what the loan owes, for any payoff date to come.     *)
LEMMA QuoteCovers ==
  ASSUME TypeOK, NEW payoffDate \in Days
  PROVE  /\ QuoteTotal(payoffDate) \in Int
         /\ payoffDate >= today =>
              QuoteTotal(payoffDate) >= principal + interest + fees
<1>1. principal \in Nat /\ interest \in Nat /\ fees \in Nat /\ today \in Int
  BY CalendarAssumption DEF TypeOK, Days
<1>2. PerDiem \in Nat /\ PrepaymentPenalty \in Nat
  <2>1. principal * QuoteNum \in Nat /\ principal * PenaltyPct \in Nat
    BY <1>1, AmountsAssumption, ProductNat
  <2>. QED
    BY <2>1, AmountsAssumption, RoundNat, 100 \in Nat \ {0}
    DEF PerDiem, PrepaymentPenalty
<1>3. payoffDate - today \in Int
  BY <1>1, CalendarAssumption DEF Days
<1>4. PICK extra \in Int : extra = PerDiem * (payoffDate - today)
  BY <1>2, <1>3
<1>5. payoffDate >= today => extra >= 0
  <2>. SUFFICES ASSUME payoffDate >= today PROVE extra \in Nat
    OBVIOUS
  <2>1. payoffDate - today \in Nat
    BY <1>1, CalendarAssumption DEF Days
  <2>. QED
    BY <1>2, <1>4, <2>1, ProductNat
<1>6. QuoteTotal(payoffDate) = principal + interest + extra + fees + PrepaymentPenalty
  BY <1>4 DEF QuoteTotal
<1>. QED
  BY <1>1, <1>2, <1>5, <1>6

(* Every step keeps the types and the reconciliation.                      *)
LEMMA NextInv == Inv /\ [Next]_vars => Inv'
<1>. SUFFICES ASSUME Inv, [Next]_vars PROVE Inv'
  OBVIOUS
<1>1. ASSUME NEW gross \in Grosses, NEW eff \in Days,
             NEW per \in Periods \cup {NoPeriod}, PostPayment(gross, eff, per)
      PROVE  Inv'
  BY <1>1, PostPaymentInv
<1>2. ASSUME NEW k \in 1 .. Len(payments), ReversePayment(k) PROVE Inv'
  BY <1>2, ReversePaymentInv
<1>3. ASSUME NEW payoffDate \in Days, NEW delta \in Deltas,
             ProcessPayoff(QuoteTotal(payoffDate) + delta, payoffDate)
      PROVE  Inv'
  <2>1. QuoteTotal(payoffDate) \in Int
    BY QuoteCovers DEF Inv
  <2>2. QuoteTotal(payoffDate) + delta \in Int
    BY <2>1, AmountsAssumption
  <2>. QED
    BY <1>3, <2>2, ProcessPayoffInv
<1>4. ASSUME NEW new \in Statuses, UpdateStatus(new) PROVE Inv'
  BY <1>4, UpdateStatusInv
<1>5. ASSUME NEW d \in Days, StartAccrual(d) PROVE Inv'
  BY <1>5, StartAccrualInv
<1>6. CASE AccrueDay
  BY <1>6, AccrueDayInv
<1>7. CASE SkipDay
  BY <1>7, SkipDayInv
<1>8. CASE NextDay
  BY <1>8, NextDayInv
<1>9. CASE UNCHANGED vars
  BY <1>9 DEF vars, balances, Inv, TypeOK, LedgerReconciles, Unbooked,
         FeeDrift, OpeningFees, LateFeesAssessed
<1>. QED
  BY <1>1, <1>2, <1>3, <1>4, <1>5, <1>6, <1>7, <1>8, <1>9 DEF Next

(* The invariant holds in every reachable state.                           *)
LEMMA InvHolds == Spec => []Inv
  BY InitInv, NextInv, PTL DEF Spec

(* Balances, the amounts of every payment row and every date stay in range, *)
(* whatever is posted, reversed, paid off and accrued.                      *)
THEOREM TypeCorrect == Spec => []TypeOK
<1>1. Inv => TypeOK
  BY DEF Inv
<1>. QED
  BY <1>1, InvHolds, PTL

(* The clamped principal and interest of the loan row never part from the   *)
(* unclamped receivable accounts of the ledger; the fees run ahead of theirs *)
(* by no more than the late fees assessed.                                  *)
THEOREM Reconciliation == Spec => []LedgerReconciles
<1>1. Inv => LedgerReconciles
  BY DEF Inv
<1>. QED
  BY <1>1, InvHolds, PTL

-----------------------------------------------------------------------------
(* Posting one applicable row takes the payment in waterfall order.         *)
LEMMA PostInOrder ==
  ASSUME TypeOK, NEW p, NEW eff, Applicable(p), Post(p, eff)
  PROVE  /\ payments'[Len(payments')] = p
         /\ p.interest > 0 => fees' = 0
         /\ p.principal > 0 => fees' = 0 /\ interest' = 0
         /\ p.penalty + p.suspense > 0 => fees' = 0 /\ interest' = 0 /\ principal' = 0
<1>1. /\ payments' = Append(payments, p) /\ payments \in Seq(PaymentRows)
      /\ p \in PaymentRows
  BY DEF Post, TypeOK, Applicable
<1>2. payments'[Len(payments')] = p
  BY <1>1
<1>3. principal \in Nat /\ interest \in Nat /\ fees \in Nat
  BY DEF TypeOK
<1>4. /\ p.fees \in Nat /\ p.interest \in Nat /\ p.principal \in Nat
      /\ p.penalty \in Nat /\ p.suspense \in Nat
  BY <1>1 DEF PaymentRows
<1>5. /\ principal' = ClampedSub(principal, p.principal)
      /\ interest' = ClampedSub(interest, p.interest)
      /\ fees' = ClampedSub(fees, p.fees)
  BY DEF Post, ApplyToBalances
<1>6. p.fees >= fees => fees' = 0
  BY <1>3, <1>4, <1>5 DEF ClampedSub
<1>7. p.interest = interest => interest' = 0
  BY <1>3, <1>4, <1>5 DEF ClampedSub
<1>8. p.principal = principal => principal' = 0
  BY <1>3, <1>4, <1>5 DEF ClampedSub
<1>. QED
  BY <1>2, <1>6, <1>7, <1>8 DEF Applicable

(* The step of one payment respects the waterfall.                         *)
WaterfallStep ==
  PaymentTaken =>
    LET p == payments'[Len(payments')]
    IN /\ p.interest > 0 => fees' = 0
       /\ p.principal > 0 => fees' = 0 /\ interest' = 0
       /\ p.penalty + p.suspense > 0 => fees' = 0 /\ interest' = 0 /\ principal' = 0

LEMMA WaterfallNext == TypeOK /\ [Next]_vars => WaterfallStep
<1>. SUFFICES ASSUME TypeOK, [Next]_vars PROVE WaterfallStep
  OBVIOUS
<1>0. payments \in Seq(PaymentRows)
  BY DEF TypeOK
<1>1. ASSUME NEW gross \in Grosses, NEW eff \in Days,
             NEW per \in Periods \cup {NoPeriod}, PostPayment(gross, eff, per)
      PROVE  WaterfallStep
  <2>. DEFINE p == Payment("regular", gross, eff, per, 0)
  <2>1. Applicable(p)
    BY AmountsAssumption, PaymentApplicable, 0 \in Nat
  <2>2. Post(p, eff)
    BY <1>1 DEF PostPayment
  <2>. HIDE DEF p
  <2>. QED
    BY <2>1, <2>2, PostInOrder DEF WaterfallStep
<1>2. ASSUME NEW k \in 1 .. Len(payments), ReversePayment(k) PROVE WaterfallStep
  <2>1. payments' = [payments EXCEPT ![k].status = "reversed"]
    BY <1>2 DEF ReversePayment
  <2>2. Len(payments') = Len(payments)
    BY <1>0, <2>1
  <2>. QED
    BY <1>0, <2>2 DEF WaterfallStep, PaymentTaken
<1>3. ASSUME NEW payoffDate \in Days, NEW delta \in Deltas,
             ProcessPayoff(QuoteTotal(payoffDate) + delta, payoffDate)
      PROVE  WaterfallStep
  <2>1. PICK amount \in Int : amount = QuoteTotal(payoffDate) + delta
    BY QuoteCovers, AmountsAssumption
  <2>2. amount \in Nat
    BY <1>3, <2>1 DEF ProcessPayoff, PayoffAccepted
  <2>. DEFINE p == PayoffPayment(amount, payoffDate)
  <2>3. principal * PenaltyPct \in Nat
    BY AmountsAssumption, ProductNat DEF TypeOK
  <2>4. PrepaymentPenalty \in Nat
    BY <2>3, RoundNat, 100 \in Nat \ {0} DEF PrepaymentPenalty
  <2>5. Applicable(p)
    BY <2>2, <2>4, PaymentApplicable DEF PayoffPayment
  <2>6. Post(p, payoffDate)
    BY <1>3, <2>1 DEF ProcessPayoff
  <2>. HIDE DEF p
  <2>. QED
    BY <2>5, <2>6, PostInOrder DEF WaterfallStep
<1>4. ASSUME UNCHANGED payments PROVE WaterfallStep
  BY <1>0, <1>4 DEF WaterfallStep, PaymentTaken
<1>5. ASSUME NEW new \in Statuses, UpdateStatus(new) PROVE WaterfallStep
  BY <1>4, <1>5 DEF UpdateStatus
<1>6. ASSUME NEW d \in Days, StartAccrual(d) PROVE WaterfallStep
  BY <1>4, <1>6 DEF StartAccrual
<1>7. CASE AccrueDay \/ SkipDay \/ NextDay \/ UNCHANGED vars
  BY <1>4, <1>7 DEF AccrueDay, SkipDay, NextDay, vars
<1>. QED
  BY <1>1, <1>2, <1>3, <1>5, <1>6, <1>7 DEF Next

(* No payment reaches a bucket of the waterfall before the buckets ahead of *)
(* it are empty, whatever late fee or penalty it carries.                   *)
THEOREM WaterfallHolds == Spec => WaterfallOrder
<1>1. TypeOK /\ [Next]_vars => [WaterfallStep]_vars
  BY WaterfallNext
<1>. QED
  BY <1>1, TypeCorrect, PTL DEF Spec, WaterfallOrder, WaterfallStep

(***************************************************************************)
(* The life of a loan: a closed loan is left alone, daily accruals have no *)
(* holes, and a payoff leaves a bounded residual.                          *)
(***************************************************************************)

(* A task only starts on an active loan, and no status changes under it.    *)
JobActive == ~Idle => status \in ACTIVE_STATUSES

LEMMA JobActiveNext == JobActive /\ [Next]_vars => JobActive'
<1>. SUFFICES ASSUME JobActive, [Next]_vars PROVE JobActive'
  OBVIOUS
<1>1. ASSUME NEW gross \in Grosses, NEW eff \in Days,
             NEW per \in Periods \cup {NoPeriod}, PostPayment(gross, eff, per)
      PROVE  JobActive'
  BY <1>1 DEF PostPayment, JobActive, Idle
<1>2. ASSUME NEW k \in 1 .. Len(payments), ReversePayment(k) PROVE JobActive'
  BY <1>2 DEF ReversePayment, JobActive, Idle
<1>3. ASSUME NEW payoffDate \in Days, NEW delta \in Deltas,
             ProcessPayoff(QuoteTotal(payoffDate) + delta, payoffDate)
      PROVE  JobActive'
  BY <1>3 DEF ProcessPayoff, JobActive, Idle
<1>4. ASSUME NEW new \in Statuses, UpdateStatus(new) PROVE JobActive'
  BY <1>4 DEF UpdateStatus, JobActive, Idle
<1>5. ASSUME NEW d \in Days, StartAccrual(d) PROVE JobActive'
  BY <1>5 DEF StartAccrual, JobActive
<1>6. CASE AccrueDay \/ SkipDay
  BY <1>6 DEF AccrueDay, SkipDay, JobActive
<1>7. CASE NextDay \/ UNCHANGED vars
  BY <1>7 DEF NextDay, vars, JobActive, Idle
<1>. QED
  BY <1>1, <1>2, <1>3, <1>4, <1>5, <1>6, <1>7 DEF Next

LEMMA JobActiveHolds == Spec => []JobActive
<1>1. Init => JobActive
  BY DEF Init, NoJob, JobActive, Idle
<1>. QED
  BY <1>1, JobActiveNext, PTL DEF Spec

(* The status machine has no way out of a closed status.                    *)
LEMMA ClosedStatuses ==
  ASSUME status \in Closed
  PROVE  /\ STATUS_TRANSITIONS[status] = {}
         /\ status \notin PAYABLE_STATUSES /\ status \notin ACTIVE_STATUSES
  BY DEF Closed, STATUS_TRANSITIONS, PAYABLE_STATUSES, ACTIVE_STATUSES

(* A step from a closed loan.                                               *)
ClosedStep ==
  (status \in Closed) => UNCHANGED <<status, balances, gl, payments, accruals>>

LEMMA ClosedNext == JobActive /\ [Next]_vars => ClosedStep
<1>. SUFFICES ASSUME JobActive, [Next]_vars, status \in Closed
              PROVE  UNCHANGED <<status, balances, gl, payments, accruals>>
  BY DEF ClosedStep
<1>0. /\ STATUS_TRANSITIONS[status] = {}
      /\ status \notin PAYABLE_STATUSES /\ Idle
  BY ClosedStatuses DEF JobActive
<1>1. ASSUME NEW gross \in Grosses, NEW eff \in Days,
             NEW per \in Periods \cup {NoPeriod}, PostPayment(gross, eff, per)
      PROVE  FALSE
  BY <1>0, <1>1 DEF PostPayment, Post
<1>2. ASSUME NEW k \in 1 .. Len(payments), ReversePayment(k) PROVE FALSE
  BY <1>0, <1>2 DEF ReversePayment
<1>3. ASSUME NEW payoffDate \in Days, NEW delta \in Deltas,
             ProcessPayoff(QuoteTotal(payoffDate) + delta, payoffDate)
      PROVE  FALSE
  BY <1>0, <1>3 DEF ProcessPayoff, Post
<1>4. ASSUME NEW new \in Statuses, UpdateStatus(new) PROVE FALSE
  BY <1>0, <1>4 DEF UpdateStatus
<1>5. ASSUME NEW d \in Days, StartAccrual(d) PROVE FALSE
  BY ClosedStatuses, <1>5 DEF StartAccrual
<1>6. CASE AccrueDay \/ SkipDay
  BY <1>0, <1>6 DEF AccrueDay, SkipDay
<1>7. CASE NextDay \/ UNCHANGED vars
  BY <1>7 DEF NextDay, vars, balances
<1>. QED
  BY <1>1, <1>2, <1>3, <1>4, <1>5, <1>6, <1>7 DEF Next

(* Once a loan is paid off or transferred nothing is booked on it again, a  *)
(* backfilling accrual task included.                                       *)
THEOREM ClosedHolds == Spec => ClosedIsFinal
<1>1. JobActive /\ [Next]_vars => [ClosedStep]_vars
  BY ClosedNext
<1>. QED
  BY <1>1, JobActiveHolds, PTL DEF Spec, ClosedIsFinal, ClosedStep

-----------------------------------------------------------------------------
(* Accruals without holes.  Beside the property itself the induction needs   *)
(* that the funding date is known before the first accrual, and that a       *)
(* running task has accrued every day behind it and none ahead.              *)
Started ==
  /\ status \notin {"boarding", "approved"} => fundedAt # NoDate
  /\ accruals # {} => fundedAt # NoDate
Frontier ==
  ~Idle =>
    /\ \A e \in accruals : e < job.next
    /\ CouponNum > 0 => \A e \in Int : FirstAccruable <= e /\ e < job.next => e \in accruals
DayInv == Started /\ Frontier /\ AccrualsContiguous

LEMMA FirstAccruableInt ==
  ASSUME TypeOK
  PROVE  FirstAccruable \in Int /\ AllocFrom \in Int /\ AllocFrom <= FirstAccruable
BY CalendarAssumption DEF TypeOK, FirstAccruable, AllocFrom, Days, NoDate

(* Steps that leave dates, accruals and the task alone keep DayInv.          *)
LEMMA DayInvKept ==
  ASSUME DayInv, UNCHANGED <<boarding, fundedAt, accruals, job>>,
         status' \in {"boarding", "approved"} => status \in {"boarding", "approved"},
         status' \notin {"boarding", "approved"} => fundedAt # NoDate
  PROVE  DayInv'
<1>1. FirstAccruable' = FirstAccruable
  BY DEF FirstAccruable, AllocFrom
<1>. QED
  BY <1>1 DEF DayInv, Started, Frontier, AccrualsContiguous, Idle

LEMMA StatusDayInv ==
  ASSUME Inv, DayInv, NEW new \in Statuses, UpdateStatus(new)
  PROVE  DayInv'
<1>1. /\ Idle /\ Idle' /\ accruals' = accruals /\ job' = job /\ boarding' = boarding
      /\ status' = new /\ new \in STATUS_TRANSITIONS[status]
      /\ fundedAt' = IF new = "funded" /\ fundedAt = NoDate THEN today ELSE fundedAt
  BY DEF UpdateStatus, Idle
<1>2. today # NoDate
  BY CalendarAssumption DEF Inv, TypeOK, Days, NoDate
<1>3. Started'
  <2>1. CASE status \in {"boarding", "approved"}
    <3>1. new \in {"boarding", "approved", "funded"}
      BY <1>1, <2>1 DEF STATUS_TRANSITIONS
    <3>. QED
      BY <1>1, <1>2, <3>1 DEF DayInv, Started
  <2>2. CASE status \notin {"boarding", "approved"}
    BY <1>1, <2>2 DEF DayInv, Started
  <2>. QED
    BY <2>1, <2>2
<1>4. AccrualsContiguous'
  <2>1. CASE accruals = {}
    BY <1>1, <2>1 DEF AccrualsContiguous
  <2>2. CASE accruals # {}
    <3>1. fundedAt' = fundedAt
      BY <1>1, <2>2 DEF DayInv, Started
    <3>2. FirstAccruable' = FirstAccruable
      BY <1>1, <3>1 DEF FirstAccruable, AllocFrom
    <3>. QED
      BY <1>1, <3>2 DEF DayInv, AccrualsContiguous
  <2>. QED
    BY <2>1, <2>2
<1>. QED
  BY <1>1, <1>3, <1>4 DEF DayInv, Frontier

LEMMA StartDayInv ==
  ASSUME Inv, DayInv, NEW d \in Days, StartAccrual(d)
  PROVE  DayInv'
<1>1. PICK first \in 0 .. d : IsFirstMissing(first) /\ job' = [next |-> first, until |-> d]
  BY DEF StartAccrual
<1>2. UNCHANGED <<boarding, status, fundedAt, accruals>>
  BY DEF StartAccrual
<1>3. FirstAccruable' = FirstAccruable /\ FirstAccruable \in Int
  BY <1>2, FirstAccruableInt DEF FirstAccruable, AllocFrom, Inv
<1>4. \A e \in accruals : e < first
  BY <1>1 DEF IsFirstMissing
<1>5. ASSUME NEW e \in Int, FirstAccruable <= e, e < first
      PROVE  e \in accruals
  <2>1. first \in Int
    BY <1>1, CalendarAssumption DEF Days
  <2>2. CASE accruals # {}
    <3>1. first - 1 \in accruals
      BY <1>1, <2>2 DEF IsFirstMissing
    <3>2. FirstAccruable .. (first - 1) \subseteq accruals
      BY <3>1 DEF DayInv, AccrualsContiguous
    <3>. QED
      BY <1>3, <1>5, <2>1, <3>2
  <2>3. CASE accruals = {}
    <3>1. first <= FirstAccruable
      BY <1>1, <2>3, CalendarAssumption
      DEF IsFirstMissing, FirstAccruable, AllocFrom, Inv, TypeOK, Days, NoDate
    <3>. QED
      BY <1>3, <1>5, <2>1, <3>1
  <2>. QED
    BY <2>2, <2>3
<1>6. Frontier'
  BY <1>1, <1>2, <1>3, <1>4, <1>5 DEF Frontier
<1>. QED
  BY <1>2, <1>3, <1>6 DEF DayInv, Started, AccrualsContiguous

(* One day of a task: either the day is added behind the frontier, or it     *)
(* precedes the first accruable day.                                         *)
LEMMA TaskDayInv ==
  ASSUME Inv, JobActive, DayInv, AccrueDay \/ SkipDay
  PROVE  DayInv'
<1>1. ~Idle /\ job' = JobAfterDay /\ UNCHANGED <<boarding, status, fundedAt>>
  BY DEF AccrueDay, SkipDay
<1>2. FirstAccruable' = FirstAccruable /\ FirstAccruable \in Int
      /\ AllocFrom \in Int /\ AllocFrom <= FirstAccruable
  BY <1>1, FirstAccruableInt DEF FirstAccruable, AllocFrom, Inv
<1>3. job.next \in Int /\ job \in [next : Days \cup {1}, until : Days]
  BY <1>1, JobStays, CalendarAssumption DEF Days, Inv, TypeOK
<1>4. ~Idle' => job'.next = job.next + 1
  BY <1>1, <1>3 DEF JobAfterDay, NoJob, Idle
<1>5. /\ \A e \in accruals : e < job.next
      /\ CouponNum > 0 => \A e \in Int : FirstAccruable <= e /\ e < job.next => e \in accruals
  BY <1>1 DEF DayInv, Frontier
<1>6. accruals \subseteq Int
  BY CalendarAssumption DEF Inv, TypeOK, Days
<1>7. fundedAt # NoDate
  BY <1>1 DEF JobActive, ACTIVE_STATUSES, DayInv, Started
<1>8. CASE AccrueDay
  <2>1. accruals' = accruals \cup {job.next} /\ CouponNum > 0
    BY <1>8 DEF AccrueDay, Accruable
  <2>2. Frontier'
    BY <1>2, <1>3, <1>4, <1>5, <1>6, <2>1 DEF Frontier
  <2>3. ASSUME NEW d \in accruals', NEW e \in FirstAccruable .. d
        PROVE  e \in accruals'
    <3>1. CASE d \in accruals
      BY <1>2, <2>1, <2>3, <3>1 DEF DayInv, AccrualsContiguous
    <3>2. CASE d = job.next
      BY <1>2, <1>3, <1>5, <2>1, <2>3, <3>2
    <3>. QED
      BY <2>1, <3>1, <3>2
  <2>. QED
    BY <1>1, <1>2, <1>7, <2>2, <2>3 DEF DayInv, Started, AccrualsContiguous
<1>9. CASE SkipDay
  <2>1. accruals' = accruals /\ ~Accruable(job.next)
    BY <1>9 DEF SkipDay
  <2>2. job.next \notin accruals
    BY <1>3, <1>5
  <2>3. ~(CouponNum > 0) \/ job.next < AllocFrom
    BY <1>2, <1>3, <2>1, <2>2 DEF Accruable
  <2>4. Frontier'
    BY <1>2, <1>3, <1>4, <1>5, <1>6, <2>1, <2>3 DEF Frontier
  <2>. QED
    BY <1>1, <1>2, <1>7, <2>1, <2>4 DEF DayInv, Started, AccrualsContiguous
<1>. QED
  BY <1>8, <1>9

LEMMA DayInvNext == Inv /\ JobActive /\ DayInv /\ [Next]_vars => DayInv'
<1>. SUFFICES ASSUME Inv, JobActive, DayInv, [Next]_vars PROVE DayInv'
  OBVIOUS
<1>1. ASSUME NEW gross \in Grosses, NEW eff \in Days,
             NEW per \in Periods \cup {NoPeriod}, PostPayment(gross, eff, per)
      PROVE  DayInv'
  BY <1>1, DayInvKept DEF PostPayment, DayInv, Started
<1>2. ASSUME NEW k \in 1 .. Len(payments), ReversePayment(k) PROVE DayInv'
  BY <1>2, DayInvKept DEF ReversePayment, DayInv, Started
<1>3. ASSUME NEW payoffDate \in Days, NEW delta \in Deltas,
             ProcessPayoff(QuoteTotal(payoffDate) + delta, payoffDate)
      PROVE  DayInv'
  <2>1. /\ UNCHANGED <<boarding, fundedAt, accruals, job>>
        /\ status' = "paid_off" /\ status \in PAYABLE_STATUSES
    BY <1>3 DEF ProcessPayoff, Post
  <2>. QED
    BY <2>1, DayInvKept DEF DayInv, Started, PAYABLE_STATUSES
<1>4. ASSUME NEW new \in Statuses, UpdateStatus(new) PROVE DayInv'
  BY <1>4, StatusDayInv
<1>5. ASSUME NEW d \in Days, StartAccrual(d) PROVE DayInv'
  BY <1>5, StartDayInv
<1>6. CASE AccrueDay \/ SkipDay
  BY <1>6, TaskDayInv
<1>7. CASE NextDay \/ UNCHANGED vars
  BY <1>7, DayInvKept DEF NextDay, vars, DayInv, Started
<1>. QED
  BY <1>1, <1>2, <1>3, <1>4, <1>5, <1>6, <1>7 DEF Next

(* Days on which no task ran, and days the loan spent in another status,     *)
(* are made up for by the next task that runs.                               *)
THEOREM AccrualsHaveNoHoles == Spec => []AccrualsContiguous
<1>1. Init => DayInv
  BY CalendarAssumption
  DEF Init, NoJob, Idle, DayInv, Started, Frontier, AccrualsContiguous, Days, NoDate
<1>2. DayInv => AccrualsContiguous
  BY DEF DayInv
<1>. QED
  BY <1>1, <1>2, DayInvNext, InvHolds, JobActiveHolds, PTL DEF Spec

-----------------------------------------------------------------------------
(* The residual of a payoff.                                                *)

(* A row of at least the balances less the tolerance clears all but the     *)
(* tolerance and the part of the late fee it paid.                          *)
LEMMA PayoffResidual ==
  ASSUME Inv, NEW amount \in Nat, NEW payoffDate \in Days,
         amount + Tolerance >= principal + interest + fees,
         Post(PayoffPayment(amount, payoffDate), payoffDate)
  PROVE  /\ PayoffPayment(amount, payoffDate).lateFee \in Nat
         /\ principal' + interest' + fees' <=
              Tolerance + PayoffPayment(amount, payoffDate).lateFee
<1>. DEFINE late == LateFee(payoffDate)
            w == Waterfall(amount, late, PrepaymentPenalty)
<1>1. /\ principal \in Nat /\ interest \in Nat /\ fees \in Nat /\ late \in Nat
      /\ PrepaymentPenalty \in Nat /\ Tolerance \in Nat
  <2>1. principal * PenaltyPct \in Nat
    BY AmountsAssumption, ProductNat DEF Inv, TypeOK
  <2>. QED
    BY <2>1, RoundNat, 100 \in Nat \ {0}, LateFeeNat, AmountsAssumption
    DEF PrepaymentPenalty, Inv, TypeOK
<1>2. LET p == PayoffPayment(amount, payoffDate)
      IN /\ p.fees = w.fees /\ p.interest = w.interest /\ p.principal = w.principal
         /\ p.suspense = w.suspense /\ p.gross = amount /\ p.lateFee = late
  BY DEF PayoffPayment, Payment
<1>. HIDE DEF late
<1>3. /\ w.fees \in Nat /\ w.interest \in Nat /\ w.principal \in Nat
      /\ w.penalty \in Nat /\ w.suspense \in Nat
      /\ w.interest <= interest /\ w.principal <= principal
      /\ w.penalty + w.suspense > 0 =>
           w.fees = fees + late /\ w.interest = interest /\ w.principal = principal
  BY <1>1, WaterfallSplit DEF Inv
<1>4. w.fees <= fees + late
  BY <1>1 DEF Waterfall, Min2
<1>. HIDE DEF w
<1>5. w.fees + w.interest + w.principal + w.suspense = amount
  BY <1>2 DEF Post, RowAccepted
<1>6. /\ principal' = ClampedSub(principal, w.principal)
      /\ interest' = ClampedSub(interest, w.interest)
      /\ fees' = ClampedSub(fees, w.fees)
  BY <1>2 DEF Post, ApplyToBalances
<1>7. principal' = principal - w.principal /\ interest' = interest - w.interest
  BY <1>1, <1>3, <1>6 DEF ClampedSub
<1>8. fees' = IF fees >= w.fees THEN fees - w.fees ELSE 0
  BY <1>6 DEF ClampedSub
<1>9. principal' + interest' + fees' <= Tolerance + late
  <2>1. CASE w.suspense > 0
    <3>1. w.fees = fees + late /\ w.interest = interest /\ w.principal = principal
      BY <1>3, <2>1
    <3>2. fees \in Nat /\ interest \in Nat /\ principal \in Nat /\ late \in Nat /\ Tolerance \in Nat
      BY <1>1
    <3>3. principal' = 0 /\ interest' = 0
      BY <1>7, <3>1, <3>2
    <3>4. fees' = 0
      BY <1>8, <3>1, <3>2
    <3>. QED
      BY <3>2, <3>3, <3>4
  <2>2. CASE w.suspense = 0 /\ fees >= w.fees
    BY <1>1, <1>3, <1>5, <1>7, <1>8, <2>2
  <2>3. CASE w.suspense = 0 /\ fees < w.fees
    BY <1>1, <1>3, <1>4, <1>5, <1>7, <1>8, <2>3
  <2>. QED
    BY <1>1, <1>3, <2>1, <2>2, <2>3
<1>. QED
  BY <1>1, <1>2, <1>9

LEMMA ResidualNext ==
  Inv /\ JobActive /\ PayoffResidualBounded /\ [Next]_vars => PayoffResidualBounded'
<1>. SUFFICES ASSUME Inv, JobActive, PayoffResidualBounded, [Next]_vars
              PROVE  PayoffResidualBounded'
  OBVIOUS
<1>0. payments \in Seq(PaymentRows) /\ Tolerance \in Nat
  BY AmountsAssumption DEF Inv, TypeOK
<1>1. CASE status \in Closed
  <2>1. UNCHANGED <<status, balances, gl, payments, accruals>>
    BY <1>1, ClosedNext DEF ClosedStep
  <2>. QED
    BY <2>1 DEF balances, PayoffResidualBounded
<1>2. CASE status \notin Closed
  <2>0. \A k \in 1 .. Len(payments) : payments[k].kind # "payoff"
    BY <1>2 DEF PayoffResidualBounded, Closed
  <2>1. ASSUME NEW gross \in Grosses, NEW eff \in Days,
               NEW per \in Periods \cup {NoPeriod}, PostPayment(gross, eff, per)
        PROVE  PayoffResidualBounded'
    <3>1. PICK p : p = Payment("regular", gross, eff, per, 0)
      OBVIOUS
    <3>2. p.kind = "regular"
      BY <3>1 DEF Payment
    <3>3. payments' = Append(payments, p)
      BY <2>1, <3>1 DEF PostPayment, Post
    <3>4. \A k \in 1 .. Len(payments') : payments'[k].kind # "payoff"
      BY <1>0, <2>0, <3>2, <3>3
    <3>. QED
      BY <3>4 DEF PayoffResidualBounded
  <2>2. ASSUME NEW k \in 1 .. Len(payments), ReversePayment(k)
        PROVE  PayoffResidualBounded'
    <3>1. payments' = [payments EXCEPT ![k].status = "reversed"]
      BY <2>2 DEF ReversePayment
    <3>2. ASSUME NEW j \in 1 .. Len(payments') PROVE payments'[j].kind # "payoff"
      <4>1. j \in 1 .. Len(payments) /\ payments[j] \in PaymentRows
        BY <1>0, <3>1
      <4>2. payments'[j].kind = payments[j].kind
        BY <1>0, <3>1, <4>1 DEF PaymentRows
      <4>. QED
        BY <2>0, <4>1, <4>2
    <3>. QED
      BY <3>2 DEF PayoffResidualBounded
  <2>3. ASSUME NEW payoffDate \in Days, NEW delta \in Deltas,
               ProcessPayoff(QuoteTotal(payoffDate) + delta, payoffDate)
        PROVE  PayoffResidualBounded'
    <3>1. PICK amount \in Int : amount = QuoteTotal(payoffDate) + delta
      BY QuoteCovers, AmountsAssumption DEF Inv
    <3>2. /\ amount > 0 /\ payoffDate >= today
          /\ amount - QuoteTotal(payoffDate) \in -Tolerance .. Tolerance
          /\ Post(PayoffPayment(amount, payoffDate), payoffDate)
          /\ status' = "paid_off"
      BY <2>3, <3>1 DEF ProcessPayoff, PayoffAccepted
    <3>3. /\ QuoteTotal(payoffDate) \in Int
          /\ QuoteTotal(payoffDate) >= principal + interest + fees
      BY <3>2, QuoteCovers DEF Inv
    <3>4. amount + Tolerance >= principal + interest + fees
      BY <1>0, <3>2, <3>3 DEF Inv, TypeOK
    <3>5. PICK p : p = PayoffPayment(amount, payoffDate)
      OBVIOUS
    <3>6. /\ p.lateFee \in Nat
          /\ principal' + interest' + fees' <= Tolerance + p.lateFee
      BY <3>2, <3>4, <3>5, PayoffResidual
    <3>7. payments' = Append(payments, p)
      BY <3>2, <3>5 DEF Post
    <3>8. \A k \in 1 .. Len(payments') :
            payments'[k].kind = "payoff" => payments'[k] = p
      BY <1>0, <2>0, <3>7
    <3>. QED
      BY <3>2, <3>6, <3>8 DEF PayoffResidualBounded
  <2>4. ASSUME UNCHANGED payments PROVE PayoffResidualBounded'
    BY <2>0, <2>4 DEF PayoffResidualBounded
  <2>5. ASSUME NEW new \in Statuses, UpdateStatus(new) PROVE PayoffResidualBounded'
    BY <2>4, <2>5 DEF UpdateStatus
  <2>6. ASSUME NEW d \in Days, StartAccrual(d) PROVE PayoffResidualBounded'
    BY <2>4, <2>6 DEF StartAccrual
  <2>7. CASE AccrueDay \/ SkipDay \/ NextDay \/ UNCHANGED vars
    BY <2>4, <2>7 DEF AccrueDay, SkipDay, NextDay, vars
  <2>. QED
    BY <2>1, <2>2, <2>3, <2>5, <2>6, <2>7 DEF Next
<1>. QED
  BY <1>1, <1>2

(* However long the loan ran and whatever was quoted, a paid-off loan keeps  *)
(* at most the tolerance and the late fee charged by the payoff itself, and  *)
(* nothing later adds to it.                                                 *)
THEOREM PayoffHolds == Spec => []PayoffResidualBounded
<1>1. Init => PayoffResidualBounded
  BY DEF Init, PayoffResidualBounded
<1>. QED
  BY <1>1, ResidualNext, InvHolds, JobActiveHolds, PTL DEF Spec

-----------------------------------------------------------------------------
(***************************************************************************)
(* Amortization: dates.                                                    *)
(***************************************************************************)
LEMMA GivenDate ==
    ASSUME NEW v \in Date \cup {None}, NEW w \in Date
    PROVE  Given(v, w) \in Date
  BY DEF Given

LEMMA LoanDates ==
    ASSUME NEW l \in EngineInput
    PROVE  /\ FrequencyMonths(l) \in Int
           /\ FirstPayment(l) \in Date /\ Anchor(l) \in Date /\ FirstDue(l) \in Date
           /\ l.maturity \in Date /\ l.origination \in Date
  <1>1. /\ l.origination \in Date /\ l.maturity \in Date /\ l.firstPayment \in Date \cup {None}
        /\ l.cutover \in Date \cup {None} /\ l.nextDue \in Date \cup {None}
    BY DEF EngineInput
  <1>2. MonthsBetween(l.origination, l.maturity) \in Int
    <2>1. /\ l.origination[1] \in Int /\ l.origination[2] \in Int
          /\ l.maturity[1] \in Int /\ l.maturity[2] \in Int
      BY <1>1, DayNumberOf
    <2> QED BY <2>1 DEF MonthsBetween
  <1>3. FrequencyMonths(l) \in {1, 6, 12, 3, MonthsBetween(l.origination, l.maturity)}
    BY Zenon DEF FrequencyMonths
  <1>4. FrequencyMonths(l) \in Int
    BY <1>2, <1>3
  <1>5. AddMonths(l.origination, FrequencyMonths(l), FALSE) \in Date
    BY <1>1, <1>4, MonthsLater
  <1> QED BY <1>1, <1>4, <1>5, GivenDate DEF FirstPayment, Anchor, FirstDue

(***************************************************************************)
(* The periods.                                                            *)
(***************************************************************************)
PeriodTypes ==
    /\ loan \in EngineInput
    /\ stage \in {"dates", "rows", "level", "done"}
    /\ due \in Date
    /\ periods \in Seq(Date \X Date)
    /\ stage # "dates" => Len(periods) >= 1

\* The periods laid so far follow each other, and the next one is due after
\* them and not after maturity.
Starts == IF loan.rateType = "zero_coupon" THEN loan.origination ELSE Anchor(loan)
Laid ==
    /\ \A i \in 2 .. Len(periods) : periods[i][1] = periods[i - 1][2]
    /\ FrequencyMonths(loan) > 0 =>
         \A i \in 2 .. Len(periods) : Earlier(periods[i - 1][2], periods[i][2])
    /\ Len(periods) >= 1 => periods[1][1] = Starts
DueInv ==
    IF stage = "dates"
    THEN /\ loan.rateType # "zero_coupon"
         /\ ~Earlier(loan.maturity, due)
         /\ Len(periods) >= 1 /\ FrequencyMonths(loan) > 0 => Earlier(periods[Len(periods)][2], due)
    ELSE periods[Len(periods)][2] = loan.maturity

PeriodInv == PeriodTypes /\ Laid /\ DueInv

LEMMA PeriodsInit == AmortInit => PeriodInv
  <1> SUFFICES ASSUME AmortInit PROVE PeriodInv
    OBVIOUS
  <1>1. loan \in EngineInput
    BY AmortizationAssumption DEF AmortInit
  <1>2. /\ FirstDue(loan) \in Date /\ Anchor(loan) \in Date
        /\ loan.maturity \in Date /\ loan.origination \in Date
    BY <1>1, LoanDates
  <1>3. ASSUME NEW a \in Date, a = Starts, periods = <<<<a, loan.maturity>>>>,
               stage = "rows", due = loan.maturity
        PROVE  PeriodInv
    <2>1. Len(periods) = 1 /\ periods[1] = <<a, loan.maturity>> /\ periods \in Seq(Date \X Date)
      BY <1>2, <1>3
    <2> QED BY <1>1, <1>2, <1>3, <2>1 DEF PeriodInv, PeriodTypes, Laid, DueInv
  <1>4. CASE loan.rateType = "zero_coupon"
    BY <1>2, <1>3, <1>4 DEF AmortInit, Starts
  <1>5. CASE loan.rateType # "zero_coupon" /\ ~Earlier(FirstDue(loan), loan.maturity)
    BY <1>2, <1>3, <1>5 DEF AmortInit, Starts
  <1>6. CASE loan.rateType # "zero_coupon" /\ Earlier(FirstDue(loan), loan.maturity)
    <2>1. stage = "dates" /\ due = FirstDue(loan) /\ periods = <<>>
      BY <1>6 DEF AmortInit
    <2>2. ~Earlier(loan.maturity, due)
      <3>1. DayNumber(FirstDue(loan)) \in Int /\ DayNumber(loan.maturity) \in Int
        BY <1>2, DayNumberOf
      <3> QED BY <1>6, <2>1, <3>1 DEF Earlier
    <2>3. Len(periods) = 0 /\ periods \in Seq(Date \X Date)
      BY <2>1
    <2> QED BY <1>1, <1>2, <1>6, <2>1, <2>2, <2>3 DEF PeriodInv, PeriodTypes, Laid, DueInv
  <1> QED BY <1>4, <1>5, <1>6

LEMMA AddPeriodKeeps == ASSUME PeriodInv, AddPeriod PROVE PeriodInv'
  <1>1. /\ loan \in EngineInput /\ due \in Date /\ periods \in Seq(Date \X Date) /\ stage = "dates"
        /\ loan' = loan
    BY DEF PeriodInv, PeriodTypes, AddPeriod
  <1>2. Anchor(loan) \in Date /\ loan.maturity \in Date /\ FrequencyMonths(loan) \in Int
    BY <1>1, LoanDates
  <1> DEFINE n == Len(periods)
             start == IF periods = <<>> THEN Anchor(loan) ELSE periods[n][2]
             new == <<start, due>>
  <1>3. n \in Nat /\ (periods = <<>> <=> n = 0)
    BY <1>1
  <1>4. start \in Date /\ \A i \in 1 .. n : periods[i][2] \in Date
    BY <1>1, <1>2, <1>3
  <1>5. periods' = Append(periods, new)
    BY DEF AddPeriod
  <1>6. new \in Date \X Date
    BY <1>1, <1>4
  <1>7. /\ periods' \in Seq(Date \X Date) /\ Len(periods') = n + 1
        /\ periods'[n + 1] = new /\ \A i \in 1 .. n : periods'[i] = periods[i]
    <2> HIDE DEF new
    <2> QED BY <1>1, <1>5, <1>6
  <1>8. /\ loan.rateType # "zero_coupon" /\ ~Earlier(loan.maturity, due)
        /\ n >= 1 /\ FrequencyMonths(loan) > 0 => Earlier(periods[n][2], due)
    BY <1>1 DEF PeriodInv, DueInv
  <1>9. Laid'
    <2>0. Laid
      BY DEF PeriodInv
    <2>1. ASSUME NEW i \in 2 .. n + 1 PROVE periods'[i][1] = periods'[i - 1][2]
      <3>1. CASE i <= n
        BY <1>3, <1>7, <2>0, <3>1 DEF Laid
      <3>2. CASE i = n + 1
        BY <1>3, <1>7, <3>2
      <3> QED BY <1>3, <3>1, <3>2
    <2>2. ASSUME FrequencyMonths(loan) > 0, NEW i \in 2 .. n + 1
          PROVE  Earlier(periods'[i - 1][2], periods'[i][2])
      <3>1. CASE i <= n
        <4>1. i \in 2 .. n /\ i \in 1 .. n /\ i - 1 \in 1 .. n
          BY <1>3, <3>1
        <4> QED BY <1>7, <2>0, <2>2, <4>1 DEF Laid
      <3>2. CASE i = n + 1
        <4>1. i - 1 = n /\ n \in 1 .. n /\ n >= 1
          BY <1>3, <3>2
        <4>2. periods'[i][2] = due /\ periods'[i - 1][2] = periods[n][2]
          BY <1>7, <3>2, <4>1
        <4> QED BY <1>8, <2>2, <4>1, <4>2
      <3> QED BY <1>3, <3>1, <3>2
    <2>3. periods'[1][1] = Starts
      <3>1. CASE n = 0
        BY <1>3, <1>7, <1>8, <3>1 DEF Starts
      <3>2. CASE n # 0
        BY <1>3, <1>7, <2>0, <3>2 DEF Laid
      <3> QED BY <3>1, <3>2
    <2>4. Starts' = Starts /\ FrequencyMonths(loan)' = FrequencyMonths(loan)
      BY <1>1 DEF Starts
    <2> HIDE DEF n, start
    <2> QED BY <1>7, <2>1, <2>2, <2>3, <2>4 DEF Laid
  <1>10. CASE Earlier(due, loan.maturity)
    <2> DEFINE next == AddMonths(due, FrequencyMonths(loan), IsMonthEnd(Anchor(loan)))
    <2>1. due' = EarlierOf(next, loan.maturity) /\ stage' = "dates"
      BY <1>1, <1>10 DEF AddPeriod, NextDue
    <2>2. next \in Date /\ (FrequencyMonths(loan) > 0 => Earlier(due, next))
      <3>1. IsMonthEnd(Anchor(loan)) \in BOOLEAN
        BY DEF IsMonthEnd
      <3> QED BY <1>1, <1>2, <3>1, MonthsLater
    <2> HIDE DEF next
    <2>3. /\ due' \in Date /\ ~Earlier(loan.maturity, due')
          /\ FrequencyMonths(loan) > 0 => Earlier(due, due')
      BY <1>1, <1>2, <1>10, <2>1, <2>2, EarlierOfDates
    <2>4. periods'[n + 1][2] = due
      BY <1>7
    <2>5. DueInv'
      BY <1>1, <1>7, <1>8, <2>1, <2>3, <2>4 DEF DueInv
    <2>6. PeriodTypes'
      BY <1>1, <1>7, <2>1, <2>3 DEF PeriodTypes
    <2> QED BY <1>9, <2>5, <2>6 DEF PeriodInv
  <1>11. CASE ~Earlier(due, loan.maturity)
    <2>1. due' = due /\ stage' = "rows"
      BY <1>11 DEF AddPeriod
    <2>2. due = loan.maturity
      <3>1. DayNumber(due) \in Int /\ DayNumber(loan.maturity) \in Int
        BY <1>1, <1>2, DayNumberOf
      <3>2. DayNumber(due) = DayNumber(loan.maturity)
        BY <1>8, <1>11, <3>1 DEF Earlier
      <3> QED BY <1>1, <1>2, <3>2, DatesAreNumbered
    <2>3. periods'[n + 1][2] = loan.maturity
      BY <1>7, <2>2
    <2>4. DueInv'
      BY <1>1, <1>7, <2>1, <2>3 DEF DueInv
    <2>5. PeriodTypes'
      BY <1>1, <1>3, <1>7, <2>1 DEF PeriodTypes
    <2> QED BY <1>9, <2>4, <2>5 DEF PeriodInv
  <1> QED BY <1>10, <1>11

LEMMA PeriodsKept == ASSUME PeriodInv, [AmortNext]_amortVars PROVE PeriodInv'
  <1>1. CASE AddPeriod
    BY <1>1, AddPeriodKeeps
  <1>2. CASE stage' # "dates" /\ stage # "dates" /\ UNCHANGED <<loan, due, periods>>
             /\ stage' \in {"level", "done"}
    BY <1>2 DEF PeriodInv, PeriodTypes, Laid, DueInv, Starts
  <1>3. CASE ComputeLevel
    BY <1>2, <1>3 DEF ComputeLevel
  <1>4. CASE AddRow
    <2>1. stage = "level" /\ UNCHANGED <<loan, due, periods>> /\ stage' \in {"level", "done"}
      BY <1>4 DEF AddRow
    <2> QED BY <1>2, <2>1
  <1>5. CASE UNCHANGED amortVars
    BY <1>5 DEF amortVars, PeriodInv, PeriodTypes, Laid, DueInv, Starts
  <1> QED BY <1>1, <1>3, <1>4, <1>5 DEF AmortNext

\* However a loan is dated, its periods tile its term.
THEOREM PeriodsHold == AmortSpec => []PeriodsTile
  <1>1. PeriodInv => PeriodsTile
    BY DEF PeriodInv, PeriodTypes, Laid, DueInv, Starts, PeriodsTile
  <1> QED BY <1>1, PeriodsInit, PeriodsKept, PTL DEF AmortSpec

(***************************************************************************)
(* Interest and level payments are whole cents, whatever the rates.        *)
(***************************************************************************)
LEMMA CentsAreWhole ==
    ASSUME NEW n \in Int, NEW d \in Nat \ {0}
    PROVE  ToCents(n, d) \in Int
  <1>1. 2 * d \in Nat \ {0} /\ 2 * n + d \in Int /\ -2 * n + d \in Int
    OBVIOUS
  <1>2. (2 * n + d) \div (2 * d) \in Int /\ (-2 * n + d) \div (2 * d) \in Int
    <2> DEFINE a == 2 * n + d
               b == -2 * n + d
               c == 2 * d
    <2>1. a \in Int /\ b \in Int /\ c \in Nat \ {0}
      BY <1>1
    <2> HIDE DEF a, b, c
    <2>2. a \div c \in Int /\ b \div c \in Int
      BY <2>1
    <2> QED BY <2>2 DEF a, b, c
  <1> QED BY <1>2 DEF ToCents

\* One of finitely many steps is the last.
LEMMA LastStep ==
    ASSUME NEW S, IsFiniteSet(S), NEW f, \A s \in S : f[s] \in Int
    PROVE  S # {} => \E s \in S : \A t \in S : f[t] <= f[s]
  <1> DEFINE P == {U \in SUBSET S : U # {} => \E s \in U : \A t \in U : f[t] <= f[s]}
  <1>1. {} \in P
    OBVIOUS
  <1>2. ASSUME NEW U \in P, NEW x \in S \ U PROVE U \cup {x} \in P
    <2>1. CASE U = {}
      BY <2>1
    <2>2. CASE U # {}
      <3>1. PICK s \in U : \A t \in U : f[t] <= f[s]
        BY <2>2
      <3>2. f[x] \in Int /\ f[s] \in Int /\ \A t \in U : f[t] \in Int
        BY <3>1
      <3>3. CASE f[x] <= f[s]
        BY <3>1, <3>2, <3>3
      <3>4. CASE f[s] < f[x]
        BY <3>1, <3>2, <3>4
      <3> QED BY <3>2, <3>3, <3>4
    <2> QED BY <2>1, <2>2
  <1> HIDE DEF P
  <1>3. P \in SUBSET (SUBSET S)
    BY DEF P
  <1>4. \A U \in P : \A x \in S \ U : U \cup {x} \in P
    BY <1>2
  <1>5. IsFiniteSet(S)
    OBVIOUS
  <1>6. P = SUBSET S
    BY ONLY <1>1, <1>3, <1>4, <1>5, SetInduction
  <1>7. S \in P
    BY <1>6
  <1> QED BY <1>7 DEF P

LEMMA RatesAreWhole ==
    ASSUME NEW l \in EngineInput, NEW dt \in Date
    PROVE  EffectiveRate(l, dt) \in Int
  <1>0. /\ l.coupon \in Int /\ l.floor \in Int \cup {None} /\ l.cap \in Int \cup {None}
        /\ l.steps \in SUBSET [from : Date, rate : Int] /\ IsFiniteSet(l.steps)
    BY DEF EngineInput
  <1> DEFINE steps == {s \in l.steps : ~Earlier(dt, s.from)}
             last == CHOOSE s \in steps : \A t \in steps : ~Earlier(s.from, t.from)
             rate == IF steps = {} THEN l.coupon ELSE last.rate
             floored == IF l.floor # None /\ rate < l.floor THEN l.floor ELSE rate
  <1>1. rate \in Int
    <2>1. CASE steps = {}
      BY <1>0, <2>1
    <2>2. CASE steps # {}
      <3>1. IsFiniteSet(steps) /\ \A s \in steps : s.from \in Date /\ s.rate \in Int
        BY <1>0, FS_Subset
      <3> DEFINE f == [s \in steps |-> DayNumber(s.from)]
      <3>2. \A s \in steps : f[s] = DayNumber(s.from) /\ f[s] \in Int
        BY <3>1, DayNumberOf
      <3> HIDE DEF f, steps
      <3>3. PICK s \in steps : \A t \in steps : f[t] <= f[s]
        BY <2>2, <3>1, <3>2, LastStep
      <3>4. \A t \in steps : ~Earlier(s.from, t.from)
        BY <3>2, <3>3 DEF Earlier
      <3>5. last \in steps
        BY <3>4
      <3> QED BY <2>2, <3>1, <3>5
    <2> QED BY <2>1, <2>2
  <1>2. EffectiveRate(l, dt) = IF l.cap # None /\ floored > l.cap THEN l.cap ELSE floored
    BY DEF EffectiveRate
  <1> HIDE DEF rate
  <1> QED BY <1>0, <1>1, <1>2

LEMMA InterestIsWhole ==
    ASSUME NEW l \in EngineInput, NEW amount \in Int, NEW span \in Date \X Date, NEW rate \in Int
    PROVE  PeriodInterest(l, amount, span, rate) \in Int
  <1>1. span[1] \in Date /\ span[2] \in Date
    OBVIOUS
  <1>2. CountDays(l, span[1], span[2]) \in Int
    <2>1. /\ span[1][1] \in Int /\ span[1][2] \in Int /\ span[1][3] \in Int
          /\ span[2][1] \in Int /\ span[2][2] \in Int /\ span[2][3] \in Int
          /\ DayNumber(span[1]) \in Int /\ DayNumber(span[2]) \in Int
      BY <1>1, DayNumberOf
    <2>2. Days30360(span[1], span[2]) \in Int
      BY <2>1 DEF Days30360
    <2>3. DaysBetween(span[1], span[2]) \in Int
      BY <2>1 DEF DaysBetween
    <2> QED BY <2>2, <2>3 DEF CountDays
  <1>3. YearDays(l, span[1]) \in Nat \ {0}
    <2>1. YearDays(l, span[1]) \in {DaysInYear(span[1][1]), 365, 360}
      <3>1. CASE l.dayCount = "ACT/ACT"
        <4>1. YearDays(l, span[1]) = DaysInYear(span[1][1])
          BY <3>1, Zenon DEF YearDays
        <4> QED BY <4>1
      <3>2. CASE l.dayCount = "ACT/365"
        <4>1. "ACT/365" # "ACT/ACT"
          OBVIOUS
        <4>2. YearDays(l, span[1]) = 365
          BY <3>2, <4>1, Zenon DEF YearDays
        <4> QED BY <4>2
      <3>3. CASE l.dayCount # "ACT/365" /\ l.dayCount # "ACT/ACT"
        <4>1. YearDays(l, span[1]) = 360
          BY <3>3, Zenon DEF YearDays
        <4> QED BY <4>1
      <3> QED BY <3>1, <3>2, <3>3
    <2>2. DaysInYear(span[1][1]) \in {365, 366}
      BY DEF DaysInYear
    <2> QED BY <2>1, <2>2
  <1> DEFINE days == CountDays(l, span[1], span[2])
             year == YearDays(l, span[1])
  <1>4. amount * rate * days \in Int /\ RateScale * year \in Nat \ {0}
    <2>1. days \in Int /\ year \in Nat \ {0} /\ RateScale \in Nat \ {0}
      BY <1>2, <1>3, AmortizationAssumption
    <2> HIDE DEF days, year
    <2>2. amount * rate \in Int
      OBVIOUS
    <2> QED BY <2>1, <2>2
  <1> QED BY <1>4, CentsAreWhole DEF PeriodInterest

LEMMA InterestOnlyPeriods ==
    ASSUME NEW l, NEW ps \in Seq(Date \X Date)
    PROVE  IoPeriods(l, ps) \in 0 .. Len(ps)
  <1>1. IsFiniteSet(1 .. Len(ps)) /\ Cardinality(1 .. Len(ps)) = Len(ps) /\ Len(ps) \in Nat
    <2>1. Len(ps) \in Nat /\ DOMAIN ps = 1 .. Len(ps)
      OBVIOUS
    <2> DEFINE n == Len(ps)
    <2>2. n \in Nat
      BY <2>1
    <2> HIDE DEF n
    <2>3. 1 \in Int /\ n \in Int
      BY <2>2
    <2>4. IsFiniteSet(1 .. n) /\ Cardinality(1 .. n) = IF 1 > n THEN 0 ELSE n - 1 + 1
      BY <2>3, FS_Interval
    <2>5. Cardinality(1 .. n) = n
      BY <2>2, <2>4
    <2> QED BY <2>1, <2>4, <2>5 DEF n
  <1> DEFINE S == {i \in DOMAIN ps :
                     l.ioMonths > 0 /\ ~Earlier(AddMonths(l.origination, l.ioMonths, FALSE), ps[i][2])}
  <1>2. S \in SUBSET (1 .. Len(ps))
    <2>1. DOMAIN ps = 1 .. Len(ps)
      OBVIOUS
    <2> QED BY <2>1
  <1>3. IoPeriods(l, ps) = Cardinality(S)
    BY DEF IoPeriods
  <1> HIDE DEF S
  <1>4. IsFiniteSet(S) /\ Cardinality(S) <= Len(ps)
    BY <1>1, <1>2, FS_Subset
  <1> QED BY <1>1, <1>3, <1>4, FS_CardinalityType

LEMMA LevelsAreWhole ==
    ASSUME NEW amount \in Int, NEW rate, NEW n \in Nat
    PROVE  LevelPayments(amount, rate, n) \subseteq Int
  <1>1. CASE n = 0
    BY <1>1 DEF LevelPayments
  <1>2. CASE n # 0 /\ rate = 0
    <2>1. ToCents(amount, n) \in Int
      BY <1>2, CentsAreWhole
    <2> QED BY <1>2, <2>1 DEF LevelPayments
  <1>3. CASE n # 0 /\ rate # 0
    BY <1>3, AmortizationAssumption DEF LevelPayments
  <1> QED BY <1>1, <1>2, <1>3

LEMMA TargetsAreWhole ==
    ASSUME NEW l \in EngineInput, NEW rate, NEW n \in Nat \ {0}
    PROVE  LevelPaymentsToTarget(l, rate, n) \subseteq Int
  <1>1. Given(l.balloon, 0) \in Int /\ l.balance \in Int
    BY DEF EngineInput, Given
  <1>2. l.balance - Given(l.balloon, 0) \in Int
    BY <1>1
  <1>3. ToCents(l.balance - Given(l.balloon, 0), n) \in Int
    BY <1>2, CentsAreWhole
  <1> QED BY <1>3, AmortizationAssumption DEF LevelPaymentsToTarget

(***************************************************************************)
(* The rows.                                                               *)
(***************************************************************************)
ScheduleRow ==
  [start : Date, end : Date, opening : Nat, rate : Int, principal : Nat, interest : Int, capitalised : Nat]
RowTypes ==
    /\ rows \in Seq(ScheduleRow) /\ balance \in Nat
    /\ level.amount \in Int
    /\ stage \in {"dates", "rows"} => rows = <<>> /\ balance = loan.balance
    /\ stage = "level" => Len(rows) < Len(periods)
    /\ \A i \in 1 .. Len(rows) : rows[i].principal <= rows[i].opening
Balanced == balance = loan.balance + Capitalised - Repaid
Finished ==
    /\ stage = "level" /\ InterestOnlyToMaturity => balance = loan.balance
    /\ stage = "done" => balance = IF InterestOnlyToMaturity THEN loan.balance ELSE 0
RowInv == RowTypes /\ Balanced /\ Finished

LEMMA SumsOfNoRows == ASSUME rows = <<>> PROVE Capitalised = 0 /\ Repaid = 0
  <1>1. DOMAIN [i \in DOMAIN rows |-> rows[i].capitalised] = {}
        /\ DOMAIN [i \in DOMAIN rows |-> rows[i].principal] = {}
    OBVIOUS
  <1> QED BY <1>1, SumOfNone DEF Capitalised, Repaid

LEMMA RowsInit == AmortInit => RowInv
  <1> SUFFICES ASSUME AmortInit PROVE RowInv
    OBVIOUS
  <1>1. loan \in EngineInput /\ rows = <<>> /\ balance = loan.balance
    BY AmortizationAssumption DEF AmortInit
  <1>2. loan.balance \in Nat
    BY <1>1 DEF EngineInput
  <1>3. Capitalised = 0 /\ Repaid = 0
    BY <1>1, SumsOfNoRows
  <1>4. stage \in {"dates", "rows"} /\ level.amount \in Int
    BY DEF AmortInit
  <1>5. rows \in Seq(ScheduleRow) /\ Len(rows) = 0
    BY <1>1
  <1> QED BY <1>1, <1>2, <1>3, <1>4, <1>5 DEF RowInv, RowTypes, Balanced, Finished

LEMMA FirstLevelIsWhole ==
    ASSUME PeriodInv, NEW lvl \in FirstLevel(loan), stage # "dates"
    PROVE  lvl.amount \in Int
  <1>0. loan \in EngineInput /\ periods \in Seq(Date \X Date) /\ Len(periods) \in Nat \ {0}
    BY DEF PeriodInv, PeriodTypes
  <1> DEFINE n == Len(periods)
             rate == EffectiveRate(loan, FirstPayment(loan))
             io == IoPeriods(loan, periods)
  <1>1. io \in 0 .. n /\ n - io \in Nat
    BY <1>0, InterestOnlyPeriods
  <1>2. loan.balance \in Int
    BY <1>0 DEF EngineInput
  <1>3. /\ LevelPayments(loan.balance, rate, n - io) \subseteq Int
        /\ LevelPaymentsToTarget(loan, rate, n) \subseteq Int
    BY <1>0, <1>1, <1>2, LevelsAreWhole, TargetsAreWhole
  <1> DEFINE amounts ==
        CASE loan.amortization = "amortizing" -> LevelPayments(loan.balance, rate, n - io)
          [] loan.amortization = "partial_amortizing" -> LevelPaymentsToTarget(loan, rate, n)
          [] OTHER -> {0}
  <1>4. FirstLevel(loan) = {[rate |-> rate, amount |-> a] : a \in amounts}
    BY Zenon DEF FirstLevel
  <1> HIDE DEF rate, n, io
  <1>5. amounts \in {LevelPayments(loan.balance, rate, n - io), LevelPaymentsToTarget(loan, rate, n), {0}}
    <2>1. CASE loan.amortization = "amortizing"
      BY <2>1
    <2>2. CASE loan.amortization = "partial_amortizing"
      BY <2>2
    <2>3. CASE loan.amortization # "amortizing" /\ loan.amortization # "partial_amortizing"
      <3>1. amounts = {0}
        BY <2>3, Zenon
      <3> QED BY <3>1
    <2> QED BY <2>1, <2>2, <2>3
  <1> HIDE DEF amounts
  <1>6. amounts \subseteq Int
    BY <1>3, <1>5
  <1>7. PICK a \in amounts : lvl = [rate |-> rate, amount |-> a]
    BY <1>4
  <1> QED BY <1>6, <1>7

LEMMA ComputeLevelKeeps == ASSUME PeriodInv, RowInv, ComputeLevel PROVE RowInv'
  <1>1. /\ stage = "rows" /\ stage' = "level" /\ rows = <<>> /\ rows' = rows
        /\ balance' = balance /\ loan' = loan /\ periods' = periods
    BY DEF ComputeLevel
  <1>2. level'.amount \in Int
    BY <1>1, FirstLevelIsWhole DEF ComputeLevel
  <1>3. Len(rows) = 0 /\ Len(periods) >= 1
    BY <1>1 DEF PeriodInv, PeriodTypes
  <1>4. Capitalised' = Capitalised /\ Repaid' = Repaid /\ InterestOnlyToMaturity' = InterestOnlyToMaturity
    BY <1>1 DEF Capitalised, Repaid, InterestOnlyToMaturity
  <1> QED BY <1>1, <1>2, <1>3, <1>4 DEF RowInv, RowTypes, Balanced, Finished

\* What a row pays and adds lies within its balance.
LEMMA RowAmounts ==
    ASSUME PeriodInv, RowInv, stage = "level", NEW i, i = Len(rows) + 1,
           NEW rate \in Int
    PROVE  /\ PaidInterest(periods[i], rate) \in Int /\ PikInterest(periods[i], rate) \in Int
           /\ \A lvl \in LevelAt(loan, i, rate) : lvl.amount \in Int
  <1>0. /\ loan \in EngineInput /\ periods \in Seq(Date \X Date) /\ Len(periods) \in Nat
        /\ Len(rows) \in Nat /\ i \in 1 .. Len(periods) /\ balance \in Nat /\ level.amount \in Int
    BY DEF PeriodInv, PeriodTypes, RowInv, RowTypes
  <1>1. periods[i] \in Date \X Date
    BY <1>0
  <1>2. loan.pikRate \in Int /\ rate - loan.pikRate \in Int
    BY <1>0 DEF EngineInput
  <1>3. /\ PeriodInterest(loan, balance, periods[i], rate) \in Int
        /\ PeriodInterest(loan, balance, periods[i], loan.pikRate) \in Int
        /\ PeriodInterest(loan, balance, periods[i], rate - loan.pikRate) \in Int
    <2>1. \A r \in Int : PeriodInterest(loan, balance, periods[i], r) \in Int
      <3> SUFFICES ASSUME NEW r \in Int PROVE PeriodInterest(loan, balance, periods[i], r) \in Int
        OBVIOUS
      <3>1. balance \in Int
        BY <1>0
      <3>2. loan \in EngineInput /\ r \in Int
        BY <1>0
      <3> QED BY ONLY <1>1, <3>1, <3>2, InterestIsWhole, Zenon
    <2> QED BY <1>2, <2>1
  <1>4. PaidInterest(periods[i], rate) \in Int /\ PikInterest(periods[i], rate) \in Int
    BY <1>3 DEF PaidInterest, PikInterest
  <1>5. ASSUME NEW lvl \in LevelAt(loan, i, rate) PROVE lvl.amount \in Int
    <2> DEFINE n == Len(periods)
               new == loan.amortization = "amortizing" /\ i > IoPeriods(loan, periods)
                        /\ i < n /\ rate # level.rate
    <2>1. CASE new
      <3>1. n - i + 1 \in Nat
        BY <1>0, <2>1
      <3>2. LevelPayments(balance, rate, n - i + 1) \subseteq Int
        BY <1>0, <3>1, LevelsAreWhole
      <3>3. PICK a \in LevelPayments(balance, rate, n - i + 1) : lvl = [rate |-> rate, amount |-> a]
        BY <2>1 DEF LevelAt
      <3> QED BY <3>2, <3>3
    <2>2. CASE ~new
      BY <1>0, <2>2 DEF LevelAt
    <2> QED BY <2>1, <2>2
  <1> QED BY <1>4, <1>5

LEMMA PrincipalFits ==
    ASSUME PeriodInv, RowInv, stage = "level", NEW i, i = Len(rows) + 1,
           NEW paid \in Int, NEW lvl, lvl.amount \in Int
    PROVE  /\ PrincipalOf(loan, i, paid, lvl) \in 0 .. balance
           /\ loan.amortization = "amortizing" /\ IoPeriods(loan, periods) = Len(periods)
                => PrincipalOf(loan, i, paid, lvl) = 0
           /\ i = Len(periods) /\ ~(loan.amortization = "amortizing" /\ IoPeriods(loan, periods) = Len(periods))
                => PrincipalOf(loan, i, paid, lvl) = balance
  <1>0. /\ periods \in Seq(Date \X Date) /\ Len(periods) \in Nat /\ i \in 1 .. Len(periods)
        /\ balance \in Nat
    BY DEF PeriodInv, PeriodTypes, RowInv, RowTypes
  <1>1. IoPeriods(loan, periods) \in 0 .. Len(periods)
    BY <1>0, InterestOnlyPeriods
  <1>2. lvl.amount - paid \in Int
    OBVIOUS
  <1>3. Clamped(lvl.amount - paid, balance) \in 0 .. balance
    BY <1>0, <1>2 DEF Clamped
  <1> QED BY <1>0, <1>1, <1>3 DEF PrincipalOf

\* One row more in the sums over the rows.
LEMMA SumsOfOneRow ==
    ASSUME RowTypes, NEW new \in ScheduleRow, rows' = Append(rows, new)
    PROVE  /\ Capitalised' = Capitalised + new.capitalised /\ Repaid' = Repaid + new.principal
           /\ Capitalised \in Int /\ Repaid \in Int
  <1> DEFINE n == Len(rows)
  <1>1. /\ n \in Nat /\ DOMAIN rows = 1 .. n /\ DOMAIN rows' = 1 .. (n + 1)
        /\ rows'[n + 1] = new /\ \A i \in 1 .. n : rows'[i] = rows[i] /\ rows[i] \in ScheduleRow
    BY DEF RowTypes
  <1>2. n + 1 \in 1 .. (n + 1) /\ 1 .. n = (1 .. (n + 1)) \ {n + 1}
    BY <1>1
  <1> HIDE DEF n
  <1>3. 1 \in Int /\ n + 1 \in Int
    BY <1>1
  <1>4. IsFiniteSet(1 .. (n + 1))
    BY <1>3, FS_Interval
  <1> DEFINE f == [i \in DOMAIN rows |-> rows[i].capitalised]
             g == [i \in DOMAIN rows' |-> rows'[i].capitalised]
             p == [i \in DOMAIN rows |-> rows[i].principal]
             q == [i \in DOMAIN rows' |-> rows'[i].principal]
  <1>5. /\ DOMAIN f = 1 .. n /\ DOMAIN p = 1 .. n /\ DOMAIN g = 1 .. (n + 1) /\ DOMAIN q = 1 .. (n + 1)
        /\ \A i \in 1 .. n : f[i] = g[i] /\ p[i] = q[i] /\ g[i] \in Int /\ q[i] \in Int
        /\ g[n + 1] = new.capitalised /\ q[n + 1] = new.principal
        /\ new.capitalised \in Int /\ new.principal \in Int
    <2>1. /\ DOMAIN f = 1 .. n /\ DOMAIN p = 1 .. n
          /\ DOMAIN g = 1 .. (n + 1) /\ DOMAIN q = 1 .. (n + 1)
      BY <1>1
    <2>2. \A s \in ScheduleRow : s.capitalised \in Int /\ s.principal \in Int
      BY DEF ScheduleRow
    <2>3. g[n + 1] = new.capitalised /\ q[n + 1] = new.principal
      BY <1>1, <1>2
    <2>4. ASSUME NEW i \in 1 .. n
          PROVE  f[i] = g[i] /\ p[i] = q[i] /\ g[i] \in Int /\ q[i] \in Int
      <3>1. i \in 1 .. (n + 1)
        BY <1>2
      <3>2. /\ f[i] = rows[i].capitalised /\ p[i] = rows[i].principal
            /\ g[i] = rows'[i].capitalised /\ q[i] = rows'[i].principal
        BY <1>1, <3>1
      <3> QED BY <1>1, <2>2, <3>2
    <2> QED BY <2>1, <2>2, <2>3, <2>4
  <1>6. /\ Capitalised = SumFunction(f) /\ Repaid = SumFunction(p)
        /\ Capitalised' = SumFunction(g) /\ Repaid' = SumFunction(q)
    BY DEF Capitalised, Repaid
  <1> HIDE DEF f, g, p, q
  <1>7. Summable(g) /\ Summable(q)
    <2>1. \A i \in 1 .. (n + 1) : g[i] \in Int /\ q[i] \in Int
      BY <1>2, <1>5
    <2> QED BY <1>4, <1>5, <2>1 DEF Summable
  <1>8. SumFunction(g) = g[n + 1] + SumFunction(f) /\ Summable(f)
    BY <1>2, <1>5, <1>7, SumWithout
  <1>9. SumFunction(q) = q[n + 1] + SumFunction(p) /\ Summable(p)
    BY <1>2, <1>5, <1>7, SumWithout
  <1>10. SumFunction(f) \in Int /\ SumFunction(p) \in Int
    BY <1>8, <1>9, SumIsInt
  <1> QED BY <1>5, <1>6, <1>8, <1>9, <1>10

LEMMA AddRowKeeps == ASSUME PeriodInv, RowInv, AddRow PROVE RowInv'
  <1>0. /\ loan \in EngineInput /\ periods \in Seq(Date \X Date) /\ Len(periods) \in Nat
        /\ Len(rows) \in Nat /\ rows \in Seq(ScheduleRow) /\ Len(rows) < Len(periods)
        /\ balance \in Nat /\ stage = "level" /\ loan' = loan /\ periods' = periods
    BY DEF PeriodInv, PeriodTypes, RowInv, RowTypes, AddRow
  <1> DEFINE i == Len(rows) + 1
             span == periods[i]
             rate == IF loan.rateType = "zero_coupon" THEN 0 ELSE EffectiveRate(loan, span[1])
             paid == PaidInterest(span, rate)
             pik == IF i < Len(periods) THEN PikInterest(span, rate) ELSE 0
             added == IF pik > 0 THEN pik ELSE 0
  <1>1. i \in 1 .. Len(periods) /\ span \in Date \X Date
    BY <1>0
  <1>2. rate \in Int
    <2>1. span[1] \in Date
      BY <1>1
    <2>2. EffectiveRate(loan, span[1]) \in Int
      BY <1>0, <2>1, RatesAreWhole
    <2> QED BY <2>2
  <1> HIDE DEF rate
  <1>3. /\ paid \in Int /\ PikInterest(span, rate) \in Int
        /\ \A lvl \in LevelAt(loan, i, rate) : lvl.amount \in Int
    BY <1>0, <1>2, RowAmounts
  <1>4. added \in Nat
    BY <1>3
  <1>5. PICK lvl \in LevelAt(loan, i, rate) :
          LET repaid == IF loan.rateType = "zero_coupon" THEN balance
                           ELSE PrincipalOf(loan, i, paid, lvl)
          IN /\ rows' = Append(rows, Row(span, rate, repaid, paid, added))
             /\ balance' = balance - repaid + added
             /\ level' = lvl
             /\ stage' = IF i = Len(periods) THEN "done" ELSE "level"
    BY Zenon DEF AddRow, rate
  <1> DEFINE repaid == IF loan.rateType = "zero_coupon" THEN balance
                          ELSE PrincipalOf(loan, i, paid, lvl)
             new == Row(span, rate, repaid, paid, added)
  <1>6. /\ rows' = Append(rows, new) /\ balance' = balance - repaid + added
        /\ level' = lvl /\ stage' = IF i = Len(periods) THEN "done" ELSE "level"
    BY <1>5
  <1>7. /\ repaid \in 0 .. balance
        /\ InterestOnlyToMaturity => repaid = 0
        /\ i = Len(periods) /\ ~InterestOnlyToMaturity => repaid = balance
    <2>1. lvl.amount \in Int
      BY <1>3
    <2> HIDE DEF paid
    <2>2. /\ PrincipalOf(loan, i, paid, lvl) \in 0 .. balance
          /\ loan.amortization = "amortizing" /\ IoPeriods(loan, periods) = Len(periods)
               => PrincipalOf(loan, i, paid, lvl) = 0
          /\ i = Len(periods) /\ ~(loan.amortization = "amortizing" /\ IoPeriods(loan, periods) = Len(periods))
               => PrincipalOf(loan, i, paid, lvl) = balance
      BY <1>0, <1>3, <2>1, PrincipalFits DEF paid
    <2> QED BY <1>0, <2>2 DEF InterestOnlyToMaturity
  <1>8. InterestOnlyToMaturity => added = 0
    BY DEF InterestOnlyToMaturity, PikInterest, IsBullet
  <1>9. i = Len(periods) => added = 0
    BY <1>0
  <1> HIDE DEF paid, pik, added, repaid
  <1>10. new \in ScheduleRow /\ new.principal = repaid /\ new.capitalised = added /\ new.opening = balance
    <2>1. span[1] \in Date /\ span[2] \in Date
      BY <1>1
    <2> HIDE DEF span
    <2>2. repaid \in Nat
      BY <1>0, <1>7
    <2> QED BY <1>0, <1>2, <1>3, <1>4, <2>1, <2>2 DEF Row, ScheduleRow, paid
  <1> HIDE DEF new
  <1>11. balance' \in Nat
    BY <1>0, <1>4, <1>6, <1>7
  <1>12. rows' \in Seq(ScheduleRow) /\ Len(rows') = Len(rows) + 1
    BY <1>0, <1>6, <1>10
  <1>13. ASSUME NEW k \in 1 .. Len(rows') PROVE rows'[k].principal <= rows'[k].opening
    <2>1. CASE k = Len(rows) + 1
      BY <1>0, <1>6, <1>7, <1>10, <2>1
    <2>2. CASE k # Len(rows) + 1
      BY <1>0, <1>6, <1>12, <2>2 DEF RowInv, RowTypes
    <2> QED BY <2>1, <2>2
  <1>14. RowTypes'
    <2>1. stage' \notin {"dates", "rows"} /\ (stage' = "level" => Len(rows') < Len(periods'))
      BY <1>0, <1>1, <1>6, <1>12
    <2> QED BY <1>3, <1>6, <1>11, <1>12, <1>13, <2>1 DEF RowTypes
  <1>15. Balanced'
    <2>1. /\ Capitalised' = Capitalised + added /\ Repaid' = Repaid + repaid
          /\ Capitalised \in Int /\ Repaid \in Int
      BY <1>6, <1>10, SumsOfOneRow DEF RowInv
    <2>2. balance = loan.balance + Capitalised - Repaid /\ loan.balance \in Int
      BY <1>0 DEF RowInv, Balanced, EngineInput
    <2>3. repaid \in Int /\ added \in Int
      BY <1>0, <1>4, <1>7
    <2> QED BY <1>0, <1>6, <2>1, <2>2, <2>3 DEF Balanced
  <1>16. Finished'
    <2>1. InterestOnlyToMaturity' = InterestOnlyToMaturity
      BY <1>0 DEF InterestOnlyToMaturity
    <2>2. InterestOnlyToMaturity => balance' = loan.balance
      BY <1>0, <1>6, <1>7, <1>8 DEF RowInv, Finished
    <2>3. i = Len(periods) /\ ~InterestOnlyToMaturity => balance' = 0
      BY <1>0, <1>6, <1>7, <1>9
    <2> QED BY <1>0, <1>6, <2>1, <2>2, <2>3 DEF Finished
  <1> QED BY <1>14, <1>15, <1>16 DEF RowInv

LEMMA RowsKept == ASSUME PeriodInv, RowInv, [AmortNext]_amortVars PROVE RowInv'
  <1>1. CASE AddPeriod
    <2>1. /\ stage = "dates" /\ stage' \in {"dates", "rows"} /\ rows' = rows /\ balance' = balance
          /\ level' = level /\ loan' = loan
      BY <1>1 DEF AddPeriod
    <2>2. Capitalised' = Capitalised /\ Repaid' = Repaid
      BY <2>1 DEF Capitalised, Repaid
    <2> QED BY <2>1, <2>2 DEF RowInv, RowTypes, Balanced, Finished
  <1>2. CASE UNCHANGED amortVars
    BY <1>2 DEF amortVars, RowInv, RowTypes, Balanced, Finished, Capitalised, Repaid, InterestOnlyToMaturity
  <1> QED BY <1>1, <1>2, ComputeLevelKeeps, AddRowKeeps DEF AmortNext

\* Whatever the annuity formula yields, the rows repay what was lent and
\* capitalised or leave it owed, none more than is owed, and nothing is left in
\* the end of a schedule that leaves its interest-only window before maturity.
THEOREM PrincipalIsRetired == AmortSpec => []PrincipalRetired
  <1>1. PeriodInv /\ RowInv => PrincipalRetired
    <2> SUFFICES ASSUME PeriodInv, RowInv PROVE PrincipalRetired
      OBVIOUS
    <2>1. rows \in Seq(ScheduleRow) /\ DOMAIN rows = 1 .. Len(rows)
      BY DEF RowInv, RowTypes
    <2>2. \A i \in DOMAIN rows : rows[i].principal \in 0 .. rows[i].opening
      <3> SUFFICES ASSUME NEW i \in DOMAIN rows PROVE rows[i].principal \in 0 .. rows[i].opening
        OBVIOUS
      <3>1. rows[i] \in ScheduleRow
        BY <2>1
      <3>2. rows[i].principal \in Nat /\ rows[i].opening \in Nat
        BY <3>1 DEF ScheduleRow
      <3>3. rows[i].principal <= rows[i].opening
        BY <2>1 DEF RowInv, RowTypes
      <3> QED BY <3>2, <3>3
    <2> QED BY <2>2 DEF RowInv, Balanced, Finished, PrincipalRetired
  <1>2. AmortInit => PeriodInv /\ RowInv
    BY PeriodsInit, RowsInit
  <1>3. PeriodInv /\ RowInv /\ [AmortNext]_amortVars => PeriodInv' /\ RowInv'
    BY PeriodsKept, RowsKept
  <1> QED BY <1>1, <1>2, <1>3, PTL DEF AmortSpec

=============================================================================
