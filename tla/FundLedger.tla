----------------------------- MODULE FundLedger -----------------------------
(***************************************************************************)
(* The books of the funds that own one syndicated loan.  Every payment and *)
(* every accrual is split over the rows active on its effective date, one  *)
(* journal entry per fund; a reversal mirrors the entries of its payment,  *)
(* whoever owns the loan by then.  The loan row moves once, by the whole   *)
(* amounts.  Of the buckets of a payment only interest, principal and      *)
(* suspense are kept: fees and penalty are split in the same way.          *)
(***************************************************************************)
EXTENDS AllocationHistory

CONSTANTS
  Principal,    \* principal on boarding
  DailyCoupon,  \* interest of one day
  Grosses,      \* amounts a client pays
  MaxPayments   \* bound: payments of the loan

ASSUME FundAssumption ==
  /\ Grosses \subseteq Nat
  /\ {Principal, DailyCoupon, MaxPayments} \subseteq Nat

VARIABLES
  principal, interest, \* balances of the loan row
  books,     \* fund -> account -> net debit
  payments,  \* rows: amounts, status and the share of each fund by bucket
  accruals   \* dates with an interest_accrual row

ledgerVars == <<principal, interest, books, payments, accruals>>
fundVars == <<rows, ledgerVars>>

Buckets == {"interest", "principal", "suspense"}
Accounts == {"1010", "1100", "1110", "2030", "4010"}
AccountOf == [interest |-> "1110", principal |-> "1100", suspense |-> "2030"]

\* Mutant: the owners of the day are taken, whatever the effective date.
OwnedNow(d) ==
  LET open == {r \in rows : r.to = NoEnd}
      n == Cardinality(open)
  IN {s \in [1 .. n -> open] :
        IsInjective(s) /\ \A i \in 1 .. n - 1 : s[i].pct >= s[i + 1].pct}
\* The rows active on a date, largest share first; ties come in any order.
Owned(d) ==
  LET active == ActiveOn(d)
      n == Cardinality(active)
  IN {s \in [1 .. n -> active] :
        IsInjective(s) /\ \A i \in 1 .. n - 1 : s[i].pct >= s[i + 1].pct}

\* What the owners, in this order, get of an amount: fund -> cents.
Shares(amount, owners) ==
  LET cents == Split(amount, [i \in DOMAIN owners |-> owners[i].pct])
  IN [f \in Funds |->
        SumFunction([i \in {j \in DOMAIN owners : owners[j].fund = f} |-> cents[i]])]

Waterfall(gross) ==
  LET i == IF gross <= interest THEN gross ELSE interest
      p == IF gross - i <= principal THEN gross - i ELSE principal
  IN [interest |-> i, principal |-> p, suspense |-> gross - i - p]

\* The lines of the entry a payment posts in one fund's books: cash is debited
\* with the sum of the fund's buckets.
EntryLines(share) ==
  [a \in Accounts |->
     IF a = "1010" THEN SumFunction(share)
     ELSE -SumFunction([b \in {x \in Buckets : AccountOf[x] = a} |-> share[b]])]

PostPayment(gross, eff, owners) ==
  LET w == Waterfall(gross)
      share == [f \in Funds |-> [b \in Buckets |-> Shares(w[b], owners)[f]]]
  IN /\ Len(payments) < MaxPayments
     /\ owners # <<>>
     /\ principal' = principal - w.principal
     /\ interest' = interest - w.interest
     /\ books' = [f \in Funds |-> [a \in Accounts |->
                    books[f][a] + EntryLines(share[f])[a]]]
     /\ payments' = Append(payments,
          [status |-> "posted", gross |-> gross, eff |-> eff, applied |-> w, share |-> share])
     /\ UNCHANGED <<rows, accruals>>

\* Mutant: a reversal is booked in the books of the owners of the day.
ReverseToOwners(k, d) ==
  LET p == payments[k]
      owners == CHOOSE o \in Owned(d) : TRUE
      share == [f \in Funds |-> [b \in Buckets |-> Shares(p.applied[b], owners)[f]]]
  IN /\ p.status = "posted"
     /\ principal' = principal + p.applied.principal
     /\ interest' = interest + p.applied.interest
     /\ books' = [f \in Funds |-> [a \in Accounts |->
                    books[f][a] - EntryLines(share[f])[a]]]
     /\ payments' = [payments EXCEPT ![k].status = "reversed"]
     /\ UNCHANGED <<rows, accruals>>

\* d is the day of the reversal; the entries of the payment are mirrored.
ReversePayment(k, d) ==
  LET p == payments[k]
  IN /\ p.status = "posted"
     /\ principal' = principal + p.applied.principal
     /\ interest' = interest + p.applied.interest
     /\ books' = [f \in Funds |-> [a \in Accounts |->
                    books[f][a] - EntryLines(p.share[f])[a]]]
     /\ payments' = [payments EXCEPT ![k].status = "reversed"]
     /\ UNCHANGED <<rows, accruals>>

AccrueDay(d, owners) ==
  /\ d \notin accruals
  /\ owners # <<>>
  /\ accruals' = accruals \cup {d}
  /\ interest' = interest + DailyCoupon
  /\ books' = [f \in Funds |->
                 [books[f] EXCEPT !["1110"] = @ + Shares(DailyCoupon, owners)[f],
                                  !["4010"] = @ - Shares(DailyCoupon, owners)[f]]]
  /\ UNCHANGED <<rows, principal, payments>>

Reallocate(new, eff) == UpdateAllocations(new, eff) /\ UNCHANGED ledgerVars

\* A converted loan: the opening entries debit the lead fund.
FundInit ==
  /\ Init
  /\ principal = Principal /\ interest = 0 /\ payments = <<>> /\ accruals = {}
  /\ books = [f \in Funds |-> [a \in Accounts |->
                IF f = LeadFund /\ a = "1100" THEN Principal ELSE 0]]

FundNext ==
  \/ \E gross \in Grosses, eff \in Days : \E owners \in Owned(eff) :
       PostPayment(gross, eff, owners)
  \/ \E k \in DOMAIN payments, d \in Days : ReversePayment(k, d)
  \/ \E d \in Days : \E owners \in Owned(d) : AccrueDay(d, owners)
  \/ \E new \in Requests, eff \in Days : Reallocate(new, eff)

FundSpec == FundInit /\ [][FundNext]_fundVars

-----------------------------------------------------------------------------
(* Properties.                                                             *)

OverFunds(account) == SumFunction([f \in Funds |-> books[f][account]])

\* What the splits of the payments that stand and of the accruals may be off.
Owing == Cardinality(Funds)
PaymentDrift(b) ==
  SumFunction([k \in {j \in DOMAIN payments : payments[j].status = "posted"} |->
                 Drift(payments[k].applied[b], Owing)])
AccrualDrift == Cardinality(accruals) * Drift(DailyCoupon, Owing)

\* The receivables in the books of all funds together are the balances of the
\* loan row, through any sequence of payments, reversals, accruals and changes of
\* ownership: to the cent as long as no amount was so large that the tolerance of
\* the shares makes a cent of it, and then off only by the cents of the large
\* amounts that stand.  A reversal takes back what its payment was off.
FundsReconcile ==
  LET principalDrift == PaymentDrift("principal")
      interestDrift  == PaymentDrift("interest") + AccrualDrift
  IN /\ OverFunds("1100") - principal \in -principalDrift .. principalDrift
     /\ OverFunds("1110") - interest \in -interestDrift .. interestDrift

\* The cash in a fund's books is its part of the payments that stand: a reversal
\* takes it from the funds that got it, though the owners may have changed.
CashOfFund ==
  \A f \in Funds :
    books[f]["1010"] =
      SumFunction([k \in {j \in DOMAIN payments : payments[j].status = "posted"} |->
                     SumFunction(payments[k].share[f])])

\* Of every bucket a fund is booked its share on the effective date, give or take
\* a cent, also when the payment is dated back before a change of ownership.
SharesByOwnership ==
  [][Len(payments') > Len(payments) =>
       LET p == payments'[Len(payments')]
       IN \A f \in Funds, b \in Buckets :
            LET pct == SumFunction([r \in {x \in ActiveOn(p.eff) : x.fund = f} |-> r.pct])
            IN p.share[f][b] * Whole - p.applied[b] * pct
                 \in 1 - Whole .. Whole - (IF Small(p.applied[b]) THEN 1 ELSE 0)]_fundVars

=============================================================================
