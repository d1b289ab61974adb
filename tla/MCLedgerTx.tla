------------------------------ MODULE MCLedgerTx ------------------------------
(***************************************************************************)
(* Instances of LedgerTx: a loan that owes 1 of interest and 3 of          *)
(* principal, with one payment of 1 and 1 posted before.                   *)
(***************************************************************************)
EXTENDS LedgerTx

\* The sessions are named for what they do.
OpMC == [s \in Sessions |->
  CASE s \in {"pay", "pay2"}         -> "pay"
    [] s = "payoff"                  -> "payoff"
    [] s \in {"reverse", "reverse2"} -> "reverse"
    [] s \in {"accrue", "accrue2"}   -> "accrue"]
AmountMC == [s \in Sessions |->
  CASE OpMC[s] = "pay" -> 2 [] OpMC[s] = "payoff" -> 4 [] OTHER -> 1]
\* Both accrual tasks run for the same day.
AccrualDayMC == [s \in Sessions |-> 1]
Loan0MC == [interest |-> 1, principal |-> 3, status |-> "active"]
TargetMC == [interest |-> 1, principal |-> 1]

=============================================================================
