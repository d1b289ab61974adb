---------------------------- MODULE MCLoanLedger ----------------------------
(* LoanLedger on small instances, with the properties that sum over rows.  *)
EXTENDS LoanLedger, SequencesExt, FiniteSetsExt

\* Period q is due on day q.
MCDueDate == [q \in Periods |-> q]
MCScheduled == [q \in Periods |-> 3]
MCDeltas == {-1, 1, 2}

-----------------------------------------------------------------------------
(* What the code says of itself and does not keep.                         *)

\* "post_payment already cleared principal/interest/fees via the waterfall": a
\* payoff within tolerance leaves no more than the tolerance.  It does not when
\* a late fee is assessed that the quote did not contain.
PayoffClears ==
  \A k \in 1 .. Len(payments) :
    payments[k].kind = "payoff" => principal + interest + fees <= Tolerance

\* "A reversal should restore balances": once every payment is reversed the
\* fees are the opening fees, with or without each late fee that was assessed.
\* A late fee paid in part is clamped away, and only its paid part comes back.
ReversalRestoresFees ==
  (\A k \in 1 .. Len(payments) : payments[k].status = "reversed") =>
    \E charged \in SUBSET (1 .. Len(payments)) :
      fees = OpeningFees + FoldSet(LAMBDA k, sum : sum + payments[k].lateFee, 0, charged)

\* "Drop and recreate to include the new bucket": the payment row of a payoff
\* the service accepts satisfies the constraints of the table.  The constraint
\* that predates the penalty bucket has another name and is still there.
PenaltyPayoffStored ==
  \A payoffDate \in Days, delta \in Deltas :
    LET amount == QuoteTotal(payoffDate) + delta
    IN status \in PAYABLE_STATUSES /\ PayoffAccepted(amount, payoffDate)
         => RowAccepted(PayoffPayment(amount, payoffDate))

=============================================================================
