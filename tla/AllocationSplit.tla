-------------------------- MODULE AllocationSplit --------------------------
(***************************************************************************)
(* split_with_largest_remainder: an amount in cents is handed out to the   *)
(* owners of a loan by their shares, the cents that truncation leaves over *)
(* going to the largest remainders.  Shares are units of which Whole make  *)
(* 100 percent; pcts[i] is the share of the i-th owner.  The shares need   *)
(* not make the whole: a sum off by the tolerance is let through.          *)
(***************************************************************************)
EXTENDS Integers, Sequences, FiniteSets, Functions

CONSTANTS
  Whole,
  PctTolerance  \* mismatch of the sum of shares that is let through

ASSUME WholeAssumption == Whole \in Nat \ {0} /\ PctTolerance \in Nat

Floors(amount, pcts) == [i \in DOMAIN pcts |-> (amount * pcts[i]) \div Whole]
Remainders(amount, pcts) == [i \in DOMAIN pcts |-> (amount * pcts[i]) % Whole]

\* Mutant: owners are served by size, not by remainder.
LargerFirst(amount, pcts, i, j) ==
  LET f == Floors(amount, pcts)
  IN f[i] > f[j] \/ (f[i] = f[j] /\ i < j)
\* The sort key (-remainder, -floor) of a stable sort.
Before(amount, pcts, i, j) ==
  LET f == Floors(amount, pcts)
      r == Remainders(amount, pcts)
  IN \/ r[i] > r[j]
     \/ r[i] = r[j] /\ f[i] > f[j]
     \/ r[i] = r[j] /\ f[i] = f[j] /\ i < j
Rank(amount, pcts, i) ==
  Cardinality({j \in DOMAIN pcts : Before(amount, pcts, j, i)})

\* The owners in order[:residual]; a negative residual cuts the list from its
\* end.
Favoured(amount, pcts) ==
  LET residual == amount - SumFunction(Floors(amount, pcts))
      count    == IF residual >= 0 THEN residual ELSE Len(pcts) + residual
  IN {i \in DOMAIN pcts : Rank(amount, pcts, i) < count}

\* Mutant: what truncation leaves over is not handed out.
Truncated(amount, pcts) == Floors(amount, pcts)
Split(amount, pcts) ==
  [i \in DOMAIN pcts |->
     Floors(amount, pcts)[i] + IF i \in Favoured(amount, pcts) THEN 1 ELSE 0]

-----------------------------------------------------------------------------
(* What a split may be off.  Shares of a sum off by the tolerance make the *)
(* floors miss the amount by cents, once the tolerance of it is a cent:    *)
(* the owners may then be too few for what is left over, and a negative    *)
(* residual favours all owners but the last ones.                          *)
Small(amount) == amount * PctTolerance < Whole
Drift(amount, n) == IF Small(amount) THEN 0 ELSE n + (amount * PctTolerance) \div Whole

=============================================================================
