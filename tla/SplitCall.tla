----------------------------- MODULE SplitCall -----------------------------
(***************************************************************************)
(* One call of split_with_largest_remainder: an amount in cents and the    *)
(* owners' shares go in, each owner's cents come out.                      *)
(***************************************************************************)
EXTENDS AllocationSplit

CONSTANTS MaxAmount, MaxOwners

ASSUME CallAssumption == MaxAmount \in Nat /\ MaxOwners \in Nat \ {0}

VARIABLES given, weights,   \* the amount, and the shares of the owners in order
          parts             \* what is returned, empty before

splitVars == <<given, weights, parts>>

SplitInit ==
  /\ given \in 0 .. MaxAmount
  /\ \E n \in 1 .. MaxOwners :
       weights \in {p \in [1 .. n -> 1 .. Whole] :
                      SumFunction(p) - Whole \in -PctTolerance .. PctTolerance}
  /\ parts = <<>>
SplitStep ==
  /\ parts = <<>> /\ parts' = Split(given, weights)
  /\ UNCHANGED <<given, weights>>
SplitSpec == SplitInit /\ [][SplitStep]_splitVars

\* Of an amount whose tolerance is below a cent nothing is lost or made up by a
\* split, whatever shares were accepted, and every owner gets less than a cent
\* more or less than its share; a larger amount is off by the cents of its
\* tolerance, or by one for each owner.  The cents that truncation leaves go to
\* the largest remainders: an owner rounded up has at least the remainder of any
\* owner rounded down.
LargestRemainder ==
  parts # <<>> =>
    /\ SumFunction(parts) - given \in -Drift(given, Len(weights)) .. Drift(given, Len(weights))
    /\ \A i, j \in DOMAIN weights :
         LET raw(k) == given * weights[k]
             up(k)  == parts[k] * Whole > raw(k)
         IN /\ parts[i] * Whole - raw(i) \in 1 - Whole .. Whole - (IF Small(given) THEN 1 ELSE 0)
            /\ up(i) /\ ~up(j) => raw(i) % Whole >= raw(j) % Whole

\* What the docstring says of any amount: the cents add up to it exactly.
CentsAddUpExactly == parts # <<>> => SumFunction(parts) = given
=============================================================================
