------------------------- MODULE OwnershipTimeline -------------------------
(***************************************************************************)
(* What the allocations of a loan promise, without rows: on every day the  *)
(* loan has one set of owners, and a change effective from a day replaces  *)
(* the owners of that day and of every later one, and of no earlier one.   *)
(***************************************************************************)
EXTENDS Integers

CONSTANTS
  OwnerSets, \* the sets of owners a loan may have
  MaxDay     \* bound: last day of the model

Days == 0 .. MaxDay

VARIABLE owners   \* day -> {<<fund, share>>}

Init == owners \in [Days -> OwnerSets \cup {{}}]

Replace(new, eff) ==
  owners' = [d \in Days |-> IF d >= eff THEN new ELSE owners[d]]

Next == \E new \in OwnerSets, eff \in Days : Replace(new, eff)

Spec == Init /\ [][Next]_owners

=============================================================================
