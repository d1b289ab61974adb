------------------------- MODULE AllocationHistory -------------------------
(***************************************************************************)
(* The effective-dated allocation rows of one loan: which funds own which  *)
(* share of it on which day.  A row is active on day d when                *)
(*   from <= d /\ (to = NoEnd \/ to > d).                                  *)
(* One request at a time; AllocationLocking runs them concurrently.        *)
(* Shares are in the units of AllocationSplit: Whole make 100 percent.     *)
(***************************************************************************)
EXTENDS AllocationSplit, EffectiveDates

CONSTANTS
  Funds,        \* portfolios
  Requests,     \* allocation sets a client sends: fund -> share
  LeadFund,     \* loan.portfolio_id
  MaxDay        \* bound: last day of the model

Days == 0 .. MaxDay

ASSUME AllocationAssumption ==
  /\ MaxDay \in Nat /\ IsFiniteSet(Funds)
  /\ LeadFund \in Funds /\ NoEnd \notin Int
  /\ \A new \in Requests :
       /\ DOMAIN new # {} /\ DOMAIN new \subseteq Funds
       /\ new \in [DOMAIN new -> 1 .. Whole]

VARIABLE rows   \* the loan_allocation rows of the loan

Row(fund, pct, from) == [fund |-> fund, pct |-> pct, from |-> from, to |-> NoEnd]

\* Mutant: a row is still active on its end date.
ActiveThroughEnd(d) == {r \in rows : r.from <= d /\ (OpenAt(r, d) \/ r.to = d)}
ActiveOn(d) == {r \in rows : r.from <= d /\ OpenAt(r, d)}

\* What update_allocations checks of the new set.
Accepted(new) == SumFunction(new) - Whole \in -PctTolerance .. PctTolerance

\* Rows that start on or after the effective date are deleted.
KeptBefore(eff) == {r \in rows : r.from < eff}

\* Mutant: rows that already have an end date are taken to be closed.
EndOpenOnly(r, eff) == IF r.to = NoEnd THEN [r EXCEPT !.to = eff] ELSE r
\* Rows that would still be active on the effective date end there.
EndedAt(r, eff) == IF OpenAt(r, eff) THEN [r EXCEPT !.to = eff] ELSE r

UpdateAllocations(new, eff) ==
  /\ Accepted(new)
  /\ rows' = {EndedAt(r, eff) : r \in KeptBefore(eff)}
               \cup {Row(f, new[f], eff) : f \in DOMAIN new}

\* create_initial_allocation, on the origination or the cutover date.
Init == \E from \in Days : rows = {Row(LeadFund, Whole, from)}

Next == \E new \in Requests, eff \in Days : UpdateAllocations(new, eff)

Spec == Init /\ [][Next]_rows

-----------------------------------------------------------------------------
(* Properties.                                                             *)

\* Rows respect the period constraint of the table: an end date lies after
\* the start date, although updates are dated in any order.
Rows ==
  {r \in [fund : Funds, pct : 1 .. Whole, from : Days, to : Days \cup {NoEnd}] :
     OpenAt(r, r.from)}
TypeOK == rows \subseteq Rows

Pairs(new) == {<<f, new[f]>> : f \in DOMAIN new}
Owners(d) == {<<r.fund, r.pct>> : r \in ActiveOn(d)}

\* The owners of a day are exactly one accepted set or the initial owner, never
\* a mixture of two updates; and once the loan is owned it stays owned.
OneSetAtATime ==
  \A d \in Days :
    /\ \/ Owners(d) = {}
       \/ Owners(d) = {<<LeadFund, Whole>>}
       \/ \E new \in Requests : Accepted(new) /\ Owners(d) = Pairs(new)
    /\ d > 0 /\ Owners(d - 1) # {} => Owners(d) # {}

\* The rows implement the timeline: an update changes what is active from its
\* effective date on and nothing before it, whatever was dated later or ended
\* early by updates before.
Timeline ==
  INSTANCE OwnershipTimeline
    WITH owners <- [d \in Days |-> Owners(d)],
         OwnerSets <- {Pairs(new) : new \in Requests} \cup {{<<LeadFund, Whole>>}}
ImplementsTimeline == Timeline!Spec

=============================================================================
