------------------------- MODULE DelinquencyEngine -------------------------
(***************************************************************************)
(* The pure delinquency engine: what a loan's current schedule says on one *)
(* day.  Days are numbers; a period is [num, due, status, current, amount] *)
(* whose amount stands for its three components and is even, so that half  *)
(* of it is exact.                                                         *)
(***************************************************************************)
EXTENDS Integers, FiniteSets, FiniteSetsExt, Functions

Milestones == {10, 30, 60, 90, 120}
DPD_TO_DELINQUENT == 1
DPD_TO_DEFAULT == 90

\* The worker passes int(grace_period_days or 5): a loan without grace gets five days.
GraceDays(grace) == IF grace = 0 THEN 5 ELSE grace

OverduePeriods(schedule, day) ==
    {p \in schedule : p.current /\ p.due < day /\ p.status \in {"open", "partial", "overdue"}}

DaysPastDue(schedule, day, grace) ==
    LET overdue == OverduePeriods(schedule, day)
    IN  IF overdue = {} THEN 0
        ELSE Max({0, day - Min({p.due : p \in overdue}) - GraceDays(grace)})

\* Mutant: only a period nothing was paid on counts.
UnpaidIfOpen(p) == IF p.status = "open" THEN p.amount ELSE 0
Unpaid(p) == IF p.status = "partial" THEN p.amount \div 2 ELSE p.amount
PastDue(schedule, day) == SumFunction([p \in OverduePeriods(schedule, day) |-> Unpaid(p)])

Bucket(dpd) == IF dpd <= 0 THEN "current" ELSE IF dpd <= 30 THEN "1-30"
               ELSE IF dpd <= 60 THEN "31-60" ELSE IF dpd <= 90 THEN "61-90"
               ELSE IF dpd <= 120 THEN "91-120" ELSE "120+"

\* Mutant: a milestone is due on the day the count passes it, not on the day it reaches it.
MilestonesPassed(prior, dpd) == {m \in Milestones : prior < m /\ m < dpd}
NewMilestones(prior, dpd) == {m \in Milestones : prior < m /\ m <= dpd}

\* The status the engine would put up for review, "none" if it has no opinion.
Recommended(status, dpd) ==
    IF dpd >= DPD_TO_DEFAULT /\ status \notin {"default", "workout", "payoff_pending"} THEN "default"
    ELSE IF dpd >= DPD_TO_DELINQUENT /\ status = "funded" THEN "delinquent"
    ELSE IF dpd = 0 /\ status = "delinquent" THEN "funded"
    ELSE "none"
=============================================================================
