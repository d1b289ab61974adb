------------------------------- MODULE Aging -------------------------------
(***************************************************************************)
(* The nightly aging task of one tenant over its loans, while payments     *)
(* change the schedule, loans are modified and their status is reviewed.   *)
(* A task is one transaction over all loans: each statement sees what is   *)
(* committed when it runs, and what the task has written so far.  Tasks    *)
(* are acknowledged late: one whose worker dies, or only seems to have     *)
(* died, is delivered again.                                               *)
(***************************************************************************)
EXTENDS DelinquencyEngine, Sequences

CONSTANTS Loans,        \* numbers, the order of the task's query
          Plan,         \* the due dates each generation of a schedule has
          Grace,        \* grace_period_days of each loan
          Days,         \* the nights a task is dispatched for
          Amount,       \* what is due in a period
          Workers,
          MaxRetries,   \* Celery's max_retries
          MaxFaults, MaxEdits     \* bounds: errors and crashes, requests

ASSUME AgingAssumption ==
    /\ Loans \subseteq Nat /\ IsFiniteSet(Loans)
    /\ Days \subseteq Nat /\ IsFiniteSet(Days)
    /\ \A l \in Loans : /\ Plan[l] \in Seq(Seq(Nat)) /\ Len(Plan[l]) > 0
                         /\ \A g \in DOMAIN Plan[l] : Plan[l][g] # <<>>
    /\ Grace \in [Loans -> 0..30]
    /\ Amount \in Nat \ {0} /\ Amount % 2 = 0
    /\ {MaxRetries, MaxFaults, MaxEdits} \subseteq Nat

VARIABLES status,       \* loan.status
          schedule,     \* payment_schedule rows of each loan
          records,      \* delinquency_record: [loan, day, dpd, due]
          notices,      \* milestone tasks committed per loan and milestone
          reviews,      \* status review tasks: [loan, from, to], none is ever closed
          sent,         \* nights dispatched
          queue,        \* messages: [day, try, copy]
          worker,       \* tasks being run
          errors, crashes, edits

env == <<status, schedule, edits>>
tables == <<records, notices, reviews>>
vars == <<env, tables, sent, queue, worker, errors, crashes>>

ELIGIBLE_STATUSES == {"funded", "modified", "delinquent", "default", "workout"}
\* The transitions a reviewer may make among the statuses that matter here.
Transitions == [funded |-> {"modified", "delinquent", "default", "paid_off"},
                modified |-> {"funded", "delinquent", "default", "paid_off"},
                delinquent |-> {"funded", "default", "workout", "paid_off"},
                default |-> {"workout"}, workout |-> {"funded", "modified", "paid_off"},
                paid_off |-> {}]

(***************************************************************************)
(* The schedule.  Regeneration retires the open rows and numbers the new   *)
(* ones from 1; rows that are paid in part or in full stay current.        *)
(***************************************************************************)
NewRows(l, gen) == {[num |-> i, due |-> Plan[l][gen][i], status |-> "open", current |-> TRUE,
                     amount |-> Amount, gen |-> gen] : i \in DOMAIN Plan[l][gen]}
Open(rows) == {p \in rows : p.current /\ p.status = "open"}
Superseded(rows) == (rows \ Open(rows)) \cup {[p EXCEPT !.current = FALSE] : p \in Open(rows)}
\* UNIQUE (loan_id, period_number, is_current)
UniqueRows(rows) == \A p, q \in rows : p.num = q.num /\ p.current = q.current => p = q
Generation(l) == Max({p.gen : p \in schedule[l]})

Worker0 == [msg |-> <<>>, todo |-> {}, result |-> <<>>, recs |-> {}, miles |-> {}, revs |-> {},
            broken |-> FALSE]
Init == /\ status = [l \in Loans |-> "funded"]
        /\ schedule = [l \in Loans |-> NewRows(l, 1)]
        /\ records = {} /\ reviews = {}
        /\ notices = [k \in Loans \X Milestones |-> 0]
        /\ sent = {} /\ queue = {}
        /\ worker = [w \in Workers |-> Worker0]
        /\ errors = 0 /\ crashes = 0 /\ edits = 0

(***************************************************************************)
(* Requests that change what the task reads.                               *)
(***************************************************************************)
\* _update_schedule_period sets the period a payment names to what this
\* payment alone amounts to, so a paid period may become partial again.
PayPeriod(l, p, new) ==
    /\ edits < MaxEdits /\ edits' = edits + 1
    /\ status[l] \in ELIGIBLE_STATUSES
    /\ p.status # new
    /\ schedule' = [schedule EXCEPT ![l] = (@ \ {p}) \cup {[p EXCEPT !.status = new]}]
    /\ UNCHANGED <<status, tables, sent, queue, worker, errors, crashes>>

ReviewStatus(l, new) ==
    /\ edits < MaxEdits /\ edits' = edits + 1
    /\ new \in Transitions[status[l]]
    /\ status' = [status EXCEPT ![l] = new]
    /\ UNCHANGED <<schedule, tables, sent, queue, worker, errors, crashes>>

\* create_modification, with the schedule it generates; the unique key
\* refuses it, and with it the modification, when numbers collide.
Modify(l) ==
    LET rows == Superseded(schedule[l]) \cup NewRows(l, Generation(l) + 1)
    IN  /\ edits < MaxEdits /\ edits' = edits + 1
        /\ Generation(l) < Len(Plan[l])
        /\ UniqueRows(rows)
        /\ schedule' = [schedule EXCEPT ![l] = rows]
        /\ status' = [status EXCEPT ![l] = IF @ = "funded" THEN "modified" ELSE @]
        /\ UNCHANGED <<tables, sent, queue, worker, errors, crashes>>

(***************************************************************************)
(* The task.                                                               *)
(***************************************************************************)
Dispatch(d) ==
    /\ d \notin sent /\ \A e \in Days : e < d => e \in sent
    /\ sent' = sent \cup {d}
    /\ queue' = queue \cup {[day |-> d, try |-> 0, copy |-> 0]}
    /\ UNCHANGED <<env, tables, worker, errors, crashes>>

Idle(w) == worker[w].msg = <<>>
Eligible == {l \in Loans : status[l] \in ELIGIBLE_STATUSES}

\* _load_loans: the statuses the task works with are read here, once.
Start(w, m) ==
    /\ Idle(w) /\ m \in queue
    /\ queue' = queue \ {m}
    /\ worker' = [worker EXCEPT ![w] = [Worker0 EXCEPT !.msg = m,
                     !.todo = {[loan |-> l, status |-> status[l]] : l \in Eligible}]]
    /\ UNCHANGED <<env, tables, sent, errors, crashes>>

Busy(w) == ~Idle(w) /\ worker[w].todo # {}
\* The loans come ordered by their ids.
Here(w) == CHOOSE j \in worker[w].todo : \A k \in worker[w].todo : j.loan <= k.loan
DayOf(w) == worker[w].msg.day
HasRecord(l, d) == \E r \in records : r.loan = l /\ r.day = d
PriorDpd(l, d) ==
    LET earlier == {r \in records : r.loan = l /\ r.day < d}
    IN  IF earlier = {} THEN 0 ELSE (CHOOSE r \in earlier : \A q \in earlier : q.day <= r.day).dpd

NextLoan(w) == [worker[w] EXCEPT !.todo = @ \ {Here(w)}, !.result = <<>>]

\* A loan that has its record for the day is skipped, and so is every loan
\* after a database error: its first statement fails.
SkipLoan(w) ==
    /\ Busy(w) /\ worker[w].result = <<>>
    /\ worker[w].broken \/ HasRecord(Here(w).loan, DayOf(w))
    /\ worker' = [worker EXCEPT ![w] = NextLoan(w)]
    /\ UNCHANGED <<env, tables, sent, queue, errors, crashes>>

Evaluate(w) ==
    LET l == Here(w).loan
        dpd == DaysPastDue(schedule[l], DayOf(w), Grace[l])
    IN  /\ Busy(w) /\ worker[w].result = <<>>
        /\ ~worker[w].broken /\ ~HasRecord(l, DayOf(w))
        /\ worker' = [worker EXCEPT ![w].result =
                        [dpd |-> dpd, due |-> PastDue(schedule[l], DayOf(w)),
                         miles |-> NewMilestones(PriorDpd(l, DayOf(w)), dpd),
                         rec |-> Recommended(Here(w).status, dpd)]]
        /\ UNCHANGED <<env, tables, sent, queue, errors, crashes>>

\* An open review whose title names the recommended status, on either side of
\* its arrow, keeps the new one from being created.
TitleNames(v, l, rec) == v.loan = l /\ rec \in {v.from, v.to}

\* The insert waits for a task that holds the same key; if that task commits,
\* the record is dropped, but not what was computed along with it.
Write(w) ==
    LET l == Here(w).loan
        rec == worker[w].result.rec
        new == [loan |-> l, day |-> DayOf(w), dpd |-> worker[w].result.dpd, due |-> worker[w].result.due]
        known == \E v \in reviews \cup worker[w].revs : TitleNames(v, l, rec)
    IN  /\ Busy(w) /\ worker[w].result # <<>>
        /\ \A u \in Workers \ {w} : \A r \in worker[u].recs : <<r.loan, r.day>> # <<l, DayOf(w)>>
        /\ worker' = [worker EXCEPT ![w] = [NextLoan(w) EXCEPT
                        !.recs = @ \cup (IF HasRecord(l, DayOf(w)) THEN {} ELSE {new}),
                        !.miles = @ \cup {<<l, m>> : m \in worker[w].result.miles},
                        !.revs = @ \cup (IF rec = "none" \/ known THEN {}
                                         ELSE {[loan |-> l, from |-> Here(w).status, to |-> rec]})]]
        /\ UNCHANGED <<env, tables, sent, queue, errors, crashes>>

\* The loop catches what a loan raises: an error of Python's before anything
\* was written, or one of the database's, which breaks the transaction.
LoanFails(w) ==
    /\ Busy(w) /\ ~worker[w].broken
    /\ errors + crashes < MaxFaults /\ errors' = errors + 1
    /\ \E broken \in {worker[w].result # <<>>, TRUE} :
          worker' = [worker EXCEPT ![w] = [NextLoan(w) EXCEPT !.broken = broken]]
    /\ UNCHANGED <<env, tables, sent, queue, crashes>>

Done(w) == ~Idle(w) /\ worker[w].todo = {}
Ends(w) == worker' = [worker EXCEPT ![w] = Worker0]

\* COMMIT of a broken transaction rolls back without an error of its own.
Commit(w) ==
    /\ Done(w)
    /\ IF worker[w].broken THEN UNCHANGED tables
       ELSE /\ records' = records \cup worker[w].recs
            /\ notices' = [k \in DOMAIN notices |->
                              notices[k] + IF k \in worker[w].miles THEN 1 ELSE 0]
            /\ reviews' = reviews \cup worker[w].revs
    /\ Ends(w)
    /\ UNCHANGED <<env, sent, queue, errors, crashes>>

\* The commit fails, or the session reports the broken transaction: the task
\* is queued again unless it has been tried too often.
Retry(w) ==
    LET m == worker[w].msg
    IN  /\ Done(w)
        /\ worker[w].broken \/ errors + crashes < MaxFaults
        /\ errors' = IF worker[w].broken THEN errors ELSE errors + 1
        /\ queue' = IF m.try < MaxRetries THEN queue \cup {[m EXCEPT !.try = @ + 1]} ELSE queue
        /\ Ends(w)
        /\ UNCHANGED <<env, tables, sent, crashes>>

\* Mutant: a task is acknowledged when it is delivered.
CrashLoses(w) ==
    /\ ~Idle(w) /\ errors + crashes < MaxFaults /\ crashes' = crashes + 1
    /\ Ends(w)
    /\ UNCHANGED <<env, tables, sent, queue, errors>>
Crash(w) ==
    /\ ~Idle(w) /\ errors + crashes < MaxFaults /\ crashes' = crashes + 1
    /\ queue' = queue \cup {[worker[w].msg EXCEPT !.copy = @ + 1]}
    /\ \/ Ends(w)
       \/ UNCHANGED worker              \* the broker only lost sight of it
    /\ UNCHANGED <<env, tables, sent, errors>>

TaskStep(w) == SkipLoan(w) \/ Evaluate(w) \/ Write(w) \/ Commit(w)

Next == \/ \E d \in Days : Dispatch(d)
        \/ \E l \in Loans : \/ \E p \in schedule[l], new \in {"partial", "paid"} : PayPeriod(l, p, new)
                            \/ \E new \in DOMAIN Transitions : ReviewStatus(l, new)
                            \/ Modify(l)
        \/ \E w \in Workers : \/ \E m \in queue : Start(w, m)
                              \/ TaskStep(w) \/ LoanFails(w) \/ Retry(w) \/ Crash(w)

\* The beat dispatches every night and the workers serve their queue; requests,
\* errors and crashes are nobody's duty.
Fairness == /\ WF_vars(\E d \in Days : Dispatch(d))
            /\ WF_vars(\E w \in Workers, m \in queue : Start(w, m))
            /\ \A w \in Workers : WF_vars(TaskStep(w))

Spec == Init /\ [][Next]_vars /\ Fairness

(***************************************************************************)
(* Properties                                                              *)
(***************************************************************************)
\* Whatever the order in which the nights are aged, repeated or overlap, a
\* loan whose records ever reached a milestone has the notice of it.
NoMilestoneMissed ==
    \A r \in records : \A m \in Milestones : r.dpd >= m => notices[<<r.loan, m>>] >= 1

\* What ages a loan is owed: a record with an age has an amount, whatever was paid
\* in part or regenerated since.  (An amount without an age is within grace.)
AgeMatchesAmount == \A r \in records : r.dpd > 0 => r.due > 0

\* A night that was dispatched ends with a record for every loan that is
\* eligible then, though workers die, unless some statement failed on the way.
NightIsAged ==
    \A d \in Days : \A l \in Loans :
        (d \in sent) ~> (HasRecord(l, d) \/ errors > 0 \/ edits > 0)

\* "running twice for the same date is safe": no milestone is noticed more
\* often than there are records that reached it.
Idempotent ==
    \A l \in Loans, m \in Milestones :
        notices[<<l, m>>] <= Cardinality({r \in records : r.loan = l /\ r.dpd >= m})

\* "one loan's failure doesn't block the others": one failing statement costs
\* at most one record of a night whose tasks have all ended.
FailSafe ==
    (errors <= 1 /\ edits = 0 /\ queue = {} /\ \A w \in Workers : Idle(w)) =>
        Cardinality({k \in Loans \X sent : ~HasRecord(k[1], k[2])}) <= errors
=============================================================================
