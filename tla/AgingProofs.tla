---------------------------- MODULE AgingProofs ----------------------------
(***************************************************************************)
(* No milestone is missed, for any loans, schedules, nights and workers    *)
(* and any number of requests, errors, crashes and retries.                *)
(***************************************************************************)
EXTENDS Aging, CommonLemmas

Periods == [num : Nat, due : Nat, status : {"open", "partial", "paid"}, current : BOOLEAN,
            amount : Nat, gen : Nat]
Message == [day : Days, try : Nat, copy : Nat]
IsTask(x) == x = [msg |-> x.msg, todo |-> x.todo, result |-> x.result, recs |-> x.recs,
                  miles |-> x.miles, revs |-> x.revs, broken |-> x.broken]

\* What the argument needs to know of the tables and of the tasks.
ScheduleInv ==
    /\ DOMAIN schedule = Loans
    /\ \A l \in Loans : schedule[l] # {} /\ schedule[l] \subseteq Periods
    /\ \A l \in Loans : \A p \in schedule[l] : p.gen \in 1..Len(Plan[l])
TaskInv ==
    /\ queue \subseteq Message
    /\ DOMAIN worker = Workers
    /\ \A w \in Workers :
         /\ IsTask(worker[w])
         /\ worker[w].msg # <<>> => worker[w].msg \in Message
         /\ \A j \in worker[w].todo : j.loan \in Loans
         /\ \A r \in worker[w].recs : r.loan \in Loans /\ r.day \in Nat /\ r.dpd \in Nat
         /\ worker[w].miles \subseteq Loans \X Milestones
         /\ worker[w].result # <<>> =>
               /\ worker[w].todo # {} /\ worker[w].result.dpd \in Nat
               /\ worker[w].result.miles \subseteq Milestones
TypeInv ==
    /\ ScheduleInv /\ TaskInv
    /\ \A r \in records : r.loan \in Loans /\ r.day \in Nat /\ r.dpd \in Nat
    /\ notices \in [Loans \X Milestones -> Nat]

\* A milestone that an age reached was noticed before, or is noticed with it.
Noticed(l, m, miles) == notices[<<l, m>>] >= 1 \/ <<l, m>> \in miles
Promise ==
    /\ NoMilestoneMissed
    /\ \A w \in Workers :
         /\ \A r \in worker[w].recs : \A m \in Milestones :
               r.dpd >= m => Noticed(r.loan, m, worker[w].miles)
         /\ worker[w].result # <<>> => \A m \in Milestones :
               worker[w].result.dpd >= m =>
                   \/ notices[<<Here(w).loan, m>>] >= 1
                   \/ m \in worker[w].result.miles

LEMMA NumbersOfLoansAndDays == Loans \subseteq Nat /\ Days \subseteq Nat
  BY AgingAssumption

LEMMA MilestonesAreNat == Milestones \subseteq Nat \ {0}
  BY DEF Milestones

\* The engine's ages are natural numbers.
LEMMA AgeIsNat ==
    ASSUME NEW rows, \A p \in rows : p.due \in Nat, NEW day \in Nat, NEW grace \in 0..30
    PROVE  DaysPastDue(rows, day, grace) \in Nat
  <1> DEFINE dues == {p.due : p \in OverduePeriods(rows, day)}
             late == day - Min(dues) - GraceDays(grace)
  <1>1. CASE OverduePeriods(rows, day) = {}
    BY <1>1 DEF DaysPastDue
  <1>2. CASE OverduePeriods(rows, day) # {}
    <2>1. dues \in SUBSET Nat /\ dues # {}
      BY <1>2 DEF OverduePeriods
    <2>2. Min(dues) \in Nat
      <3>1. \E x \in dues : \A y \in dues : x <= y
        BY <2>1, LeastExists
      <3> QED BY <2>1, <3>1 DEF Min
    <2>3. late \in Int
      BY <2>2 DEF GraceDays
    <2>4. Max({0, late}) \in Nat
      <3>1. \E x \in {0, late} : \A y \in {0, late} : x >= y
        BY <2>3
      <3>2. {0, late} \subseteq Int
        BY <2>3
      <3>3. Max({0, late}) \in {0, late} /\ \A y \in {0, late} : Max({0, late}) >= y
        BY <3>1 DEF Max
      <3> HIDE DEF late
      <3> QED BY <3>2, <3>3
    <2> QED BY <1>2, <2>4 DEF DaysPastDue
  <1> QED BY <1>1, <1>2

\* What the loan's last record before the day says of its milestones.
LEMMA PriorIsNoticed ==
    ASSUME TypeInv, Promise, NEW l \in Loans, NEW d \in Nat
    PROVE  /\ PriorDpd(l, d) \in Nat
           /\ \A m \in Milestones : PriorDpd(l, d) >= m => notices[<<l, m>>] >= 1
  <1> DEFINE earlier == {r \in records : r.loan = l /\ r.day < d}
             days == {r.day : r \in earlier}
  <1>1. CASE earlier = {}
    <2>1. PriorDpd(l, d) = 0
      BY <1>1 DEF PriorDpd
    <2>2. \A m \in Milestones : ~(0 >= m)
      BY MilestonesAreNat
    <2> QED BY <2>1, <2>2
  <1>2. CASE earlier # {}
    <2>1. days \in SUBSET Nat /\ days # {} /\ \A y \in days : y <= d
      BY <1>2 DEF TypeInv
    <2>2. \E x \in days : \A y \in days : y <= x
      BY <2>1, GreatestExists
    <2>3. \E r \in earlier : \A q \in earlier : q.day <= r.day
      BY <2>2
    <2> DEFINE last == CHOOSE r \in earlier : \A q \in earlier : q.day <= r.day
    <2>4. last \in earlier
      BY <2>3
    <2>5. PriorDpd(l, d) = last.dpd
      BY <1>2 DEF PriorDpd
    <2> HIDE DEF last
    <2> QED BY <2>4, <2>5 DEF TypeInv, Promise, NoMilestoneMissed
  <1> QED BY <1>1, <1>2

\* The loan a task is at is one of those it has to do.
LEMMA HereIsNext ==
    ASSUME TypeInv, NEW w \in Workers, worker[w].todo # {}
    PROVE  Here(w) \in worker[w].todo /\ Here(w).loan \in Loans
  <1> DEFINE ids == {j.loan : j \in worker[w].todo}
  <1>1. ids \in SUBSET Nat /\ ids # {}
    BY NumbersOfLoansAndDays DEF TypeInv, TaskInv
  <1>2. \E x \in ids : \A y \in ids : x <= y
    BY <1>1, LeastExists
  <1>3. \E j \in worker[w].todo : \A k \in worker[w].todo : j.loan <= k.loan
    BY <1>2
  <1> QED BY <1>3 DEF Here, TypeInv, TaskInv

(***************************************************************************)
(* The schedules.                                                          *)
(***************************************************************************)
LEMMA NewRowsOfPlan ==
    ASSUME NEW l \in Loans, NEW g \in 1..Len(Plan[l])
    PROVE  /\ NewRows(l, g) # {} /\ NewRows(l, g) \subseteq Periods
           /\ \A p \in NewRows(l, g) : p.gen = g
  <1>1. /\ Plan[l] \in Seq(Seq(Nat)) /\ Amount \in Nat
        /\ \A h \in DOMAIN Plan[l] : Plan[l][h] # <<>>
    BY AgingAssumption
  <1>2. Plan[l][g] \in Seq(Nat) /\ Plan[l][g] # <<>>
    BY <1>1
  <1> DEFINE dues == Plan[l][g]
  <1> HIDE DEF dues
  <1>3. dues \in Seq(Nat) /\ dues # <<>>
    BY <1>2 DEF dues
  <1>4. DOMAIN dues = 1..Len(dues) /\ Len(dues) \in Nat \ {0}
    BY <1>3
  <1>5. NewRows(l, g) = {[num |-> i, due |-> dues[i], status |-> "open", current |-> TRUE,
                          amount |-> Amount, gen |-> g] : i \in DOMAIN dues}
    BY DEF NewRows, dues
  <1>6. 1 \in DOMAIN dues /\ \A i \in DOMAIN dues : i \in Nat /\ dues[i] \in Nat
    BY <1>3, <1>4
  <1>7. g \in Nat
    OBVIOUS
  <1> DEFINE row(i) == [num |-> i, due |-> dues[i], status |-> "open", current |-> TRUE,
                        amount |-> Amount, gen |-> g]
  <1>8. \A i \in DOMAIN dues : row(i) \in Periods /\ row(i).gen = g
    BY <1>1, <1>6, <1>7 DEF Periods
  <1>9. NewRows(l, g) = {row(i) : i \in DOMAIN dues}
    BY <1>5
  <1> HIDE DEF row
  <1> QED BY <1>6, <1>8, <1>9

LEMMA GenerationOfPlan ==
    ASSUME ScheduleInv, NEW l \in Loans
    PROVE  Generation(l) \in 1..Len(Plan[l])
  <1> DEFINE gens == {p.gen : p \in schedule[l]}
  <1>0. Len(Plan[l]) \in Nat
    <2>1. Plan[l] \in Seq(Seq(Nat))
      BY AgingAssumption
    <2> QED BY <2>1
  <1>1. gens \in SUBSET Nat /\ gens # {} /\ \A y \in gens : y <= Len(Plan[l])
    BY <1>0 DEF ScheduleInv
  <1>2. \E x \in gens : \A y \in gens : y <= x
    BY <1>0, <1>1, GreatestExists
  <1>3. \E x \in gens : \A y \in gens : x >= y
    BY <1>1, <1>2
  <1>4. Max(gens) \in gens
    BY <1>3 DEF Max
  <1> QED BY <1>4 DEF Generation, ScheduleInv

LEMMA ScheduleNext == ScheduleInv /\ [Next]_vars => ScheduleInv'
  <1> SUFFICES ASSUME ScheduleInv, [Next]_vars PROVE ScheduleInv'
    OBVIOUS
  <1>1. ASSUME NEW l \in Loans, NEW p \in schedule[l], NEW new \in {"partial", "paid"}, PayPeriod(l, p, new)
        PROVE  ScheduleInv'
    <2>1. p \in Periods /\ p.gen \in 1..Len(Plan[l])
      BY DEF ScheduleInv
    <2>2. [p EXCEPT !.status = new] \in Periods /\ [p EXCEPT !.status = new].gen = p.gen
      BY <2>1 DEF Periods
    <2> QED BY <1>1, <2>1, <2>2 DEF PayPeriod, ScheduleInv
  <1>2. ASSUME NEW l \in Loans, Modify(l) PROVE ScheduleInv'
    <2> DEFINE new == NewRows(l, Generation(l) + 1)
               old == Superseded(schedule[l])
    <2>1. Generation(l) + 1 \in 1..Len(Plan[l])
      <3>1. Len(Plan[l]) \in Nat
        <4>1. Plan[l] \in Seq(Seq(Nat))
          BY AgingAssumption
        <4> QED BY <4>1
      <3> QED BY <1>2, <3>1, GenerationOfPlan DEF Modify
    <2>2. new # {} /\ new \subseteq Periods /\ \A p \in new : p.gen \in 1..Len(Plan[l])
      BY <2>1, NewRowsOfPlan
    <2>3. ASSUME NEW p \in schedule[l]
          PROVE  [p EXCEPT !.current = FALSE] \in Periods /\ [p EXCEPT !.current = FALSE].gen = p.gen
      BY DEF ScheduleInv, Periods
    <2>4. old \subseteq Periods /\ \A p \in old : p.gen \in 1..Len(Plan[l])
      BY <2>3 DEF Superseded, Open, ScheduleInv
    <2>5. schedule' = [schedule EXCEPT ![l] = old \cup new]
      BY <1>2 DEF Modify
    <2> HIDE DEF new, old
    <2> QED BY <2>2, <2>4, <2>5 DEF ScheduleInv
  <1>3. CASE UNCHANGED schedule
    BY <1>3 DEF ScheduleInv
  <1>4. ASSUME NEW w \in Workers, \/ \E m \in queue : Start(w, m)
                                  \/ TaskStep(w) \/ LoanFails(w) \/ Retry(w) \/ Crash(w)
        PROVE  UNCHANGED schedule
    BY <1>4 DEF Start, TaskStep, SkipLoan, Evaluate, Write, Commit, LoanFails, Retry, Crash, env
  <1>5. CASE Next
    BY <1>1, <1>2, <1>3, <1>4, <1>5 DEF Next, Dispatch, ReviewStatus, env
  <1> QED BY <1>3, <1>5 DEF vars, env

LEMMA ScheduleInit == Init => ScheduleInv
  <1> SUFFICES ASSUME Init PROVE ScheduleInv
    OBVIOUS
  <1>1. \A l \in Loans : 1 \in 1..Len(Plan[l])
    <2>1. \A l \in Loans : Plan[l] \in Seq(Seq(Nat)) /\ Len(Plan[l]) > 0
      BY AgingAssumption
    <2> QED BY <2>1
  <1> QED BY <1>1, NewRowsOfPlan DEF Init, ScheduleInv

(***************************************************************************)
(* The tasks.                                                              *)
(***************************************************************************)
\* Every other task stays as it is, and the notices only grow.
LEMMA OthersKeep ==
    ASSUME TypeInv, Promise, NEW w \in Workers, NEW x, IsTask(x),
           worker' = [worker EXCEPT ![w] = x],
           queue' \subseteq Message,
           notices' \in [Loans \X Milestones -> Nat],
           \A k \in Loans \X Milestones : notices'[k] >= notices[k],
           x.msg # <<>> => x.msg \in Message,
           \A j \in x.todo : j.loan \in Loans,
           \A r \in x.recs : r.loan \in Loans /\ r.day \in Nat /\ r.dpd \in Nat,
           x.miles \subseteq Loans \X Milestones,
           x.result = <<>>,
           \A r \in x.recs : \A m \in Milestones :
               r.dpd >= m => notices[<<r.loan, m>>] >= 1 \/ <<r.loan, m>> \in x.miles
    PROVE  /\ TaskInv'
           /\ \A u \in Workers :
                /\ \A r \in worker'[u].recs : \A m \in Milestones :
                      r.dpd >= m => Noticed(r.loan, m, worker[u].miles)'
                /\ worker'[u].result # <<>> => \A m \in Milestones :
                      worker'[u].result.dpd >= m =>
                          \/ notices'[<<Here(u)'.loan, m>>] >= 1
                          \/ m \in worker'[u].result.miles
  <1>1. worker'[w] = x /\ \A u \in Workers \ {w} : worker'[u] = worker[u]
    BY DEF TypeInv, TaskInv
  <1>2. TaskInv'
    BY <1>1 DEF TypeInv, TaskInv
  <1>3. \A k \in Loans \X Milestones : notices[k] >= 1 => notices'[k] >= 1
    BY DEF TypeInv
  <1>4. ASSUME NEW u \in Workers, NEW r \in worker'[u].recs, NEW m \in Milestones, r.dpd >= m
        PROVE  Noticed(r.loan, m, worker[u].miles)'
    <2>1. r.loan \in Loans
      BY <1>2, <1>4 DEF TaskInv
    <2>2. notices[<<r.loan, m>>] >= 1 \/ <<r.loan, m>> \in worker'[u].miles
      BY <1>1, <1>4 DEF Promise, Noticed
    <2> QED BY <1>3, <2>1, <2>2 DEF Noticed
  <1>5. ASSUME NEW u \in Workers, worker'[u].result # <<>>, NEW m \in Milestones,
               worker'[u].result.dpd >= m
        PROVE  notices'[<<Here(u)'.loan, m>>] >= 1 \/ m \in worker'[u].result.miles
    <2>1. u # w /\ worker'[u] = worker[u]
      BY <1>1, <1>5
    <2>2. Here(u)' = Here(u)
      BY <2>1 DEF Here
    <2>3. Here(u).loan \in Loans
      BY <1>5, <2>1, HereIsNext DEF TypeInv, TaskInv
    <2> QED BY <1>3, <1>5, <2>1, <2>2, <2>3 DEF Promise
  <1> QED BY <1>2, <1>4, <1>5

LEMMA IdleTaskIsSafe ==
    /\ IsTask(Worker0) /\ Worker0.msg = <<>> /\ Worker0.todo = {} /\ Worker0.recs = {}
    /\ Worker0.miles = {} /\ Worker0.result = <<>>
  BY DEF IsTask, Worker0

LEMMA NextLoanTask ==
    ASSUME TypeInv, NEW w \in Workers
    PROVE  /\ IsTask(NextLoan(w)) /\ NextLoan(w).msg = worker[w].msg
           /\ NextLoan(w).todo = worker[w].todo \ {Here(w)}
           /\ NextLoan(w).recs = worker[w].recs /\ NextLoan(w).miles = worker[w].miles
           /\ NextLoan(w).result = <<>>
  <1> DEFINE t == worker[w]
             rest == t.todo \ {Here(w)}
  <1>1. t = [msg |-> t.msg, todo |-> t.todo, result |-> t.result, recs |-> t.recs,
             miles |-> t.miles, revs |-> t.revs, broken |-> t.broken]
    BY DEF TypeInv, TaskInv, IsTask
  <1>2. NextLoan(w) = [t EXCEPT !.todo = rest, !.result = <<>>]
    BY DEF NextLoan
  <1> HIDE DEF t, rest
  <1>3. NextLoan(w) = [msg |-> t.msg, todo |-> rest, result |-> <<>>, recs |-> t.recs,
                       miles |-> t.miles, revs |-> t.revs, broken |-> t.broken]
    BY <1>1, <1>2
  <1> QED BY <1>3 DEF IsTask, t, rest

Rest == UNCHANGED <<records, notices>>
Safe == TypeInv /\ Promise

LEMMA SafeSchedule ==
    ASSUME Safe, [Next]_vars, Rest, TaskInv',
           \A u \in Workers :
             /\ \A r \in worker'[u].recs : \A m \in Milestones :
                   r.dpd >= m => Noticed(r.loan, m, worker[u].miles)'
             /\ worker'[u].result # <<>> => \A m \in Milestones :
                   worker'[u].result.dpd >= m =>
                       \/ notices'[<<Here(u)'.loan, m>>] >= 1
                       \/ m \in worker'[u].result.miles
    PROVE  Safe'
  <1>1. ScheduleInv'
    BY ScheduleNext DEF Safe, TypeInv
  <1>2. TypeInv'
    BY <1>1 DEF TypeInv, Safe, Rest
  <1>3. Promise'
    BY DEF Promise, Safe, Rest, NoMilestoneMissed
  <1> QED BY <1>2, <1>3 DEF Safe

\* A task that starts, skips a loan, gives one up or ends.
LEMMA QuietStep ==
    ASSUME Safe, [Next]_vars, Rest, NEW w \in Workers,
           NEW x \in {Worker0, NextLoan(w), [NextLoan(w) EXCEPT !.broken = TRUE],
                      [NextLoan(w) EXCEPT !.broken = FALSE]},
           worker' = [worker EXCEPT ![w] = x], queue' \subseteq Message
    PROVE  Safe'
  <1> USE DEF Rest
  <1>0. TypeInv /\ Promise /\ TaskInv
    BY DEF Safe, TypeInv
  <1>1. /\ IsTask(x) /\ x.result = <<>>
        /\ x = Worker0 \/ (x.msg = worker[w].msg /\ x.todo \subseteq worker[w].todo
                           /\ x.recs = worker[w].recs /\ x.miles = worker[w].miles)
    <2>1. CASE x = Worker0
      BY <2>1, IdleTaskIsSafe
    <2>2. CASE x = NextLoan(w)
      BY <1>0, <2>2, NextLoanTask
    <2>3. ASSUME NEW b \in BOOLEAN, x = [NextLoan(w) EXCEPT !.broken = b] PROVE <1>1
      BY <1>0, <2>3, NextLoanTask DEF IsTask
    <2> QED BY <2>1, <2>2, <2>3
  <1>2. /\ x.msg # <<>> => x.msg \in Message
        /\ \A j \in x.todo : j.loan \in Loans
        /\ \A r \in x.recs : r.loan \in Loans /\ r.day \in Nat /\ r.dpd \in Nat
        /\ x.miles \subseteq Loans \X Milestones
        /\ \A r \in x.recs : \A m \in Milestones :
               r.dpd >= m => notices[<<r.loan, m>>] >= 1 \/ <<r.loan, m>> \in x.miles
    BY <1>0, <1>1, IdleTaskIsSafe DEF TaskInv, Promise, Noticed
  <1>3. notices' \in [Loans \X Milestones -> Nat]
        /\ \A k \in Loans \X Milestones : notices'[k] >= notices[k]
    BY <1>0 DEF TypeInv
  <1> QED BY <1>0, <1>1, <1>2, <1>3, OthersKeep, SafeSchedule

LEMMA QueueStep ==
    ASSUME Safe, [Next]_vars, Rest, UNCHANGED worker, queue' \subseteq Message
    PROVE  Safe'
  <1>1. TaskInv'
    BY DEF Safe, TypeInv, TaskInv
  <1>2. \A u \in Workers : Here(u)' = Here(u)
    BY DEF Here
  <1> QED BY <1>1, <1>2, SafeSchedule DEF Safe, Promise, Noticed, Rest

LEMMA SafeNext == Safe /\ [Next]_vars => Safe'
  <1> SUFFICES ASSUME Safe, [Next]_vars PROVE Safe'
    OBVIOUS
  <1>0. TypeInv /\ Promise /\ TaskInv /\ ScheduleInv
    BY DEF Safe, TypeInv
  <1>1. CASE UNCHANGED <<tables, worker>> /\ queue' \subseteq Message
    BY <1>1, QueueStep DEF Rest, tables
  <1>2. ASSUME NEW d \in Days, Dispatch(d) PROVE Safe'
    <2>1. [day |-> d, try |-> 0, copy |-> 0] \in Message
      BY DEF Message
    <2> QED BY <1>0, <1>1, <1>2, <2>1 DEF Dispatch, TaskInv
  <1>3. ASSUME NEW l \in Loans,
               \/ \E p \in schedule[l], new \in {"partial", "paid"} : PayPeriod(l, p, new)
               \/ \E new \in DOMAIN Transitions : ReviewStatus(l, new)
               \/ Modify(l)
        PROVE  Safe'
    BY <1>0, <1>1, <1>3 DEF PayPeriod, ReviewStatus, Modify, TaskInv
  <1>4. ASSUME NEW w \in Workers, NEW m \in queue, Start(w, m) PROVE Safe'
    <2> DEFINE loans == {[loan |-> l, status |-> status[l]] : l \in Eligible}
               x == [Worker0 EXCEPT !.msg = m, !.todo = loans]
    <2>1. \A j \in loans : j.loan \in Loans
      BY DEF Eligible
    <2>2. worker' = [worker EXCEPT ![w] = x]
      BY <1>4 DEF Start
    <2> HIDE DEF loans
    <2>a. x = [msg |-> m, todo |-> loans, result |-> <<>>, recs |-> {}, miles |-> {},
               revs |-> {}, broken |-> FALSE]
      <3> DEFINE z == Worker0
      <3>1. z = [msg |-> <<>>, todo |-> {}, result |-> <<>>, recs |-> {}, miles |-> {},
                 revs |-> {}, broken |-> FALSE]
        BY DEF Worker0
      <3>2. x = [z EXCEPT !.msg = m, !.todo = loans]
        OBVIOUS
      <3> HIDE DEF z, x
      <3> QED BY <3>1, <3>2
    <2> HIDE DEF x
    <2>3. IsTask(x) /\ x.msg = m /\ x.todo = loans /\ x.recs = {} /\ x.miles = {} /\ x.result = <<>>
      BY <2>a DEF IsTask
    <2> HIDE DEF x
    <2>4. m \in Message /\ queue' \subseteq Message
      BY <1>0, <1>4 DEF Start, TaskInv
    <2>5. Rest
      BY <1>4 DEF Start, Rest, tables
    <2>6. notices' \in [Loans \X Milestones -> Nat]
          /\ \A k \in Loans \X Milestones : notices'[k] >= notices[k]
      BY <1>0, <2>5 DEF TypeInv, Rest
    <2> QED BY <1>0, <2>1, <2>2, <2>3, <2>4, <2>5, <2>6, OthersKeep, SafeSchedule
  <1>5. ASSUME NEW w \in Workers, SkipLoan(w) PROVE Safe'
    BY <1>0, <1>5, QuietStep DEF SkipLoan, Rest, tables, TaskInv
  <1>6. ASSUME NEW w \in Workers, LoanFails(w) PROVE Safe'
    <2>1. PICK b \in BOOLEAN : worker' = [worker EXCEPT ![w] = [NextLoan(w) EXCEPT !.broken = b]]
      BY <1>6 DEF LoanFails
    <2> QED BY <1>0, <1>6, <2>1, QuietStep DEF LoanFails, Rest, tables, TaskInv
  <1>7. ASSUME NEW w \in Workers, Retry(w) PROVE Safe'
    <2>1. worker[w].msg # <<>> /\ worker[w].msg \in Message
      BY <1>0, <1>7 DEF Retry, Done, Idle, TaskInv
    <2>2. [worker[w].msg EXCEPT !.try = @ + 1] \in Message
      BY <2>1 DEF Message
    <2>3. queue' \subseteq Message
      BY <1>0, <1>7, <2>2 DEF Retry, TaskInv
    <2> QED BY <1>7, <2>3, QuietStep DEF Retry, Ends, Rest, tables
  <1>8. ASSUME NEW w \in Workers, Crash(w) PROVE Safe'
    <2>1. worker[w].msg # <<>> /\ worker[w].msg \in Message
      BY <1>0, <1>8 DEF Crash, Idle, TaskInv
    <2>2. [worker[w].msg EXCEPT !.copy = @ + 1] \in Message
      BY <2>1 DEF Message
    <2>3. queue' \subseteq Message /\ Rest
      BY <1>0, <1>8, <2>2 DEF Crash, TaskInv, Rest, tables
    <2>4. CASE Ends(w)
      BY <2>3, <2>4, QuietStep DEF Ends
    <2>5. CASE UNCHANGED worker
      BY <2>3, <2>5, QueueStep
    <2> QED BY <1>8, <2>4, <2>5 DEF Crash
  <1>9. ASSUME NEW w \in Workers, Evaluate(w) PROVE Safe'
    <2> DEFINE l == Here(w).loan
               dpd == DaysPastDue(schedule[l], DayOf(w), Grace[l])
               due == PastDue(schedule[l], DayOf(w))
               miles == NewMilestones(PriorDpd(l, DayOf(w)), dpd)
               rec == Recommended(Here(w).status, dpd)
               res == [dpd |-> dpd, due |-> due, miles |-> miles, rec |-> rec]
    <2>1. l \in Loans /\ worker[w].todo # {}
      BY <1>0, <1>9, HereIsNext DEF Evaluate, Busy
    <2>2. DayOf(w) \in Nat
      BY <1>0, <1>9, NumbersOfLoansAndDays DEF Evaluate, Busy, Idle, DayOf, TaskInv, Message
    <2>3. dpd \in Nat
      <3>1. \A p \in schedule[l] : p.due \in Nat
        BY <1>0, <2>1 DEF ScheduleInv, Periods
      <3>2. Grace[l] \in 0..30
        BY <2>1, AgingAssumption
      <3> QED BY <2>2, <3>1, <3>2, AgeIsNat
    <2>4. ASSUME NEW m \in Milestones, dpd >= m PROVE notices[<<l, m>>] >= 1 \/ m \in miles
      <3>1. PriorDpd(l, DayOf(w)) \in Nat /\ (PriorDpd(l, DayOf(w)) >= m => notices[<<l, m>>] >= 1)
        BY <1>0, <2>1, <2>2, PriorIsNoticed
      <3> HIDE DEF l, dpd
      <3> QED BY <2>3, <2>4, <3>1, MilestonesAreNat DEF NewMilestones
    <2>5. miles \subseteq Milestones
      BY DEF NewMilestones
    <2>6. worker' = [worker EXCEPT ![w].result = res]
      BY <1>9 DEF Evaluate
    <2>7. UNCHANGED <<queue, records, notices>>
      BY <1>9 DEF Evaluate, tables
    <2> HIDE DEF l, dpd, due, miles, rec
    <2>8. res # <<>> /\ res.dpd = dpd /\ res.miles = miles
      OBVIOUS
    <2> HIDE DEF res
    <2>9. /\ IsTask(worker'[w]) /\ worker'[w].result = res
          /\ worker'[w].msg = worker[w].msg /\ worker'[w].todo = worker[w].todo
          /\ worker'[w].recs = worker[w].recs /\ worker'[w].miles = worker[w].miles
      BY <1>0, <2>6 DEF TaskInv, IsTask
    <2>10. \A u \in Workers \ {w} : worker'[u] = worker[u]
      BY <2>6
    <2>11. TaskInv'
      BY <1>0, <2>1, <2>3, <2>5, <2>6, <2>7, <2>8, <2>9, <2>10 DEF TaskInv
    <2>12. \A u \in Workers : Here(u)' = Here(u)
      BY <2>9, <2>10 DEF Here
    <2>13. \A u \in Workers : \A r \in worker'[u].recs : \A m \in Milestones :
              r.dpd >= m => Noticed(r.loan, m, worker[u].miles)'
      BY <1>0, <2>7, <2>9, <2>10 DEF Promise, Noticed
    <2>14. ASSUME NEW u \in Workers, worker'[u].result # <<>>, NEW m \in Milestones,
                  worker'[u].result.dpd >= m
           PROVE  notices'[<<Here(u)'.loan, m>>] >= 1 \/ m \in worker'[u].result.miles
      <3>1. CASE u = w
        BY <2>4, <2>7, <2>8, <2>9, <2>12, <2>14, <3>1 DEF l
      <3>2. CASE u # w
        BY <1>0, <2>7, <2>10, <2>12, <2>14, <3>2 DEF Promise
      <3> QED BY <3>1, <3>2
    <2> QED BY <2>7, <2>11, <2>13, <2>14, SafeSchedule DEF Rest
  <1>10. ASSUME NEW w \in Workers, Write(w) PROVE Safe'
    <2> DEFINE l == Here(w).loan
               res == worker[w].result
               new == [loan |-> l, day |-> DayOf(w), dpd |-> res.dpd, due |-> res.due]
               recs == worker[w].recs \cup (IF HasRecord(l, DayOf(w)) THEN {} ELSE {new})
               miles == worker[w].miles \cup {<<l, m>> : m \in res.miles}
    <2>1. l \in Loans /\ worker[w].todo # {} /\ res # <<>>
      BY <1>0, <1>10, HereIsNext DEF Write, Busy
    <2>2. DayOf(w) \in Nat
      BY <1>0, <1>10, NumbersOfLoansAndDays DEF Write, Busy, Idle, DayOf, TaskInv, Message
    <2>3. res.dpd \in Nat /\ res.miles \subseteq Milestones
      BY <1>0, <2>1 DEF TaskInv
    <2>4. new.loan = l /\ new.day = DayOf(w) /\ new.dpd = res.dpd
      OBVIOUS
    <2>5. \A m \in Milestones : res.dpd >= m => notices[<<l, m>>] >= 1 \/ m \in res.miles
      BY <1>0, <2>1 DEF Promise
    <2>6. PICK revs : worker' = [worker EXCEPT ![w] =
                                  [NextLoan(w) EXCEPT !.recs = recs, !.miles = miles, !.revs = revs]]
      <3>1. NextLoan(w).recs = worker[w].recs /\ NextLoan(w).miles = worker[w].miles
        BY <1>0, NextLoanTask
      <3> DEFINE known == \E v \in reviews \cup worker[w].revs : TitleNames(v, l, res.rec)
                 revs == NextLoan(w).revs \cup (IF res.rec = "none" \/ known THEN {}
                            ELSE {[loan |-> l, from |-> Here(w).status, to |-> res.rec]})
      <3>2. worker' = [worker EXCEPT ![w] =
                         [NextLoan(w) EXCEPT !.recs = recs, !.miles = miles, !.revs = revs]]
        BY <1>10, <3>1 DEF Write
      <3> QED BY <3>2
    <2> DEFINE x == [NextLoan(w) EXCEPT !.recs = recs, !.miles = miles, !.revs = revs]
    <2>7. recs \subseteq worker[w].recs \cup {new} /\ worker[w].miles \subseteq miles
      OBVIOUS
    <2>8. miles \subseteq Loans \X Milestones
      BY <1>0, <2>1, <2>3 DEF TaskInv
    <2>9. \A m \in res.miles : <<l, m>> \in miles
      OBVIOUS
    <2> HIDE DEF new, recs, miles, l, res
    <2>10. /\ IsTask(x) /\ x.recs = recs /\ x.miles = miles /\ x.msg = worker[w].msg
           /\ x.todo \subseteq worker[w].todo /\ x.result = <<>>
      <3> DEFINE n == NextLoan(w)
      <3>1. /\ n = [msg |-> n.msg, todo |-> n.todo, result |-> n.result, recs |-> n.recs,
                    miles |-> n.miles, revs |-> n.revs, broken |-> n.broken]
            /\ n.msg = worker[w].msg /\ n.todo = worker[w].todo \ {Here(w)} /\ n.result = <<>>
        BY <1>0, NextLoanTask DEF IsTask
      <3>2. x = [n EXCEPT !.recs = recs, !.miles = miles, !.revs = revs]
        OBVIOUS
      <3> HIDE DEF n, x
      <3>3. x = [msg |-> n.msg, todo |-> n.todo, result |-> n.result, recs |-> recs,
                 miles |-> miles, revs |-> revs, broken |-> n.broken]
        BY <3>1, <3>2
      <3> QED BY <3>1, <3>3 DEF IsTask
    <2>11. worker' = [worker EXCEPT ![w] = x]
      BY <2>6
    <2> HIDE DEF x
    <2>12. /\ x.msg # <<>> => x.msg \in Message
           /\ \A j \in x.todo : j.loan \in Loans
           /\ \A r \in x.recs : r.loan \in Loans /\ r.day \in Nat /\ r.dpd \in Nat
      BY <1>0, <2>1, <2>2, <2>3, <2>4, <2>7, <2>10 DEF TaskInv
    <2>13. \A r \in x.recs : \A m \in Milestones :
               r.dpd >= m => notices[<<r.loan, m>>] >= 1 \/ <<r.loan, m>> \in x.miles
      BY <1>0, <2>4, <2>5, <2>7, <2>9, <2>10 DEF Promise, Noticed
    <2>14. UNCHANGED <<queue, records, notices>>
      BY <1>10 DEF Write, tables
    <2>15. queue' \subseteq Message /\ notices' \in [Loans \X Milestones -> Nat]
           /\ \A k \in Loans \X Milestones : notices'[k] >= notices[k]
      BY <1>0, <2>14 DEF TypeInv, TaskInv
    <2> QED BY <1>0, <2>8, <2>10, <2>11, <2>12, <2>13, <2>14, <2>15, OthersKeep, SafeSchedule DEF Rest
  <1>11. ASSUME NEW w \in Workers, Commit(w) PROVE Safe'
    <2>1. CASE worker[w].broken
      BY <1>0, <1>11, <2>1, QuietStep DEF Commit, Ends, Rest, tables, TaskInv
    <2>2. CASE ~worker[w].broken
      <3>1. /\ records' = records \cup worker[w].recs
            /\ notices' = [k \in DOMAIN notices |-> notices[k] + IF k \in worker[w].miles THEN 1 ELSE 0]
            /\ worker' = [worker EXCEPT ![w] = Worker0] /\ queue' = queue
        BY <1>11, <2>2 DEF Commit, Ends
      <3>2. /\ notices' \in [Loans \X Milestones -> Nat]
            /\ \A k \in Loans \X Milestones :
                  notices'[k] >= notices[k] /\ (k \in worker[w].miles => notices'[k] >= 1)
        BY <1>0, <3>1 DEF TypeInv
      <3>3. queue' \subseteq Message
        BY <1>0, <3>1 DEF TaskInv
      <3>4. /\ TaskInv'
            /\ \A u \in Workers :
                 /\ \A r \in worker'[u].recs : \A m \in Milestones :
                       r.dpd >= m => Noticed(r.loan, m, worker[u].miles)'
                 /\ worker'[u].result # <<>> => \A m \in Milestones :
                       worker'[u].result.dpd >= m =>
                           \/ notices'[<<Here(u)'.loan, m>>] >= 1
                           \/ m \in worker'[u].result.miles
        <4> DEFINE x == Worker0
        <4>1. /\ IsTask(x) /\ x.result = <<>> /\ x.msg = <<>> /\ x.todo = {} /\ x.recs = {}
              /\ x.miles \subseteq Loans \X Milestones
          BY IdleTaskIsSafe
        <4>2. worker' = [worker EXCEPT ![w] = x]
          BY <3>1
        <4> HIDE DEF x
        <4> QED BY <1>0, <3>2, <3>3, <4>1, <4>2, OthersKeep
      <3>5. ASSUME NEW r \in records', NEW m \in Milestones, r.dpd >= m
            PROVE  notices'[<<r.loan, m>>] >= 1
        <4>1. r.loan \in Loans
          BY <1>0, <3>1 DEF TypeInv, TaskInv
        <4>2. notices[<<r.loan, m>>] >= 1 \/ <<r.loan, m>> \in worker[w].miles
          BY <1>0, <3>1, <3>5 DEF Promise, NoMilestoneMissed, Noticed
        <4>3. notices[<<r.loan, m>>] \in Nat /\ notices'[<<r.loan, m>>] \in Nat
          BY <1>0, <3>2, <4>1 DEF TypeInv
        <4> QED BY <3>2, <4>1, <4>2, <4>3
      <3>6. NoMilestoneMissed'
        BY <3>5 DEF NoMilestoneMissed
      <3>7. ScheduleInv'
        BY <1>0, ScheduleNext
      <3>8. \A r \in records' : r.loan \in Loans /\ r.day \in Nat /\ r.dpd \in Nat
        BY <1>0, <3>1 DEF TypeInv, TaskInv
      <3> QED BY <3>2, <3>4, <3>6, <3>7, <3>8 DEF Safe, TypeInv, Promise
    <2> QED BY <2>1, <2>2
  <1>12. CASE UNCHANGED vars
    BY <1>0, <1>1, <1>12 DEF vars, TaskInv
  <1> QED BY <1>2, <1>3, <1>4, <1>5, <1>6, <1>7, <1>8, <1>9, <1>10, <1>11, <1>12 DEF Next, TaskStep

LEMMA SafeInit == Init => Safe
  <1> SUFFICES ASSUME Init PROVE Safe
    OBVIOUS
  <1>1. ScheduleInv
    BY ScheduleInit
  <1>2. TaskInv
    BY IdleTaskIsSafe DEF Init, TaskInv
  <1>3. TypeInv
    BY <1>1, <1>2 DEF Init, TypeInv
  <1>4. Promise
    BY IdleTaskIsSafe DEF Init, Promise, NoMilestoneMissed
  <1> QED BY <1>3, <1>4 DEF Safe

\* A loan whose records reached a milestone has its notice, in whatever order
\* the nights are aged, repeated, overlapped, failed, retried or redelivered.
THEOREM NoticesAreKept == Spec => []NoMilestoneMissed
  <1>1. Safe => NoMilestoneMissed
    BY DEF Safe, Promise
  <1> QED BY <1>1, SafeInit, SafeNext, PTL DEF Spec

(***************************************************************************)
(* An aged loan owes something.                                            *)
(***************************************************************************)
Told(r) == r.dpd > 0 => r.due > 0
PeriodsDue(rows) == IsFiniteSet(rows) /\ \A p \in rows : p.amount = Amount
SchedulesDue == \A l \in Loans : PeriodsDue(schedule[l])
TaskTold(x) == (\A r \in x.recs : Told(r)) /\ (x.result # <<>> => Told(x.result))
AgesTold == SchedulesDue /\ AgeMatchesAmount /\ \A w \in Workers : TaskTold(worker[w])

LEMMA HalfIsPositive == Amount \in Nat \ {0} /\ Amount \div 2 \in Nat \ {0}
  BY AgingAssumption

\* What a day's overdue periods leave unpaid is the sum of positive amounts.
LEMMA AgedOwes ==
    ASSUME NEW rows, PeriodsDue(rows), NEW day \in Nat, NEW grace, DaysPastDue(rows, day, grace) > 0
    PROVE  PastDue(rows, day) > 0
  <1> DEFINE late == OverduePeriods(rows, day)
             f == [p \in late |-> Unpaid(p)]
  <1>1. late # {}
    <2>1. ~(0 > 0)
      OBVIOUS
    <2> QED BY <2>1 DEF DaysPastDue
  <1>2. late \subseteq rows
    BY DEF OverduePeriods
  <1>3. IsFiniteSet(late)
    BY <1>2, FS_Subset DEF PeriodsDue
  <1>4. \A p \in late : Unpaid(p) \in Nat \ {0}
    BY <1>2, HalfIsPositive DEF Unpaid, PeriodsDue
  <1>5. PastDue(rows, day) = SumFunction(f)
    BY DEF PastDue
  <1>6. DOMAIN f = late /\ \A p \in late : f[p] \in Nat \ {0}
    BY <1>4
  <1> HIDE DEF f, late
  <1>7. Summable(f) /\ \A p \in DOMAIN f : f[p] >= 0
    BY <1>3, <1>6 DEF Summable
  <1>8. PICK p \in DOMAIN f : f[p] \in Nat \ {0}
    BY <1>1, <1>6
  <1>9. SumFunction(f) >= f[p] /\ SumFunction(f) \in Int
    BY <1>7, SumNotNegative, SumIsInt
  <1> QED BY <1>5, <1>8, <1>9

LEMMA NewRowsAreDue ==
    ASSUME NEW l \in Loans, NEW g \in 1..Len(Plan[l]) PROVE PeriodsDue(NewRows(l, g))
  <1> DEFINE dues == Plan[l][g]
             row == [i \in DOMAIN dues |-> [num |-> i, due |-> dues[i], status |-> "open",
                       current |-> TRUE, amount |-> Amount, gen |-> g]]
  <1>1. dues \in Seq(Nat)
    <2>1. Plan[l] \in Seq(Seq(Nat))
      BY AgingAssumption
    <2> QED BY <2>1
  <1>2. IsFiniteSet(DOMAIN dues)
    <2> HIDE DEF dues
    <2>1. DOMAIN dues = 1..Len(dues) /\ Len(dues) \in Int
      BY <1>1
    <2> QED BY <2>1, FS_Interval
  <1>3. NewRows(l, g) = {row[i] : i \in DOMAIN dues} /\ \A i \in DOMAIN dues : row[i].amount = Amount
    BY DEF NewRows
  <1> HIDE DEF dues
  <1>4. DOMAIN row = DOMAIN dues
    OBVIOUS
  <1> HIDE DEF row
  <1>5. row \in Surjection(DOMAIN dues, NewRows(l, g))
    <2>1. row \in [DOMAIN dues -> NewRows(l, g)]
      <3>1. row = [i \in DOMAIN dues |-> row[i]]
        BY DEF row
      <3> QED BY <1>3, <3>1
    <2> QED BY <1>3, <2>1 DEF Surjection
  <1> QED BY <1>2, <1>3, <1>5, FS_Surjection DEF PeriodsDue

LEMMA SupersededAreDue ==
    ASSUME NEW rows \in SUBSET Periods, PeriodsDue(rows) PROVE PeriodsDue(Superseded(rows))
  <1> DEFINE open == Open(rows)
             retire == [p \in open |-> [p EXCEPT !.current = FALSE]]
             retired == {[p EXCEPT !.current = FALSE] : p \in open}
  <1>1. open \subseteq rows /\ rows \ open \subseteq rows
    BY DEF Open
  <1>2. IsFiniteSet(open) /\ IsFiniteSet(rows \ open)
    BY <1>1, FS_Subset DEF PeriodsDue
  <1>3. retire \in Surjection(open, retired)
    BY DEF Surjection
  <1>4. IsFiniteSet(retired)
    BY <1>2, <1>3, FS_Surjection
  <1>5. IsFiniteSet((rows \ open) \cup retired)
    BY <1>2, <1>4, FS_Union
  <1>6. \A p \in retired : p.amount = Amount
    <2>1. ASSUME NEW p \in open PROVE [p EXCEPT !.current = FALSE].amount = Amount
      BY <1>1 DEF PeriodsDue, Periods
    <2> QED BY <2>1
  <1> QED BY <1>1, <1>5, <1>6 DEF Superseded, PeriodsDue

LEMMA SchedulesDueNext == ScheduleInv /\ SchedulesDue /\ [Next]_vars => SchedulesDue'
  <1> SUFFICES ASSUME ScheduleInv, SchedulesDue, [Next]_vars PROVE SchedulesDue'
    OBVIOUS
  <1>1. ASSUME NEW l \in Loans, NEW rows, PeriodsDue(rows), schedule' = [schedule EXCEPT ![l] = rows]
        PROVE  SchedulesDue'
    BY <1>1 DEF SchedulesDue, PeriodsDue, ScheduleInv
  <1>2. ASSUME NEW l \in Loans, NEW p \in schedule[l], NEW new \in {"partial", "paid"}, PayPeriod(l, p, new)
        PROVE  SchedulesDue'
    <2> DEFINE q == [p EXCEPT !.status = new]
               rows == (schedule[l] \ {p}) \cup {q}
    <2>1. q.amount = Amount
      BY DEF ScheduleInv, SchedulesDue, PeriodsDue, Periods
    <2> HIDE DEF q
    <2>2. IsFiniteSet(rows)
      BY FS_RemoveElement, FS_AddElement DEF SchedulesDue, PeriodsDue
    <2>3. PeriodsDue(rows)
      BY <2>1, <2>2 DEF SchedulesDue, PeriodsDue
    <2>4. schedule' = [schedule EXCEPT ![l] = rows]
      BY <1>2 DEF PayPeriod, q
    <2> HIDE DEF rows
    <2> QED BY <1>1, <2>3, <2>4
  <1>3. ASSUME NEW l \in Loans, Modify(l) PROVE SchedulesDue'
    <2> DEFINE new == NewRows(l, Generation(l) + 1)
               old == Superseded(schedule[l])
    <2>1. Generation(l) + 1 \in 1..Len(Plan[l])
      <3>1. Len(Plan[l]) \in Nat
        <4>1. Plan[l] \in Seq(Seq(Nat))
          BY AgingAssumption
        <4> QED BY <4>1
      <3> QED BY <1>3, <3>1, GenerationOfPlan DEF Modify
    <2>2. PeriodsDue(new)
      BY <2>1, NewRowsAreDue
    <2>3. PeriodsDue(old)
      BY SupersededAreDue DEF ScheduleInv, SchedulesDue
    <2>4. schedule' = [schedule EXCEPT ![l] = old \cup new]
      BY <1>3 DEF Modify
    <2> HIDE DEF new, old
    <2>5. PeriodsDue(old \cup new)
      BY <2>2, <2>3, FS_Union DEF PeriodsDue
    <2> QED BY <1>1, <2>4, <2>5
  <1>4. CASE UNCHANGED schedule
    BY <1>4 DEF SchedulesDue
  <1>5. ASSUME NEW w \in Workers, \/ \E m \in queue : Start(w, m)
                                  \/ TaskStep(w) \/ LoanFails(w) \/ Retry(w) \/ Crash(w)
        PROVE  UNCHANGED schedule
    BY <1>5 DEF Start, TaskStep, SkipLoan, Evaluate, Write, Commit, LoanFails, Retry, Crash, env
  <1>6. CASE Next
    BY <1>2, <1>3, <1>4, <1>5, <1>6 DEF Next, Dispatch, ReviewStatus, env
  <1> QED BY <1>4, <1>6 DEF vars, env

\* One task moves on; the records are those there were and some of its own.
LEMMA TaskTells ==
    ASSUME Safe, AgesTold, SchedulesDue', NEW w \in Workers, NEW x, TaskTold(x),
           worker' = [worker EXCEPT ![w] = x], records' \subseteq records \cup worker[w].recs
    PROVE  AgesTold'
  <1>1. \A u \in Workers : worker'[u] = IF u = w THEN x ELSE worker[u]
    BY DEF Safe, TypeInv, TaskInv
  <1>2. \A u \in Workers : TaskTold(worker'[u])
    BY <1>1 DEF AgesTold
  <1>3. \A r \in records' : Told(r)
    BY DEF AgesTold, AgeMatchesAmount, TaskTold, Told
  <1> QED BY <1>2, <1>3 DEF AgesTold, AgeMatchesAmount, Told

LEMMA AgesToldNext == Safe /\ AgesTold /\ [Next]_vars => AgesTold'
  <1> SUFFICES ASSUME Safe, AgesTold, [Next]_vars PROVE AgesTold'
    OBVIOUS
  <1>0. TypeInv /\ TaskInv /\ ScheduleInv /\ SchedulesDue /\ \A w \in Workers : TaskTold(worker[w])
    BY DEF Safe, TypeInv, AgesTold
  <1>1. SchedulesDue'
    BY <1>0, SchedulesDueNext
  <1>2. CASE UNCHANGED <<records, worker>>
    BY <1>1, <1>2 DEF AgesTold, AgeMatchesAmount
  <1>3. TaskTold(Worker0)
    BY IdleTaskIsSafe DEF TaskTold
  <1>4. \A w \in Workers : \A b \in BOOLEAN :
           TaskTold(NextLoan(w)) /\ TaskTold([NextLoan(w) EXCEPT !.broken = b])
    BY <1>0, NextLoanTask DEF TaskTold, IsTask
  <1>5. ASSUME NEW l \in Loans,
               \/ \E p \in schedule[l], new \in {"partial", "paid"} : PayPeriod(l, p, new)
               \/ \E new \in DOMAIN Transitions : ReviewStatus(l, new)
               \/ Modify(l)
        PROVE  UNCHANGED <<records, worker>>
    BY <1>5 DEF PayPeriod, ReviewStatus, Modify, tables
  <1>6. ASSUME NEW w \in Workers, NEW m \in queue, Start(w, m) PROVE AgesTold'
    <2> DEFINE x == [Worker0 EXCEPT !.msg = m,
                       !.todo = {[loan |-> l, status |-> status[l]] : l \in Eligible}]
    <2>1. TaskTold(x)
      BY DEF TaskTold, Worker0
    <2>2. worker' = [worker EXCEPT ![w] = x] /\ UNCHANGED records
      BY <1>6 DEF Start, tables
    <2> HIDE DEF x
    <2> QED BY <1>1, <2>1, <2>2, TaskTells
  <1>7. ASSUME NEW w \in Workers, SkipLoan(w) PROVE AgesTold'
    BY <1>1, <1>4, <1>7, TaskTells DEF SkipLoan, tables
  <1>8. ASSUME NEW w \in Workers, LoanFails(w) PROVE AgesTold'
    <2>1. PICK b \in BOOLEAN : worker' = [worker EXCEPT ![w] = [NextLoan(w) EXCEPT !.broken = b]]
      BY <1>8 DEF LoanFails
    <2> QED BY <1>1, <1>4, <1>8, <2>1, TaskTells DEF LoanFails, tables
  <1>9. ASSUME NEW w \in Workers, Evaluate(w) PROVE AgesTold'
    <2> DEFINE l == Here(w).loan
               dpd == DaysPastDue(schedule[l], DayOf(w), Grace[l])
               due == PastDue(schedule[l], DayOf(w))
               miles == NewMilestones(PriorDpd(l, DayOf(w)), dpd)
               rec == Recommended(Here(w).status, dpd)
               res == [dpd |-> dpd, due |-> due, miles |-> miles, rec |-> rec]
               x == [worker[w] EXCEPT !.result = res]
    <2>1. l \in Loans
      BY <1>0, <1>9, HereIsNext DEF Evaluate, Busy
    <2>2. DayOf(w) \in Nat
      BY <1>0, <1>9, NumbersOfLoansAndDays DEF Evaluate, Busy, Idle, DayOf, TaskInv, Message
    <2>3. dpd > 0 => due > 0
      BY <1>0, <2>1, <2>2, AgedOwes DEF SchedulesDue
    <2>4. worker' = [worker EXCEPT ![w].result = res] /\ UNCHANGED records
      BY <1>9 DEF Evaluate, tables
    <2> HIDE DEF l, dpd, due, miles, rec
    <2>5. Told(res)
      BY <2>3 DEF Told
    <2> HIDE DEF res
    <2>6. x.result = res /\ x.recs = worker[w].recs
      BY <1>0 DEF TaskInv, IsTask
    <2>7. worker' = [worker EXCEPT ![w] = x]
      BY <2>4
    <2> HIDE DEF x
    <2>8. TaskTold(x)
      BY <1>0, <2>5, <2>6 DEF TaskTold
    <2> QED BY <1>1, <2>4, <2>7, <2>8, TaskTells
  <1>10. ASSUME NEW w \in Workers, Write(w) PROVE AgesTold'
    <2> DEFINE l == Here(w).loan
               res == worker[w].result
               new == [loan |-> l, day |-> DayOf(w), dpd |-> res.dpd, due |-> res.due]
               recs == worker[w].recs \cup (IF HasRecord(l, DayOf(w)) THEN {} ELSE {new})
               n == NextLoan(w)
    <2>1. Told(res)
      BY <1>0, <1>10 DEF Write, TaskTold
    <2>2. \A r \in recs : Told(r)
      BY <1>0, <2>1 DEF TaskTold, Told
    <2>3. n.recs = worker[w].recs /\ n.result = <<>> /\ IsTask(n)
      BY <1>0, NextLoanTask
    <2>4. PICK miles, revs : worker' = [worker EXCEPT ![w] =
                               [n EXCEPT !.recs = recs, !.miles = miles, !.revs = revs]]
      <3> DEFINE known == \E v \in reviews \cup worker[w].revs : TitleNames(v, l, res.rec)
                 miles == n.miles \cup {<<l, m>> : m \in res.miles}
                 revs == n.revs \cup (IF res.rec = "none" \/ known THEN {}
                            ELSE {[loan |-> l, from |-> Here(w).status, to |-> res.rec]})
      <3>1. worker' = [worker EXCEPT ![w] = [n EXCEPT !.recs = recs, !.miles = miles, !.revs = revs]]
        BY <1>10, <2>3 DEF Write
      <3> QED BY <3>1
    <2> DEFINE x == [n EXCEPT !.recs = recs, !.miles = miles, !.revs = revs]
    <2>5. worker' = [worker EXCEPT ![w] = x]
      BY <2>4
    <2> HIDE DEF recs, n, new, res, l
    <2>6. x.recs = recs /\ x.result = <<>>
      <3>1. n = [msg |-> n.msg, todo |-> n.todo, result |-> n.result, recs |-> n.recs,
                 miles |-> n.miles, revs |-> n.revs, broken |-> n.broken]
        BY <2>3 DEF IsTask
      <3>2. x = [n EXCEPT !.recs = recs, !.miles = miles, !.revs = revs]
        OBVIOUS
      <3> HIDE DEF x
      <3>3. x = [msg |-> n.msg, todo |-> n.todo, result |-> n.result, recs |-> recs,
                 miles |-> miles, revs |-> revs, broken |-> n.broken]
        BY <3>1, <3>2
      <3> QED BY <2>3, <3>3
    <2> HIDE DEF x
    <2>7. TaskTold(x)
      BY <2>2, <2>6 DEF TaskTold
    <2>8. UNCHANGED records
      BY <1>10 DEF Write, tables
    <2> QED BY <1>1, <2>5, <2>7, <2>8, TaskTells
  <1>11. ASSUME NEW w \in Workers, Commit(w) PROVE AgesTold'
    <2>1. records' \subseteq records \cup worker[w].recs /\ worker' = [worker EXCEPT ![w] = Worker0]
      BY <1>11 DEF Commit, Ends, tables
    <2> QED BY <1>1, <1>3, <2>1, TaskTells
  <1>12. ASSUME NEW w \in Workers, Retry(w) PROVE AgesTold'
    BY <1>1, <1>3, <1>12, TaskTells DEF Retry, Ends, tables
  <1>13. ASSUME NEW w \in Workers, Crash(w) PROVE AgesTold'
    <2>1. UNCHANGED records /\ (Ends(w) \/ UNCHANGED worker)
      BY <1>13 DEF Crash, tables
    <2> QED BY <1>1, <1>2, <1>3, <2>1, TaskTells DEF Ends
  <1>14. CASE UNCHANGED vars
    BY <1>2, <1>14 DEF vars, tables
  <1>15. ASSUME NEW d \in Days, Dispatch(d) PROVE AgesTold'
    BY <1>2, <1>15 DEF Dispatch, tables
  <1> QED BY <1>2, <1>5, <1>6, <1>7, <1>8, <1>9, <1>10, <1>11, <1>12, <1>13, <1>14, <1>15
          DEF Next, TaskStep

LEMMA AgesToldInit == Init => AgesTold
  <1> SUFFICES ASSUME Init PROVE AgesTold
    OBVIOUS
  <1>1. \A l \in Loans : 1 \in 1..Len(Plan[l])
    <2>1. \A l \in Loans : Plan[l] \in Seq(Seq(Nat)) /\ Len(Plan[l]) > 0
      BY AgingAssumption
    <2> QED BY <2>1
  <1>2. SchedulesDue
    BY <1>1, NewRowsAreDue DEF Init, SchedulesDue
  <1>3. \A w \in Workers : TaskTold(worker[w])
    BY IdleTaskIsSafe DEF Init, TaskTold
  <1> QED BY <1>2, <1>3 DEF Init, AgesTold, AgeMatchesAmount

\* A record that ages a loan names an amount it owes, though the schedule it was
\* computed from is paid, modified and regenerated between the reads of a task.
THEOREM AgesAreOwed == Spec => []AgeMatchesAmount
  <1>1. Safe /\ AgesTold => AgeMatchesAmount
    BY DEF AgesTold
  <1> QED BY <1>1, SafeInit, SafeNext, AgesToldInit, AgesToldNext, PTL DEF Spec
=============================================================================
