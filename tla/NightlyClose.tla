--------------------------- MODULE NightlyClose ---------------------------
(***************************************************************************)
(* The nightly accrual task of one tenant over all its loans, and the      *)
(* export of the journal to the fund accounting system, which reads the    *)
(* entries the task and the payment requests leave.  A task is one         *)
(* transaction that adds one unit of interest per loan and day.  An export *)
(* is one transaction around an upload and a delivery that no rollback     *)
(* takes back; nothing keeps two exports of a tenant apart.                *)
(***************************************************************************)
EXTENDS Integers, Sequences, FiniteSets

CONSTANTS Loans,        \* loans that accrue, all from day 1
          LastNight,    \* nights a task is dispatched for: 1..LastNight
          Payments,     \* payments that may be posted and reversed
          Workers, Channels,
          Order,        \* the order in which the database returns a worker the loans
          MaxRetries, MaxErrors, MaxExports

ASSUME CloseAssumption ==
    /\ IsFiniteSet(Loans)
    /\ LastNight \in Nat \ {0}
    /\ {MaxRetries, MaxErrors, MaxExports} \subseteq Nat
    /\ Channels \subseteq {"s3", "sftp"}
    /\ Order \in [Workers -> [Loans -> Nat]]
    /\ \A w \in Workers : \A j, k \in Loans : Order[w][j] = Order[w][k] => j = k

Nights == 1..LastNight
Exports == 1..MaxExports
EntryIds == [kind : {"accrual"}, loan : Loans, day : Nights]
            \cup [kind : {"payment", "reversal"}, of : Payments]

VARIABLES rows,         \* interest_accrual: <<loan, day>>
          interest,     \* accrued_interest of each loan, in days
          entries,      \* journal entries: [day, status, synced] of each id in use
          sent, queue, worker,       \* nights dispatched, messages, tasks
          export,       \* exports: [at, day, loaded]
          written,      \* exports whose file with an entry reached a channel
          errors        \* failures met, of tasks and of exports

accrualVars == <<rows, interest, sent, queue, worker>>
exportVars == <<export, written>>
vars == <<accrualVars, entries, exportVars, errors>>

\* new: days whose row and entry are flushed; raised: loans whose balance, of
\* those in loans, was raised in memory.
NoTask == [at |-> "idle", msg |-> <<>>, loans |-> <<>>, raised |-> {}, todo |-> {}, new |-> {},
           clean |-> TRUE, broken |-> FALSE]
NoExport == [at |-> "idle", day |-> 0, loaded |-> {}]

Init == /\ rows = {} /\ interest = [l \in Loans |-> 0]
        /\ entries = [i \in {} |-> <<>>]
        /\ sent = {} /\ queue = {}
        /\ worker = [w \in Workers |-> NoTask]
        /\ export = [x \in Exports |-> NoExport]
        /\ written = [c \in Channels |-> [i \in EntryIds |-> {}]]
        /\ errors = [task |-> 0, export |-> 0]

(***************************************************************************)
(* The accrual task.                                                       *)
(***************************************************************************)
MayFail == errors.task + errors.export < MaxErrors

Dispatch(d) ==
    /\ d \notin sent /\ \A e \in 1..(d - 1) : e \in sent
    /\ sent' = sent \cup {d}
    /\ queue' = queue \cup {[day |-> d, try |-> 0]}
    /\ UNCHANGED <<rows, interest, worker, entries, exportVars, errors>>

\* The loans, with their balances, are read in one statement, ...
ReadLoans(w, m) ==
    /\ worker[w].at = "idle" /\ m \in queue
    /\ queue' = queue \ {m}
    /\ worker' = [worker EXCEPT ![w] = [NoTask EXCEPT !.at = "loans", !.msg = m, !.loans = interest]]
    /\ UNCHANGED <<rows, interest, sent, entries, exportVars, errors>>

\* ... the last accrued days in a later one.
LastAccrual(l) == {r[2] : r \in {q \in rows : q[1] = l}}
\* Mutant: only the night's own day is accrued, there is no catching up.
OnlyTonight(l, day) == {day} \ LastAccrual(l)
MissingDates(l, day) == {d \in 1..day : \A e \in LastAccrual(l) : e < d}
ReadLast(w) ==
    /\ worker[w].at = "loans"
    /\ worker' = [worker EXCEPT ![w].at = "check",
                    ![w].todo = {k \in Loans \X Nights : k[2] \in MissingDates(k[1], worker[w].msg.day)}]
    /\ UNCHANGED <<rows, interest, sent, queue, entries, exportVars, errors>>

Before(order, j, k) == order[j[1]] < order[k[1]] \/ (j[1] = k[1] /\ j[2] <= k[2])
Job(w) == CHOOSE k \in worker[w].todo : \A j \in worker[w].todo : Before(Order[w], k, j)
Working(w, step) == worker[w].at = step /\ worker[w].todo # {}

\* A day that has its row by now is left alone.  After an error of the
\* database every loan's first statement fails.
Check(w) ==
    /\ Working(w, "check")
    /\ worker' = [worker EXCEPT
         ![w].at = IF worker[w].broken \/ Job(w) \in rows THEN "check" ELSE "insert",
         ![w].todo = IF worker[w].broken \/ Job(w) \in rows THEN @ \ {Job(w)} ELSE @]
    /\ UNCHANGED <<rows, interest, sent, queue, entries, exportVars, errors>>

\* The flush of the row waits for a task that holds its key, ...
KeyIsFree(w) == \A u \in Workers \ {w} : Job(w) \notin worker[u].new
LaterLoans(w) == {k \in worker[w].todo : k[1] # Job(w)[1]}

\* ... and fails when that task committed: the loan's later days are given up.
KeyTaken(w) ==
    /\ Working(w, "insert") /\ KeyIsFree(w) /\ Job(w) \in rows
    /\ worker' = [worker EXCEPT ![w].at = "check", ![w].broken = TRUE, ![w].clean = FALSE,
                    ![w].new = {}, ![w].todo = LaterLoans(w)]
    /\ UNCHANGED <<rows, interest, sent, queue, entries, exportVars, errors>>

\* The row and its entries are flushed, then the balance is raised in memory.
Insert(w) ==
    /\ Working(w, "insert") /\ KeyIsFree(w) /\ Job(w) \notin rows
    /\ worker' = [worker EXCEPT ![w].at = "check", ![w].todo = @ \ {Job(w)},
                    ![w].new = @ \cup {Job(w)}, ![w].clean = FALSE,
                    ![w].loans[Job(w)[1]] = @ + 1, ![w].raised = @ \cup {Job(w)[1]}]
    /\ UNCHANGED <<rows, interest, sent, queue, entries, exportVars, errors>>

\* Python raises in between, as for an account that is missing: the flushed row
\* and entry stay in the transaction, and the balance is not raised.
FailsHalfway(w) ==
    /\ Working(w, "insert") /\ KeyIsFree(w) /\ Job(w) \notin rows
    /\ MayFail /\ errors' = [errors EXCEPT !.task = @ + 1]
    /\ worker' = [worker EXCEPT ![w].at = "check", ![w].todo = LaterLoans(w),
                    ![w].new = @ \cup {Job(w)}, ![w].clean = FALSE]
    /\ UNCHANGED <<rows, interest, sent, queue, entries, exportVars>>

\* Two tasks that wait for each other's keys: the database ends one of them.
DeadlockDetected(w) ==
    /\ Working(w, "insert")
    /\ \E u \in Workers \ {w} : /\ Working(u, "insert")
                               /\ Job(w) \in worker[u].new /\ Job(u) \in worker[w].new
    /\ worker' = [worker EXCEPT ![w].at = "check", ![w].broken = TRUE, ![w].clean = FALSE,
                    ![w].new = {}, ![w].todo = LaterLoans(w)]
    /\ errors' = [errors EXCEPT !.task = @ + 1]
    /\ UNCHANGED <<rows, interest, sent, queue, entries, exportVars>>

\* Python raises before anything was written for the day, and the loan alone is
\* given up; or a statement fails, and the loop goes on with a transaction that
\* is of no more use (after a failing flush the session knows, else not).
LoanFails(w) ==
    /\ Working(w, "check") \/ Working(w, "insert")
    /\ ~worker[w].broken
    /\ MayFail /\ errors' = [errors EXCEPT !.task = @ + 1]
    /\ \E broken \in BOOLEAN, clean \in {worker[w].clean, worker[w].clean /\ worker[w].at = "check"} :
          worker' = [worker EXCEPT ![w].at = "check", ![w].broken = broken, ![w].clean = clean,
                        ![w].todo = LaterLoans(w)]
    /\ UNCHANGED <<rows, interest, sent, queue, entries, exportVars>>

\* The process dies: the transaction is rolled back, and the message, which is
\* acknowledged late, is delivered again, unless only its pool process died.
Crash(w) ==
    /\ worker[w].at # "idle"
    /\ MayFail /\ errors' = [errors EXCEPT !.task = @ + 1]
    /\ \E again \in {{}, {worker[w].msg}} : queue' = queue \cup again
    /\ worker' = [worker EXCEPT ![w] = NoTask]
    /\ UNCHANGED <<rows, interest, sent, entries, exportVars>>

Done(w) == worker[w].at = "check" /\ worker[w].todo = {}
Accrual(k) == [kind |-> "accrual", loan |-> k[1], day |-> k[2]]
Posted(day) == [day |-> day, status |-> "posted", synced |-> FALSE]
With(es, new) == [i \in DOMAIN es \cup DOMAIN new |-> IF i \in DOMAIN new THEN new[i] ELSE es[i]]

\* Rows, entries and the balances, as absolute values, become visible at once,
\* those of a day that failed halfway included.
Commit(w) ==
    /\ Done(w) /\ ~worker[w].broken
    /\ rows' = rows \cup worker[w].new
    /\ entries' = With(entries, [i \in {Accrual(k) : k \in worker[w].new} |-> Posted(i.day)])
    /\ interest' = [l \in Loans |-> IF l \in worker[w].raised THEN worker[w].loans[l] ELSE interest[l]]
    /\ worker' = [worker EXCEPT ![w] = NoTask]
    /\ UNCHANGED <<sent, queue, exportVars, errors>>

\* A broken transaction with something left to flush makes the commit fail and
\* the task is tried again; without, COMMIT rolls back and nobody hears of it.
GiveUp(w) ==
    LET m == worker[w].msg
    IN  /\ Done(w) /\ worker[w].broken
        /\ queue' = IF ~worker[w].clean /\ m.try < MaxRetries
                    THEN queue \cup {[m EXCEPT !.try = @ + 1]} ELSE queue
        /\ worker' = [worker EXCEPT ![w] = NoTask]
        /\ UNCHANGED <<rows, interest, sent, entries, exportVars, errors>>

(***************************************************************************)
(* Payments and their reversals, as far as the export sees them.           *)
(***************************************************************************)
Today == Cardinality(sent)
Pay(p) == [kind |-> "payment", of |-> p]
Reversal(p) == [kind |-> "reversal", of |-> p]

PostPayment(p) ==
    /\ sent # {} /\ Pay(p) \notin DOMAIN entries
    /\ entries' = With(entries, [i \in {Pay(p)} |-> Posted(Today)])
    /\ UNCHANGED <<accrualVars, exportVars, errors>>

\* Mutant: the entries of a reversed payment are taken for unsynced again.
ReverseUnsynced(p) ==
    /\ Pay(p) \in DOMAIN entries /\ entries[Pay(p)].status = "posted"
    /\ entries' = With([entries EXCEPT ![Pay(p)].synced = FALSE], [i \in {Reversal(p)} |-> Posted(Today)])
    /\ UNCHANGED <<accrualVars, exportVars, errors>>
ReversePayment(p) ==
    /\ Pay(p) \in DOMAIN entries /\ entries[Pay(p)].status = "posted"
    /\ entries' = With([entries EXCEPT ![Pay(p)].status = "reversed"], [i \in {Reversal(p)} |-> Posted(Today)])
    /\ UNCHANGED <<accrualVars, exportVars, errors>>

(***************************************************************************)
(* InvestranGLExporter.run                                                 *)
(***************************************************************************)
Unsynced(day) == {i \in DOMAIN entries : /\ entries[i].status = "posted"
                                         /\ ~entries[i].synced /\ entries[i].day <= day}
Running(x) == export[x].at \in {"upload", "mark"}

\* Mutant: entries marked by a run are loaded again on a later day.
LoadAll(x, day) ==
    LET all == {i \in DOMAIN entries : entries[i].status = "posted" /\ entries[i].day <= day}
    IN  /\ export[x].at = "idle" /\ \A y \in 1..(x - 1) : export[y].at # "idle"
        /\ all # {}
        /\ export' = [export EXCEPT ![x] = [at |-> "upload", day |-> day, loaded |-> all]]
        /\ UNCHANGED <<accrualVars, entries, written, errors>>
\* Whatever other exports are doing: there is no lock and no claim.
Load(x, day) ==
    /\ export[x].at = "idle" /\ \A y \in 1..(x - 1) : export[y].at # "idle"
    /\ Unsynced(day) # {}
    /\ export' = [export EXCEPT ![x] = [at |-> "upload", day |-> day, loaded |-> Unsynced(day)]]
    /\ UNCHANGED <<accrualVars, entries, written, errors>>

AlsoWritten(x, channels) ==
    [c \in Channels |-> [i \in EntryIds |->
        IF c \in channels /\ i \in export[x].loaded THEN written[c][i] \cup {x} ELSE written[c][i]]]

\* _upload_to_s3, then _deliver_via_sftp, each if it is configured.
Deliver(x) ==
    /\ export[x].at = "upload"
    /\ written' = AlsoWritten(x, Channels)
    /\ export' = [export EXCEPT ![x].at = "mark"]
    /\ UNCHANGED <<accrualVars, entries, errors>>

\* The entries that were loaded are marked by id, and the session commits.
\* Mutant: every entry of the day is marked, also one posted meanwhile.
MarkUpToDay(x) ==
    /\ export[x].at = "mark"
    /\ entries' = [i \in DOMAIN entries |->
                     [entries[i] EXCEPT !.synced = @ \/ entries[i].day <= export[x].day]]
    /\ export' = [export EXCEPT ![x].at = "done"]
    /\ UNCHANGED <<accrualVars, written, errors>>
MarkSynced(x) ==
    /\ export[x].at = "mark"
    /\ entries' = [i \in DOMAIN entries |->
                     [entries[i] EXCEPT !.synced = @ \/ i \in export[x].loaded]]
    /\ export' = [export EXCEPT ![x].at = "done"]
    /\ UNCHANGED <<accrualVars, written, errors>>

\* The upload, the delivery or the commit fails, or the process dies: what was
\* written stays, and the entries are not marked.
ExportFails(x) ==
    /\ Running(x)
    /\ MayFail /\ errors' = [errors EXCEPT !.export = @ + 1]
    /\ \E channels \in {{}, IF export[x].at = "upload" THEN {"s3"} ELSE {}} :
          written' = AlsoWritten(x, channels)
    /\ export' = [export EXCEPT ![x].at = "failed"]
    /\ UNCHANGED <<accrualVars, entries>>

TaskStep(w) == \/ ReadLast(w) \/ Check(w) \/ KeyTaken(w) \/ Insert(w)
               \/ DeadlockDetected(w) \/ Commit(w) \/ GiveUp(w)
TaskFails(w) == LoanFails(w) \/ FailsHalfway(w) \/ Crash(w)
ExportStep(x) == (\E d \in Nights : Load(x, d)) \/ Deliver(x) \/ MarkSynced(x) \/ ExportFails(x)
Next == \/ \E d \in Nights : Dispatch(d)
        \/ \E w \in Workers : TaskStep(w) \/ TaskFails(w) \/ \E m \in queue : ReadLoans(w, m)
        \/ \E p \in Payments : PostPayment(p) \/ ReversePayment(p)
        \/ \E x \in Exports : ExportStep(x)

\* The beat dispatches the accrual every night; nothing schedules the export.
Fairness == /\ WF_vars(\E d \in Nights : Dispatch(d))
            /\ WF_vars(\E w \in Workers, m \in queue : ReadLoans(w, m))
            /\ \A w \in Workers : WF_vars(TaskStep(w))
Spec == Init /\ [][Next]_vars /\ Fairness

(***************************************************************************)
(* Properties                                                              *)
(***************************************************************************)
\* However tasks overlap, fail halfway, crash and are tried again, a loan's days
\* are accrued without a hole, and its balance never holds more days than have a
\* row.  It may hold fewer: of two overlapping tasks the later commit decides.
AccruedInOrder ==
    \A l \in Loans : /\ \A k \in rows : k[1] = l => \A d \in 1..k[2] : <<l, d>> \in rows
                     /\ interest[l] <= Cardinality({k \in rows : k[1] = l})

\* An entry is marked as synced only after a file with it was written to every
\* channel that is configured, whatever is posted or reversed meanwhile and
\* whichever exports overlap.
SyncedIsWritten ==
    \A i \in DOMAIN entries : entries[i].synced => \A c \in Channels : written[c][i] # {}

\* What an export delivered and marked is not loaded again, though its payment
\* is reversed: an entry that reaches the fund accountants a second time comes
\* from an export that overlapped or followed one that failed.
FinishedIsFinal ==
    [][\A x \in Exports : export[x].at = "idle" /\ export'[x].at = "upload" =>
         \A i \in export'[x].loaded : \A c \in Channels : \A y \in written[c][i] : export[y].at # "done"]_vars

\* One failure, of a statement or of a process, costs no day its row: the next
\* night's task, or a retry, accrues what was left out.  (After more of them it
\* need not: the retries of a night also go on collisions with other nights.)
NightsCatchUp ==
    \A d \in 1..(LastNight - 1) : \A l \in Loans :
        (d + 1 \in sent) ~> (<<l, d>> \in rows \/ errors.task > 1)

\* Every entry reaches a channel at most once.  It fails: two exports that
\* overlap load and deliver the same entries, and neither fails.
DeliveredOnce ==
    errors.export = 0 => \A c \in Channels : \A i \in EntryIds : Cardinality(written[c][i]) <= 1

\* What the fund accountants received, once nothing waits to be exported,
\* nets to the journal: a reversal is exported if and only if its payment is.
ExportedNets ==
    (~(\E x \in Exports : Running(x)) /\ Unsynced(LastNight) = {}) =>
        \A c \in Channels : \A p \in Payments :
            written[c][Reversal(p)] # {} => written[c][Pay(p)] # {}
=============================================================================
