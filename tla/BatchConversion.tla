-------------------------- MODULE BatchConversion --------------------------
(***************************************************************************)
(* The intake of converted loans from a workbook: upload and validation,   *)
(* the commit request, and the Celery task that boards one loan per        *)
(* transaction.  A database transaction that reads and writes without      *)
(* waiting is one action; the commit request is two requests long          *)
(* (unlocked check, then the write it holds until its own commit).  Tasks  *)
(* are acknowledged late, so a worker that dies has its task delivered     *)
(* again from the start.                                                   *)
(***************************************************************************)
EXTENDS Integers, Sequences, FiniteSets

CONSTANTS Batches,      \* uploaded files
          File,         \* the rows of each file: [parties, loans]
          Portfolios,   \* portfolio codes of the tenant
          Requests,     \* requests to commit a batch
          Workers,      \* worker processes of the conversion queue
          Singles,      \* loans boarded one by one: [prior, number]
          None,         \* an empty cell
          MaxCrashes    \* bound on worker crashes

Cells == STRING \cup {None}

ASSUME BatchAssumption ==
    /\ None \notin Batches
    /\ \A b \in Batches :
         /\ File[b].loans \in Seq([portfolio : Cells, party : Cells, number : Nat, prior : Cells,
                                   asOf : BOOLEAN, valid : BOOLEAN])
         /\ File[b].parties \in Seq([ref : Cells, tax : Cells, named : BOOLEAN])
    /\ \A s \in Singles : s.number \in Nat /\ s.prior \in Cells

VARIABLES batch,     \* conversion_batch rows
          loans,     \* loans of the tenant in the order they were boarded
          parties,   \* counterparties: [id, tax]
          request,   \* the commit requests: [at, batch]
          queue,     \* deliveries waiting per batch
          worker,    \* the tasks being run
          crashes,   \* worker crashes so far
          unmarked   \* batches with a task whose failure was not written

vars == <<batch, loans, parties, request, queue, worker, crashes, unmarked>>

(***************************************************************************)
(* Parsing.  A row without an as-of date, or one its schema refuses, has   *)
(* no payload; a row without portfolio or borrower keeps its payload.      *)
(***************************************************************************)
Rows(b) == DOMAIN File[b].loans
HasPayload(row) == row.asOf /\ row.valid
ParseError(row) == row.portfolio = None \/ row.party = None \/ ~HasPayload(row)

PartyError(p) == p.ref = None \/ ~p.named
GoodParties(b) == {i \in DOMAIN File[b].parties : ~PartyError(File[b].parties[i])}
Party(b, i) == File[b].parties[i]

\* The row of the sheet that decides what a reference stands for is the last.
LastOf(b, ref) == CHOOSE i \in GoodParties(b) :
                    /\ Party(b, i).ref = ref
                    /\ \A j \in GoodParties(b) : Party(b, j).ref = ref => j <= i

Known(tax) == {p \in parties : tax # None /\ p.tax = tax}
PartyId(b, p) == IF Known(p.tax) # {} THEN (CHOOSE k \in Known(p.tax) : TRUE).id
                                      ELSE <<b, p.ref>>
Refs(b) == {Party(b, i).ref : i \in GoodParties(b)}
Resolution(b) == [ref \in Refs(b) |-> PartyId(b, Party(b, LastOf(b, ref)))]
Creates(b) == [i \in {j \in GoodParties(b) : Known(Party(b, j).tax) = {}} |->
                 [id |-> Resolution(b)[Party(b, i).ref], tax |-> Party(b, i).tax]]

(***************************************************************************)
(* Validation against the database and against the rows above.             *)
(***************************************************************************)
Imported(prior) == \E i \in DOMAIN loans : loans[i].prior = prior
SamePrior(r, q) == r.prior # None /\ r.prior = q.prior
SameNumber(r, q) == r.number # 0 /\ r.number = q.number
SeenAbove(b, i) ==
    \E j \in 1..(i - 1) :
        LET r == File[b].loans[i]
            q == File[b].loans[j]
        IN  HasPayload(q) /\ (SamePrior(r, q) \/ SameNumber(r, q))
RowError(b, i) ==
    LET row == File[b].loans[i]
    IN  \/ ParseError(row)
        \/ row.portfolio \notin Portfolios
        \/ row.party \notin Refs(b)
        \/ row.prior # None /\ Imported(row.prior)
        \/ SeenAbove(b, i)
Invalid(b) == {i \in Rows(b) : RowError(b, i)}

NoBatch == [status |-> "none", invalid |-> {}, creates |-> <<>>, map |-> <<>>,
            succeeded |-> 0, failed |-> 0, boarded |-> {}]
NoTask == [at |-> "idle", batch |-> None, saw |-> "none", missing |-> {}, todo |-> {},
           done |-> {}, bad |-> {}]

Init == /\ batch = [b \in Batches |-> NoBatch]
        /\ loans = <<>>
        /\ parties = {}
        /\ request = [r \in Requests |-> [at |-> "start", batch |-> None]]
        /\ queue = [b \in Batches |-> 0]
        /\ worker = [w \in Workers |-> NoTask]
        /\ crashes = 0 /\ unmarked = {}

\* parse_and_validate; two counterparties of one tax id make the query of
\* scalar_one_or_none fail, and with it the upload.
Upload(b) ==
    /\ batch[b].status = "none"
    /\ \A i \in GoodParties(b) : Cardinality(Known(Party(b, i).tax)) <= 1
    /\ batch' = [batch EXCEPT ![b] =
         [status |-> IF Invalid(b) # Rows(b) THEN "validated" ELSE "failed",
          invalid |-> Invalid(b), creates |-> Creates(b), map |-> Resolution(b),
          succeeded |-> 0, failed |-> Cardinality(Invalid(b)), boarded |-> {}]]
    /\ UNCHANGED <<loans, parties, request, queue, worker, crashes, unmarked>>

\* Some request has flushed, but not committed, the row of the batch.
Locked(b) == \E r \in Requests : request[r] = [at |-> "marked", batch |-> b]

RequestCommit(r, b) ==
    /\ request[r].at = "start"
    /\ batch[b].status = "validated"
    /\ request' = [request EXCEPT ![r] = [at |-> "checked", batch |-> b]]
    /\ UNCHANGED <<batch, loans, parties, queue, worker, crashes, unmarked>>

\* The request flushes 'committing' and hands the task to the broker before
\* its own transaction is committed.
Dispatch(r) ==
    LET b == request[r].batch
    IN  /\ request[r].at = "checked"
        /\ ~Locked(b)
        /\ request' = [request EXCEPT ![r].at = "marked"]
        /\ queue' = [queue EXCEPT ![b] = @ + 1]
        /\ UNCHANGED <<batch, loans, parties, worker, crashes, unmarked>>

RequestEnds(r) ==
    LET b == request[r].batch
    IN  /\ request[r].at = "marked"
        /\ request' = [request EXCEPT ![r].at = "end"]
        /\ \/ batch' = [batch EXCEPT ![b].status = "committing"]
           \/ UNCHANGED batch                      \* the commit fails
        /\ UNCHANGED <<loans, parties, queue, worker, crashes, unmarked>>

\* POST /loans boards a loan of its own, from another file or by hand.
Number(n) == IF n = 0 THEN Len(loans) + 1 ELSE n
\* Mutant: neither the check nor the index on the prior servicer's id.
ConflictOfNumber(prior, number) == \E i \in DOMAIN loans : loans[i].number = number
Conflict(prior, number) ==
    \E i \in DOMAIN loans : \/ prior # None /\ loans[i].prior = prior
                           \/ loans[i].number = number
BoardOne(s) ==
    /\ ~ Conflict(s.prior, Number(s.number))
    /\ loans' = Append(loans, [batch |-> None, row |-> 0, party |-> None, prior |-> s.prior,
                               number |-> Number(s.number)])
    /\ \A i \in DOMAIN loans : loans[i].batch # None           \* bound: one of them
    /\ UNCHANGED <<batch, parties, request, queue, worker, crashes, unmarked>>

(***************************************************************************)
(* The task.                                                               *)
(***************************************************************************)
Deliver(w, b) ==
    /\ worker[w].at = "idle" /\ queue[b] > 0
    /\ queue' = [queue EXCEPT ![b] = @ - 1]
    /\ worker' = [worker EXCEPT ![w] = [NoTask EXCEPT !.at = "load", !.batch = b]]
    /\ UNCHANGED <<batch, loans, parties, request, crashes, unmarked>>

\* Mutant: rows that validation refused are not skipped.
LoadAllRows(w) ==
    LET b == worker[w].batch
    IN  /\ worker[w].at = "load"
        /\ worker' = [worker EXCEPT ![w].saw = batch[b].status,
                        ![w].at = IF batch[b].status \in {"validated", "committing"} THEN "claim" ELSE "mark",
                        ![w].todo = {i \in Rows(b) : File[b].loans[i].party \in DOMAIN batch[b].map}]
        /\ UNCHANGED <<batch, loans, parties, request, queue, crashes, unmarked>>
Load(w) ==
    LET b == worker[w].batch
    IN  /\ worker[w].at = "load"
        /\ worker' = [worker EXCEPT ![w].saw = batch[b].status,
                        ![w].at = IF batch[b].status \in {"validated", "committing"} THEN "claim" ELSE "mark",
                        ![w].todo = Rows(b) \ batch[b].invalid]
        /\ UNCHANGED <<batch, loans, parties, request, queue, crashes, unmarked>>

\* The write of the status waits for the request that flushed it; a row that
\* was 'committing' already is not written.
Claim(w) ==
    LET b == worker[w].batch
    IN  /\ worker[w].at = "claim"
        /\ worker[w].saw = "validated" => ~Locked(b)
        /\ batch' = IF worker[w].saw = "validated" THEN [batch EXCEPT ![b].status = "committing"] ELSE batch
        /\ worker' = [worker EXCEPT ![w].at = "parties"]
        /\ UNCHANGED <<loans, parties, request, queue, crashes, unmarked>>

PartyIds == {p.id : p \in parties}
FindParties(w) ==
    LET creates == batch[worker[w].batch].creates
    IN  /\ worker[w].at = "parties"
        /\ worker' = [worker EXCEPT ![w].at = "insert",
                        ![w].missing = {i \in DOMAIN creates : creates[i].id \notin PartyIds}]
        /\ UNCHANGED <<batch, loans, parties, request, queue, crashes, unmarked>>

\* One insert of an id that exists by now, or of one id twice, fails the task.
InsertParties(w) ==
    LET creates == batch[worker[w].batch].creates
        new == {creates[i] : i \in worker[w].missing}
        fails == \/ \E p \in new : p.id \in PartyIds
                 \/ \E i, j \in worker[w].missing : i # j /\ creates[i].id = creates[j].id
    IN  /\ worker[w].at = "insert"
        /\ parties' = IF fails THEN parties ELSE parties \cup new
        /\ worker' = [worker EXCEPT ![w].at = IF fails THEN "mark" ELSE "rows"]
        /\ UNCHANGED <<batch, loans, request, queue, crashes, unmarked>>

NextRow(w) == CHOOSE i \in worker[w].todo : \A j \in worker[w].todo : i <= j

BoardRow(w) ==
    LET b == worker[w].batch
        i == NextRow(w)
        row == File[b].loans[i]
    IN  /\ worker[w].at = "rows" /\ worker[w].todo # {}
        /\ ~ Conflict(row.prior, Number(row.number))
        /\ loans' = Append(loans, [batch |-> b, row |-> i, party |-> batch[b].map[row.party],
                                   prior |-> row.prior, number |-> Number(row.number)])
        /\ worker' = [worker EXCEPT ![w].todo = @ \ {i}, ![w].done = @ \cup {i}]
        /\ UNCHANGED <<batch, parties, request, queue, crashes, unmarked>>

\* A conflict, or any other failure of the row's own transaction.
RowFails(w) ==
    /\ worker[w].at = "rows" /\ worker[w].todo # {}
    /\ worker' = [worker EXCEPT ![w].todo = @ \ {NextRow(w)}, ![w].bad = @ \cup {NextRow(w)}]
    /\ UNCHANGED <<batch, loans, parties, request, queue, crashes, unmarked>>

SmallerOf(x, y) == IF x <= y THEN x ELSE y
\* Mutant: only the rows that failed in the task.
FailedInTask(b, done, bad) == Cardinality(bad)
FailedRows(b, done, bad) ==
    SmallerOf(Len(File[b].loans) - Cardinality(done), Cardinality(batch[b].invalid) + Cardinality(bad))
Finish(w) ==
    LET b == worker[w].batch
    IN  /\ worker[w].at = "rows" /\ worker[w].todo = {}
        /\ ~Locked(b)
        /\ batch' = [batch EXCEPT ![b].status = "completed",
                                  ![b].boarded = worker[w].done,
                                  ![b].succeeded = Cardinality(worker[w].done),
                                  ![b].failed = FailedRows(b, worker[w].done, worker[w].bad)]
        /\ worker' = [worker EXCEPT ![w].at = "ack"]
        /\ UNCHANGED <<loans, parties, request, queue, crashes, unmarked>>

\* The database fails a statement or the commit outside of the rows' own
\* transactions, and the exception ends the task.
TaskRaises(w) ==
    /\ \/ worker[w].at \in {"load", "claim", "parties", "insert"}
       \/ worker[w].at = "rows" /\ worker[w].todo = {}
    /\ worker' = [worker EXCEPT ![w].at = "mark"]
    /\ UNCHANGED <<batch, loans, parties, request, queue, crashes, unmarked>>

\* Mutant: a task that raised is tried again.
RetryTask(w) ==
    /\ worker[w].at = "mark"
    /\ queue' = [queue EXCEPT ![worker[w].batch] = @ + 1]
    /\ worker' = [worker EXCEPT ![w] = NoTask]
    /\ UNCHANGED <<batch, loans, parties, request, crashes, unmarked>>
\* run_batch_commit: any exception marks the batch failed, whatever it was.  A
\* status read as failed is not written again, and a request that holds the row
\* then commits over it.
MarkFailed(w) ==
    LET b == worker[w].batch
    IN  /\ worker[w].at = "mark"
        /\ batch[b].status = "failed" \/ ~Locked(b)
        /\ batch' = [batch EXCEPT ![b].status = "failed"]
        /\ unmarked' = IF Locked(b) THEN unmarked \cup {b} ELSE unmarked
        /\ worker' = [worker EXCEPT ![w].at = "ack"]
        /\ UNCHANGED <<loans, parties, request, queue, crashes>>

\* The update of the status fails too; the exception is logged and dropped.
MarkFails(w) ==
    /\ worker[w].at = "mark"
    /\ unmarked' = unmarked \cup {worker[w].batch}
    /\ worker' = [worker EXCEPT ![w].at = "ack"]
    /\ UNCHANGED <<batch, loans, parties, request, queue, crashes>>

Acknowledge(w) ==
    /\ worker[w].at = "ack"
    /\ worker' = [worker EXCEPT ![w] = NoTask]
    /\ UNCHANGED <<batch, loans, parties, request, queue, crashes, unmarked>>

\* Mutant: a task is acknowledged when it is received.
CrashForgets(w) ==
    /\ worker[w].at # "idle" /\ crashes < MaxCrashes
    /\ worker' = [worker EXCEPT ![w] = NoTask]
    /\ crashes' = crashes + 1
    /\ UNCHANGED <<batch, loans, parties, request, queue, unmarked>>
Crash(w) ==
    /\ worker[w].at # "idle" /\ crashes < MaxCrashes
    /\ queue' = [queue EXCEPT ![worker[w].batch] = @ + 1]
    /\ worker' = [worker EXCEPT ![w] = NoTask]
    /\ crashes' = crashes + 1
    /\ UNCHANGED <<batch, loans, parties, request, unmarked>>

Working(w) == \/ Load(w) \/ Claim(w) \/ FindParties(w) \/ InsertParties(w)
              \/ BoardRow(w) \/ RowFails(w) \/ Finish(w) \/ MarkFailed(w) \/ Acknowledge(w)
TaskStep(w) == Working(w) \/ TaskRaises(w) \/ MarkFails(w)

Next == \/ \E b \in Batches : Upload(b)
        \/ \E r \in Requests : Dispatch(r) \/ RequestEnds(r) \/ \E b \in Batches : RequestCommit(r, b)
        \/ \E s \in Singles : BoardOne(s)
        \/ \E w \in Workers : TaskStep(w) \/ Crash(w) \/ \E b \in Batches : Deliver(w, b)

\* Users need not upload or commit anything; a request that began ends, and a
\* worker that is up serves its queue.
Fairness == /\ \A r \in Requests : WF_vars(Dispatch(r)) /\ WF_vars(RequestEnds(r))
            /\ \A w \in Workers : WF_vars(TaskStep(w))
            /\ WF_vars(\E w \in Workers, b \in Batches : Deliver(w, b))

Spec == Init /\ [][Next]_vars /\ Fairness

(***************************************************************************)
(* Properties                                                              *)
(***************************************************************************)
\* A batch whose task may have run twice: a worker died, or two requests were let
\* in to commit it.
Asking(b) == {r \in Requests : request[r].batch = b /\ request[r].at \in {"marked", "end"}}
Twice(b) == crashes > 0 \/ \E r, q \in Asking(b) : r # q

\* A row of a file becomes two loans only if its batch's task ran twice and the
\* row has neither a prior servicer's id nor a number of its own for the second
\* loan to collide with, whichever steps of the task fail.
RowsBoardedOnce ==
    \A i, j \in DOMAIN loans :
        loans[i].batch # None /\ loans[i].batch = loans[j].batch /\ loans[i].row = loans[j].row =>
            \/ i = j
            \/ /\ Twice(loans[i].batch)
               /\ LET row == File[loans[i].batch].loans[loans[i].row]
                  IN  row.prior = None /\ row.number = 0

\* No row that validation refused, and no row of a file nobody asked to
\* commit, ever becomes a loan, and a loan's borrower is a stored
\* counterparty: the task reads the report it was given, not the file.
OnlyValidatedRows ==
    \A i \in DOMAIN loans : loans[i].batch # None =>
        /\ loans[i].row \in Rows(loans[i].batch) \ batch[loans[i].batch].invalid
        /\ loans[i].party \in PartyIds
        /\ \E r \in Requests : request[r].batch = loans[i].batch /\ request[r].at \in {"marked", "end"}

\* The commit report never claims a loan that is not there, its counts add up to
\* the rows of the file, and it leaves out no loan of the batch, unless the task
\* ran twice: then it counts as failed what an earlier run boarded.
RowsOnLoan(b) == {loans[k].row : k \in {j \in DOMAIN loans : loans[j].batch = b}}
ReportAccounts ==
    \A b \in Batches :
        /\ batch[b].boarded \subseteq RowsOnLoan(b)
        /\ batch[b].status = "completed" =>
              /\ batch[b].succeeded + batch[b].failed = Len(File[b].loans)
              /\ Twice(b) \/ batch[b].boarded = RowsOnLoan(b)

Settled(b) == batch[b].status \in {"completed", "failed"}
\* However many workers die, the task of a batch in committing is delivered until
\* one ends it, or the failure of one could not be, or was not, written.
CommitSettles ==
    \A b \in Batches : (batch[b].status = "committing") ~> (Settled(b) \/ b \in unmarked)

\* What the task is to see to, so that the UI can show it: no batch stays in
\* committing.  It fails without the exception above.
NoneStuck == \A b \in Batches : (batch[b].status = "committing") ~> Settled(b)

\* What the endpoint promises: a second commit of a batch is refused.
CommittedOnce ==
    \A r, q \in Requests : request[r].at = "end" /\ request[q].at = "end"
                           /\ request[r].batch = request[q].batch => r = q
=============================================================================
