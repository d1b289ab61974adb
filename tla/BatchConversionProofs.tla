------------------------ MODULE BatchConversionProofs ------------------------
(***************************************************************************)
(* What becomes a loan when files are converted, for any files, requests,  *)
(* workers and crashes: each loan once, only validated rows of files that  *)
(* someone asked for, with a stored borrower; and the commit report says   *)
(* what was boarded.                                                       *)
(***************************************************************************)
EXTENDS BatchConversion, CommonLemmas

Ids == Batches \X Cells
PartyRows == [id : Ids, tax : Cells]
LoanRows == [batch : Batches \cup {None}, row : Nat, party : Ids \cup {None}, prior : Cells,
             number : Nat]
Statuses == {"none", "validated", "failed", "committing", "completed"}
BatchRows ==
  [status : Statuses, invalid : SUBSET Nat, creates : UNION {[I -> PartyRows] : I \in SUBSET Nat},
   map : UNION {[R -> Ids] : R \in SUBSET Cells}, succeeded : Nat, failed : Int, boarded : SUBSET Nat]
RequestRows == [at : {"start", "checked", "marked", "end"}, batch : Batches \cup {None}]
Tasks ==
  [at : {"idle", "load", "claim", "parties", "insert", "rows", "mark", "ack"},
   batch : Batches \cup {None}, saw : Statuses, missing : SUBSET Nat, todo : SUBSET Nat,
   done : SUBSET Nat, bad : SUBSET Nat]

WorldTypes ==
  /\ batch \in [Batches -> BatchRows] /\ loans \in Seq(LoanRows) /\ parties \in SUBSET PartyRows
  /\ request \in [Requests -> RequestRows]
TaskTypes == queue \in [Batches -> Nat] /\ worker \in [Workers -> Tasks]
TypeInv == WorldTypes /\ TaskTypes

(***************************************************************************)
(* What a task, a request or a loan may rely on is what is stored: v is    *)
(* the stored state, before or after a step.                               *)
(***************************************************************************)
World == [batch |-> batch, ids |-> PartyIds, loans |-> loans, request |-> request]

Asked(v, b) ==
  \E r \in Requests : v.request[r].batch = b /\ v.request[r].at \in {"marked", "end"}
Valid(v, b) == Rows(b) \ v.batch[b].invalid
Boarded(v, b, i) == \E k \in DOMAIN v.loans : v.loans[k].batch = b /\ v.loans[k].row = i

(* A report names, for each valid row, a counterparty that is stored or     *)
(* that the task is to create.                                              *)
ReportOK(v, b) ==
  v.batch[b].status # "none" =>
    /\ v.batch[b].invalid \subseteq Rows(b)
    /\ \A i \in Valid(v, b) : File[b].loans[i].party \in DOMAIN v.batch[b].map
    /\ \A ref \in DOMAIN v.batch[b].map :
         \/ v.batch[b].map[ref] \in v.ids
         \/ \E i \in DOMAIN v.batch[b].creates : v.batch[b].creates[i].id = v.batch[b].map[ref]
SettledOK(v, b) ==
  /\ \A i \in v.batch[b].boarded : Boarded(v, b, i)
  /\ v.batch[b].status = "completed" =>
       v.batch[b].succeeded + v.batch[b].failed = Len(File[b].loans)
RequestOK(v, q) == q.at # "start" => q.batch \in Batches /\ v.batch[q.batch].status # "none"
LoanOK(v, l) ==
  l.batch # None => /\ l.batch \in Batches /\ l.row \in Valid(v, l.batch)
                    /\ l.party \in v.ids /\ Asked(v, l.batch)
WorldOK(v) ==
  /\ \A b \in Batches : ReportOK(v, b) /\ SettledOK(v, b)
  /\ \A r \in Requests : RequestOK(v, v.request[r])
  /\ \A k \in DOMAIN v.loans : LoanOK(v, v.loans[k])

(* The valid rows are still to do, done or failed; what is done is boarded. *)
Partition(v, t) ==
  /\ t.todo \subseteq Valid(v, t.batch) /\ t.done \subseteq Valid(v, t.batch)
  /\ t.bad \subseteq Valid(v, t.batch)
  /\ \A i \in Valid(v, t.batch) :
       /\ i \in t.todo \/ i \in t.done \/ i \in t.bad
       /\ ~(i \in t.todo /\ i \in t.done) /\ ~(i \in t.todo /\ i \in t.bad)
       /\ ~(i \in t.done /\ i \in t.bad)
  /\ \A i \in t.done : Boarded(v, t.batch, i)
TaskOK(v, t) ==
  /\ t.at # "idle" => t.batch \in Batches /\ Asked(v, t.batch)
  /\ t.at \in {"claim", "parties", "insert", "rows"} => Partition(v, t)
  /\ t.at = "insert" =>
       /\ t.missing \subseteq DOMAIN v.batch[t.batch].creates
       /\ \A i \in DOMAIN v.batch[t.batch].creates :
            i \in t.missing \/ v.batch[t.batch].creates[i].id \in v.ids
  /\ t.at = "load" => t.done = {} /\ t.bad = {}
  /\ t.at = "rows" => \A i \in DOMAIN v.batch[t.batch].creates : v.batch[t.batch].creates[i].id \in v.ids
TasksOK(v, tasks) == \A w \in Workers : TaskOK(v, tasks[w])
QueuesOK(v, waiting) == \A b \in Batches : waiting[b] > 0 => Asked(v, b)

BatchInv == TypeInv /\ WorldOK(World) /\ TasksOK(World, worker) /\ QueuesOK(World, queue)

(* What a step never takes back: loans, counterparties, requests and, of a  *)
(* report, everything but its status and counts.                            *)
Grows(v, u) ==
  /\ v.ids \subseteq u.ids
  /\ \A b \in Batches : Asked(v, b) => Asked(u, b)
  /\ \A b \in Batches : \A i \in Nat : Boarded(v, b, i) => Boarded(u, b, i)
  /\ \A b \in Batches : v.batch[b].status # "none" =>
       /\ u.batch[b].status # "none" /\ u.batch[b].invalid = v.batch[b].invalid
       /\ u.batch[b].creates = v.batch[b].creates /\ u.batch[b].map = v.batch[b].map

LEMMA RowsOfFile ==
  ASSUME NEW b \in Batches
  PROVE  /\ Rows(b) = 1 .. Len(File[b].loans) /\ Len(File[b].loans) \in Nat
         /\ \A i \in Rows(b) : /\ File[b].loans[i].party \in Cells /\ File[b].loans[i].prior \in Cells
                               /\ File[b].loans[i].number \in Nat
<1>. DEFINE rowsOf == File[b].loans
            Kinds == [portfolio : Cells, party : Cells, number : Nat, prior : Cells,
                      asOf : BOOLEAN, valid : BOOLEAN]
<1>1. rowsOf \in Seq(Kinds)
  BY BatchAssumption
<1>2. DOMAIN rowsOf = 1 .. Len(rowsOf) /\ Len(rowsOf) \in Nat /\ \A i \in DOMAIN rowsOf : rowsOf[i] \in Kinds
  <2>. HIDE DEF rowsOf, Kinds
  <2>. QED
    BY <1>1
<1>3. \A l \in Kinds : l.party \in Cells /\ l.prior \in Cells /\ l.number \in Nat
  OBVIOUS
<1>. HIDE DEF Kinds
<1>. QED
  BY <1>2, <1>3 DEF Rows

LEMMA AskedForReport ==
  ASSUME NEW v, WorldOK(v), NEW b \in Batches, Asked(v, b)
  PROVE  v.batch[b].status # "none"
  BY DEF WorldOK, RequestOK, Asked

(* A task that does not move keeps what it relies on.                       *)
LEMMA TaskStays ==
  ASSUME NEW v, NEW u, WorldOK(v), Grows(v, u), NEW t \in Tasks, TaskOK(v, t)
  PROVE  TaskOK(u, t)
<1>1. CASE t.at = "idle"
  BY <1>1 DEF TaskOK
<1>2. CASE t.at # "idle"
  <2>1. /\ t.batch \in Batches /\ Asked(v, t.batch) /\ Asked(u, t.batch)
        /\ v.batch[t.batch].status # "none"
    BY <1>2, AskedForReport DEF TaskOK, Grows
  <2>2. /\ u.batch[t.batch].invalid = v.batch[t.batch].invalid
        /\ u.batch[t.batch].creates = v.batch[t.batch].creates /\ v.ids \subseteq u.ids
        /\ \A i \in Nat : Boarded(v, t.batch, i) => Boarded(u, t.batch, i)
    BY <2>1 DEF Grows
  <2>3. t.done \subseteq Nat
    BY DEF Tasks
  <2>4. Partition(v, t) => Partition(u, t)
    BY <2>2, <2>3 DEF Partition, Valid
  <2>. QED
    BY <2>1, <2>2, <2>4 DEF TaskOK
<1>. QED
  BY <1>1, <1>2

LEMMA TasksStay ==
  ASSUME NEW v, NEW u, WorldOK(v), Grows(v, u), NEW tasks \in [Workers -> Tasks], TasksOK(v, tasks)
  PROVE  TasksOK(u, tasks)
  BY TaskStays DEF TasksOK

LEMMA LoanStays ==
  ASSUME NEW v, NEW u, WorldOK(v), Grows(v, u), NEW l, LoanOK(v, l)
  PROVE  LoanOK(u, l)
  BY AskedForReport DEF LoanOK, Grows, Valid

LEMMA RequestStays ==
  ASSUME NEW v, NEW u, Grows(v, u), NEW q, RequestOK(v, q)
  PROVE  RequestOK(u, q)
  BY DEF RequestOK, Grows

LEMMA ReportStays ==
  ASSUME NEW v, NEW u, Grows(v, u), NEW b \in Batches, ReportOK(v, b), v.batch[b].status # "none"
  PROVE  ReportOK(u, b)
  BY DEF ReportOK, Grows, Valid

LEMMA QueuesStay ==
  ASSUME NEW v, NEW u, Grows(v, u), NEW waiting, QueuesOK(v, waiting)
  PROVE  QueuesOK(u, waiting)
  BY DEF QueuesOK, Grows

LEMMA GrowsToSame == ASSUME NEW v PROVE Grows(v, v)
  BY DEF Grows

(***************************************************************************)
(* Steps by what they write.                                               *)
(***************************************************************************)
LEMMA WorldFields ==
  /\ World.batch = batch /\ World.ids = PartyIds /\ World.loans = loans /\ World.request = request
  /\ World'.batch = batch' /\ World'.ids = PartyIds' /\ World'.loans = loans'
  /\ World'.request = request'
  BY DEF World

(* The world moves on and so does one task, or none.                        *)
LEMMA OneTask ==
  ASSUME BatchInv, WorldTypes', WorldOK(World'), Grows(World, World'),
         NEW w \in Workers, NEW t \in Tasks, worker' = [worker EXCEPT ![w] = t], TaskOK(World', t),
         queue' \in [Batches -> Nat], QueuesOK(World', queue')
  PROVE  BatchInv'
<1>1. worker \in [Workers -> Tasks] /\ WorldOK(World) /\ TasksOK(World, worker)
  BY DEF BatchInv, TypeInv, TaskTypes
<1>2. TasksOK(World', worker)
  BY <1>1, TasksStay
<1>3. worker' \in [Workers -> Tasks]
  BY <1>1
<1>4. TasksOK(World', worker')
  BY <1>1, <1>2 DEF TasksOK
<1>. QED
  BY <1>3, <1>4 DEF BatchInv, TypeInv, TaskTypes

LEMMA NoTaskMoves ==
  ASSUME BatchInv, WorldTypes', WorldOK(World'), Grows(World, World'), worker' = worker,
         queue' \in [Batches -> Nat], QueuesOK(World', queue')
  PROVE  BatchInv'
<1>1. worker \in [Workers -> Tasks] /\ WorldOK(World) /\ TasksOK(World, worker)
  BY DEF BatchInv, TypeInv, TaskTypes
<1>2. TasksOK(World', worker)
  BY <1>1, TasksStay
<1>3. worker' \in [Workers -> Tasks] /\ TasksOK(World', worker')
  BY <1>1, <1>2
<1>. QED
  BY <1>3 DEF BatchInv, TypeInv, TaskTypes

LEMMA QuietTask ==
  ASSUME BatchInv, UNCHANGED <<batch, loans, parties, request>>,
         NEW w \in Workers, NEW t \in Tasks, worker' = [worker EXCEPT ![w] = t], TaskOK(World, t),
         queue' \in [Batches -> Nat], QueuesOK(World, queue')
  PROVE  BatchInv'
<1>1. World' = World
  BY DEF World, PartyIds
<1>2. WorldTypes' /\ WorldOK(World') /\ TaskOK(World', t) /\ QueuesOK(World', queue')
  BY <1>1 DEF BatchInv, TypeInv, WorldTypes
<1>3. Grows(World, World')
  BY <1>1, GrowsToSame
<1>. QED
  BY <1>2, <1>3, OneTask

(* The row of a batch is written, its report kept; a request may end.       *)
LEMMA BatchWritten ==
  ASSUME BatchInv, UNCHANGED <<loans, parties>>,
         NEW b \in Batches, batch[b].status # "none", NEW x \in BatchRows, x.status # "none",
         x.invalid = batch[b].invalid, x.creates = batch[b].creates, x.map = batch[b].map,
         batch' = [batch EXCEPT ![b] = x],
         \A i \in x.boarded : Boarded(World, b, i),
         x.status = "completed" => x.succeeded + x.failed = Len(File[b].loans),
         request' \in [Requests -> RequestRows],
         \A r \in Requests : \/ request'[r] = request[r]
                             \/ /\ request'[r].batch = request[r].batch
                                /\ request[r].at = "marked" /\ request'[r].at = "end"
  PROVE  WorldTypes' /\ WorldOK(World') /\ Grows(World, World')
<1>1. /\ batch \in [Batches -> BatchRows] /\ WorldTypes /\ WorldOK(World)
  BY DEF BatchInv, TypeInv, WorldTypes
<1>2. WorldTypes'
  BY <1>1 DEF WorldTypes
<1>3. /\ \A c \in Batches \ {b} : batch'[c] = batch[c]
      /\ batch'[b] = x
  BY <1>1
<1>4. PartyIds' = PartyIds /\ loans' = loans
  BY DEF PartyIds
<1>5. \A c \in Batches : Asked(World, c) => Asked(World', c)
  BY WorldFields DEF Asked
<1>6. \A c \in Batches : \A i : Boarded(World', c, i) <=> Boarded(World, c, i)
  BY <1>4, WorldFields DEF Boarded
<1>7. Grows(World, World')
  BY <1>3, <1>4, <1>5, <1>6, WorldFields DEF Grows
<1>8. \A c \in Batches : ReportOK(World', c)
  <2>1. ASSUME NEW c \in Batches, batch[c].status # "none" PROVE ReportOK(World', c)
    BY <1>1, <1>7, <2>1, ReportStays, WorldFields DEF WorldOK
  <2>2. ASSUME NEW c \in Batches, batch[c].status = "none" PROVE ReportOK(World', c)
    BY <1>3, <2>2, WorldFields DEF ReportOK
  <2>. QED
    BY <2>1, <2>2
<1>9. \A c \in Batches : SettledOK(World', c)
  <2>1. ASSUME NEW c \in Batches \ {b} PROVE SettledOK(World', c)
    <3>1. SettledOK(World, c)
      BY <1>1 DEF WorldOK
    <3>. QED
      BY <1>3, <1>6, <3>1, WorldFields DEF SettledOK
  <2>2. SettledOK(World', b)
    BY <1>3, <1>6, WorldFields DEF SettledOK
  <2>. QED
    BY <2>1, <2>2
<1>10. \A r \in Requests : RequestOK(World', request'[r])
  <2>1. ASSUME NEW r \in Requests PROVE RequestOK(World', request'[r])
    <3>1. RequestOK(World, request[r])
      BY <1>1, WorldFields DEF WorldOK
    <3>2. RequestOK(World', request[r])
      BY <1>7, <3>1, RequestStays
    <3>. QED
      BY <3>2 DEF RequestOK
  <2>. QED
    BY <2>1
<1>11. \A k \in DOMAIN loans' : LoanOK(World', loans'[k])
  <2>1. ASSUME NEW k \in DOMAIN loans PROVE LoanOK(World', loans[k])
    <3>1. LoanOK(World, loans[k])
      BY <1>1, WorldFields DEF WorldOK
    <3>. QED
      BY <1>1, <1>7, <3>1, LoanStays
  <2>. QED
    BY <1>4, <2>1
<1>12. WorldOK(World')
  BY <1>8, <1>9, <1>10, <1>11, WorldFields DEF WorldOK
<1>. QED
  BY <1>2, <1>7, <1>12

(* A loan is appended or counterparties are stored.                         *)
LEMMA TableWritten ==
  ASSUME BatchInv, UNCHANGED <<batch, request>>, WorldTypes', PartyIds \subseteq PartyIds',
         loans' = loans \/ (\E l : loans' = Append(loans, l) /\ LoanOK(World, l))
  PROVE  WorldOK(World') /\ Grows(World, World')
<1>1. WorldTypes /\ WorldOK(World) /\ loans \in Seq(LoanRows)
  BY DEF BatchInv, TypeInv, WorldTypes
<1>2. DOMAIN loans \subseteq DOMAIN loans' /\ \A k \in DOMAIN loans : loans'[k] = loans[k]
  BY <1>1
<1>3. \A c \in Batches : Asked(World, c) <=> Asked(World', c)
  BY WorldFields DEF Asked
<1>4. \A c \in Batches : \A i : Boarded(World, c, i) => Boarded(World', c, i)
  BY <1>2, WorldFields DEF Boarded
<1>5. Grows(World, World')
  BY <1>3, <1>4, WorldFields DEF Grows
<1>6. \A c \in Batches : ReportOK(World', c)
  <2>1. ASSUME NEW c \in Batches, batch[c].status # "none" PROVE ReportOK(World', c)
    BY <1>1, <1>5, <2>1, ReportStays, WorldFields DEF WorldOK
  <2>2. ASSUME NEW c \in Batches, batch[c].status = "none" PROVE ReportOK(World', c)
    BY <2>2, WorldFields DEF ReportOK
  <2>. QED
    BY <2>1, <2>2
<1>7. \A c \in Batches : SettledOK(World', c)
  <2>1. ASSUME NEW c \in Batches PROVE SettledOK(World', c)
    <3>1. SettledOK(World, c)
      BY <1>1 DEF WorldOK
    <3>. QED
      BY <1>4, <3>1, WorldFields DEF SettledOK
  <2>. QED
    BY <2>1
<1>8. \A r \in Requests : RequestOK(World', request'[r])
  BY <1>1, <1>5, RequestStays, WorldFields DEF WorldOK
<1>9. ASSUME NEW k \in DOMAIN loans' PROVE LoanOK(World', loans'[k])
  <2>1. CASE k \in DOMAIN loans
    <3>1. LoanOK(World, loans[k])
      BY <1>1, <2>1, WorldFields DEF WorldOK
    <3>. QED
      BY <1>1, <1>2, <1>5, <2>1, <3>1, LoanStays
  <2>2. CASE k \notin DOMAIN loans
    <3>1. PICK l : loans' = Append(loans, l) /\ LoanOK(World, l)
      BY <2>2
    <3>2. loans'[k] = l
      BY <1>1, <2>2, <3>1
    <3>. QED
      BY <1>1, <1>5, <3>1, <3>2, LoanStays
  <2>. QED
    BY <2>1, <2>2
<1>10. WorldOK(World')
  BY <1>6, <1>7, <1>8, <1>9, WorldFields DEF WorldOK
<1>. QED
  BY <1>5, <1>10

(***************************************************************************)
(* The upload.                                                             *)
(***************************************************************************)
LEMMA PartiesOfFile ==
  ASSUME NEW b \in Batches
  PROVE  /\ GoodParties(b) \subseteq 1 .. Len(File[b].parties) /\ Len(File[b].parties) \in Nat
         /\ \A i \in GoodParties(b) : Party(b, i).ref \in Cells /\ Party(b, i).tax \in Cells
<1>. DEFINE sheet == File[b].parties
            Kinds == [ref : Cells, tax : Cells, named : BOOLEAN]
<1>1. sheet \in Seq(Kinds)
  BY BatchAssumption
<1>2. DOMAIN sheet = 1 .. Len(sheet) /\ Len(sheet) \in Nat /\ \A i \in DOMAIN sheet : sheet[i] \in Kinds
  <2>. HIDE DEF sheet, Kinds
  <2>. QED
    BY <1>1
<1>3. \A l \in Kinds : l.ref \in Cells /\ l.tax \in Cells
  OBVIOUS
<1>. HIDE DEF Kinds
<1>. QED
  BY <1>2, <1>3 DEF GoodParties, Party

LEMMA LastIsRow ==
  ASSUME NEW b \in Batches, NEW ref \in Refs(b)
  PROVE  LastOf(b, ref) \in GoodParties(b) /\ Party(b, LastOf(b, ref)).ref = ref
<1>. DEFINE named == {i \in GoodParties(b) : Party(b, i).ref = ref}
            n == Len(File[b].parties)
<1>1. named \in SUBSET Nat /\ n \in Nat /\ \A i \in named : i <= n
  BY PartiesOfFile
<1>2. named # {}
  BY DEF Refs
<1>3. PICK i \in named : \A j \in named : j <= i
  <2>. HIDE DEF named, n
  <2>. QED
    BY <1>1, <1>2, GreatestExists
<1>4. \E k \in GoodParties(b) :
        /\ Party(b, k).ref = ref
        /\ \A j \in GoodParties(b) : Party(b, j).ref = ref => j <= k
  BY <1>3
<1>. QED
  BY <1>4 DEF LastOf

LEMMA ReportTypes ==
  ASSUME WorldTypes, NEW b \in Batches
  PROVE  /\ Resolution(b) \in UNION {[R -> Ids] : R \in SUBSET Cells}
         /\ Creates(b) \in UNION {[I -> PartyRows] : I \in SUBSET Nat}
         /\ DOMAIN Resolution(b) = Refs(b)
         /\ \A ref \in Refs(b) : Resolution(b)[ref] \in Ids
<1>1. Refs(b) \in SUBSET Cells
  BY PartiesOfFile DEF Refs
<1>2. ASSUME NEW ref \in Refs(b) PROVE PartyId(b, Party(b, LastOf(b, ref))) \in Ids
  <2>. DEFINE p == Party(b, LastOf(b, ref))
  <2>1. p.ref \in Cells /\ p.tax \in Cells
    BY LastIsRow, PartiesOfFile
  <2>. HIDE DEF p
  <2>2. CASE Known(p.tax) # {}
    <3>1. (CHOOSE k \in Known(p.tax) : TRUE) \in PartyRows
      BY <2>2 DEF Known, WorldTypes
    <3>2. \A k \in PartyRows : k.id \in Ids
      BY DEF PartyRows
    <3>. QED
      BY <2>2, <3>1, <3>2 DEF PartyId, p
  <2>3. CASE Known(p.tax) = {}
    BY <2>1, <2>3 DEF PartyId, p, Ids
  <2>. QED
    BY <2>2, <2>3
<1>3. Resolution(b) \in [Refs(b) -> Ids]
  BY <1>2 DEF Resolution
<1>. DEFINE fresh == {j \in GoodParties(b) : Known(Party(b, j).tax) = {}}
<1>4. fresh \in SUBSET Nat
  BY PartiesOfFile
<1>5. \A i \in fresh : Resolution(b)[Party(b, i).ref] \in Ids /\ Party(b, i).tax \in Cells
  BY <1>3, PartiesOfFile DEF Refs
<1>6. Creates(b) \in [fresh -> PartyRows]
  BY <1>5 DEF Creates, PartyRows
<1>. QED
  BY <1>1, <1>3, <1>4, <1>6

(* What a reference of the file stands for is stored or is to be created.   *)
LEMMA RefsAreKnown ==
  ASSUME WorldTypes, NEW b \in Batches, NEW ref \in Refs(b)
  PROVE  \/ Resolution(b)[ref] \in PartyIds
         \/ \E i \in DOMAIN Creates(b) : Creates(b)[i].id = Resolution(b)[ref]
<1>. DEFINE i == LastOf(b, ref)
<1>1. i \in GoodParties(b) /\ Party(b, i).ref = ref
  BY LastIsRow
<1>2. Resolution(b)[ref] = PartyId(b, Party(b, i))
  BY DEF Resolution
<1>3. CASE Known(Party(b, i).tax) # {}
  <2>1. (CHOOSE k \in Known(Party(b, i).tax) : TRUE) \in parties
    BY <1>3 DEF Known
  <2>. QED
    BY <1>2, <1>3, <2>1 DEF PartyId, PartyIds
<1>4. CASE Known(Party(b, i).tax) = {}
  <2>. HIDE DEF i
  <2>1. i \in DOMAIN Creates(b)
    BY <1>1, <1>4 DEF Creates
  <2>2. Creates(b)[i].id = Resolution(b)[Party(b, i).ref]
    BY <1>1, <1>4 DEF Creates
  <2>. QED
    BY <1>1, <2>1, <2>2
<1>. QED
  BY <1>3, <1>4

LEMMA UploadOK ==
  ASSUME BatchInv, NEW b \in Batches, Upload(b)
  PROVE  BatchInv'
<1>1. /\ batch \in [Batches -> BatchRows] /\ WorldTypes /\ WorldOK(World)
      /\ queue \in [Batches -> Nat] /\ QueuesOK(World, queue)
  BY DEF BatchInv, TypeInv, WorldTypes, TaskTypes
<1>. DEFINE x == [status |-> IF Invalid(b) # Rows(b) THEN "validated" ELSE "failed",
                  invalid |-> Invalid(b), creates |-> Creates(b), map |-> Resolution(b),
                  succeeded |-> 0, failed |-> Cardinality(Invalid(b)), boarded |-> {}]
<1>2. /\ batch[b].status = "none" /\ batch' = [batch EXCEPT ![b] = x]
      /\ loans' = loans /\ parties' = parties /\ request' = request
      /\ queue' = queue /\ worker' = worker
  BY DEF Upload
<1>3. Invalid(b) \subseteq Rows(b) /\ Rows(b) \subseteq Nat /\ Cardinality(Invalid(b)) \in Nat
  <2>1. IsFiniteSet(Rows(b)) /\ Rows(b) \subseteq Nat
    <3>1. Rows(b) = 1 .. Len(File[b].loans) /\ Len(File[b].loans) \in Nat
      BY RowsOfFile
    <3>2. IsFiniteSet(1 .. Len(File[b].loans))
      BY <3>1, FS_Interval
    <3>. QED
      BY <3>1, <3>2
  <2>2. Invalid(b) \in SUBSET Rows(b)
    BY DEF Invalid
  <2>. QED
    BY <2>1, <2>2, FS_Subset, FS_CardinalityType
<1>4. x \in BatchRows
  BY <1>1, <1>3, ReportTypes DEF BatchRows, Statuses
<1>5. /\ x.status \in {"validated", "failed"} /\ x.invalid = Invalid(b) /\ x.creates = Creates(b)
      /\ x.map = Resolution(b) /\ x.boarded = {}
  OBVIOUS
<1>. HIDE DEF x
<1>6. /\ \A c \in Batches \ {b} : batch'[c] = batch[c]
      /\ batch'[b] = x
  BY <1>1, <1>2
<1>7. WorldTypes'
  BY <1>1, <1>2, <1>4 DEF WorldTypes
<1>8. PartyIds' = PartyIds
  BY <1>2 DEF PartyIds
<1>9. Grows(World, World')
  BY <1>2, <1>6, <1>8, WorldFields DEF Grows, Asked, Boarded
<1>10. ReportOK(World', b)
  <2>1. Invalid(b) \subseteq Rows(b)
    BY <1>3
  <2>2. \A i \in Rows(b) \ Invalid(b) : File[b].loans[i].party \in Refs(b)
    BY DEF Invalid, RowError
  <2>. QED
    BY <1>1, <1>5, <1>6, <1>8, <2>1, <2>2, ReportTypes, RefsAreKnown, WorldFields DEF ReportOK, Valid
<1>11. ASSUME NEW c \in Batches PROVE ReportOK(World', c) /\ SettledOK(World', c)
  <2>1. CASE c = b
    BY <1>5, <1>6, <1>10, <2>1, WorldFields DEF SettledOK
  <2>2. CASE c # b
    <3>1. ReportOK(World, c) /\ SettledOK(World, c) /\ batch'[c] = batch[c]
      BY <1>1, <1>6, <2>2 DEF WorldOK
    <3>2. CASE batch[c].status # "none"
      BY <1>9, <3>1, <3>2, ReportStays, <1>2, WorldFields DEF SettledOK, Boarded
    <3>3. CASE batch[c].status = "none"
      BY <3>1, <3>3, <1>2, WorldFields DEF ReportOK, SettledOK, Boarded
    <3>. QED
      BY <3>2, <3>3
  <2>. QED
    BY <2>1, <2>2
<1>12. \A r \in Requests : RequestOK(World', request'[r])
  BY <1>1, <1>2, <1>9, RequestStays, WorldFields DEF WorldOK
<1>13. \A k \in DOMAIN loans' : LoanOK(World', loans'[k])
  <2>1. \A k \in DOMAIN loans : LoanOK(World, loans[k])
    BY <1>1, WorldFields DEF WorldOK
  <2>. QED
    BY <1>1, <1>2, <1>9, <2>1, LoanStays
<1>14. WorldOK(World')
  BY <1>11, <1>12, <1>13, WorldFields DEF WorldOK
<1>15. QueuesOK(World', queue')
  BY <1>1, <1>2, <1>9, QueuesStay
<1>. QED
  BY <1>1, <1>2, <1>7, <1>9, <1>14, <1>15, NoTaskMoves

(***************************************************************************)
(* The requests.                                                           *)
(***************************************************************************)
LEMMA RequestCommitOK ==
  ASSUME BatchInv, NEW r \in Requests, NEW b \in Batches, RequestCommit(r, b)
  PROVE  BatchInv'
<1>1. /\ WorldTypes /\ WorldOK(World) /\ request \in [Requests -> RequestRows]
      /\ queue \in [Batches -> Nat] /\ QueuesOK(World, queue)
  BY DEF BatchInv, TypeInv, WorldTypes, TaskTypes
<1>2. /\ request[r].at = "start" /\ batch[b].status = "validated"
      /\ request' = [request EXCEPT ![r] = [at |-> "checked", batch |-> b]]
      /\ UNCHANGED <<batch, loans, parties, queue, worker>>
  BY DEF RequestCommit
<1>3. /\ request' \in [Requests -> RequestRows]
      /\ request'[r] = [at |-> "checked", batch |-> b]
      /\ \A q \in Requests \ {r} : request'[q] = request[q]
  BY <1>1, <1>2 DEF RequestRows
<1>4. WorldTypes'
  BY <1>1, <1>2, <1>3 DEF WorldTypes
<1>5. PartyIds' = PartyIds
  BY <1>2 DEF PartyIds
<1>6. \A c \in Batches : Asked(World, c) => Asked(World', c)
  BY <1>2, <1>3, WorldFields DEF Asked
<1>7. Grows(World, World')
  BY <1>2, <1>5, <1>6, WorldFields DEF Grows, Boarded
<1>8. WorldOK(World')
  <2>1. \A c \in Batches : ReportOK(World', c) /\ SettledOK(World', c)
    BY <1>1, <1>2, <1>5, WorldFields DEF WorldOK, ReportOK, SettledOK, Valid, Boarded
  <2>2. ASSUME NEW q \in Requests PROVE RequestOK(World', request'[q])
    <3>1. CASE q = r
      BY <1>2, <1>3, <3>1, WorldFields DEF RequestOK
    <3>2. CASE q # r
      BY <1>1, <1>3, <1>7, <3>2, RequestStays, WorldFields DEF WorldOK
    <3>. QED
      BY <3>1, <3>2
  <2>3. \A k \in DOMAIN loans : LoanOK(World, loans[k])
    BY <1>1, WorldFields DEF WorldOK
  <2>4. \A k \in DOMAIN loans' : LoanOK(World', loans'[k])
    BY <1>1, <1>2, <1>7, <2>3, LoanStays
  <2>. QED
    BY <2>1, <2>2, <2>4, WorldFields DEF WorldOK
<1>9. QueuesOK(World', queue')
  BY <1>1, <1>2, <1>7, QueuesStay
<1>. QED
  BY <1>1, <1>2, <1>4, <1>7, <1>8, <1>9, NoTaskMoves

LEMMA DispatchOK ==
  ASSUME BatchInv, NEW r \in Requests, Dispatch(r)
  PROVE  BatchInv'
<1>. DEFINE b == request[r].batch
<1>1. /\ WorldTypes /\ WorldOK(World) /\ request \in [Requests -> RequestRows]
      /\ queue \in [Batches -> Nat] /\ QueuesOK(World, queue)
  BY DEF BatchInv, TypeInv, WorldTypes, TaskTypes
<1>2. /\ request[r].at = "checked"
      /\ request' = [request EXCEPT ![r] = [request[r] EXCEPT !.at = "marked"]]
      /\ queue' = [queue EXCEPT ![b] = queue[b] + 1]
      /\ UNCHANGED <<batch, loans, parties, worker>>
  BY DEF Dispatch
<1>3. [request[r] EXCEPT !.at = "marked"] \in RequestRows
      /\ [request[r] EXCEPT !.at = "marked"].batch = b
      /\ [request[r] EXCEPT !.at = "marked"].at = "marked"
  BY <1>1 DEF RequestRows
<1>4. /\ request' \in [Requests -> RequestRows]
      /\ request'[r].at = "marked" /\ request'[r].batch = b
      /\ \A q \in Requests \ {r} : request'[q] = request[q]
  BY <1>1, <1>2, <1>3
<1>5. b \in Batches /\ batch[b].status # "none"
  <2>1. RequestOK(World, request[r])
    BY <1>1, WorldFields DEF WorldOK
  <2>. QED
    BY <1>2, <2>1, WorldFields DEF RequestOK
<1>. HIDE DEF b
<1>6. WorldTypes'
  BY <1>1, <1>2, <1>4 DEF WorldTypes
<1>7. PartyIds' = PartyIds
  BY <1>2 DEF PartyIds
<1>8. \A c \in Batches : Asked(World, c) => Asked(World', c)
  BY <1>2, <1>4, WorldFields DEF Asked
<1>9. Grows(World, World')
  BY <1>2, <1>7, <1>8, WorldFields DEF Grows, Boarded
<1>10. WorldOK(World')
  <2>1. \A c \in Batches : ReportOK(World', c) /\ SettledOK(World', c)
    BY <1>1, <1>2, <1>7, WorldFields DEF WorldOK, ReportOK, SettledOK, Valid, Boarded
  <2>2. ASSUME NEW q \in Requests PROVE RequestOK(World', request'[q])
    <3>1. CASE q = r
      BY <1>2, <1>4, <1>5, <3>1, WorldFields DEF RequestOK
    <3>2. CASE q # r
      BY <1>1, <1>4, <1>9, <3>2, RequestStays, WorldFields DEF WorldOK
    <3>. QED
      BY <3>1, <3>2
  <2>3. \A k \in DOMAIN loans : LoanOK(World, loans[k])
    BY <1>1, WorldFields DEF WorldOK
  <2>4. \A k \in DOMAIN loans' : LoanOK(World', loans'[k])
    BY <1>1, <1>2, <1>9, <2>3, LoanStays
  <2>. QED
    BY <2>1, <2>2, <2>4, WorldFields DEF WorldOK
<1>11. Asked(World', b)
  BY <1>4, WorldFields DEF Asked
<1>12. queue' \in [Batches -> Nat] /\ \A c \in Batches \ {b} : queue'[c] = queue[c]
  BY <1>1, <1>2, <1>5
<1>13. QueuesOK(World', queue')
  BY <1>1, <1>8, <1>11, <1>12 DEF QueuesOK
<1>. QED
  BY <1>2, <1>6, <1>9, <1>10, <1>12, <1>13, NoTaskMoves

LEMMA RequestEndsOK ==
  ASSUME BatchInv, NEW r \in Requests, RequestEnds(r)
  PROVE  BatchInv'
<1>. DEFINE b == request[r].batch
<1>1. /\ WorldTypes /\ WorldOK(World) /\ request \in [Requests -> RequestRows]
      /\ batch \in [Batches -> BatchRows]
      /\ queue \in [Batches -> Nat] /\ QueuesOK(World, queue)
  BY DEF BatchInv, TypeInv, WorldTypes, TaskTypes
<1>2. /\ request[r].at = "marked"
      /\ request' = [request EXCEPT ![r] = [request[r] EXCEPT !.at = "end"]]
      /\ batch' = [batch EXCEPT ![b] = [batch[b] EXCEPT !.status = "committing"]] \/ batch' = batch
      /\ UNCHANGED <<loans, parties, queue, worker>>
  BY DEF RequestEnds
<1>3. [request[r] EXCEPT !.at = "end"] \in RequestRows
      /\ [request[r] EXCEPT !.at = "end"].batch = b
      /\ [request[r] EXCEPT !.at = "end"].at = "end"
  BY <1>1 DEF RequestRows
<1>4. /\ request' \in [Requests -> RequestRows]
      /\ request'[r].at = "end" /\ request'[r].batch = b
      /\ \A q \in Requests \ {r} : request'[q] = request[q]
  BY <1>1, <1>2, <1>3
<1>5. b \in Batches /\ batch[b].status # "none" /\ SettledOK(World, b)
  <2>1. RequestOK(World, request[r])
    BY <1>1, WorldFields DEF WorldOK
  <2>. QED
    BY <1>1, <1>2, <2>1, WorldFields DEF RequestOK, WorldOK
<1>6. PICK x \in {[batch[b] EXCEPT !.status = "committing"], batch[b]} : batch' = [batch EXCEPT ![b] = x]
  <2>1. batch = [batch EXCEPT ![b] = batch[b]]
    BY <1>1, <1>5
  <2>. QED
    BY <1>2, <2>1
<1>. HIDE DEF b
<1>7. /\ x \in BatchRows /\ x.status # "none" /\ x.status \in {"committing", batch[b].status}
      /\ x.invalid = batch[b].invalid /\ x.creates = batch[b].creates /\ x.map = batch[b].map
      /\ x.boarded = batch[b].boarded /\ x.succeeded = batch[b].succeeded /\ x.failed = batch[b].failed
  <2>1. batch[b] \in BatchRows
    BY <1>1, <1>5
  <2>2. CASE x = batch[b]
    BY <1>5, <2>1, <2>2
  <2>3. CASE x = [batch[b] EXCEPT !.status = "committing"]
    BY <1>5, <2>1, <2>3 DEF BatchRows, Statuses
  <2>. QED
    BY <1>6, <2>2, <2>3
<1>8. /\ \A i \in x.boarded : Boarded(World, b, i)
      /\ x.status = "completed" => x.succeeded + x.failed = Len(File[b].loans)
  BY <1>5, <1>7, WorldFields DEF SettledOK
<1>9. \A q \in Requests : \/ request'[q] = request[q]
                          \/ /\ request'[q].batch = request[q].batch
                             /\ request[q].at = "marked" /\ request'[q].at = "end"
  BY <1>2, <1>4 DEF b
<1>10. WorldTypes' /\ WorldOK(World') /\ Grows(World, World')
  BY <1>2, <1>4, <1>5, <1>6, <1>7, <1>8, <1>9, BatchWritten
<1>11. QueuesOK(World', queue')
  BY <1>1, <1>2, <1>10, QueuesStay
<1>. QED
  BY <1>1, <1>2, <1>10, <1>11, NoTaskMoves

(***************************************************************************)
(* The boarded loans and the task.                                         *)
(***************************************************************************)
LEMMA BoardOneOK ==
  ASSUME BatchInv, NEW s \in Singles, BoardOne(s)
  PROVE  BatchInv'
<1>. DEFINE l == [batch |-> None, row |-> 0, party |-> None, prior |-> s.prior,
                  number |-> Number(s.number)]
<1>1. /\ WorldTypes /\ WorldOK(World) /\ loans \in Seq(LoanRows)
      /\ queue \in [Batches -> Nat] /\ QueuesOK(World, queue)
  BY DEF BatchInv, TypeInv, WorldTypes, TaskTypes
<1>2. loans' = Append(loans, l) /\ UNCHANGED <<batch, parties, request, queue, worker>>
  BY DEF BoardOne
<1>3. Number(s.number) \in Nat
  BY <1>1, BatchAssumption DEF Number
<1>4. l \in LoanRows
  BY <1>3, BatchAssumption DEF LoanRows
<1>5. LoanOK(World, l)
  BY DEF LoanOK
<1>. HIDE DEF l
<1>6. WorldTypes'
  BY <1>1, <1>2, <1>4 DEF WorldTypes
<1>7. PartyIds' = PartyIds
  BY <1>2 DEF PartyIds
<1>8. WorldOK(World') /\ Grows(World, World')
  BY <1>2, <1>5, <1>6, <1>7, TableWritten
<1>9. QueuesOK(World', queue')
  BY <1>1, <1>2, <1>8, QueuesStay
<1>. QED
  BY <1>1, <1>2, <1>6, <1>8, <1>9, NoTaskMoves

LEMMA NoTaskIsTask == NoTask \in Tasks /\ NoTask.at = "idle" /\ \A v : TaskOK(v, NoTask)
<1>1. NoTask \in Tasks /\ NoTask.at = "idle"
  BY DEF NoTask, Tasks, Statuses
<1>. QED
  BY <1>1 DEF TaskOK

LEMMA DeliverOK ==
  ASSUME BatchInv, NEW w \in Workers, NEW b \in Batches, Deliver(w, b)
  PROVE  BatchInv'
<1>. DEFINE t == [NoTask EXCEPT !.at = "load", !.batch = b]
<1>1. queue \in [Batches -> Nat] /\ QueuesOK(World, queue)
  BY DEF BatchInv, TypeInv, TaskTypes
<1>2. /\ queue[b] > 0 /\ queue' = [queue EXCEPT ![b] = queue[b] - 1]
      /\ worker' = [worker EXCEPT ![w] = t]
      /\ UNCHANGED <<batch, loans, parties, request>>
  BY DEF Deliver
<1>3. t \in Tasks /\ t.at = "load" /\ t.batch = b /\ t.done = {} /\ t.bad = {}
  BY DEF NoTask, Tasks, Statuses
<1>. HIDE DEF t
<1>4. TaskOK(World, t)
  BY <1>1, <1>2, <1>3 DEF TaskOK, QueuesOK
<1>5. queue' \in [Batches -> Nat] /\ \A c \in Batches : queue'[c] <= queue[c]
  BY <1>1, <1>2
<1>6. QueuesOK(World, queue')
  BY <1>1, <1>5 DEF QueuesOK
<1>. QED
  BY <1>2, <1>3, <1>4, <1>5, <1>6, QuietTask

LEMMA LoadOK ==
  ASSUME BatchInv, NEW w \in Workers, Load(w)
  PROVE  BatchInv'
<1>. DEFINE o == worker[w]
            b == o.batch
            at == IF batch[b].status \in {"validated", "committing"} THEN "claim" ELSE "mark"
            t == [o EXCEPT !.saw = batch[b].status, !.at = at, !.todo = Rows(b) \ batch[b].invalid]
<1>1. /\ o \in Tasks /\ TaskOK(World, o) /\ queue \in [Batches -> Nat] /\ QueuesOK(World, queue)
      /\ batch \in [Batches -> BatchRows]
  BY DEF BatchInv, TypeInv, TaskTypes, TasksOK, WorldTypes
<1>2. /\ o.at = "load" /\ worker' = [worker EXCEPT ![w] = t]
      /\ UNCHANGED <<batch, loans, parties, request, queue>>
  BY DEF Load
<1>3. b \in Batches /\ Asked(World, b) /\ batch[b].status \in Statuses
  BY <1>1, <1>2 DEF TaskOK, BatchRows
<1>4. Rows(b) \subseteq Nat
  BY <1>3, RowsOfFile
<1>5. t = [o EXCEPT !.saw = batch[b].status, !.at = at, !.todo = Rows(b) \ batch[b].invalid]
  OBVIOUS
<1>6. at \in {"claim", "mark"}
  OBVIOUS
<1>. HIDE DEF o, b, t, at
<1>7. /\ t \in Tasks /\ t.at = at /\ t.batch = o.batch
      /\ t.todo = Rows(b) \ batch[b].invalid /\ t.done = o.done /\ t.bad = o.bad
  BY <1>1, <1>3, <1>4, <1>5, <1>6 DEF Tasks
<1>8. o.done = {} /\ o.bad = {}
  BY <1>1, <1>2 DEF TaskOK
<1>9. Partition(World, t)
  BY <1>7, <1>8, WorldFields DEF Partition, Valid, b
<1>10. TaskOK(World, t)
  BY <1>3, <1>6, <1>7, <1>9 DEF TaskOK, b
<1>. QED
  BY <1>1, <1>2, <1>7, <1>10, QuietTask

LEMMA ClaimOK ==
  ASSUME BatchInv, NEW w \in Workers, Claim(w)
  PROVE  BatchInv'
<1>. DEFINE o == worker[w]
            b == o.batch
            t == [o EXCEPT !.at = "parties"]
            x == IF o.saw = "validated" THEN [batch[b] EXCEPT !.status = "committing"] ELSE batch[b]
<1>1. /\ o \in Tasks /\ TaskOK(World, o) /\ queue \in [Batches -> Nat] /\ QueuesOK(World, queue)
      /\ batch \in [Batches -> BatchRows] /\ WorldOK(World) /\ request \in [Requests -> RequestRows]
  BY DEF BatchInv, TypeInv, TaskTypes, TasksOK, WorldTypes
<1>2. /\ o.at = "claim" /\ worker' = [worker EXCEPT ![w] = t]
      /\ batch' = IF o.saw = "validated" THEN [batch EXCEPT ![b] = [batch[b] EXCEPT !.status = "committing"]]
                  ELSE batch
      /\ UNCHANGED <<loans, parties, request, queue>>
  BY DEF Claim
<1>3. b \in Batches /\ Asked(World, b) /\ batch[b].status # "none" /\ SettledOK(World, b)
  BY <1>1, <1>2, AskedForReport, WorldFields DEF TaskOK, WorldOK
<1>4. batch' = [batch EXCEPT ![b] = x]
  <2>1. batch = [batch EXCEPT ![b] = batch[b]]
    BY <1>1, <1>3
  <2>. QED
    BY <1>2, <2>1
<1>5. t = [o EXCEPT !.at = "parties"] /\ x \in {[batch[b] EXCEPT !.status = "committing"], batch[b]}
  OBVIOUS
<1>. HIDE DEF o, b, t, x
<1>6. /\ x \in BatchRows /\ x.status # "none" /\ x.status \in {"committing", batch[b].status}
      /\ x.invalid = batch[b].invalid /\ x.creates = batch[b].creates /\ x.map = batch[b].map
      /\ x.boarded = batch[b].boarded /\ x.succeeded = batch[b].succeeded /\ x.failed = batch[b].failed
  <2>1. batch[b] \in BatchRows
    BY <1>1, <1>3
  <2>2. CASE x = batch[b]
    BY <1>3, <2>1, <2>2
  <2>3. CASE x = [batch[b] EXCEPT !.status = "committing"]
    BY <1>3, <2>1, <2>3 DEF BatchRows, Statuses
  <2>. QED
    BY <1>5, <2>2, <2>3
<1>7. /\ \A i \in x.boarded : Boarded(World, b, i)
      /\ x.status = "completed" => x.succeeded + x.failed = Len(File[b].loans)
  BY <1>3, <1>6, WorldFields DEF SettledOK
<1>8. WorldTypes' /\ WorldOK(World') /\ Grows(World, World')
  BY <1>1, <1>2, <1>3, <1>4, <1>6, <1>7, BatchWritten
<1>9. QueuesOK(World', queue')
  BY <1>1, <1>2, <1>8, QueuesStay
<1>10. /\ t \in Tasks /\ t.at = "parties" /\ t.batch = o.batch
       /\ t.todo = o.todo /\ t.done = o.done /\ t.bad = o.bad
  BY <1>1, <1>5 DEF Tasks
<1>11. TaskOK(World, t)
  BY <1>1, <1>2, <1>10 DEF TaskOK, Partition
<1>12. TaskOK(World', t)
  BY <1>1, <1>8, <1>10, <1>11, TaskStays
<1>. QED
  BY <1>1, <1>2, <1>8, <1>9, <1>10, <1>12, OneTask

LEMMA CreatesOfBatch ==
  ASSUME batch \in [Batches -> BatchRows], NEW b \in Batches
  PROVE  /\ DOMAIN batch[b].creates \subseteq Nat
         /\ \A i \in DOMAIN batch[b].creates : batch[b].creates[i] \in PartyRows
<1>1. batch[b].creates \in UNION {[I -> PartyRows] : I \in SUBSET Nat}
  BY DEF BatchRows
<1>2. PICK I \in SUBSET Nat : batch[b].creates \in [I -> PartyRows]
  BY <1>1
<1>. QED
  BY <1>2

LEMMA FindPartiesOK ==
  ASSUME BatchInv, NEW w \in Workers, FindParties(w)
  PROVE  BatchInv'
<1>. DEFINE o == worker[w]
            creates == batch[o.batch].creates
            missing == {i \in DOMAIN creates : creates[i].id \notin PartyIds}
            t == [o EXCEPT !.at = "insert", !.missing = missing]
<1>1. /\ o \in Tasks /\ TaskOK(World, o) /\ queue \in [Batches -> Nat] /\ QueuesOK(World, queue)
      /\ batch \in [Batches -> BatchRows]
  BY DEF BatchInv, TypeInv, TaskTypes, TasksOK, WorldTypes
<1>2. /\ o.at = "parties" /\ worker' = [worker EXCEPT ![w] = t]
      /\ UNCHANGED <<batch, loans, parties, request, queue>>
  BY DEF FindParties
<1>3. o.batch \in Batches
  BY <1>1, <1>2 DEF TaskOK
<1>4. DOMAIN creates \subseteq Nat
  BY <1>1, <1>3, CreatesOfBatch
<1>5. t = [o EXCEPT !.at = "insert", !.missing = missing] /\ missing \subseteq Nat /\ missing \subseteq DOMAIN creates
      /\ \A i \in DOMAIN creates : i \in missing \/ creates[i].id \in PartyIds
  BY <1>4
<1>. HIDE DEF o, t, missing
<1>6. /\ t \in Tasks /\ t.at = "insert" /\ t.batch = o.batch /\ t.missing = missing
      /\ t.todo = o.todo /\ t.done = o.done /\ t.bad = o.bad
  BY <1>1, <1>5 DEF Tasks
<1>7. TaskOK(World, t)
  BY <1>1, <1>2, <1>5, <1>6, WorldFields DEF TaskOK, Partition
<1>. QED
  BY <1>1, <1>2, <1>6, <1>7, QuietTask

LEMMA InsertPartiesOK ==
  ASSUME BatchInv, NEW w \in Workers, InsertParties(w)
  PROVE  BatchInv'
<1>. DEFINE o == worker[w]
            b == o.batch
            creates == batch[b].creates
            new == {creates[i] : i \in o.missing}
            fails == \/ \E p \in new : p.id \in PartyIds
                     \/ \E i, j \in o.missing : i # j /\ creates[i].id = creates[j].id
            at == IF fails THEN "mark" ELSE "rows"
            t == [o EXCEPT !.at = at]
<1>1. /\ o \in Tasks /\ TaskOK(World, o) /\ queue \in [Batches -> Nat] /\ QueuesOK(World, queue)
      /\ batch \in [Batches -> BatchRows] /\ WorldOK(World) /\ WorldTypes
  BY DEF BatchInv, TypeInv, TaskTypes, TasksOK, WorldTypes
<1>2. /\ o.at = "insert" /\ worker' = [worker EXCEPT ![w] = t]
      /\ parties' = (IF fails THEN parties ELSE parties \cup new)
      /\ UNCHANGED <<batch, loans, request, queue>>
  BY DEF InsertParties
<1>3. b \in Batches /\ Asked(World, b) /\ Partition(World, o)
      /\ \A i \in DOMAIN creates : i \in o.missing \/ creates[i].id \in PartyIds
  BY <1>1, <1>2, WorldFields DEF TaskOK
<1>4. \A i \in o.missing : i \in DOMAIN creates
  BY <1>1, <1>2, WorldFields DEF TaskOK
<1>5. \A i \in DOMAIN creates : creates[i] \in PartyRows
  BY <1>1, <1>3, CreatesOfBatch
<1>6. new \subseteq PartyRows
  BY <1>4, <1>5
<1>7. at \in {"mark", "rows"} /\ t = [o EXCEPT !.at = at]
      /\ (at = "rows" => parties' = parties \cup new) /\ parties \subseteq parties' /\ parties' \subseteq parties \cup new
  BY <1>2
<1>8. WorldTypes'
  BY <1>1, <1>2, <1>6, <1>7 DEF WorldTypes
<1>9. PartyIds \subseteq PartyIds'
  BY <1>7 DEF PartyIds
<1>10. at = "rows" => \A i \in o.missing : creates[i].id \in PartyIds'
  <2>. HIDE DEF at
  <2>. QED
    BY <1>7 DEF PartyIds
<1>. HIDE DEF o, new, fails, at, t
<1>11. WorldOK(World') /\ Grows(World, World')
  BY <1>2, <1>8, <1>9, TableWritten
<1>12. QueuesOK(World', queue')
  BY <1>1, <1>2, <1>11, QueuesStay
<1>13. /\ t \in Tasks /\ t.at = at /\ t.batch = o.batch
       /\ t.todo = o.todo /\ t.done = o.done /\ t.bad = o.bad
  BY <1>1, <1>7 DEF Tasks
<1>14. TaskOK(World', o)
  BY <1>1, <1>11, TaskStays
<1>15. Partition(World', o) /\ Asked(World', b)
  BY <1>2, <1>3, <1>14 DEF TaskOK
<1>16. Partition(World', t)
  BY <1>13, <1>15 DEF Partition
<1>17. at = "rows" => \A i \in DOMAIN creates : creates[i].id \in PartyIds'
  BY <1>3, <1>9, <1>10
<1>18. TaskOK(World', t)
  BY <1>2, <1>3, <1>7, <1>13, <1>15, <1>16, <1>17, WorldFields DEF TaskOK
<1>. QED
  BY <1>1, <1>2, <1>8, <1>11, <1>12, <1>13, <1>18, OneTask

LEMMA FirstOfTodo ==
  ASSUME NEW w \in Workers, worker[w].todo \in SUBSET Nat, worker[w].todo # {}
  PROVE  NextRow(w) \in worker[w].todo
<1>. DEFINE todo == worker[w].todo
<1>1. \E i \in todo : \A j \in todo : i <= j
  <2>. HIDE DEF todo
  <2>. QED
    BY LeastExists DEF todo
<1>. QED
  BY <1>1 DEF NextRow

LEMMA BoardRowOK ==
  ASSUME BatchInv, NEW w \in Workers, BoardRow(w)
  PROVE  BatchInv'
<1>. DEFINE o == worker[w]
            b == o.batch
            i == NextRow(w)
            row == File[b].loans[i]
            l == [batch |-> b, row |-> i, party |-> batch[b].map[row.party],
                  prior |-> row.prior, number |-> Number(row.number)]
            t == [o EXCEPT !.todo = o.todo \ {i}, !.done = o.done \cup {i}]
<1>1. /\ o \in Tasks /\ TaskOK(World, o) /\ queue \in [Batches -> Nat] /\ QueuesOK(World, queue)
      /\ batch \in [Batches -> BatchRows] /\ WorldOK(World) /\ WorldTypes /\ loans \in Seq(LoanRows)
  BY DEF BatchInv, TypeInv, TaskTypes, TasksOK, WorldTypes
<1>2. /\ o.at = "rows" /\ o.todo # {} /\ worker' = [worker EXCEPT ![w] = t]
      /\ loans' = Append(loans, l) /\ UNCHANGED <<batch, parties, request, queue>>
  BY DEF BoardRow
<1>3. /\ b \in Batches /\ Asked(World, b) /\ Partition(World, o)
      /\ \A k \in DOMAIN batch[b].creates : batch[b].creates[k].id \in PartyIds
  BY <1>1, <1>2, WorldFields DEF TaskOK
<1>4. i \in o.todo /\ i \in Nat
  BY <1>1, <1>2, FirstOfTodo DEF Tasks
<1>5. i \in Valid(World, b) /\ i \in Rows(b)
  BY <1>3, <1>4 DEF Partition, Valid
<1>6. batch[b].status # "none" /\ ReportOK(World, b)
  BY <1>1, <1>3, AskedForReport, WorldFields DEF WorldOK
<1>7. row.party \in DOMAIN batch[b].map
  BY <1>5, <1>6, WorldFields DEF ReportOK
<1>8. batch[b].map[row.party] \in PartyIds
  BY <1>3, <1>6, <1>7, WorldFields DEF ReportOK
<1>9. batch[b].map[row.party] \in Ids
  BY <1>1, <1>3, <1>7 DEF BatchRows
<1>10. row.prior \in Cells /\ Number(row.number) \in Nat
  <2>1. row.prior \in Cells /\ row.number \in Nat
    BY <1>3, <1>5, RowsOfFile
  <2>. QED
    BY <1>1, <2>1 DEF Number
<1>11. l \in LoanRows
  BY <1>3, <1>4, <1>9, <1>10 DEF LoanRows
<1>12. l.batch = b /\ l.row = i /\ l.party = batch[b].map[row.party]
  OBVIOUS
<1>13. t = [o EXCEPT !.todo = o.todo \ {i}, !.done = o.done \cup {i}]
  OBVIOUS
<1>. HIDE DEF l, t, i, o
<1>14. LoanOK(World, l)
  BY <1>3, <1>5, <1>8, <1>12, WorldFields DEF LoanOK
<1>15. WorldTypes'
  BY <1>1, <1>2, <1>11 DEF WorldTypes
<1>16. PartyIds' = PartyIds
  BY <1>2 DEF PartyIds
<1>17. WorldOK(World') /\ Grows(World, World')
  BY <1>2, <1>14, <1>15, <1>16, TableWritten
<1>18. QueuesOK(World', queue')
  BY <1>1, <1>2, <1>17, QueuesStay
<1>19. /\ t \in Tasks /\ t.at = "rows" /\ t.batch = o.batch
       /\ t.todo = o.todo \ {i} /\ t.done = o.done \cup {i} /\ t.bad = o.bad
  BY <1>1, <1>2, <1>4, <1>13 DEF Tasks
<1>20. TaskOK(World', o)
  BY <1>1, <1>17, TaskStays
<1>21. Boarded(World', b, i)
  <2>1. Len(loans) + 1 \in DOMAIN loans' /\ loans'[Len(loans) + 1] = l
    BY <1>1, <1>2
  <2>. QED
    BY <1>12, <2>1, WorldFields DEF Boarded
<1>22. Partition(World', t) /\ Asked(World', b)
  <2>1. Partition(World', o) /\ Asked(World', b)
    BY <1>2, <1>20 DEF TaskOK
  <2>. QED
    BY <1>4, <1>19, <1>21, <2>1 DEF Partition
<1>23. TaskOK(World', t)
  BY <1>2, <1>3, <1>16, <1>19, <1>22, WorldFields DEF TaskOK
<1>. QED
  BY <1>1, <1>2, <1>15, <1>17, <1>18, <1>19, <1>23, OneTask

LEMMA RowFailsOK ==
  ASSUME BatchInv, NEW w \in Workers, RowFails(w)
  PROVE  BatchInv'
<1>. DEFINE o == worker[w]
            i == NextRow(w)
            t == [o EXCEPT !.todo = o.todo \ {i}, !.bad = o.bad \cup {i}]
<1>1. o \in Tasks /\ TaskOK(World, o) /\ queue \in [Batches -> Nat] /\ QueuesOK(World, queue)
  BY DEF BatchInv, TypeInv, TaskTypes, TasksOK
<1>2. /\ o.at = "rows" /\ o.todo # {} /\ worker' = [worker EXCEPT ![w] = t]
      /\ UNCHANGED <<batch, loans, parties, request, queue>>
  BY DEF RowFails
<1>3. i \in o.todo /\ i \in Nat
  BY <1>1, <1>2, FirstOfTodo DEF Tasks
<1>4. t = [o EXCEPT !.todo = o.todo \ {i}, !.bad = o.bad \cup {i}]
  OBVIOUS
<1>. HIDE DEF t, i, o
<1>5. /\ t \in Tasks /\ t.at = "rows" /\ t.batch = o.batch
      /\ t.todo = o.todo \ {i} /\ t.bad = o.bad \cup {i} /\ t.done = o.done
  BY <1>1, <1>2, <1>3, <1>4 DEF Tasks
<1>6. Partition(World, t)
  BY <1>1, <1>2, <1>3, <1>5 DEF TaskOK, Partition
<1>7. TaskOK(World, t)
  BY <1>1, <1>2, <1>5, <1>6 DEF TaskOK
<1>. QED
  BY <1>1, <1>2, <1>5, <1>7, QuietTask

(* The counts of the report: every row of the file is invalid, done or bad. *)
LEMMA CountsAddUp ==
  ASSUME NEW b \in Batches, batch[b].invalid \subseteq Rows(b), NEW t \in Tasks, t.batch = b,
         Partition(World, t), t.todo = {}
  PROVE  /\ Cardinality(t.done) \in Nat /\ FailedRows(b, t.done, t.bad) \in Int
         /\ Cardinality(t.done) + FailedRows(b, t.done, t.bad) = Len(File[b].loans)
<1>. DEFINE n == Len(File[b].loans)
            inv == batch[b].invalid
<1>1. n \in Nat /\ Rows(b) = 1 .. n
  BY RowsOfFile
<1>2. IsFiniteSet(Rows(b)) /\ Cardinality(Rows(b)) = n
  <2>1. IsFiniteSet(1 .. n) /\ Cardinality(1 .. n) = n
    <3>. HIDE DEF n
    <3>1. n = 0 \/ 1 <= n
      BY <1>1
    <3>2. CASE n = 0
      <4>1. 1 .. n = {}
        BY <3>2
      <4>. QED
        BY <3>2, <4>1, FS_EmptySet
    <3>3. CASE 1 <= n
      <4>1. /\ IsFiniteSet(1 .. n)
            /\ Cardinality(1 .. n) = IF 1 > n THEN 0 ELSE n - 1 + 1
        BY <1>1, FS_Interval
      <4>. QED
        BY <1>1, <3>3, <4>1
    <3>. QED
      BY <3>1, <3>2, <3>3
  <2>. QED
    BY <1>1, <2>1, Zenon
<1>3. /\ t.done \subseteq Rows(b) /\ t.bad \subseteq Rows(b) /\ inv \subseteq Rows(b)
      /\ Rows(b) = (inv \cup t.done) \cup t.bad
      /\ inv \cap t.done = {} /\ (inv \cup t.done) \cap t.bad = {}
  BY WorldFields DEF Partition, Valid
<1>4. IsFiniteSet(inv) /\ IsFiniteSet(t.done) /\ IsFiniteSet(t.bad) /\ IsFiniteSet(inv \cup t.done)
  BY <1>2, <1>3, FS_Subset
<1>. DEFINE cInv == Cardinality(inv)
            cDone == Cardinality(t.done)
            cBad == Cardinality(t.bad)
<1>5. cInv \in Nat /\ cDone \in Nat /\ cBad \in Nat
  BY <1>4, FS_CardinalityType
<1>6. Cardinality(inv \cup t.done) = cInv + cDone
  <2>1. Cardinality(inv \cup t.done) = cInv + cDone - Cardinality(inv \cap t.done)
    BY <1>4, FS_Union
  <2>2. Cardinality(inv \cap t.done) = 0
    BY <1>3, FS_EmptySet, Zenon
  <2>. QED
    BY <1>5, <2>1, <2>2
<1>7. Cardinality((inv \cup t.done) \cup t.bad) = cInv + cDone + cBad
  <2>. DEFINE both == inv \cup t.done
  <2>1. Cardinality(both \cup t.bad) = Cardinality(both) + cBad - Cardinality(both \cap t.bad)
    BY <1>4, FS_Union
  <2>2. Cardinality(both \cap t.bad) = 0
    BY <1>3, FS_EmptySet, Zenon
  <2>. QED
    BY <1>5, <1>6, <2>1, <2>2
<1>8. n = cInv + cDone + cBad
  BY <1>2, <1>3, <1>7, Zenon
<1>9. FailedRows(b, t.done, t.bad) = SmallerOf(n - cDone, cInv + cBad)
  BY DEF FailedRows
<1>. HIDE DEF n, cInv, cDone, cBad
<1>10. SmallerOf(n - cDone, cInv + cBad) = n - cDone
  BY <1>1, <1>5, <1>8 DEF SmallerOf
<1>. QED
  BY <1>1, <1>5, <1>9, <1>10 DEF n, cDone

LEMMA FinishOK ==
  ASSUME BatchInv, NEW w \in Workers, Finish(w)
  PROVE  BatchInv'
<1>. DEFINE o == worker[w]
            b == o.batch
            t == [o EXCEPT !.at = "ack"]
            x == [batch[b] EXCEPT !.status = "completed", !.boarded = o.done,
                                  !.succeeded = Cardinality(o.done),
                                  !.failed = FailedRows(b, o.done, o.bad)]
<1>1. /\ o \in Tasks /\ TaskOK(World, o) /\ queue \in [Batches -> Nat] /\ QueuesOK(World, queue)
      /\ batch \in [Batches -> BatchRows] /\ WorldOK(World) /\ request \in [Requests -> RequestRows]
  BY DEF BatchInv, TypeInv, TaskTypes, TasksOK, WorldTypes
<1>2. /\ o.at = "rows" /\ o.todo = {} /\ worker' = [worker EXCEPT ![w] = t]
      /\ batch' = [batch EXCEPT ![b] = x]
      /\ UNCHANGED <<loans, parties, request, queue>>
  BY DEF Finish
<1>3. /\ b \in Batches /\ Asked(World, b) /\ batch[b].status # "none" /\ Partition(World, o)
      /\ batch[b].invalid \subseteq Rows(b)
  <2>1. b \in Batches /\ Asked(World, b) /\ Partition(World, o)
    BY <1>1, <1>2 DEF TaskOK
  <2>2. batch[b].status # "none" /\ ReportOK(World, b)
    BY <1>1, <2>1, AskedForReport, WorldFields DEF WorldOK
  <2>. QED
    BY <2>1, <2>2, WorldFields DEF ReportOK
<1>4. /\ Cardinality(o.done) \in Nat /\ FailedRows(b, o.done, o.bad) \in Int
      /\ Cardinality(o.done) + FailedRows(b, o.done, o.bad) = Len(File[b].loans)
  BY <1>1, <1>2, <1>3, CountsAddUp
<1>5. x = [batch[b] EXCEPT !.status = "completed", !.boarded = o.done,
                           !.succeeded = Cardinality(o.done), !.failed = FailedRows(b, o.done, o.bad)]
      /\ t = [o EXCEPT !.at = "ack"]
  OBVIOUS
<1>. HIDE DEF o, b, t, x
<1>6. /\ x \in BatchRows /\ x.status = "completed"
      /\ x.invalid = batch[b].invalid /\ x.creates = batch[b].creates /\ x.map = batch[b].map
      /\ x.boarded = o.done /\ x.succeeded = Cardinality(o.done)
      /\ x.failed = FailedRows(b, o.done, o.bad)
  <2>1. batch[b] \in BatchRows /\ o.done \in SUBSET Nat
    BY <1>1, <1>3 DEF Tasks
  <2>. QED
    BY <1>4, <1>5, <2>1 DEF BatchRows, Statuses
<1>7. /\ \A i \in x.boarded : Boarded(World, b, i)
      /\ x.status = "completed" => x.succeeded + x.failed = Len(File[b].loans)
  BY <1>3, <1>4, <1>6 DEF Partition, b
<1>8. WorldTypes' /\ WorldOK(World') /\ Grows(World, World')
  BY <1>1, <1>2, <1>3, <1>6, <1>7, BatchWritten
<1>9. QueuesOK(World', queue')
  BY <1>1, <1>2, <1>8, QueuesStay
<1>10. t \in Tasks /\ t.at = "ack" /\ t.batch = o.batch
  BY <1>1, <1>5 DEF Tasks
<1>11. TaskOK(World', t)
  <2>1. TaskOK(World', o)
    BY <1>1, <1>8, TaskStays
  <2>. QED
    BY <1>2, <1>10, <2>1 DEF TaskOK
<1>. QED
  BY <1>1, <1>2, <1>8, <1>9, <1>10, <1>11, OneTask

LEMMA MarkFailedOK ==
  ASSUME BatchInv, NEW w \in Workers, MarkFailed(w)
  PROVE  BatchInv'
<1>. DEFINE o == worker[w]
            b == o.batch
            t == [o EXCEPT !.at = "ack"]
            x == [batch[b] EXCEPT !.status = "failed"]
<1>1. /\ o \in Tasks /\ TaskOK(World, o) /\ queue \in [Batches -> Nat] /\ QueuesOK(World, queue)
      /\ batch \in [Batches -> BatchRows] /\ WorldOK(World) /\ request \in [Requests -> RequestRows]
  BY DEF BatchInv, TypeInv, TaskTypes, TasksOK, WorldTypes
<1>2. /\ o.at = "mark" /\ worker' = [worker EXCEPT ![w] = t]
      /\ batch' = [batch EXCEPT ![b] = x]
      /\ UNCHANGED <<loans, parties, request, queue>>
  BY DEF MarkFailed
<1>3. b \in Batches /\ batch[b].status # "none" /\ SettledOK(World, b)
  BY <1>1, <1>2, AskedForReport, WorldFields DEF TaskOK, WorldOK
<1>4. x = [batch[b] EXCEPT !.status = "failed"] /\ t = [o EXCEPT !.at = "ack"]
  OBVIOUS
<1>. HIDE DEF o, b, t, x
<1>5. /\ x \in BatchRows /\ x.status = "failed"
      /\ x.invalid = batch[b].invalid /\ x.creates = batch[b].creates /\ x.map = batch[b].map
      /\ x.boarded = batch[b].boarded
  <2>1. batch[b] \in BatchRows
    BY <1>1, <1>3
  <2>. QED
    BY <1>4, <2>1 DEF BatchRows, Statuses
<1>6. \A i \in x.boarded : Boarded(World, b, i)
  BY <1>3, <1>5, WorldFields DEF SettledOK
<1>7. WorldTypes' /\ WorldOK(World') /\ Grows(World, World')
  BY <1>1, <1>2, <1>3, <1>5, <1>6, BatchWritten
<1>8. QueuesOK(World', queue')
  BY <1>1, <1>2, <1>7, QueuesStay
<1>9. t \in Tasks /\ t.at = "ack" /\ t.batch = o.batch
  BY <1>1, <1>4 DEF Tasks
<1>10. TaskOK(World', t)
  <2>1. TaskOK(World', o)
    BY <1>1, <1>7, TaskStays
  <2>. QED
    BY <1>2, <1>9, <2>1 DEF TaskOK
<1>. QED
  BY <1>1, <1>2, <1>7, <1>8, <1>9, <1>10, OneTask

LEMMA MarkFailsOK ==
  ASSUME BatchInv, NEW w \in Workers, MarkFails(w) \/ TaskRaises(w)
  PROVE  BatchInv'
<1>. DEFINE o == worker[w]
<1>1. /\ o \in Tasks /\ TaskOK(World, o) /\ queue \in [Batches -> Nat] /\ QueuesOK(World, queue)
  BY DEF BatchInv, TypeInv, TaskTypes, TasksOK
<1>2. PICK a \in {"ack", "mark"} : worker' = [worker EXCEPT ![w] = [o EXCEPT !.at = a]]
  BY DEF MarkFails, TaskRaises
<1>3. o.at # "idle" /\ UNCHANGED <<batch, loans, parties, request, queue>>
  BY DEF MarkFails, TaskRaises
<1>. DEFINE t == [o EXCEPT !.at = a]
<1>. HIDE DEF o
<1>4. t \in Tasks /\ t.at = a /\ t.batch = o.batch
  BY <1>1, <1>2 DEF Tasks
<1>5. TaskOK(World, t)
  BY <1>1, <1>2, <1>3, <1>4 DEF TaskOK
<1>. HIDE DEF t
<1>. QED
  BY <1>1, <1>2, <1>3, <1>4, <1>5, QuietTask DEF t

LEMMA AcknowledgeOK ==
  ASSUME BatchInv, NEW w \in Workers, Acknowledge(w)
  PROVE  BatchInv'
<1>1. queue \in [Batches -> Nat] /\ QueuesOK(World, queue)
  BY DEF BatchInv, TypeInv, TaskTypes
<1>2. worker' = [worker EXCEPT ![w] = NoTask] /\ UNCHANGED <<batch, loans, parties, request, queue>>
  BY DEF Acknowledge
<1>. QED
  BY <1>1, <1>2, NoTaskIsTask, QuietTask

LEMMA CrashOK ==
  ASSUME BatchInv, NEW w \in Workers, Crash(w)
  PROVE  BatchInv'
<1>. DEFINE b == worker[w].batch
<1>1. queue \in [Batches -> Nat] /\ QueuesOK(World, queue) /\ TaskOK(World, worker[w])
  BY DEF BatchInv, TypeInv, TaskTypes, TasksOK
<1>2. /\ worker[w].at # "idle" /\ queue' = [queue EXCEPT ![b] = queue[b] + 1]
      /\ worker' = [worker EXCEPT ![w] = NoTask] /\ UNCHANGED <<batch, loans, parties, request>>
  BY DEF Crash
<1>3. b \in Batches /\ Asked(World, b)
  BY <1>1, <1>2 DEF TaskOK
<1>. HIDE DEF b
<1>4. queue' \in [Batches -> Nat] /\ \A c \in Batches \ {b} : queue'[c] = queue[c]
  BY <1>1, <1>2, <1>3
<1>5. QueuesOK(World, queue')
  BY <1>1, <1>3, <1>4 DEF QueuesOK
<1>. QED
  BY <1>2, <1>4, <1>5, NoTaskIsTask, QuietTask

LEMMA BatchNext == BatchInv /\ [Next]_vars => BatchInv'
<1>. SUFFICES ASSUME BatchInv, [Next]_vars PROVE BatchInv'
  OBVIOUS
<1>1. CASE UNCHANGED vars
  BY <1>1 DEF vars, BatchInv, TypeInv, WorldTypes, TaskTypes, World, PartyIds
<1>2. CASE Next
  <2>1. ASSUME NEW w \in Workers, TaskStep(w) PROVE BatchInv'
    BY <2>1, LoadOK, ClaimOK, FindPartiesOK, InsertPartiesOK, BoardRowOK, RowFailsOK, FinishOK,
       MarkFailedOK, MarkFailsOK, AcknowledgeOK DEF TaskStep, Working
  <2>. QED
    BY <1>2, <2>1, UploadOK, RequestCommitOK, DispatchOK, RequestEndsOK, BoardOneOK, DeliverOK, CrashOK
       DEF Next
<1>. QED
  BY <1>1, <1>2

LEMMA BatchStarts == Init => BatchInv
<1>. SUFFICES ASSUME Init PROVE BatchInv
  OBVIOUS
<1>1. NoBatch \in BatchRows /\ NoBatch.status = "none" /\ NoBatch.boarded = {}
  <2>1. <<>> \in [{} -> PartyRows] /\ <<>> \in [{} -> Ids]
    OBVIOUS
  <2>2. <<>> \in UNION {[I -> PartyRows] : I \in SUBSET Nat} /\ <<>> \in UNION {[R -> Ids] : R \in SUBSET Cells}
    BY <2>1
  <2>. DEFINE Creations == UNION {[I -> PartyRows] : I \in SUBSET Nat}
              Maps == UNION {[R -> Ids] : R \in SUBSET Cells}
  <2>. HIDE DEF Creations, Maps
  <2>3. NoBatch \in [status : Statuses, invalid : SUBSET Nat, creates : Creations, map : Maps,
                     succeeded : Nat, failed : Int, boarded : SUBSET Nat]
    BY <2>2 DEF NoBatch, Statuses, Creations, Maps
  <2>. QED
    BY <2>3 DEF NoBatch, BatchRows, Creations, Maps
<1>2. TypeInv
  BY <1>1, NoTaskIsTask DEF Init, TypeInv, WorldTypes, TaskTypes, RequestRows
<1>3. WorldOK(World)
  BY <1>1, WorldFields DEF Init, WorldOK, ReportOK, SettledOK, RequestOK
<1>4. TasksOK(World, worker) /\ QueuesOK(World, queue)
  BY NoTaskIsTask DEF Init, TasksOK, QueuesOK
<1>. QED
  BY <1>2, <1>3, <1>4 DEF BatchInv

LEMMA BatchHolds == Spec => []BatchInv
  BY BatchStarts, BatchNext, PTL DEF Spec

(* No refused row and no row of a file nobody asked to commit becomes a     *)
(* loan, and its borrower is stored, however tasks overlap, fail and return. *)
THEOREM OnlyValidatedBoarded == Spec => []OnlyValidatedRows
<1>1. BatchInv => OnlyValidatedRows
  BY WorldFields DEF BatchInv, WorldOK, LoanOK, Valid, Asked, OnlyValidatedRows
<1>. QED
  BY <1>1, BatchHolds, PTL

(***************************************************************************)
(* A batch that is delivered once.  Its rows are boarded by the one task    *)
(* it has, which knows what it boarded.                                     *)
(***************************************************************************)
On(w, b) == worker[w].at # "idle" /\ worker[w].batch = b
Boarding == {"load", "claim", "parties", "insert", "rows"}
RowsDistinct(b) ==
  \A i, j \in DOMAIN loans : loans[i].batch = b /\ loans[j].batch = b /\ loans[i].row = loans[j].row => i = j

OneRun(b) ==
  /\ RowsDistinct(b)
  /\ queue[b] = 0 \/ /\ queue[b] = 1 /\ RowsOnLoan(b) = {} /\ batch[b].status # "completed"
                     /\ \A w \in Workers : ~On(w, b)
  /\ \A w, v \in Workers : On(w, b) /\ On(v, b) => w = v
  /\ \A w \in Workers : On(w, b) =>
       /\ worker[w].at \in Boarding => RowsOnLoan(b) = worker[w].done
       /\ worker[w].at # "ack" => batch[b].status # "completed"
  /\ batch[b].status = "completed" => batch[b].boarded = RowsOnLoan(b)
OnceInv ==
  /\ crashes \in Nat
  /\ \A b \in Batches : /\ batch[b].status = "completed" => Asking(b) # {}
                        /\ ~Twice(b) => OneRun(b)

(* Steps that leave the loans and the deliveries of a batch as they are.    *)
Still(b) ==
  /\ queue'[b] = queue[b] /\ RowsOnLoan(b)' = RowsOnLoan(b) /\ (RowsDistinct(b) => RowsDistinct(b)')
  /\ \/ batch'[b].status # "completed"
     \/ batch'[b].status = batch[b].status /\ batch'[b].boarded = batch[b].boarded
  /\ \A w \in Workers : On(w, b)' =>
       /\ On(w, b) /\ worker'[w].done = worker[w].done
       /\ worker'[w].at \in Boarding => worker[w].at \in Boarding
       /\ worker'[w].at # "ack" => worker[w].at # "ack"

LEMMA StillOneRun ==
  ASSUME NEW b \in Batches, OneRun(b), Still(b)
  PROVE  OneRun(b)'
  BY DEF OneRun, Still

LEMMA TaskLeaves ==
  ASSUME NEW w \in Workers, TaskStep(w)
  PROVE  UNCHANGED <<request, queue, crashes>>
  BY DEF TaskStep, Working, Load, Claim, FindParties, InsertParties, BoardRow, RowFails, Finish, TaskRaises,
         MarkFailed, MarkFails, Acknowledge

LEMMA TaskMoves ==
  ASSUME BatchInv, NEW w \in Workers, TaskStep(w)
  PROVE  /\ worker[w].at # "idle" /\ \A v \in Workers \ {w} : worker'[v] = worker[v]
         /\ worker'[w].batch = worker[w].batch \/ worker'[w].at = "idle"
         /\ \A b \in Batches \ {worker[w].batch} : batch'[b] = batch[b]
         /\ BoardRow(w) \/ loans' = loans
<1>1. worker \in [Workers -> Tasks] /\ batch \in [Batches -> BatchRows]
  BY DEF BatchInv, TypeInv, WorldTypes, TaskTypes
<1>2. CASE Load(w) \/ FindParties(w) \/ InsertParties(w) \/ RowFails(w) \/ TaskRaises(w) \/ MarkFails(w)
  <2>1. CASE Load(w)
    BY <1>1, <2>1 DEF Load, Tasks
  <2>2. CASE FindParties(w)
    BY <1>1, <2>2 DEF FindParties, Tasks
  <2>3. CASE InsertParties(w)
    BY <1>1, <2>3 DEF InsertParties, Tasks
  <2>4. CASE RowFails(w)
    BY <1>1, <2>4 DEF RowFails, Tasks
  <2>5. CASE TaskRaises(w) \/ MarkFails(w)
    BY <1>1, <2>5 DEF TaskRaises, MarkFails, Tasks
  <2>. QED
    BY <1>2, <2>1, <2>2, <2>3, <2>4, <2>5
<1>3. CASE Claim(w) \/ Finish(w) \/ MarkFailed(w)
  BY <1>1, <1>3 DEF Claim, Finish, MarkFailed, Tasks
<1>4. CASE BoardRow(w)
  BY <1>1, <1>4 DEF BoardRow, Tasks
<1>5. CASE Acknowledge(w)
  BY <1>1, <1>5 DEF Acknowledge, NoTask
<1>. QED
  BY <1>2, <1>3, <1>4, <1>5 DEF TaskStep, Working

(* Nothing takes back a crash or a request.                                 *)
LEMMA TwiceStays ==
  ASSUME crashes \in Nat, [Next]_vars, BatchInv
  PROVE  /\ crashes' \in Nat
         /\ \A b \in Batches : Asking(b) \subseteq Asking(b)' /\ (Twice(b) => Twice(b)')
<1>. DEFINE Kept == \A r \in Requests : \/ request'[r] = request[r] \/ request[r].at \in {"start", "checked"}
                                        \/ request'[r].at = "end" /\ request'[r].batch = request[r].batch
<1>1. request \in [Requests -> RequestRows]
  BY DEF BatchInv, TypeInv, WorldTypes
<1>2. crashes' \in Nat /\ crashes <= crashes' /\ Kept
  <2>1. CASE UNCHANGED <<request, crashes>>
    BY <2>1
  <2>2. ASSUME NEW w \in Workers, Crash(w) PROVE crashes' \in Nat /\ crashes <= crashes' /\ Kept
    BY <2>2 DEF Crash
  <2>3. ASSUME NEW r \in Requests, RequestEnds(r) \/ Dispatch(r) \/ \E c \in Batches : RequestCommit(r, c)
        PROVE  crashes' \in Nat /\ crashes <= crashes' /\ Kept
    BY <1>1, <2>3 DEF RequestEnds, Dispatch, RequestCommit, RequestRows
  <2>4. ASSUME NEW w \in Workers, TaskStep(w) PROVE UNCHANGED <<request, crashes>>
    BY <2>4, TaskLeaves
  <2>5. CASE \/ \E c \in Batches : Upload(c) \/ \E w \in Workers : Deliver(w, c)
             \/ \E s \in Singles : BoardOne(s)
    BY <2>1, <2>5 DEF Upload, Deliver, BoardOne
  <2>. HIDE DEF Kept
  <2>. QED
    BY <2>1, <2>2, <2>3, <2>4, <2>5 DEF Next, vars
<1>3. \A b \in Batches : Asking(b) \subseteq Asking(b)'
  BY <1>2 DEF Asking
<1>. QED
  BY <1>2, <1>3 DEF Twice

LEMMA LoanAppended ==
  ASSUME BatchInv, NEW b \in Batches, NEW l, loans' = Append(loans, l)
  PROVE  /\ l.batch # b => /\ RowsOnLoan(b)' = RowsOnLoan(b)
                           /\ RowsDistinct(b) => RowsDistinct(b)'
         /\ l.batch = b => /\ RowsOnLoan(b)' = RowsOnLoan(b) \cup {l.row}
                           /\ RowsDistinct(b) /\ l.row \notin RowsOnLoan(b) => RowsDistinct(b)'
<1>. DEFINE n == Len(loans) + 1
<1>1. loans \in Seq(LoanRows)
  BY DEF BatchInv, TypeInv, WorldTypes
<1>2. /\ DOMAIN loans' = DOMAIN loans \cup {n} /\ loans'[n] = l /\ n \notin DOMAIN loans
      /\ \A k \in DOMAIN loans : loans'[k] = loans[k]
  BY <1>1
<1>. HIDE DEF n
<1>. QED
  BY <1>2 DEF RowsOnLoan, RowsDistinct

LEMMA SameLoans ==
  ASSUME NEW b \in Batches, loans' = loans
  PROVE  RowsOnLoan(b)' = RowsOnLoan(b) /\ (RowsDistinct(b) => RowsDistinct(b)')
  BY DEF RowsOnLoan, RowsDistinct

LEMMA FirstRun ==
  ASSUME BatchInv, OnceInv, NEW r \in Requests, Dispatch(r), NEW b \in Batches, request[r].batch = b, ~Twice(b)'
  PROVE  OneRun(b)'
<1>1. /\ request \in [Requests -> RequestRows] /\ queue \in [Batches -> Nat] /\ WorldOK(World)
      /\ TasksOK(World, worker) /\ QueuesOK(World, queue) /\ worker \in [Workers -> Tasks]
  BY DEF BatchInv, TypeInv, WorldTypes, TaskTypes
<1>3. /\ request[r].at = "checked" /\ request' = [request EXCEPT ![r].at = "marked"]
      /\ queue' = [queue EXCEPT ![b] = queue[b] + 1] /\ UNCHANGED <<batch, loans, worker>>
  BY DEF Dispatch
<1>4. request'[r].at = "marked" /\ request'[r].batch = b /\ \A q \in Requests \ {r} : request'[q] = request[q]
  BY <1>1, <1>3 DEF RequestRows
<1>5. Asking(b)' = Asking(b) \cup {r} /\ r \notin Asking(b)
  BY <1>3, <1>4 DEF Asking
<1>6. Asking(b) = {}
  BY <1>5 DEF Twice
<1>7. ~Asked(World, b)
  BY <1>6, WorldFields DEF Asked, Asking
<1>8. queue[b] = 0 /\ queue'[b] = 1
  BY <1>1, <1>3, <1>7 DEF QueuesOK
<1>9. \A w \in Workers : ~On(w, b) /\ ~On(w, b)'
  BY <1>1, <1>3, <1>7 DEF TasksOK, TaskOK, On
<1>10. \A k \in DOMAIN loans : loans[k].batch # b
  <2>1. b # None
    BY BatchAssumption
  <2>. QED
    BY <1>1, <1>7, <2>1, WorldFields DEF WorldOK, LoanOK
<1>11. batch[b].status # "completed"
  BY <1>6 DEF OnceInv
<1>12. RowsOnLoan(b)' = {} /\ RowsDistinct(b)'
  BY <1>3, <1>10 DEF RowsOnLoan, RowsDistinct
<1>. QED
  BY <1>3, <1>8, <1>9, <1>11, <1>12 DEF OneRun

(* A task's step on its own batch, the only task the batch has.             *)
LEMMA OwnStep ==
  ASSUME BatchInv, NEW w \in Workers, TaskStep(w), NEW b \in Batches, worker[w].batch = b, OneRun(b)
  PROVE  OneRun(b)'
<1>. DEFINE o == worker[w]
<1>1. /\ worker \in [Workers -> Tasks] /\ queue \in [Batches -> Nat] /\ batch \in [Batches -> BatchRows]
      /\ TaskOK(World, o) /\ o \in Tasks
  BY DEF BatchInv, TypeInv, WorldTypes, TaskTypes, TasksOK
<1>2. queue' = queue /\ o.at # "idle"
  BY TaskLeaves, TaskMoves
<1>3. /\ On(w, b) /\ queue[b] = 0 /\ RowsDistinct(b)
      /\ \A v \in Workers \ {w} : ~On(v, b)
      /\ o.at \in Boarding => RowsOnLoan(b) = o.done
      /\ o.at # "ack" => batch[b].status # "completed"
      /\ batch[b].status = "completed" => batch[b].boarded = RowsOnLoan(b)
  BY <1>2 DEF OneRun, On
<1>4. \A v \in Workers \ {w} : ~On(v, b)'
  BY <1>3, TaskMoves DEF On
<1>. DEFINE t == worker'[w]
<1>. SUFFICES /\ RowsDistinct(b)'
              /\ t.at \in Boarding => RowsOnLoan(b)' = t.done
              /\ t.at # "ack" /\ t.at # "idle" => batch'[b].status # "completed"
              /\ batch'[b].status = "completed" => batch'[b].boarded = RowsOnLoan(b)'
  <2>1. queue'[b] = 0
    BY <1>2, <1>3
  <2>. QED
    BY <1>4, <2>1 DEF OneRun, On
<1>5. CASE BoardRow(w)
  <2>. DEFINE i == NextRow(w)
              row == File[b].loans[i]
              l == [batch |-> b, row |-> i, party |-> batch[b].map[row.party],
                    prior |-> row.prior, number |-> Number(row.number)]
  <2>1. /\ o.at = "rows" /\ o.todo # {} /\ loans' = Append(loans, l) /\ UNCHANGED batch
        /\ worker' = [worker EXCEPT ![w] = [o EXCEPT !.todo = o.todo \ {i}, !.done = o.done \cup {i}]]
    BY <1>5 DEF BoardRow
  <2>2. l.batch = b /\ l.row = i
    OBVIOUS
  <2>. HIDE DEF l
  <2>3. i \in o.todo
    BY <1>1, <2>1, FirstOfTodo DEF Tasks
  <2>4. i \notin o.done
    BY <1>1, <2>1, <2>3 DEF TaskOK, Partition
  <2>. HIDE DEF i
  <2>5. t.at = "rows" /\ t.done = o.done \cup {i}
    BY <1>1, <2>1 DEF Tasks
  <2>6. RowsOnLoan(b)' = RowsOnLoan(b) \cup {i} /\ (i \notin RowsOnLoan(b) => RowsDistinct(b)')
    BY <1>3, <2>1, <2>2, LoanAppended
  <2>. QED
    BY <1>3, <2>1, <2>4, <2>5, <2>6 DEF Boarding
<1>6. CASE ~BoardRow(w)
  <2>1. loans' = loans
    BY <1>6, TaskMoves
  <2>2. RowsOnLoan(b)' = RowsOnLoan(b) /\ RowsDistinct(b)'
    BY <1>3, <2>1, SameLoans
  <2>3. CASE Finish(w)
    <3>1. t.at = "ack" /\ o.at = "rows" /\ batch'[b].boarded = o.done
      BY <1>1, <2>3 DEF Finish, BatchRows, Tasks
    <3>. QED
      BY <1>3, <2>2, <3>1 DEF Boarding
  <2>4. CASE MarkFailed(w)
    <3>1. t.at = "ack" /\ batch'[b].status = "failed"
      BY <1>1, <2>4 DEF MarkFailed, BatchRows, Tasks
    <3>. QED
      BY <2>2, <3>1 DEF Boarding
  <2>5. CASE Claim(w)
    <3>1. t.at = "parties" /\ o.at = "claim" /\ t.done = o.done
      BY <1>1, <2>5 DEF Claim, Tasks
    <3>2. batch'[b].status = "committing" \/ batch' = batch
      BY <1>1, <2>5 DEF Claim, BatchRows
    <3>. QED
      BY <1>3, <2>2, <3>1, <3>2 DEF Boarding
  <2>6. CASE Acknowledge(w)
    <3>1. t.at = "idle" /\ batch' = batch
      BY <1>1, <2>6 DEF Acknowledge, NoTask
    <3>. QED
      BY <1>3, <2>2, <3>1 DEF Boarding
  <2>7. CASE Load(w) \/ FindParties(w) \/ InsertParties(w) \/ RowFails(w) \/ TaskRaises(w) \/ MarkFails(w)
    <3>1. t.done = o.done /\ batch' = batch
      BY <1>1, <2>7 DEF Load, FindParties, InsertParties, RowFails, TaskRaises, MarkFails, Tasks
    <3>2. /\ t.at \in Boarding => o.at \in Boarding
          /\ t.at # "ack" => o.at # "ack"
      BY <1>1, <2>7 DEF Load, FindParties, InsertParties, RowFails, TaskRaises, MarkFails, Tasks, Boarding
    <3>. QED
      BY <1>3, <2>2, <3>1, <3>2
  <2>. QED
    BY <1>6, <2>3, <2>4, <2>5, <2>6, <2>7 DEF TaskStep, Working
<1>. QED
  BY <1>5, <1>6

(* A task's step on another batch.                                          *)
LEMMA OtherStep ==
  ASSUME BatchInv, NEW w \in Workers, TaskStep(w), NEW b \in Batches, worker[w].batch # b
  PROVE  Still(b)
<1>1. worker \in [Workers -> Tasks] /\ queue \in [Batches -> Nat] /\ batch \in [Batches -> BatchRows]
  BY DEF BatchInv, TypeInv, WorldTypes, TaskTypes
<1>2. queue' = queue /\ batch'[b] = batch[b]
  BY TaskLeaves, TaskMoves
<1>5. RowsOnLoan(b)' = RowsOnLoan(b) /\ (RowsDistinct(b) => RowsDistinct(b)')
  <2>1. CASE BoardRow(w)
    <3>. DEFINE row == File[worker[w].batch].loans[NextRow(w)]
                l == [batch |-> worker[w].batch, row |-> NextRow(w),
                      party |-> batch[worker[w].batch].map[row.party],
                      prior |-> row.prior, number |-> Number(row.number)]
    <3>1. loans' = Append(loans, l) /\ l.batch # b
      BY <2>1 DEF BoardRow
    <3>. HIDE DEF l
    <3>. QED
      BY <3>1, LoanAppended
  <2>2. CASE ~BoardRow(w)
    BY <2>2, TaskMoves, SameLoans
  <2>. QED
    BY <2>1, <2>2
<1>. QED
  BY <1>2, <1>5, TaskMoves DEF Still, On

LEMMA OneRunNext ==
  ASSUME BatchInv, OnceInv, Next, NEW b \in Batches, ~Twice(b)'
  PROVE  OneRun(b)'
<1>1. /\ worker \in [Workers -> Tasks] /\ queue \in [Batches -> Nat] /\ batch \in [Batches -> BatchRows]
      /\ crashes \in Nat /\ loans \in Seq(LoanRows)
  BY DEF BatchInv, TypeInv, WorldTypes, TaskTypes, OnceInv
<1>2. OneRun(b)
  BY TwiceStays DEF OnceInv
<1>3. ASSUME NEW c \in Batches, Upload(c) PROVE OneRun(b)'
  <2>1. batch'[b] = batch[b] \/ batch'[b].status # "completed"
    BY <1>1, <1>3 DEF Upload
  <2>2. worker' = worker /\ queue' = queue /\ loans' = loans
    BY <1>3 DEF Upload
  <2>3. Still(b)
    BY <2>1, <2>2, SameLoans DEF Still, On
  <2>. QED
    BY <1>2, <2>3, StillOneRun
<1>4. ASSUME NEW r \in Requests, RequestEnds(r) \/ \E c \in Batches : RequestCommit(r, c) PROVE OneRun(b)'
  <2>1. batch'[b] = batch[b] \/ batch'[b].status # "completed"
    BY <1>1, <1>4 DEF RequestEnds, RequestCommit, BatchRows
  <2>2. worker' = worker /\ queue' = queue /\ loans' = loans
    BY <1>4 DEF RequestEnds, RequestCommit
  <2>3. Still(b)
    BY <2>1, <2>2, SameLoans DEF Still, On
  <2>. QED
    BY <1>2, <2>3, StillOneRun
<1>5. ASSUME NEW r \in Requests, Dispatch(r) PROVE OneRun(b)'
  <2>1. CASE request[r].batch = b
    BY <1>5, <2>1, FirstRun
  <2>2. CASE request[r].batch # b
    <3>1. queue'[b] = queue[b] /\ UNCHANGED <<batch, loans, worker>>
      BY <1>1, <1>5, <2>2 DEF Dispatch
    <3>2. Still(b)
      BY <3>1, SameLoans DEF Still, On
    <3>. QED
      BY <1>2, <3>2, StillOneRun
  <2>. QED
    BY <2>1, <2>2
<1>6. ASSUME NEW s \in Singles, BoardOne(s) PROVE OneRun(b)'
  <2>. DEFINE l == [batch |-> None, row |-> 0, party |-> None, prior |-> s.prior,
                    number |-> Number(s.number)]
  <2>1. loans' = Append(loans, l) /\ l.batch # b /\ UNCHANGED <<batch, queue, worker>>
    BY <1>6, BatchAssumption DEF BoardOne
  <2>. HIDE DEF l
  <2>2. Still(b)
    BY <2>1, LoanAppended DEF Still, On
  <2>. QED
    BY <1>2, <2>2, StillOneRun
<1>7. ASSUME NEW w \in Workers, NEW c \in Batches, Deliver(w, c) PROVE OneRun(b)'
  <2>1. /\ worker' = [worker EXCEPT ![w] = [NoTask EXCEPT !.at = "load", !.batch = c]]
        /\ queue' = [queue EXCEPT ![c] = queue[c] - 1] /\ queue[c] > 0
        /\ UNCHANGED <<batch, loans>> /\ worker[w].at = "idle"
    BY <1>7 DEF Deliver
  <2>2. /\ worker'[w].at = "load" /\ worker'[w].batch = c /\ worker'[w].done = {}
        /\ \A v \in Workers \ {w} : worker'[v] = worker[v]
    BY <1>1, <2>1 DEF NoTask
  <2>3. RowsOnLoan(b)' = RowsOnLoan(b) /\ (RowsDistinct(b) => RowsDistinct(b)')
    BY <2>1, SameLoans
  <2>4. CASE c = b
    <3>1. /\ queue[b] = 1 /\ RowsOnLoan(b) = {} /\ batch[b].status # "completed"
          /\ \A v \in Workers : ~On(v, b)
      BY <1>1, <1>2, <2>1, <2>4 DEF OneRun
    <3>2. queue'[b] = 0
      BY <1>1, <2>1, <2>4, <3>1
    <3>3. \A v \in Workers \ {w} : ~On(v, b)'
      BY <2>2, <3>1 DEF On
    <3>4. \A v \in Workers : On(v, b)' => v = w
      BY <3>3
    <3>5. batch'[b].status # "completed" /\ RowsDistinct(b)'
      BY <1>2, <2>1, <2>3, <3>1 DEF OneRun
    <3>. QED
      BY <2>2, <2>3, <3>1, <3>2, <3>4, <3>5 DEF OneRun
  <2>5. CASE c # b
    <3>1. queue'[b] = queue[b] /\ batch' = batch
      BY <1>1, <2>1, <2>5
    <3>2. Still(b)
      BY <2>2, <2>3, <2>5, <3>1 DEF Still, On
    <3>. QED
      BY <1>2, <3>2, StillOneRun
  <2>. QED
    BY <2>4, <2>5
<1>8. ASSUME NEW w \in Workers, TaskStep(w) PROVE OneRun(b)'
  BY <1>2, <1>8, OwnStep, OtherStep, StillOneRun
<1>9. ASSUME NEW w \in Workers, Crash(w) PROVE FALSE
  <2>1. crashes' > 0
    BY <1>1, <1>9 DEF Crash
  <2>. QED
    BY <2>1 DEF Twice
<1>. QED
  BY <1>3, <1>4, <1>5, <1>6, <1>7, <1>8, <1>9 DEF Next

(* Only a task, of a file someone asked for, completes a batch.             *)
LEMMA CompletedNext ==
  ASSUME BatchInv, OnceInv, Next, NEW b \in Batches, batch'[b].status = "completed"
  PROVE  Asking(b)' # {}
<1>1. /\ worker \in [Workers -> Tasks] /\ batch \in [Batches -> BatchRows] /\ TasksOK(World, worker)
  BY DEF BatchInv, TypeInv, WorldTypes, TaskTypes
<1>2. batch[b].status = "completed" \/ \E w \in Workers : Finish(w) /\ worker[w].batch = b
  <2>1. ASSUME NEW w \in Workers, TaskStep(w), worker[w].batch = b, ~Finish(w)
        PROVE  batch[b].status = "completed"
    <3>1. CASE Claim(w) \/ MarkFailed(w)
      BY <1>1, <2>1, <3>1 DEF Claim, MarkFailed, BatchRows
    <3>2. CASE batch' = batch
      BY <3>2
    <3>. QED
      BY <2>1, <3>1, <3>2 DEF TaskStep, Working, Load, FindParties, InsertParties, BoardRow, RowFails,
         TaskRaises, MarkFails, Acknowledge
  <2>2. ASSUME NEW w \in Workers, TaskStep(w), worker[w].batch # b PROVE batch[b].status = "completed"
    BY <2>2, TaskMoves
  <2>3. ASSUME NEW c \in Batches, Upload(c) PROVE batch[b].status = "completed"
    BY <1>1, <2>3 DEF Upload
  <2>4. ASSUME NEW r \in Requests, RequestEnds(r) PROVE batch[b].status = "completed"
    BY <1>1, <2>4 DEF RequestEnds, BatchRows
  <2>5. CASE batch' = batch
    BY <2>5
  <2>. QED
    BY <2>1, <2>2, <2>3, <2>4, <2>5 DEF Next, RequestCommit, Dispatch, BoardOne, Deliver, Crash
<1>3. Asking(b) # {}
  <2>1. CASE batch[b].status = "completed"
    BY <2>1 DEF OnceInv
  <2>2. ASSUME NEW w \in Workers, Finish(w), worker[w].batch = b PROVE Asking(b) # {}
    <3>1. Asked(World, b)
      BY <1>1, <2>2 DEF Finish, TasksOK, TaskOK
    <3>. QED
      BY <3>1, WorldFields DEF Asked, Asking
  <2>. QED
    BY <1>2, <2>1, <2>2
<1>. QED
  BY <1>3, TwiceStays DEF OnceInv

LEMMA OnceHolds == Spec => []OnceInv
<1>1. Init => OnceInv
  <2>. SUFFICES ASSUME Init, NEW b \in Batches PROVE /\ batch[b].status # "completed" /\ OneRun(b)
    BY DEF Init, OnceInv
  <2>1. batch[b].status # "completed" /\ queue[b] = 0 /\ RowsOnLoan(b) = {}
    BY DEF Init, NoBatch, RowsOnLoan
  <2>2. \A w \in Workers : ~On(w, b)
    BY DEF Init, NoTask, On
  <2>3. RowsDistinct(b)
    BY DEF Init, RowsDistinct
  <2>. QED
    BY <2>1, <2>2, <2>3 DEF OneRun
<1>2. BatchInv /\ OnceInv /\ [Next]_vars => OnceInv'
  <2>. SUFFICES ASSUME BatchInv, OnceInv, [Next]_vars PROVE OnceInv'
    OBVIOUS
  <2>1. CASE UNCHANGED vars
    BY <2>1 DEF vars, OnceInv, OneRun, Twice, Asking, RowsDistinct, RowsOnLoan, On
  <2>2. CASE Next
    <3>1. crashes' \in Nat
      BY <2>2, TwiceStays DEF OnceInv
    <3>2. ASSUME NEW b \in Batches
          PROVE  /\ batch'[b].status = "completed" => Asking(b)' # {}
                 /\ ~Twice(b)' => OneRun(b)'
      BY <2>2, OneRunNext, CompletedNext
    <3>. QED
      BY <3>1, <3>2 DEF OnceInv
  <2>. QED
    BY <2>1, <2>2
<1>. QED
  BY <1>1, <1>2, BatchHolds, PTL DEF Spec

(* The commit report claims no loan that is not there, counts every row of  *)
(* the file once and, of a batch delivered once, leaves out no loan.        *)
THEOREM ReportIsTrue == Spec => []ReportAccounts
<1>1. BatchInv /\ OnceInv => ReportAccounts
  <2>. SUFFICES ASSUME BatchInv, OnceInv, NEW b \in Batches
                PROVE  /\ batch[b].boarded \subseteq RowsOnLoan(b)
                       /\ batch[b].status = "completed" =>
                            /\ batch[b].succeeded + batch[b].failed = Len(File[b].loans)
                            /\ Twice(b) \/ batch[b].boarded = RowsOnLoan(b)
    BY DEF ReportAccounts
  <2>1. SettledOK(World, b)
    BY DEF BatchInv, WorldOK
  <2>2. batch[b].boarded \subseteq RowsOnLoan(b)
    BY <2>1, WorldFields DEF SettledOK, Boarded, RowsOnLoan
  <2>3. ~Twice(b) => OneRun(b)
    BY DEF OnceInv
  <2>. QED
    BY <2>1, <2>2, <2>3, WorldFields DEF SettledOK, OneRun
<1>. QED
  BY <1>1, BatchHolds, OnceHolds, PTL

(***************************************************************************)
(* A loan of the prior servicer is boarded once and a number used once,     *)
(* and a loan of a file has those of its row.                               *)
(***************************************************************************)
LoansUnique ==
  \A i, j \in DOMAIN loans :
    \/ i = j
    \/ loans[i].number # loans[j].number /\ (loans[i].prior = loans[j].prior => loans[i].prior = None)
LikeRow(l) ==
  l.batch # None => LET row == File[l.batch].loans[l.row]
                    IN  l.prior = row.prior /\ (row.number # 0 => l.number = row.number)
UniqueInv == LoansUnique /\ \A k \in DOMAIN loans : LikeRow(loans[k])

LEMMA UniqueHolds == Spec => []UniqueInv
<1>1. Init => UniqueInv
  BY DEF Init, UniqueInv, LoansUnique
<1>2. BatchInv /\ UniqueInv /\ [Next]_vars => UniqueInv'
  <2>. SUFFICES ASSUME BatchInv, UniqueInv, [Next]_vars PROVE UniqueInv'
    OBVIOUS
  <2>1. loans \in Seq(LoanRows)
    BY DEF BatchInv, TypeInv, WorldTypes
  <2>2. ASSUME NEW l, loans' = Append(loans, l), ~Conflict(l.prior, l.number), LikeRow(l) PROVE UniqueInv'
    <3>. DEFINE n == Len(loans) + 1
    <3>1. /\ DOMAIN loans' = DOMAIN loans \cup {n} /\ loans'[n] = l
          /\ \A k \in DOMAIN loans : loans'[k] = loans[k]
      BY <2>1, <2>2
    <3>2. \A k \in DOMAIN loans : loans[k].number # l.number /\ (loans[k].prior = l.prior => l.prior = None)
      BY <2>2 DEF Conflict
    <3>. HIDE DEF n
    <3>3. LoansUnique'
      BY <3>1, <3>2 DEF UniqueInv, LoansUnique
    <3>4. \A k \in DOMAIN loans' : LikeRow(loans'[k])
      BY <2>2, <3>1 DEF UniqueInv
    <3>. QED
      BY <3>3, <3>4 DEF UniqueInv, LikeRow
  <2>3. CASE loans' = loans
    BY <2>3 DEF UniqueInv, LoansUnique, LikeRow
  <2>4. ASSUME NEW w \in Workers, BoardRow(w) PROVE UniqueInv'
    <3>. DEFINE row == File[worker[w].batch].loans[NextRow(w)]
                l == [batch |-> worker[w].batch, row |-> NextRow(w),
                      party |-> batch[worker[w].batch].map[row.party],
                      prior |-> row.prior, number |-> Number(row.number)]
    <3>1. loans' = Append(loans, l) /\ ~Conflict(l.prior, l.number)
      BY <2>4 DEF BoardRow
    <3>2. LikeRow(l)
      BY DEF LikeRow, Number
    <3>. HIDE DEF l
    <3>. QED
      BY <2>2, <3>1, <3>2
  <2>5. ASSUME NEW s \in Singles, BoardOne(s) PROVE UniqueInv'
    <3>. DEFINE l == [batch |-> None, row |-> 0, party |-> None, prior |-> s.prior,
                      number |-> Number(s.number)]
    <3>1. loans' = Append(loans, l) /\ ~Conflict(l.prior, l.number)
      BY <2>5 DEF BoardOne
    <3>2. LikeRow(l)
      BY DEF LikeRow
    <3>. HIDE DEF l
    <3>. QED
      BY <2>2, <3>1, <3>2
  <2>6. CASE UNCHANGED vars
    BY <2>3, <2>6 DEF vars
  <2>7. CASE Next
    BY <2>3, <2>4, <2>5, <2>7
       DEF Next, TaskStep, Working, Upload, RequestCommit, Dispatch, RequestEnds, Deliver, Load, Claim,
           FindParties, InsertParties, RowFails, Finish, TaskRaises, MarkFailed, MarkFails, Acknowledge, Crash
  <2>. QED
    BY <2>6, <2>7
<1>. QED
  BY <1>1, <1>2, BatchHolds, PTL DEF Spec

(* Whatever overlaps, fails or is delivered again, a row becomes one loan,  *)
(* unless its task ran twice and the row carries nothing of its own.        *)
THEOREM RowsAreBoardedOnce == Spec => []RowsBoardedOnce
<1>1. BatchInv /\ OnceInv /\ UniqueInv => RowsBoardedOnce
  <2>. SUFFICES ASSUME BatchInv, OnceInv, UniqueInv, NEW i \in DOMAIN loans, NEW j \in DOMAIN loans,
                       loans[i].batch # None, loans[i].batch = loans[j].batch,
                       loans[i].row = loans[j].row, i # j
                PROVE  /\ Twice(loans[i].batch)
                       /\ File[loans[i].batch].loans[loans[i].row].prior = None
                       /\ File[loans[i].batch].loans[loans[i].row].number = 0
    BY DEF RowsBoardedOnce
  <2>1. loans[i].batch \in Batches
    BY WorldFields DEF BatchInv, WorldOK, LoanOK
  <2>2. Twice(loans[i].batch)
    BY <2>1 DEF OnceInv, OneRun, RowsDistinct
  <2>3. /\ loans[i].number # loans[j].number /\ (loans[i].prior = loans[j].prior => loans[i].prior = None)
        /\ LikeRow(loans[i]) /\ LikeRow(loans[j])
    BY DEF UniqueInv, LoansUnique
  <2>. QED
    BY <2>2, <2>3 DEF LikeRow
<1>. QED
  BY <1>1, BatchHolds, OnceHolds, UniqueHolds, PTL

=============================================================================
