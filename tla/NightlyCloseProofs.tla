------------------------ MODULE NightlyCloseProofs ------------------------
(***************************************************************************)
(* The accruals of the nightly task are complete, and the export delivers  *)
(* what it marks, for any loans, nights, payments, workers and channels    *)
(* and any number of retries and failures.                                 *)
(***************************************************************************)
EXTENDS NightlyClose, CommonLemmas

Days == Loans \X Nights
Message == [day : Nights, try : Nat]
IsTask(x) == x = [at |-> x.at, msg |-> x.msg, loans |-> x.loans, raised |-> x.raised,
                  todo |-> x.todo, new |-> x.new,
                  clean |-> x.clean, broken |-> x.broken]

(***************************************************************************)
(* The accrual task.  A row has the rows of the earlier days with it; what *)
(* a task has inserted continues the rows, and what it has still to do     *)
(* continues both, unless its transaction is broken.  The balance a task   *)
(* holds for a loan counts no day but those of the rows it read, and more  *)
(* by now, and those it has inserted.                                      *)
(***************************************************************************)
OfLoan(l) == {k \in rows : k[1] = l}
Held(x, l) == {k \in rows \cup x.new : k[1] = l}
TaskShape(x) ==
    /\ IsTask(x)
    /\ x.at \in {"idle", "loans", "check", "insert"}
    /\ x.at # "idle" => x.msg \in Message /\ x.loans \in [Loans -> Nat]
    /\ x.at \in {"idle", "loans"} => x.new = {} /\ x.todo = {}
    /\ x.new \subseteq Days /\ x.todo \subseteq Days /\ x.new \cap x.todo = {}
    /\ x.at = "insert" => ~x.broken
TaskOrder(x) ==
    /\ \A k \in x.new : \A d \in 1..(k[2] - 1) : <<k[1], d>> \in rows \cup x.new
    /\ x.broken \/ \A k \in x.todo : \A d \in 1..(k[2] - 1) :
                       <<k[1], d>> \in rows \cup x.new \cup x.todo
    /\ x.at = "idle" \/ x.broken \/ \A l \in Loans : x.loans[l] <= Cardinality(Held(x, l))
TaskInv(x) == TaskShape(x) /\ TaskOrder(x)
Apart ==
    /\ \A w \in Workers : worker[w].new \cap rows = {}
    /\ \A w, u \in Workers : w # u => worker[w].new \cap worker[u].new = {}
RowsInv ==
    /\ rows \subseteq Days /\ interest \in [Loans -> Nat]
    /\ queue \subseteq Message /\ DOMAIN worker = Workers
    /\ \A k \in rows : \A d \in 1..(k[2] - 1) : <<k[1], d>> \in rows
    /\ \A l \in Loans : interest[l] <= Cardinality(OfLoan(l))
    /\ Apart
AccrualInv == RowsInv /\ \A w \in Workers : TaskInv(worker[w])

LEMMA RowsAreFinite ==
    ASSUME NEW T \in SUBSET Days
    PROVE  IsFiniteSet(T) /\ Cardinality(T) \in Nat
  <1>1. IsFiniteSet(Days)
    <2>1. LastNight \in Nat /\ IsFiniteSet(Loans)
      BY CloseAssumption
    <2>2. IsFiniteSet(Nights)
      BY <2>1, FS_Interval DEF Nights
    <2> QED BY <2>1, <2>2, FS_Product DEF Days
  <1> QED BY <1>1, FS_Subset, FS_CardinalityType

\* More rows count no less.
LEMMA MoreRows ==
    ASSUME NEW S \in SUBSET Days, NEW T, S \subseteq T, T \subseteq Days, NEW n \in Nat, n <= Cardinality(S)
    PROVE  n <= Cardinality(T)
  <1>1. IsFiniteSet(T) /\ Cardinality(T) \in Nat /\ Cardinality(S) \in Nat
    BY RowsAreFinite
  <1>2. Cardinality(S) <= Cardinality(T)
    BY <1>1, FS_Subset
  <1> QED BY <1>1, <1>2

\* A task's next day: the first loan in its order, the loan's first day.
LEMMA JobIsFirst ==
    ASSUME NEW w \in Workers, worker[w].todo \subseteq Days, worker[w].todo # {}
    PROVE  Job(w) \in worker[w].todo /\ \A j \in worker[w].todo : Before(Order[w], Job(w), j)
  <1> DEFINE todo == worker[w].todo
             places == {Order[w][k[1]] : k \in todo}
  <1>1. \A k \in todo : k[1] \in Loans /\ k[2] \in Nat /\ Order[w][k[1]] \in Nat
    BY CloseAssumption DEF Days, Nights
  <1>2. PICK o \in places : \A p \in places : o <= p
    BY <1>1, LeastExists
  <1> DEFINE days == {k[2] : k \in {j \in todo : Order[w][j[1]] = o}}
  <1>3. PICK d \in days : \A e \in days : d <= e
    <2>1. days \in SUBSET Nat /\ days # {}
      BY <1>1, <1>2
    <2> QED BY <2>1, LeastExists
  <1>4. PICK k \in todo : Order[w][k[1]] = o /\ k[2] = d
    BY <1>3
  <1>5. ASSUME NEW j \in todo PROVE Before(Order[w], k, j)
    <2>1. o <= Order[w][j[1]]
      BY <1>2
    <2>2. CASE o = Order[w][j[1]]
      <3>1. k[1] = j[1]
        BY <1>1, <1>4, <2>2, CloseAssumption
      <3>2. d <= j[2]
        BY <1>3, <2>2
      <3> QED BY <1>4, <3>1, <3>2 DEF Before
    <2>3. CASE o # Order[w][j[1]]
      BY <1>1, <1>2, <1>4, <2>1, <2>3 DEF Before
    <2> QED BY <2>2, <2>3
  <1> QED BY <1>4, <1>5 DEF Job

\* A step of one task that leaves the rows alone and takes no other's key.
LEMMA OneTaskMoves ==
    ASSUME AccrualInv, NEW w \in Workers, NEW x, DOMAIN worker' = Workers, worker'[w] = x,
           \A u \in Workers \ {w} : worker'[u] = worker[u],
           UNCHANGED <<rows, interest>>, queue' \subseteq Message, TaskInv(x),
           x.new \cap rows = {}, \A u \in Workers \ {w} : x.new \cap worker[u].new = {}
    PROVE  AccrualInv'
  <1>1. \A l : OfLoan(l)' = OfLoan(l)
    BY DEF OfLoan
  <1>2. Apart'
    BY DEF AccrualInv, RowsInv, Apart
  <1>3. RowsInv'
    BY <1>1, <1>2 DEF AccrualInv, RowsInv
  <1>4. ASSUME NEW u \in Workers PROVE TaskInv(worker[u])'
    <2>1. TaskInv(worker'[u])
      BY DEF AccrualInv
    <2> QED BY <1>1, <2>1 DEF TaskInv, TaskShape, TaskOrder, Held
  <1> QED BY <1>3, <1>4 DEF AccrualInv

\* Nothing a task does before its commit adds a key, but its insert.
LEMMA KeepsKeys ==
    ASSUME AccrualInv, NEW w \in Workers, NEW new, new \subseteq worker[w].new
    PROVE  new \cap rows = {} /\ \A u \in Workers \ {w} : new \cap worker[u].new = {}
  BY DEF AccrualInv, RowsInv, Apart

\* A loan is given up: its other days go, and a broken transaction loses all.
GivenUp(t, l, x) ==
    /\ IsTask(x) /\ x.at = "check" /\ x.msg = t.msg /\ x.loans = t.loans
    /\ x.todo = {k \in t.todo : k[1] # l}
    /\ x.new = t.new \/ (x.new = {} /\ x.broken)
    /\ ~t.broken

LEMMA GivingUp ==
    ASSUME AccrualInv, NEW w \in Workers, worker[w].at \in {"check", "insert"},
           NEW l, NEW x, GivenUp(worker[w], l, x)
    PROVE  TaskInv(x) /\ x.new \subseteq worker[w].new
  <1> DEFINE t == worker[w]
  <1>1. TaskInv(t)
    BY DEF AccrualInv
  <1> HIDE DEF t
  <1>2. GivenUp(t, l, x) /\ t.at \in {"check", "insert"}
    BY DEF t
  <1>3. TaskShape(x)
    BY <1>1, <1>2 DEF TaskInv, TaskShape, GivenUp
  <1>4. \A k \in x.new : \A d \in 1..(k[2] - 1) : <<k[1], d>> \in rows \cup x.new
    BY <1>1, <1>2 DEF TaskInv, TaskOrder, GivenUp
  <1>5. x.broken \/ \A k \in x.todo : \A d \in 1..(k[2] - 1) :
                       <<k[1], d>> \in rows \cup x.new \cup x.todo
    <2> SUFFICES ASSUME ~x.broken, NEW k \in x.todo, NEW d \in 1..(k[2] - 1)
                 PROVE  <<k[1], d>> \in rows \cup x.new \cup x.todo
      OBVIOUS
    <2>1. k \in t.todo /\ k[1] # l /\ x.new = t.new
      BY <1>2 DEF GivenUp
    <2>2. <<k[1], d>> \in rows \cup t.new \cup t.todo
      BY <1>1, <1>2, <2>1 DEF TaskInv, TaskOrder, GivenUp
    <2>3. <<k[1], d>>[1] # l
      BY <2>1
    <2> QED BY <1>2, <2>1, <2>2, <2>3 DEF GivenUp
  <1>6. x.broken \/ \A i \in Loans : x.loans[i] <= Cardinality(Held(x, i))
    <2> SUFFICES ASSUME ~x.broken PROVE \A i \in Loans : x.loans[i] <= Cardinality(Held(x, i))
      OBVIOUS
    <2>1. \A i : Held(x, i) = Held(t, i)
      BY <1>2 DEF GivenUp, Held
    <2> QED BY <1>1, <1>2, <2>1 DEF TaskInv, TaskOrder, GivenUp
  <1>7. TaskOrder(x)
    BY <1>4, <1>5, <1>6 DEF TaskOrder
  <1> QED BY <1>2, <1>3, <1>7 DEF TaskInv, GivenUp, t

(***************************************************************************)
(* Its steps.                                                              *)
(***************************************************************************)
LEMMA ReadLoansStep ==
    ASSUME AccrualInv, NEW w \in Workers, NEW m \in queue, ReadLoans(w, m)
    PROVE  AccrualInv'
  <1> DEFINE x == [at |-> "loans", msg |-> m, loans |-> interest, raised |-> {}, todo |-> {}, new |-> {},
                   clean |-> TRUE, broken |-> FALSE]
  <1>1. [NoTask EXCEPT !.at = "loans", !.msg = m, !.loans = interest] = x
    <2> DEFINE z == NoTask
    <2>1. z = [at |-> "idle", msg |-> <<>>, loans |-> <<>>, raised |-> {}, todo |-> {}, new |-> {},
               clean |-> TRUE, broken |-> FALSE]
      BY DEF NoTask
    <2> DEFINE y == [z EXCEPT !.at = "loans", !.msg = m, !.loans = interest]
    <2>2. y = [z EXCEPT !.at = "loans", !.msg = m, !.loans = interest]
      OBVIOUS
    <2> HIDE DEF y, z
    <2>3. y = x
      BY <2>1, <2>2
    <2> QED BY <2>3 DEF y, z
  <1>2. worker' = [worker EXCEPT ![w] = x] /\ queue' \subseteq queue /\ UNCHANGED <<rows, interest>>
    BY <1>1 DEF ReadLoans
  <1>3. IsTask(x) /\ x.at = "loans" /\ x.msg = m /\ x.loans = interest /\ x.todo = {} /\ x.new = {}
    BY DEF IsTask
  <1> HIDE DEF x
  <1>4. m \in Message /\ interest \in [Loans -> Nat] /\ queue' \subseteq Message /\ DOMAIN worker = Workers
    BY <1>2 DEF AccrualInv, RowsInv
  <1>5. TaskInv(x)
    <2>1. \A l : Held(x, l) = OfLoan(l)
      BY <1>3 DEF Held, OfLoan
    <2> QED BY <1>3, <1>4, <2>1 DEF TaskInv, TaskShape, TaskOrder, AccrualInv, RowsInv
  <1>6. DOMAIN worker' = Workers /\ worker'[w] = x /\ \A u \in Workers \ {w} : worker'[u] = worker[u]
    BY <1>2, <1>4
  <1> QED BY <1>2, <1>3, <1>4, <1>5, <1>6, OneTaskMoves

LEMMA ReadLastStep ==
    ASSUME AccrualInv, NEW w \in Workers, ReadLast(w)
    PROVE  AccrualInv'
  <1> DEFINE t == worker[w]
             todo == {k \in Loans \X Nights : k[2] \in MissingDates(k[1], worker[w].msg.day)}
             x == worker'[w]
  <1>1. TaskInv(t) /\ t.at = "loans" /\ DOMAIN worker = Workers
    BY DEF ReadLast, AccrualInv, RowsInv
  <1>2. worker' = [worker EXCEPT ![w].at = "check", ![w].todo = todo]
    BY DEF ReadLast
  <1>3. UNCHANGED <<rows, interest>> /\ queue' \subseteq Message
    BY DEF ReadLast, AccrualInv, RowsInv
  <1>4. todo \subseteq Days
    BY DEF Days
  <1>5. \A k \in todo : \A d \in 1..(k[2] - 1) : <<k[1], d>> \in rows \cup todo
    <2> SUFFICES ASSUME NEW k \in todo, NEW d \in 1..(k[2] - 1), <<k[1], d>> \notin rows
                 PROVE  <<k[1], d>> \in todo
      OBVIOUS
    <2>1. k[1] \in Loans /\ k[2] \in Nights /\ d \in Nights /\ d \in Nat /\ d < k[2]
      BY CloseAssumption DEF Nights
    <2>2. t.msg.day \in Nat
      BY <1>1 DEF TaskInv, TaskShape, Message, Nights
    <2>3. k[2] \in 1..t.msg.day
      BY DEF MissingDates
    <2>4. ASSUME NEW r \in rows, r[1] = k[1], ~(r[2] < d) PROVE FALSE
      <3>1. r \in Days /\ r = <<k[1], r[2]>> /\ r[2] \in Nat
        BY <2>4 DEF AccrualInv, RowsInv, Days, Nights
      <3>2. r[2] # d
        BY <3>1
      <3>3. d \in 1..(r[2] - 1)
        BY <2>1, <2>4, <3>1, <3>2
      <3>4. \A e \in 1..(r[2] - 1) : <<r[1], e>> \in rows
        BY DEF AccrualInv, RowsInv
      <3> QED BY <2>4, <3>3, <3>4
    <2>5. d \in MissingDates(k[1], t.msg.day)
      BY <2>1, <2>2, <2>3, <2>4 DEF MissingDates, LastAccrual
    <2>6. <<k[1], d>> \in Loans \X Nights /\ <<k[1], d>>[1] = k[1] /\ <<k[1], d>>[2] = d
      BY <2>1
    <2> QED BY <2>5, <2>6
  <1> HIDE DEF t, todo
  <1>6. x = [at |-> "check", msg |-> t.msg, loans |-> t.loans, raised |-> t.raised, todo |-> todo, new |-> t.new,
             clean |-> t.clean, broken |-> t.broken]
    BY <1>1, <1>2 DEF t, TaskInv, TaskShape, IsTask
  <1>7. DOMAIN worker' = Workers /\ \A u \in Workers \ {w} : worker'[u] = worker[u]
    BY <1>1, <1>2
  <1> HIDE DEF x
  <1>8. IsTask(x) /\ x.at = "check" /\ x.msg = t.msg /\ x.loans = t.loans /\ x.todo = todo
        /\ x.new = t.new /\ x.new = {}
    BY <1>1, <1>6 DEF IsTask, TaskInv, TaskShape
  <1>9. TaskInv(x)
    <2>1. \A l : Held(x, l) = Held(t, l)
      BY <1>8 DEF Held
    <2>2. x.broken = t.broken
      BY <1>6
    <2> QED BY <1>1, <1>4, <1>5, <1>8, <2>1, <2>2 DEF TaskInv, TaskShape, TaskOrder
  <1> QED BY <1>3, <1>7, <1>8, <1>9, OneTaskMoves DEF x

LEMMA CheckStep ==
    ASSUME AccrualInv, NEW w \in Workers, Check(w)
    PROVE  AccrualInv'
  <1> DEFINE t == worker[w]
             job == Job(w)
             skip == t.broken \/ job \in rows
             x == worker'[w]
  <1>1. TaskInv(t) /\ t.at = "check" /\ DOMAIN worker = Workers /\ t.todo \subseteq Days
    BY DEF Check, Working, AccrualInv, RowsInv, TaskInv, TaskShape
  <1>2. job \in t.todo
    BY <1>1, JobIsFirst DEF Check, Working
  <1>3. worker' = [worker EXCEPT ![w].at = IF skip THEN "check" ELSE "insert",
                                 ![w].todo = IF skip THEN @ \ {job} ELSE @]
    BY DEF Check
  <1>4. UNCHANGED <<rows, interest>> /\ queue' \subseteq Message
    BY DEF Check, AccrualInv, RowsInv
  <1> HIDE DEF t, job, skip
  <1>5. x = [at |-> IF skip THEN "check" ELSE "insert", msg |-> t.msg, loans |-> t.loans,
             raised |-> t.raised, todo |-> IF skip THEN t.todo \ {job} ELSE t.todo, new |-> t.new,
             clean |-> t.clean, broken |-> t.broken]
    BY <1>1, <1>3 DEF t, TaskInv, TaskShape, IsTask
  <1>6. DOMAIN worker' = Workers /\ \A u \in Workers \ {w} : worker'[u] = worker[u]
    BY <1>1, <1>3
  <1> HIDE DEF x
  <1>7. /\ IsTask(x) /\ x.msg = t.msg /\ x.loans = t.loans /\ x.new = t.new /\ x.broken = t.broken
        /\ x.at = (IF skip THEN "check" ELSE "insert")
        /\ x.todo = (IF skip THEN t.todo \ {job} ELSE t.todo)
    BY <1>5 DEF IsTask
  <1>8. skip \/ ~t.broken
    BY DEF skip
  <1>9. skip => t.broken \/ job \in rows
    BY DEF skip
  <1>10. TaskShape(x)
    BY <1>1, <1>7, <1>8 DEF TaskInv, TaskShape
  <1>11. TaskOrder(x)
    <2>1. \A l : Held(x, l) = Held(t, l)
      BY <1>7 DEF Held
    <2> QED BY <1>1, <1>7, <1>9, <2>1 DEF TaskInv, TaskOrder
  <1>12. x.new \cap rows = {} /\ \A u \in Workers \ {w} : x.new \cap worker[u].new = {}
    BY <1>7, KeepsKeys DEF t
  <1> QED BY <1>4, <1>6, <1>10, <1>11, <1>12, OneTaskMoves DEF x, TaskInv

\* The loan is given up, and the database rolls back with its next answer.
LEMMA RollsBack ==
    ASSUME AccrualInv, NEW w \in Workers, Working(w, "insert"), UNCHANGED <<rows, interest, queue>>,
           worker' = [worker EXCEPT ![w].at = "check", ![w].broken = TRUE, ![w].clean = FALSE,
                        ![w].new = {}, ![w].todo = LaterLoans(w)]
    PROVE  AccrualInv'
  <1> DEFINE t == worker[w]
             l == Job(w)[1]
             rest == {k \in t.todo : k[1] # l}
             x == worker'[w]
  <1>1. TaskInv(t) /\ t.at = "insert" /\ ~t.broken /\ DOMAIN worker = Workers
    BY DEF Working, AccrualInv, RowsInv, TaskInv, TaskShape
  <1>2. LaterLoans(w) = rest /\ queue' \subseteq Message
    BY DEF LaterLoans, AccrualInv, RowsInv
  <1> HIDE DEF t, l
  <1>3. worker' = [worker EXCEPT ![w].at = "check", ![w].broken = TRUE, ![w].clean = FALSE,
                      ![w].new = {}, ![w].todo = rest]
    BY <1>2
  <1> HIDE DEF rest
  <1>4. x = [at |-> "check", msg |-> t.msg, loans |-> t.loans, raised |-> t.raised, todo |-> rest,
             new |-> {}, clean |-> FALSE, broken |-> TRUE]
    BY <1>1, <1>3 DEF t, TaskInv, TaskShape, IsTask
  <1>5. DOMAIN worker' = Workers /\ \A u \in Workers \ {w} : worker'[u] = worker[u]
    BY <1>1, <1>3
  <1> HIDE DEF x
  <1>6. GivenUp(t, l, x) /\ x.new = {}
    BY <1>1, <1>4 DEF GivenUp, IsTask, rest
  <1>7. TaskInv(x)
    BY <1>1, <1>6, GivingUp DEF t
  <1>8. UNCHANGED <<rows, interest>> /\ worker'[w] = x
    BY DEF x
  <1>9. x.new \cap rows = {} /\ \A u \in Workers \ {w} : x.new \cap worker[u].new = {}
    BY <1>6
  <1> QED BY <1>2, <1>5, <1>7, <1>8, <1>9, OneTaskMoves

LEMMA KeyTakenStep ==
    ASSUME AccrualInv, NEW w \in Workers, KeyTaken(w)
    PROVE  AccrualInv'
  BY RollsBack DEF KeyTaken

LEMMA DeadlockStep ==
    ASSUME AccrualInv, NEW w \in Workers, DeadlockDetected(w)
    PROVE  AccrualInv'
  BY RollsBack DEF DeadlockDetected

\* A flush: the day before the job is a row, or was flushed before it.
Flushes(t, job, x) ==
    /\ IsTask(x) /\ x.at = "check" /\ x.msg = t.msg /\ x.broken = t.broken
    /\ x.new = t.new \cup {job}
    /\ x.todo \subseteq t.todo \ {job}
    /\ \A k \in t.todo \ x.todo : k = job \/ \A j \in x.todo : j[1] # k[1]
    /\ x.loans \in [Loans -> Nat]
    /\ \A l \in Loans : x.loans[l] <= t.loans[l] + (IF l = job[1] THEN 1 ELSE 0)

LEMMA Flushing ==
    ASSUME AccrualInv, NEW w \in Workers, Working(w, "insert"), KeyIsFree(w), Job(w) \notin rows,
           UNCHANGED <<rows, interest, queue>>, DOMAIN worker' = Workers,
           \A u \in Workers \ {w} : worker'[u] = worker[u],
           Flushes(worker[w], Job(w), worker'[w])
    PROVE  AccrualInv'
  <1> DEFINE t == worker[w]
             job == Job(w)
             x == worker'[w]
  <1>1. TaskInv(t) /\ t.at = "insert" /\ ~t.broken /\ t.todo \subseteq Days /\ t.todo # {}
    BY DEF Working, AccrualInv, RowsInv, TaskInv, TaskShape
  <1>2. job \in t.todo /\ \A j \in t.todo : Before(Order[w], job, j)
    BY <1>1, JobIsFirst
  <1>3. queue' \subseteq Message /\ rows \subseteq Days
    BY DEF AccrualInv, RowsInv
  <1>4. x.new \cap rows = {} /\ \A u \in Workers \ {w} : x.new \cap worker[u].new = {}
    <2>1. t.new \cap rows = {} /\ \A u \in Workers \ {w} : t.new \cap worker[u].new = {}
      BY KeepsKeys
    <2>2. x.new = t.new \cup {job} /\ job \notin rows /\ \A u \in Workers \ {w} : job \notin worker[u].new
      BY DEF Flushes, KeyIsFree
    <2> QED BY <2>1, <2>2
  <1>5. Flushes(t, job, x) /\ job \notin rows
    OBVIOUS
  <1> HIDE DEF t, job, x
  <1>6. TaskShape(x)
    BY <1>1, <1>2, <1>5 DEF TaskInv, TaskShape, Flushes
  <1>7. \A d \in 1..(job[2] - 1) : <<job[1], d>> \in rows \cup t.new
    <2> SUFFICES ASSUME NEW d \in 1..(job[2] - 1), <<job[1], d>> \in t.todo PROVE FALSE
      BY <1>1, <1>2 DEF TaskInv, TaskOrder
    <2>1. job[2] \in Nat /\ job[1] \in Loans /\ Order[w][job[1]] \in Nat
      BY <1>1, <1>2, CloseAssumption DEF Days, Nights
    <2>2. Before(Order[w], job, <<job[1], d>>)
      BY <1>2
    <2>3. job[2] <= d
      BY <2>1, <2>2 DEF Before
    <2> QED BY <2>1, <2>3
  <1>8. \A k \in x.new : \A d \in 1..(k[2] - 1) : <<k[1], d>> \in rows \cup x.new
    BY <1>1, <1>5, <1>7 DEF TaskInv, TaskOrder, Flushes
  <1>9. \A k \in x.todo : \A d \in 1..(k[2] - 1) : <<k[1], d>> \in rows \cup x.new \cup x.todo
    <2> SUFFICES ASSUME NEW k \in x.todo, NEW d \in 1..(k[2] - 1)
                 PROVE  <<k[1], d>> \in rows \cup x.new \cup x.todo
      OBVIOUS
    <2>1. <<k[1], d>> \in rows \cup t.new \cup t.todo
      BY <1>1, <1>5 DEF TaskInv, TaskOrder, Flushes
    <2>2. <<k[1], d>>[1] = k[1]
      OBVIOUS
    <2> QED BY <1>5, <2>1, <2>2 DEF Flushes
  <1>10. ASSUME NEW l \in Loans PROVE x.loans[l] <= Cardinality(Held(x, l))
    <2> DEFINE S == Held(t, l)
               T == Held(x, l)
    <2>1. S \in SUBSET Days /\ T \in SUBSET Days /\ S \subseteq T
      BY <1>1, <1>2, <1>3, <1>5 DEF Held, Flushes, TaskInv, TaskShape
    <2>2. t.loans[l] \in Nat /\ x.loans[l] \in Nat /\ t.loans[l] <= Cardinality(S)
      BY <1>1, <1>5 DEF TaskInv, TaskShape, TaskOrder, Flushes
    <2>3. CASE l # job[1]
      <3>1. x.loans[l] <= t.loans[l]
        BY <1>5, <2>2, <2>3 DEF Flushes
      <3>2. x.loans[l] <= Cardinality(S)
        BY <2>1, <2>2, <3>1, RowsAreFinite
      <3> QED BY <2>1, <2>2, <3>2, MoreRows
    <2>4. CASE l = job[1]
      <3>1. T = S \cup {job} /\ job \notin S
        BY <1>1, <1>2, <1>5, <2>4 DEF Held, Flushes, TaskInv, TaskShape
      <3>2. IsFiniteSet(S) /\ Cardinality(S) \in Nat
        BY <2>1, RowsAreFinite
      <3>3. Cardinality(T) = Cardinality(S) + 1
        BY <3>1, <3>2, FS_AddElement
      <3>4. x.loans[l] <= t.loans[l] + 1
        BY <1>5, <2>4 DEF Flushes
      <3> QED BY <2>2, <3>2, <3>3, <3>4
    <2> QED BY <2>3, <2>4
  <1>11. TaskInv(x)
    BY <1>6, <1>8, <1>9, <1>10 DEF TaskInv, TaskOrder
  <1> QED BY <1>3, <1>4, <1>11, OneTaskMoves DEF x

LEMMA InsertStep ==
    ASSUME AccrualInv, NEW w \in Workers, Insert(w)
    PROVE  AccrualInv'
  <1> DEFINE t == worker[w]
             job == Job(w)
             x == worker'[w]
  <1>1. TaskInv(t) /\ t.at = "insert" /\ t.todo \subseteq Days /\ t.todo # {} /\ DOMAIN worker = Workers
    BY DEF Insert, Working, AccrualInv, RowsInv, TaskInv, TaskShape
  <1>2. job[1] \in Loans
    BY <1>1, JobIsFirst DEF Days
  <1>3. worker' = [worker EXCEPT ![w].at = "check", ![w].todo = @ \ {job},
                      ![w].new = @ \cup {job}, ![w].clean = FALSE,
                      ![w].loans[job[1]] = @ + 1, ![w].raised = @ \cup {job[1]}]
    BY DEF Insert
  <1> HIDE DEF t, job
  <1> DEFINE rest == t.todo \ {job}
             new == t.new \cup {job}
             loans == [t.loans EXCEPT ![job[1]] = @ + 1]
             raised == t.raised \cup {job[1]}
  <1>4. worker' = [worker EXCEPT ![w].at = "check", ![w].todo = rest, ![w].new = new,
                      ![w].clean = FALSE, ![w].loans = loans, ![w].raised = raised]
    BY <1>1, <1>3 DEF t
  <1>5. /\ loans \in [Loans -> Nat]
        /\ \A l \in Loans : loans[l] <= t.loans[l] + (IF l = job[1] THEN 1 ELSE 0)
    BY <1>1, <1>2 DEF TaskInv, TaskShape
  <1> HIDE DEF rest, new, loans, raised
  <1>6. x = [at |-> "check", msg |-> t.msg, loans |-> loans, raised |-> raised, todo |-> rest,
             new |-> new, clean |-> FALSE, broken |-> t.broken]
    BY <1>1, <1>4 DEF t, TaskInv, TaskShape, IsTask
  <1>7. DOMAIN worker' = Workers /\ \A u \in Workers \ {w} : worker'[u] = worker[u]
    BY <1>1, <1>4
  <1> HIDE DEF x
  <1>8. Flushes(t, job, x)
    BY <1>5, <1>6 DEF Flushes, IsTask, rest, new
  <1> QED BY <1>7, <1>8, Flushing DEF Insert, t, job, x

LEMMA HalfwayStep ==
    ASSUME AccrualInv, NEW w \in Workers, FailsHalfway(w)
    PROVE  AccrualInv'
  <1> DEFINE t == worker[w]
             job == Job(w)
             rest == {k \in t.todo : k[1] # job[1]}
             x == worker'[w]
  <1>1. TaskInv(t) /\ t.at = "insert" /\ DOMAIN worker = Workers
    BY DEF FailsHalfway, Working, AccrualInv, RowsInv
  <1>2. worker' = [worker EXCEPT ![w].at = "check", ![w].todo = rest,
                      ![w].new = @ \cup {job}, ![w].clean = FALSE]
    BY DEF FailsHalfway, LaterLoans
  <1> HIDE DEF t, job
  <1> DEFINE new == t.new \cup {job}
  <1>3. worker' = [worker EXCEPT ![w].at = "check", ![w].todo = rest, ![w].new = new, ![w].clean = FALSE]
    BY <1>1, <1>2 DEF t
  <1> HIDE DEF rest, new
  <1>4. x = [at |-> "check", msg |-> t.msg, loans |-> t.loans, raised |-> t.raised, todo |-> rest,
             new |-> new, clean |-> FALSE, broken |-> t.broken]
    BY <1>1, <1>3 DEF t, TaskInv, TaskShape, IsTask
  <1>5. DOMAIN worker' = Workers /\ \A u \in Workers \ {w} : worker'[u] = worker[u]
    BY <1>1, <1>3
  <1>6. t.loans \in [Loans -> Nat]
    BY <1>1 DEF TaskInv, TaskShape
  <1> HIDE DEF x
  <1>7. Flushes(t, job, x)
    <2>1. \A l \in Loans : t.loans[l] <= t.loans[l] + (IF l = job[1] THEN 1 ELSE 0)
      BY <1>6
    <2> QED BY <1>4, <1>6, <2>1 DEF Flushes, IsTask, rest, new
  <1> QED BY <1>5, <1>7, Flushing DEF FailsHalfway, t, job, x

LEMMA LoanFailsStep ==
    ASSUME AccrualInv, NEW w \in Workers, LoanFails(w)
    PROVE  AccrualInv'
  <1> DEFINE t == worker[w]
             job == Job(w)
             x == worker'[w]
  <1>1. TaskInv(t) /\ t.at \in {"check", "insert"} /\ ~t.broken /\ DOMAIN worker = Workers
    BY DEF LoanFails, Working, AccrualInv, RowsInv
  <1>2. UNCHANGED <<rows, interest>> /\ queue' \subseteq Message
    BY DEF LoanFails, AccrualInv, RowsInv
  <1>3. PICK broken \in BOOLEAN, clean \in {worker[w].clean, worker[w].clean /\ worker[w].at = "check"} :
          worker' = [worker EXCEPT ![w].at = "check", ![w].broken = broken, ![w].clean = clean,
                        ![w].todo = {k \in worker[w].todo : k[1] # job[1]}]
    BY DEF LoanFails, LaterLoans
  <1> HIDE DEF t, job
  <1> DEFINE rest == {k \in t.todo : k[1] # job[1]}
  <1>4. worker' = [worker EXCEPT ![w].at = "check", ![w].broken = broken, ![w].clean = clean,
                      ![w].todo = rest]
    BY <1>1, <1>3 DEF t
  <1> HIDE DEF rest
  <1>5. x = [at |-> "check", msg |-> t.msg, loans |-> t.loans, raised |-> t.raised, todo |-> rest, new |-> t.new,
             clean |-> clean, broken |-> broken]
    BY <1>1, <1>4 DEF t, TaskInv, TaskShape, IsTask
  <1>6. DOMAIN worker' = Workers /\ \A u \in Workers \ {w} : worker'[u] = worker[u]
    BY <1>1, <1>4
  <1> HIDE DEF x
  <1>7. GivenUp(t, job[1], x) /\ x.new = t.new
    BY <1>1, <1>5 DEF GivenUp, IsTask, rest
  <1>8. TaskInv(x)
    BY <1>1, <1>7, GivingUp DEF t
  <1>9. x.new \cap rows = {} /\ \A u \in Workers \ {w} : x.new \cap worker[u].new = {}
    BY <1>7, KeepsKeys DEF t
  <1> QED BY <1>2, <1>6, <1>8, <1>9, OneTaskMoves DEF x

LEMMA NoTaskInv == TaskInv(NoTask) /\ NoTask.new = {} /\ NoTask.at = "idle"
  <1> DEFINE z == NoTask
  <1>1. z = [at |-> "idle", msg |-> <<>>, loans |-> <<>>, raised |-> {}, todo |-> {}, new |-> {},
             clean |-> TRUE, broken |-> FALSE]
    BY DEF NoTask
  <1> HIDE DEF z
  <1>2. IsTask(z) /\ z.at = "idle" /\ z.todo = {} /\ z.new = {}
    BY <1>1 DEF IsTask
  <1>3. TaskInv(z)
    BY <1>2 DEF TaskInv, TaskShape, TaskOrder
  <1> QED BY <1>2, <1>3 DEF z

LEMMA GiveUpStep ==
    ASSUME AccrualInv, NEW w \in Workers, GiveUp(w)
    PROVE  AccrualInv'
  <1> DEFINE m == worker[w].msg
             again == [m EXCEPT !.try = @ + 1]
  <1>1. m \in Message /\ DOMAIN worker = Workers
    BY DEF GiveUp, Done, AccrualInv, RowsInv, TaskInv, TaskShape
  <1>2. again \in Message
    BY <1>1 DEF Message
  <1>3. queue' \subseteq queue \cup {again} /\ worker' = [worker EXCEPT ![w] = NoTask]
        /\ UNCHANGED <<rows, interest>>
    BY DEF GiveUp
  <1>4. queue' \subseteq Message
    BY <1>2, <1>3 DEF AccrualInv, RowsInv
  <1>5. DOMAIN worker' = Workers /\ worker'[w] = NoTask
        /\ \A u \in Workers \ {w} : worker'[u] = worker[u]
    BY <1>1, <1>3
  <1> QED BY <1>3, <1>4, <1>5, NoTaskInv, OneTaskMoves

LEMMA CrashStep ==
    ASSUME AccrualInv, NEW w \in Workers, Crash(w)
    PROVE  AccrualInv'
  <1>1. worker[w].msg \in Message /\ DOMAIN worker = Workers
    BY DEF Crash, AccrualInv, RowsInv, TaskInv, TaskShape
  <1>2. queue' \subseteq queue \cup {worker[w].msg} /\ worker' = [worker EXCEPT ![w] = NoTask]
        /\ UNCHANGED <<rows, interest>>
    BY DEF Crash
  <1>3. queue' \subseteq Message
    BY <1>1, <1>2 DEF AccrualInv, RowsInv
  <1>4. DOMAIN worker' = Workers /\ worker'[w] = NoTask
        /\ \A u \in Workers \ {w} : worker'[u] = worker[u]
    BY <1>1, <1>2
  <1> QED BY <1>2, <1>3, <1>4, NoTaskInv, OneTaskMoves

\* The balances are those the task read, with the days it raised them by.
LEMMA CommitStep ==
    ASSUME AccrualInv, NEW w \in Workers, Commit(w)
    PROVE  AccrualInv'
  <1> DEFINE t == worker[w]
  <1>1. TaskInv(t) /\ t.at = "check" /\ ~t.broken /\ DOMAIN worker = Workers
    BY DEF Commit, Done, AccrualInv, RowsInv
  <1>2. /\ rows' = rows \cup t.new /\ worker' = [worker EXCEPT ![w] = NoTask] /\ queue' = queue
        /\ interest' = [l \in Loans |-> IF l \in t.raised THEN t.loans[l] ELSE interest[l]]
    BY DEF Commit
  <1>3. /\ DOMAIN worker' = Workers /\ worker'[w] = NoTask
        /\ \A u \in Workers \ {w} : worker'[u] = worker[u]
    BY <1>1, <1>2
  <1>4. t.new \subseteq Days /\ t.loans \in [Loans -> Nat] /\ t.new \cap rows = {} /\ rows \subseteq Days
    BY <1>1 DEF AccrualInv, RowsInv, Apart, TaskInv, TaskShape
  <1>5. ASSUME NEW l \in Loans
        PROVE  /\ OfLoan(l)' = Held(t, l) /\ OfLoan(l) \subseteq OfLoan(l)'
               /\ OfLoan(l) \in SUBSET Days /\ OfLoan(l)' \in SUBSET Days
    BY <1>2, <1>4 DEF OfLoan, Held
  <1>6. rows' \subseteq Days /\ \A k \in rows' : \A d \in 1..(k[2] - 1) : <<k[1], d>> \in rows'
    BY <1>1, <1>2, <1>4 DEF AccrualInv, RowsInv, TaskInv, TaskOrder
  <1>7. /\ interest' \in [Loans -> Nat]
        /\ \A l \in Loans : interest'[l] <= Cardinality(OfLoan(l)')
    <2>1. \A l \in Loans : /\ t.loans[l] \in Nat /\ t.loans[l] <= Cardinality(Held(t, l))
                           /\ interest[l] \in Nat /\ interest[l] <= Cardinality(OfLoan(l))
      BY <1>1, <1>4 DEF AccrualInv, RowsInv, TaskInv, TaskOrder
    <2> HIDE DEF t
    <2>2. interest' \in [Loans -> Nat]
      BY <1>2, <2>1
    <2>3. ASSUME NEW l \in Loans PROVE interest'[l] <= Cardinality(OfLoan(l)')
      <3>1. interest'[l] = IF l \in t.raised THEN t.loans[l] ELSE interest[l]
        BY <1>2
      <3>2. CASE l \in t.raised
        BY <1>5, <2>1, <3>1, <3>2
      <3>3. CASE l \notin t.raised
        <4>1. interest[l] <= Cardinality(OfLoan(l)')
          BY <1>5, <2>1, MoreRows
        <4> QED BY <3>1, <3>3, <4>1
      <3> QED BY <3>2, <3>3
    <2> QED BY <2>2, <2>3
  <1>8. Apart'
    BY <1>2, <1>3, NoTaskInv DEF AccrualInv, RowsInv, Apart
  <1>9. RowsInv'
    BY <1>2, <1>3, <1>6, <1>7, <1>8 DEF AccrualInv, RowsInv
  <1>10. ASSUME NEW u \in Workers PROVE TaskInv(worker[u])'
    <2> DEFINE v == worker'[u]
    <2>1. v = NoTask \/ v = worker[u]
      BY <1>3
    <2>2. TaskInv(v)
      BY <2>1, NoTaskInv DEF AccrualInv
    <2> HIDE DEF v
    <2>3. v.at = "idle" \/ v.broken \/ \A l \in Loans : v.loans[l] <= Cardinality({k \in rows' \cup v.new : k[1] = l})
      <3> SUFFICES ASSUME v.at # "idle", ~v.broken, NEW l \in Loans
                   PROVE  v.loans[l] <= Cardinality({k \in rows' \cup v.new : k[1] = l})
        OBVIOUS
      <3>1. v.loans[l] \in Nat /\ v.loans[l] <= Cardinality(Held(v, l)) /\ v.new \subseteq Days
        BY <2>2 DEF TaskInv, TaskShape, TaskOrder
      <3> DEFINE S == Held(v, l)
                 T == {k \in rows' \cup v.new : k[1] = l}
      <3>2. S \in SUBSET Days /\ S \subseteq T /\ T \subseteq Days
        BY <1>2, <1>4, <3>1 DEF Held
      <3> HIDE DEF S, T
      <3> QED BY <3>1, <3>2, MoreRows DEF S, T
    <2>4. TaskShape(v)
      BY <2>2 DEF TaskInv
    <2>5. /\ \A k \in v.new : \A d \in 1..(k[2] - 1) : <<k[1], d>> \in rows' \cup v.new
          /\ v.broken \/ \A k \in v.todo : \A d \in 1..(k[2] - 1) :
                                 <<k[1], d>> \in rows' \cup v.new \cup v.todo
      BY <1>2, <2>2 DEF TaskInv, TaskOrder
    <2> QED BY <2>3, <2>4, <2>5 DEF v, TaskInv, TaskShape, TaskOrder, Held
  <1> QED BY <1>9, <1>10 DEF AccrualInv

LEMMA AccrualInit == Init => AccrualInv
  <1> SUFFICES ASSUME Init PROVE AccrualInv
    OBVIOUS
  <1>1. rows = {} /\ interest = [l \in Loans |-> 0] /\ queue = {} /\ worker = [w \in Workers |-> NoTask]
    BY DEF Init
  <1>2. \A l \in Loans : Cardinality(OfLoan(l)) \in Nat
    BY <1>1, RowsAreFinite DEF OfLoan
  <1> QED BY <1>1, <1>2, NoTaskInv DEF AccrualInv, RowsInv, Apart

LEMMA AccrualNext == AccrualInv /\ [Next]_vars => AccrualInv'
  <1> SUFFICES ASSUME AccrualInv, [Next]_vars PROVE AccrualInv'
    OBVIOUS
  <1>1. CASE UNCHANGED <<rows, interest, worker>> /\ queue' \subseteq Message
    <2>1. \A l : OfLoan(l)' = OfLoan(l)
      BY <1>1 DEF OfLoan
    <2> QED BY <1>1, <2>1 DEF AccrualInv, RowsInv, Apart, TaskInv, TaskShape, TaskOrder, Held
  <1>2. ASSUME NEW d \in Nights, Dispatch(d) PROVE AccrualInv'
    <2>1. [day |-> d, try |-> 0] \in Message
      BY DEF Message
    <2> QED BY <1>1, <1>2, <2>1 DEF Dispatch, AccrualInv, RowsInv
  <1>3. queue \subseteq Message
    BY DEF AccrualInv, RowsInv
  <1>4. ASSUME NEW x \in Exports, ExportStep(x) PROVE AccrualInv'
    BY <1>1, <1>3, <1>4 DEF ExportStep, Load, Deliver, MarkSynced, ExportFails, accrualVars
  <1>5. ASSUME NEW w \in Workers, TaskStep(w) PROVE AccrualInv'
    BY <1>5, ReadLastStep, CheckStep, KeyTakenStep, InsertStep, DeadlockStep, CommitStep, GiveUpStep DEF TaskStep
  <1>6. ASSUME NEW w \in Workers, TaskFails(w) \/ \E m \in queue : ReadLoans(w, m) PROVE AccrualInv'
    BY <1>6, LoanFailsStep, HalfwayStep, CrashStep, ReadLoansStep DEF TaskFails
  <1>7. ASSUME NEW p \in Payments, PostPayment(p) \/ ReversePayment(p) PROVE AccrualInv'
    BY <1>1, <1>3, <1>7 DEF PostPayment, ReversePayment, accrualVars
  <1>8. CASE UNCHANGED vars
    BY <1>1, <1>3, <1>8 DEF accrualVars, vars
  <1> QED BY <1>2, <1>4, <1>5, <1>6, <1>7, <1>8 DEF Next

LEMMA AccrualAlways == Spec => []AccrualInv
  BY AccrualInit, AccrualNext, PTL DEF Spec

\* However tasks overlap, wait for each other's keys, fail and are tried again
\* (accrual.py, _run_accrual), a loan is accrued day after day, and its
\* accrued interest never holds more days than have a row.
THEOREM AccrualsAreInOrder == Spec => []AccruedInOrder
  <1>1. AccrualInv => AccruedInOrder
    <2> SUFFICES ASSUME AccrualInv, NEW l \in Loans
                 PROVE  /\ \A k \in rows : k[1] = l => \A d \in 1..k[2] : <<l, d>> \in rows
                        /\ interest[l] <= Cardinality({k \in rows : k[1] = l})
      BY DEF AccruedInOrder
    <2>1. ASSUME NEW k \in rows, k[1] = l, NEW d \in 1..k[2] PROVE <<l, d>> \in rows
      <3>1. k = <<l, k[2]>> /\ k[2] \in Nat
        BY <2>1 DEF AccrualInv, RowsInv, Days, Nights
      <3>2. CASE d = k[2]
        BY <3>1, <3>2
      <3>3. CASE d # k[2]
        <4>1. d \in 1..(k[2] - 1)
          BY <3>1, <3>3
        <4> QED BY <2>1, <4>1 DEF AccrualInv, RowsInv
      <3> QED BY <3>2, <3>3
    <2>2. interest[l] <= Cardinality({k \in rows : k[1] = l})
      BY DEF AccrualInv, RowsInv, OfLoan
    <2> QED BY <2>1, <2>2
  <1> QED BY <1>1, AccrualAlways, PTL

(***************************************************************************)
(* The exports.  What one has written is what it had loaded, and what it   *)
(* has finished with is marked; every marked entry has such an export.     *)
(* Nothing is said of how two of them may overlap.                         *)
(***************************************************************************)
IsEntry(x) == x = [day |-> x.day, status |-> x.status, synced |-> x.synced] /\ x.synced \in BOOLEAN
Synced(i) == i \in DOMAIN entries /\ entries[i].synced
Delivers(x) == export[x].at \in {"mark", "done"}
IsExport(e) ==
    /\ e = [at |-> e.at, day |-> e.day, loaded |-> e.loaded]
    /\ e.at \in {"idle", "upload", "mark", "done", "failed"}
EntriesInv ==
    /\ DOMAIN entries \subseteq EntryIds
    /\ \A i \in DOMAIN entries : IsEntry(entries[i])
    /\ \A k \in Days : Accrual(k) \in DOMAIN entries => k \in rows
    /\ \A p \in Payments : Reversal(p) \in DOMAIN entries =>
           Pay(p) \in DOMAIN entries /\ entries[Pay(p)].status = "reversed"
LoadedInv ==
    /\ DOMAIN export = Exports
    /\ \A x \in Exports : IsExport(export[x]) /\ export[x].loaded \subseteq DOMAIN entries
WrittenInv ==
    /\ written \in [Channels -> [EntryIds -> SUBSET Exports]]
    /\ \A c \in Channels : \A i \in EntryIds : \A x \in written[c][i] :
           export[x].at # "idle" /\ i \in export[x].loaded
    /\ \A x \in Exports : Delivers(x) =>
           \A c \in Channels : \A i \in export[x].loaded : x \in written[c][i]
MarkedInv ==
    /\ \A x \in Exports : export[x].at = "done" => \A i \in export[x].loaded : Synced(i)
    /\ \A i : Synced(i) => \E x \in Exports : export[x].at = "done" /\ i \in export[x].loaded
ExportInv == EntriesInv /\ LoadedInv /\ WrittenInv /\ MarkedInv

\* New entries are unsynced, and old ones stay as they are marked.
LEMMA Posting ==
    ASSUME ExportInv, EntriesInv', UNCHANGED <<export, written>>, DOMAIN entries \subseteq DOMAIN entries',
           \A i \in DOMAIN entries : entries'[i].synced = entries[i].synced,
           \A i \in DOMAIN entries' \ DOMAIN entries : ~entries'[i].synced
    PROVE  ExportInv'
  <1>1. LoadedInv'
    BY DEF ExportInv, LoadedInv, IsExport
  <1>2. WrittenInv'
    BY DEF ExportInv, WrittenInv, Delivers
  <1>3. \A i : Synced(i)' <=> Synced(i)
    BY DEF ExportInv, EntriesInv, IsEntry, Synced
  <1>4. MarkedInv'
    BY <1>3 DEF ExportInv, MarkedInv
  <1> QED BY <1>1, <1>2, <1>4 DEF ExportInv

LEMMA NewEntryIs ==
    ASSUME NEW day
    PROVE  IsEntry(Posted(day)) /\ ~Posted(day).synced /\ Posted(day).status = "posted"
  BY DEF IsEntry, Posted

LEMMA CommitPosts ==
    ASSUME AccrualInv, ExportInv, NEW w \in Workers, Commit(w)
    PROVE  ExportInv'
  <1> DEFINE ids == {Accrual(k) : k \in worker[w].new}
  <1>1. /\ entries' = With(entries, [i \in ids |-> Posted(i.day)]) /\ rows' = rows \cup worker[w].new
        /\ UNCHANGED <<export, written, errors>>
    BY DEF Commit, exportVars
  <1>2. worker[w].new \subseteq Days /\ worker[w].new \cap rows = {}
    BY DEF AccrualInv, RowsInv, Apart, TaskInv, TaskShape
  <1>3. ids \subseteq EntryIds /\ ids \cap DOMAIN entries = {}
    BY <1>2 DEF Accrual, EntryIds, Days, ExportInv, EntriesInv
  <1> HIDE DEF ids
  <1>4. /\ DOMAIN entries' = DOMAIN entries \cup ids
        /\ \A i \in ids : entries'[i] = Posted(i.day)
        /\ \A i \in DOMAIN entries : entries'[i] = entries[i]
    BY <1>1, <1>3 DEF With
  <1>5. ASSUME NEW k \in Days, Accrual(k) \in ids PROVE k \in rows'
    <2>1. PICK j \in worker[w].new : Accrual(j) = Accrual(k)
      BY <1>5 DEF ids
    <2>2. j = k
      BY <1>2, <2>1 DEF Accrual, Days
    <2> QED BY <1>1, <2>1, <2>2
  <1>6. \A p \in Payments : Pay(p) \notin ids /\ Reversal(p) \notin ids
    BY DEF ids, Accrual, Pay, Reversal
  <1>7. EntriesInv'
    <2>1. DOMAIN entries' \subseteq EntryIds /\ \A i \in DOMAIN entries' : IsEntry(entries'[i])
      BY <1>3, <1>4, NewEntryIs DEF ExportInv, EntriesInv
    <2>2. \A k \in Days : Accrual(k) \in DOMAIN entries' => k \in rows'
      BY <1>1, <1>4, <1>5 DEF ExportInv, EntriesInv
    <2>3. \A p \in Payments : Reversal(p) \in DOMAIN entries' =>
              Pay(p) \in DOMAIN entries' /\ entries'[Pay(p)].status = "reversed"
      BY <1>4, <1>6 DEF ExportInv, EntriesInv
    <2> QED BY <2>1, <2>2, <2>3 DEF EntriesInv, IsEntry, Accrual, Reversal, Pay
  <1> QED BY <1>1, <1>4, <1>7, NewEntryIs, Posting

LEMMA PaymentPosts ==
    ASSUME ExportInv, NEW p \in Payments, PostPayment(p) \/ ReversePayment(p)
    PROVE  ExportInv'
  <1>1. UNCHANGED <<rows, export, written, errors>>
    BY DEF PostPayment, ReversePayment, accrualVars, exportVars
  <1>2. Pay(p) \in EntryIds /\ Reversal(p) \in EntryIds
    BY DEF EntryIds, Pay, Reversal
  <1>3. /\ \A q \in Payments : Pay(p) # Reversal(q) /\ (Pay(q) = Pay(p) <=> q = p)
                               /\ (Reversal(q) = Reversal(p) <=> q = p) /\ Pay(q) # Reversal(p)
        /\ \A k : Accrual(k) # Pay(p) /\ Accrual(k) # Reversal(p)
    BY DEF Pay, Reversal, Accrual
  <1>4. /\ DOMAIN entries \subseteq EntryIds /\ \A i \in DOMAIN entries : IsEntry(entries[i])
        /\ \A k \in Days : Accrual(k) \in DOMAIN entries => k \in rows
        /\ \A q \in Payments : Reversal(q) \in DOMAIN entries =>
              Pay(q) \in DOMAIN entries /\ entries[Pay(q)].status = "reversed"
    BY DEF ExportInv, EntriesInv
  <1>5. CASE PostPayment(p)
    <2> DEFINE i0 == Pay(p)
               e0 == Posted(Today)
    <2>1. entries' = With(entries, [i \in {i0} |-> e0]) /\ i0 \notin DOMAIN entries
      BY <1>5 DEF PostPayment
    <2>2. IsEntry(e0) /\ ~e0.synced
      BY NewEntryIs
    <2> HIDE DEF i0, e0
    <2>3. /\ DOMAIN entries' = DOMAIN entries \cup {i0} /\ entries'[i0] = e0
          /\ \A i \in DOMAIN entries : entries'[i] = entries[i]
      BY <2>1 DEF With
    <2>4. DOMAIN entries' \subseteq EntryIds /\ \A i \in DOMAIN entries' : IsEntry(entries'[i])
      BY <1>2, <1>4, <2>2, <2>3 DEF i0
    <2>5. \A k \in Days : Accrual(k) \in DOMAIN entries' => k \in rows'
      BY <1>1, <1>3, <1>4, <2>3 DEF i0
    <2>6. \A q \in Payments : Reversal(q) \in DOMAIN entries' =>
              Pay(q) \in DOMAIN entries' /\ entries'[Pay(q)].status = "reversed"
      BY <1>3, <1>4, <2>3 DEF i0
    <2>7. EntriesInv'
      BY <2>4, <2>5, <2>6 DEF EntriesInv, IsEntry, Accrual, Reversal, Pay
    <2> QED BY <1>1, <2>2, <2>3, <2>7, Posting
  <1>6. CASE ReversePayment(p)
    <2> DEFINE i0 == Reversal(p)
               e0 == Posted(Today)
               es == [entries EXCEPT ![Pay(p)].status = "reversed"]
               paid == Pay(p)
               e1 == es[paid]
    <2>1. entries' = With(es, [i \in {i0} |-> e0]) /\ paid \in DOMAIN entries
          /\ entries[paid].status = "posted"
      BY <1>6 DEF ReversePayment
    <2>2. IsEntry(e0) /\ ~e0.synced
      BY NewEntryIs
    <2>3. DOMAIN es = DOMAIN entries /\ \A i \in DOMAIN entries \ {paid} : es[i] = entries[i]
      BY <2>1
    <2>4. e1 = [day |-> entries[paid].day, status |-> "reversed", synced |-> entries[paid].synced]
      BY <1>4, <2>1 DEF IsEntry
    <2>5. i0 \notin DOMAIN entries
      BY <1>4, <2>1
    <2> HIDE DEF e1
    <2>6. IsEntry(e1) /\ e1.synced = entries[paid].synced /\ e1.status = "reversed"
      BY <1>4, <2>1, <2>4 DEF IsEntry
    <2>7. es[paid] = e1
      BY DEF e1
    <2> HIDE DEF i0, e0, es, paid
    <2>8. /\ DOMAIN entries' = DOMAIN entries \cup {i0} /\ entries'[i0] = e0
          /\ entries'[paid] = e1
          /\ \A i \in DOMAIN entries \ {paid} : entries'[i] = entries[i]
      BY <2>1, <2>3, <2>5, <2>7 DEF With
    <2>9. DOMAIN entries' \subseteq EntryIds /\ \A i \in DOMAIN entries' : IsEntry(entries'[i])
      BY <1>2, <1>4, <2>2, <2>6, <2>8 DEF i0
    <2>10. \A k \in Days : Accrual(k) \in DOMAIN entries' => k \in rows'
      BY <1>1, <1>3, <1>4, <2>8 DEF i0
    <2>11. \A q \in Payments : Reversal(q) \in DOMAIN entries' =>
              Pay(q) \in DOMAIN entries' /\ entries'[Pay(q)].status = "reversed"
      BY <1>3, <1>4, <2>1, <2>6, <2>8 DEF i0, paid
    <2>12. EntriesInv'
      BY <2>9, <2>10, <2>11 DEF EntriesInv, IsEntry, Accrual, Reversal, Pay
    <2>13. \A i \in DOMAIN entries : entries'[i].synced = entries[i].synced
      BY <2>6, <2>8
    <2> QED BY <1>1, <2>2, <2>8, <2>12, <2>13, Posting
  <1> QED BY <1>5, <1>6

\* One export moves on.
LEMMA OneExportMoves ==
    ASSUME ExportInv, NEW x \in Exports, NEW e, export' = [export EXCEPT ![x] = e],
           IsExport(e), e.loaded \subseteq DOMAIN entries
    PROVE  /\ DOMAIN export' = Exports /\ export'[x] = e
           /\ \A y \in Exports \ {x} : export'[y] = export[y]
           /\ \A y \in Exports : IsExport(export'[y]) /\ export'[y].loaded \subseteq DOMAIN entries
  <1>1. DOMAIN export = Exports
    BY DEF ExportInv, LoadedInv
  <1>2. DOMAIN export' = Exports /\ export'[x] = e /\ \A y \in Exports \ {x} : export'[y] = export[y]
    BY <1>1
  <1> QED BY <1>2 DEF ExportInv, LoadedInv

LEMMA SameEntries ==
    ASSUME EntriesInv, UNCHANGED <<rows, entries>>
    PROVE  EntriesInv'
  BY DEF EntriesInv, IsEntry, Accrual, Reversal, Pay

LEMMA LoadStep ==
    ASSUME ExportInv, NEW x \in Exports, NEW d \in Nights, Load(x, d)
    PROVE  ExportInv'
  <1> DEFINE e == [at |-> "upload", day |-> d, loaded |-> Unsynced(d)]
  <1>1. /\ export[x].at = "idle" /\ UNCHANGED <<rows, entries, written>>
        /\ export' = [export EXCEPT ![x] = e]
    BY DEF Load, accrualVars
  <1>2. IsExport(e) /\ e.at = "upload" /\ e.loaded \subseteq DOMAIN entries
    BY DEF IsExport, Unsynced
  <1> HIDE DEF e
  <1>3. /\ DOMAIN export' = Exports /\ export'[x] = e
        /\ \A y \in Exports \ {x} : export'[y] = export[y]
        /\ \A y \in Exports : IsExport(export'[y]) /\ export'[y].loaded \subseteq DOMAIN entries
    BY <1>1, <1>2, OneExportMoves
  <1>4. EntriesInv'
    BY <1>1, SameEntries DEF ExportInv
  <1>5. LoadedInv'
    BY <1>1, <1>3 DEF LoadedInv, IsExport
  <1>6. WrittenInv'
    <2>1. \A c \in Channels : \A i \in EntryIds : x \notin written[c][i] /\ written[c][i] \subseteq Exports
      BY <1>1 DEF ExportInv, WrittenInv
    <2>2. \A c \in Channels : \A i \in EntryIds : \A y \in written[c][i] :
              export'[y].at # "idle" /\ i \in export'[y].loaded
      BY <1>3, <2>1 DEF ExportInv, WrittenInv
    <2>3. \A y \in Exports : export'[y].at \in {"mark", "done"} =>
              \A c \in Channels : \A i \in export'[y].loaded : y \in written[c][i]
      BY <1>2, <1>3 DEF ExportInv, WrittenInv, Delivers
    <2> QED BY <1>1, <2>2, <2>3 DEF ExportInv, WrittenInv, Delivers
  <1>7. MarkedInv'
    <2>1. \A i : Synced(i)' <=> Synced(i)
      BY <1>1 DEF Synced
    <2>2. \A y \in Exports : export'[y].at = "done" <=> (export[y].at = "done" /\ y # x)
      BY <1>1, <1>2, <1>3
    <2>3. \A y \in Exports : export'[y].at = "done" => \A i \in export'[y].loaded : Synced(i)'
      BY <1>3, <2>1, <2>2 DEF ExportInv, MarkedInv
    <2>4. ASSUME NEW i, Synced(i)' PROVE \E y \in Exports : export'[y].at = "done" /\ i \in export'[y].loaded
      <3>1. PICK y \in Exports : export[y].at = "done" /\ i \in export[y].loaded
        BY <2>1, <2>4 DEF ExportInv, MarkedInv
      <3> QED BY <1>1, <1>3, <3>1
    <2> QED BY <2>3, <2>4 DEF MarkedInv
  <1> QED BY <1>4, <1>5, <1>6, <1>7 DEF ExportInv

\* An export that is not finished moves on, and the files of some channels are
\* written: of all, if it goes on to mark what it delivered.
LEMMA Writing ==
    ASSUME ExportInv, NEW x \in Exports, Running(x), UNCHANGED <<rows, entries>>,
           NEW at \in {"mark", "failed"}, export' = [export EXCEPT ![x].at = at],
           NEW channels, written' = AlsoWritten(x, channels), at = "mark" => channels = Channels
    PROVE  ExportInv'
  <1> DEFINE e == [at |-> at, day |-> export[x].day, loaded |-> export[x].loaded]
             now(c, i) == IF c \in channels /\ i \in export[x].loaded
                          THEN written[c][i] \cup {x} ELSE written[c][i]
  <1>1. IsExport(export[x]) /\ DOMAIN export = Exports /\ export[x].loaded \subseteq DOMAIN entries
        /\ export[x].at \notin {"idle", "done"}
    BY DEF ExportInv, LoadedInv, Running
  <1>2. export' = [export EXCEPT ![x] = e] /\ e.at = at /\ e.loaded = export[x].loaded /\ IsExport(e)
    <2> DEFINE f == export[x]
    <2>1. f = [at |-> f.at, day |-> f.day, loaded |-> f.loaded]
      BY <1>1 DEF IsExport
    <2>2. export' = [export EXCEPT ![x] = [f EXCEPT !.at = at]]
      BY <1>1
    <2> HIDE DEF f
    <2>3. [f EXCEPT !.at = at] = [at |-> at, day |-> f.day, loaded |-> f.loaded]
      BY <2>1
    <2>4. export' = [export EXCEPT ![x] = e]
      BY <2>2, <2>3 DEF f
    <2> QED BY <2>4 DEF IsExport
  <1>3. written' = [c \in Channels |-> [i \in EntryIds |-> now(c, i)]]
    BY DEF AlsoWritten
  <1>4. written \in [Channels -> [EntryIds -> SUBSET Exports]]
    BY DEF ExportInv, WrittenInv
  <1> HIDE DEF e
  <1>5. /\ DOMAIN export' = Exports /\ export'[x] = e
        /\ \A y \in Exports \ {x} : export'[y] = export[y]
        /\ \A y \in Exports : IsExport(export'[y]) /\ export'[y].loaded \subseteq DOMAIN entries
    BY <1>1, <1>2, OneExportMoves
  <1>6. EntriesInv'
    BY SameEntries DEF ExportInv
  <1>7. LoadedInv'
    BY <1>5 DEF LoadedInv, IsExport
  <1>8. \A c \in Channels : \A i \in EntryIds : written'[c][i] = now(c, i) /\ now(c, i) \subseteq Exports
    BY <1>3, <1>4
  <1>9. WrittenInv'
    <2>1. written' \in [Channels -> [EntryIds -> SUBSET Exports]]
      BY <1>3, <1>8
    <2>2. ASSUME NEW c \in Channels, NEW i \in EntryIds, NEW y \in now(c, i)
          PROVE  export'[y].at # "idle" /\ i \in export'[y].loaded
      <3>1. y \in Exports
        BY <1>8
      <3>2. CASE y \in written[c][i]
        <4>1. export[y].at # "idle" /\ i \in export[y].loaded
          BY <3>2 DEF ExportInv, WrittenInv
        <4> QED BY <1>2, <1>5, <3>1, <4>1
      <3>3. CASE y \notin written[c][i]
        BY <1>2, <1>5, <3>3
      <3> QED BY <3>2, <3>3
    <2>3. ASSUME NEW y \in Exports, export'[y].at \in {"mark", "done"},
                 NEW c \in Channels, NEW i \in export'[y].loaded
          PROVE  y \in written'[c][i]
      <3>1. i \in EntryIds
        BY <1>5, <2>3 DEF ExportInv, EntriesInv
      <3>2. CASE y = x
        <4>1. at = "mark" /\ i \in export[x].loaded
          BY <1>2, <1>5, <2>3, <3>2
        <4>2. now(c, i) = written[c][i] \cup {x}
          BY <4>1
        <4> QED BY <1>8, <3>1, <3>2, <4>2
      <3>3. CASE y # x
        <4>1. y \in written[c][i]
          BY <1>5, <2>3, <3>3 DEF ExportInv, WrittenInv, Delivers
        <4> QED BY <1>8, <3>1, <4>1
      <3> QED BY <3>2, <3>3
    <2>4. ASSUME NEW c \in Channels, NEW i \in EntryIds, NEW y \in written'[c][i]
          PROVE  export'[y].at # "idle" /\ i \in export'[y].loaded
      <3>1. y \in now(c, i)
        BY <1>8
      <3> QED BY <2>2, <3>1
    <2> HIDE DEF now
    <2> QED BY <2>1, <2>3, <2>4 DEF WrittenInv, Delivers
  <1>10. MarkedInv'
    <2>1. \A i : Synced(i)' <=> Synced(i)
      BY DEF Synced
    <2>2. \A y \in Exports : export'[y].loaded = export[y].loaded
                            /\ (export'[y].at = "done" <=> export[y].at = "done")
      BY <1>1, <1>2, <1>5
    <2>3. \A y \in Exports : export'[y].at = "done" => \A i \in export'[y].loaded : Synced(i)'
      BY <2>1, <2>2 DEF ExportInv, MarkedInv
    <2>4. ASSUME NEW i, Synced(i)' PROVE \E y \in Exports : export'[y].at = "done" /\ i \in export'[y].loaded
      BY <2>1, <2>2, <2>4 DEF ExportInv, MarkedInv
    <2> QED BY <2>3, <2>4 DEF MarkedInv
  <1> QED BY <1>6, <1>7, <1>9, <1>10 DEF ExportInv

LEMMA DeliverStep ==
    ASSUME ExportInv, NEW x \in Exports, Deliver(x)
    PROVE  ExportInv'
  BY Writing DEF Deliver, Running, accrualVars

LEMMA FailStep ==
    ASSUME ExportInv, NEW x \in Exports, ExportFails(x)
    PROVE  ExportInv'
  <1>1. PICK channels \in {{}, IF export[x].at = "upload" THEN {"s3"} ELSE {}} :
          written' = AlsoWritten(x, channels)
    BY DEF ExportFails
  <1>2. Running(x) /\ UNCHANGED <<rows, entries>> /\ export' = [export EXCEPT ![x].at = "failed"]
    BY DEF ExportFails, accrualVars
  <1> QED BY <1>1, <1>2, Writing

LEMMA MarkStep ==
    ASSUME ExportInv, NEW x \in Exports, MarkSynced(x)
    PROVE  ExportInv'
  <1> DEFINE e == [at |-> "done", day |-> export[x].day, loaded |-> export[x].loaded]
  <1>1. export[x].at = "mark" /\ UNCHANGED <<rows, written>> /\ export' = [export EXCEPT ![x].at = "done"]
        /\ entries' = [i \in DOMAIN entries |->
                         [entries[i] EXCEPT !.synced = @ \/ i \in export[x].loaded]]
    BY DEF MarkSynced, accrualVars
  <1>2. IsExport(export[x]) /\ DOMAIN export = Exports /\ export[x].loaded \subseteq DOMAIN entries
    BY DEF ExportInv, LoadedInv
  <1>3. export' = [export EXCEPT ![x] = e] /\ e.at = "done" /\ e.loaded = export[x].loaded /\ IsExport(e)
    <2> DEFINE f == export[x]
    <2>1. f = [at |-> f.at, day |-> f.day, loaded |-> f.loaded]
      BY <1>2 DEF IsExport
    <2>2. export' = [export EXCEPT ![x] = [f EXCEPT !.at = "done"]]
      BY <1>1, <1>2
    <2> HIDE DEF f
    <2>3. [f EXCEPT !.at = "done"] = [at |-> "done", day |-> f.day, loaded |-> f.loaded]
      BY <2>1
    <2>4. export' = [export EXCEPT ![x] = e]
      BY <2>2, <2>3 DEF f
    <2> QED BY <2>4 DEF IsExport
  <1> HIDE DEF e
  <1>4. /\ DOMAIN export' = Exports /\ export'[x] = e
        /\ \A y \in Exports \ {x} : export'[y] = export[y]
        /\ \A y \in Exports : IsExport(export'[y]) /\ export'[y].loaded \subseteq DOMAIN entries
    BY <1>2, <1>3, OneExportMoves
  <1>5. \A i \in DOMAIN entries : IsEntry(entries[i])
    BY DEF ExportInv, EntriesInv
  <1>6. ASSUME NEW i \in DOMAIN entries
        PROVE  /\ IsEntry(entries'[i]) /\ entries'[i].status = entries[i].status
               /\ entries'[i].synced <=> (entries[i].synced \/ i \in export[x].loaded)
    <2> DEFINE f == entries[i]
               s == f.synced \/ i \in export[x].loaded
    <2>1. entries'[i] = [f EXCEPT !.synced = s]
      BY <1>1
    <2>2. f = [day |-> f.day, status |-> f.status, synced |-> f.synced] /\ s \in BOOLEAN
      BY <1>5 DEF IsEntry
    <2> HIDE DEF f, s
    <2>3. entries'[i] = [day |-> f.day, status |-> f.status, synced |-> s]
      BY <2>1, <2>2
    <2>4. IsEntry(entries'[i]) /\ entries'[i].status = f.status /\ entries'[i].synced = s
      BY <2>2, <2>3 DEF IsEntry
    <2> QED BY <2>4 DEF f, s
  <1>7. DOMAIN entries' = DOMAIN entries
    BY <1>1
  <1>8. EntriesInv'
    <2>1. DOMAIN entries' \subseteq EntryIds /\ \A i \in DOMAIN entries' : IsEntry(entries'[i])
      BY <1>6, <1>7 DEF ExportInv, EntriesInv
    <2>2. \A k \in Days : Accrual(k) \in DOMAIN entries' => k \in rows'
      BY <1>1, <1>7 DEF ExportInv, EntriesInv
    <2>3. \A p \in Payments : Reversal(p) \in DOMAIN entries' =>
              Pay(p) \in DOMAIN entries' /\ entries'[Pay(p)].status = "reversed"
      BY <1>6, <1>7 DEF ExportInv, EntriesInv
    <2> QED BY <2>1, <2>2, <2>3 DEF EntriesInv, IsEntry, Accrual, Reversal, Pay
  <1>9. LoadedInv'
    BY <1>4, <1>7 DEF LoadedInv, IsExport
  <1>10. WrittenInv'
    <2>1. \A y \in Exports : /\ export'[y].loaded = export[y].loaded
                             /\ export'[y].at \in {"mark", "done"} => Delivers(y)
                             /\ export[y].at # "idle" => export'[y].at # "idle"
      BY <1>1, <1>3, <1>4 DEF Delivers
    <2>2. \A c \in Channels : \A i \in EntryIds : written[c][i] \subseteq Exports
      BY DEF ExportInv, WrittenInv
    <2>3. \A c \in Channels : \A i \in EntryIds : \A y \in written[c][i] :
              export'[y].at # "idle" /\ i \in export'[y].loaded
      BY <2>1, <2>2 DEF ExportInv, WrittenInv
    <2>4. \A y \in Exports : export'[y].at \in {"mark", "done"} =>
              \A c \in Channels : \A i \in export'[y].loaded : y \in written[c][i]
      BY <2>1 DEF ExportInv, WrittenInv
    <2> QED BY <1>1, <2>3, <2>4 DEF ExportInv, WrittenInv, Delivers
  <1>11. MarkedInv'
    <2>1. \A i : Synced(i)' <=> Synced(i) \/ i \in export[x].loaded
      BY <1>2, <1>6, <1>7 DEF Synced
    <2>2. \A y \in Exports : export'[y].loaded = export[y].loaded
                            /\ (export'[y].at = "done" <=> y = x \/ export[y].at = "done")
      BY <1>3, <1>4
    <2>3. ASSUME NEW y \in Exports, export'[y].at = "done", NEW i \in export'[y].loaded PROVE Synced(i)'
      BY <2>1, <2>2, <2>3 DEF ExportInv, MarkedInv
    <2>4. ASSUME NEW i, Synced(i)' PROVE \E y \in Exports : export'[y].at = "done" /\ i \in export'[y].loaded
      <3>1. CASE i \in export[x].loaded
        BY <2>2, <3>1
      <3>2. CASE i \notin export[x].loaded
        <4>1. PICK y \in Exports : export[y].at = "done" /\ i \in export[y].loaded
          BY <2>1, <2>4, <3>2 DEF ExportInv, MarkedInv
        <4> QED BY <2>2, <4>1
      <3> QED BY <3>1, <3>2
    <2> QED BY <2>3, <2>4 DEF MarkedInv
  <1> QED BY <1>8, <1>9, <1>10, <1>11 DEF ExportInv

LEMMA ExportInit == Init => ExportInv
  <1> SUFFICES ASSUME Init PROVE ExportInv
    OBVIOUS
  <1>1. /\ entries = [i \in {} |-> <<>>] /\ export = [x \in Exports |-> NoExport] /\ rows = {}
        /\ written = [c \in Channels |-> [i \in EntryIds |-> {}]]
    BY DEF Init
  <1>2. DOMAIN entries = {}
        /\ \A x \in Exports : export[x] = [at |-> "idle", day |-> 0, loaded |-> {}]
    BY <1>1 DEF NoExport
  <1>3. \A x \in Exports : IsExport(export[x]) /\ export[x].at = "idle" /\ export[x].loaded = {}
    BY <1>2 DEF IsExport
  <1>4. EntriesInv /\ LoadedInv /\ MarkedInv
    BY <1>1, <1>2, <1>3 DEF EntriesInv, LoadedInv, MarkedInv, Synced
  <1>5. WrittenInv
    BY <1>1, <1>3 DEF WrittenInv, Delivers
  <1> QED BY <1>4, <1>5 DEF ExportInv

LEMMA ExportNext == AccrualInv /\ ExportInv /\ [Next]_vars => ExportInv'
  <1> SUFFICES ASSUME AccrualInv, ExportInv, [Next]_vars PROVE ExportInv'
    OBVIOUS
  <1>1. CASE UNCHANGED <<rows, entries, export, written>>
    <2>1. EntriesInv'
      BY <1>1, SameEntries DEF ExportInv
    <2> QED BY <1>1, <2>1, Posting
  <1>2. CASE \E d \in Nights : Dispatch(d)
    BY <1>1, <1>2 DEF Dispatch, exportVars
  <1>3. ASSUME NEW w \in Workers, TaskStep(w) PROVE ExportInv'
    <2>1. CASE Commit(w)
      BY <2>1, CommitPosts
    <2>2. CASE ReadLast(w) \/ Check(w) \/ KeyTaken(w) \/ Insert(w) \/ DeadlockDetected(w) \/ GiveUp(w)
      BY <1>1, <2>2 DEF ReadLast, Check, KeyTaken, Insert, DeadlockDetected, GiveUp, exportVars
    <2> QED BY <1>3, <2>1, <2>2 DEF TaskStep
  <1>4. ASSUME NEW w \in Workers, TaskFails(w) \/ \E m \in queue : ReadLoans(w, m) PROVE ExportInv'
    BY <1>1, <1>4 DEF TaskFails, LoanFails, FailsHalfway, Crash, ReadLoans, exportVars
  <1>5. ASSUME NEW p \in Payments, PostPayment(p) \/ ReversePayment(p) PROVE ExportInv'
    BY <1>5, PaymentPosts
  <1>6. ASSUME NEW x \in Exports, ExportStep(x) PROVE ExportInv'
    BY <1>6, LoadStep, DeliverStep, MarkStep, FailStep DEF ExportStep
  <1>7. CASE UNCHANGED vars
    BY <1>1, <1>7 DEF vars, accrualVars, exportVars
  <1> QED BY <1>2, <1>3, <1>4, <1>5, <1>6, <1>7 DEF Next

LEMMA CloseInit == Init => AccrualInv /\ ExportInv
  BY AccrualInit, ExportInit

LEMMA CloseNext == (AccrualInv /\ ExportInv) /\ [Next]_vars => (AccrualInv /\ ExportInv)'
  BY AccrualNext, ExportNext

\* An entry that the exporter marked (gl_exporter.py, run) was in a
\* file that reached every configured channel, whatever was posted, reversed
\* or lost between the loading and the marking and however exports overlap.
THEOREM MarkedEntriesWereWritten == Spec => []SyncedIsWritten
  <1>1. ExportInv => SyncedIsWritten
    <2> SUFFICES ASSUME ExportInv, NEW i \in DOMAIN entries, entries[i].synced, NEW c \in Channels
                 PROVE  written[c][i] # {}
      BY DEF SyncedIsWritten
    <2>1. PICK x \in Exports : export[x].at = "done" /\ i \in export[x].loaded
      BY DEF ExportInv, MarkedInv, Synced
    <2>2. x \in written[c][i]
      BY <2>1 DEF ExportInv, WrittenInv, Delivers
    <2> QED BY <2>2
  <1> QED BY <1>1, CloseInit, CloseNext, PTL DEF Spec

\* An export (_load_unsynced_entries) loads no entry that an export
\* delivered and marked before it.  One that overlapped, or failed, may have
\* delivered it.
THEOREM FinishedExportsAreFinal == Spec => FinishedIsFinal
  <1> DEFINE Loads(x) == export[x].at = "idle" /\ export'[x].at = "upload"
             New == \A x \in Exports : Loads(x) => \A i \in export'[x].loaded :
                      \A c \in Channels : \A y \in written[c][i] : export[y].at # "done"
  <1>1. ExportInv /\ [Next]_vars => [New]_vars
    <2> SUFFICES ASSUME ExportInv, [Next]_vars, NEW x \in Exports, Loads(x), NEW i \in export'[x].loaded,
                        NEW c \in Channels, NEW y \in written[c][i], export[y].at = "done"
                 PROVE  FALSE
      OBVIOUS
    <2>1. \/ UNCHANGED export
          \/ \E z \in Exports : ExportStep(z)
      <3>1. ASSUME NEW w \in Workers, TaskStep(w) PROVE UNCHANGED export
        BY <3>1 DEF TaskStep, ReadLast, Check, KeyTaken, Insert, DeadlockDetected, Commit, GiveUp, exportVars
      <3>2. ASSUME NEW w \in Workers, TaskFails(w) \/ \E m \in queue : ReadLoans(w, m) PROVE UNCHANGED export
        BY <3>2 DEF TaskFails, LoanFails, FailsHalfway, Crash, ReadLoans, exportVars
      <3>3. ASSUME NEW p \in Payments, PostPayment(p) \/ ReversePayment(p) PROVE UNCHANGED export
        BY <3>3 DEF PostPayment, ReversePayment, exportVars
      <3>4. CASE (\E d \in Nights : Dispatch(d)) \/ UNCHANGED vars
        BY <3>4 DEF Dispatch, exportVars, vars
      <3> QED BY <3>1, <3>2, <3>3, <3>4 DEF Next
    <2>2. PICK z \in Exports : ExportStep(z)
      BY <2>1
    <2>3. z = x
      BY <2>2 DEF ExportStep, Load, Deliver, MarkSynced, ExportFails, ExportInv, LoadedInv
    <2>4. PICK d \in Nights : Load(x, d)
      <3>1. export[x].at = "idle"
        OBVIOUS
      <3> QED BY <2>2, <2>3, <3>1 DEF ExportStep, Deliver, MarkSynced, ExportFails, Running
    <2>5. i \in Unsynced(d)
      <3>1. export'[x].loaded = Unsynced(d)
        BY <2>4 DEF Load, ExportInv, LoadedInv
      <3> QED BY <3>1
    <2>6. i \in EntryIds /\ ~Synced(i)
      BY <2>5 DEF Unsynced, Synced, ExportInv, EntriesInv
    <2>7. y \in Exports /\ i \in export[y].loaded
      BY <2>6 DEF ExportInv, WrittenInv
    <2> QED BY <2>6, <2>7 DEF ExportInv, MarkedInv
  <1>2. Spec => [][New]_vars
    BY <1>1, CloseInit, CloseNext, PTL DEF Spec
  <1> QED BY <1>2 DEF FinishedIsFinal
=============================================================================
