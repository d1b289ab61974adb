------------------------- MODULE AllocationLocking -------------------------
(***************************************************************************)
(* Concurrent allocation updates of one loan.  update_allocations is one   *)
(* READ COMMITTED transaction of four statements: it locks the rows of the *)
(* loan (SELECT FOR UPDATE), deletes, end-dates and inserts.  A statement   *)
(* works on the rows committed when it starts; at each it waits for the    *)
(* transaction that holds the row and then looks at the row again, which   *)
(* may be gone.  Rows committed meanwhile are not part of the statement.   *)
(*                                                                         *)
(* Every writer moves the whole loan to a fund of its own, so that the     *)
(* fund identifies the row and a sound history has one owner a day.        *)
(***************************************************************************)
EXTENDS AllocationHistory   \* rows are the committed ones

CONSTANTS
  Writers,     \* requests, each naming its own fund
  InitialFrom, \* effective date of the initial row
  NoOne        \* holder of an unlocked row

Alone(w) == [f \in {w} |-> Whole]
WriterRequests == {Alone(w) : w \in Writers}
ASSUME WritersAssumption ==
  /\ LeadFund \notin Writers /\ NoOne \notin Writers /\ Writers \subseteq Funds
  /\ WriterRequests \subseteq Requests /\ InitialFrom \in Days

VARIABLES
  holder,  \* fund of a row -> transaction that has locked it
  pc,      \* statement a writer is at
  effective,   \* effective_date of its request
  todo,    \* rows (by fund) its statement has still to reach
  hit      \* rows its DELETE and UPDATE have taken hold of

lockVars == <<rows, holder, pc, effective, todo, hit>>

Statements == {"lock", "delete", "end"}
Committed(fund) == {r \in rows : r.fund = fund}

\* The WHERE clause of each statement.
Matches(w, statement, r) ==
  \/ statement = "lock"
  \/ statement = "delete" /\ r.from >= effective[w]
  \/ statement = "end" /\ r.from < effective[w] /\ OpenAt(r, effective[w])
Snapshot(w, statement) == {r.fund : r \in {x \in rows : Matches(w, statement, x)}}

LockInit ==
  /\ rows = {Row(LeadFund, Whole, InitialFrom)}
  /\ holder = [f \in Writers \cup {LeadFund} |-> NoOne]
  /\ pc = [w \in Writers |-> "idle"]
  /\ effective \in [Writers -> Days]
  /\ todo = [w \in Writers |-> {}]
  /\ hit = [w \in Writers |-> {}]

\* Mutant: the rows are not locked first.
BeginUnlocked(w) ==
  /\ pc[w] = "idle"
  /\ pc' = [pc EXCEPT ![w] = "lock"]
  /\ UNCHANGED <<rows, holder, effective, todo, hit>>
Begin(w) ==
  /\ pc[w] = "idle"
  /\ pc' = [pc EXCEPT ![w] = "lock"]
  /\ todo' = [todo EXCEPT ![w] = Snapshot(w, "lock")]
  /\ UNCHANGED <<rows, holder, effective, hit>>

\* The statement reaches a row no other transaction holds.  If the row is
\* still there and still matches, it is locked and, except by the SELECT, hit.
Reach(w, fund) ==
  LET current == {r \in Committed(fund) : Matches(w, pc[w], r)}
  IN /\ pc[w] \in Statements
     /\ fund \in todo[w]
     /\ holder[fund] \in {NoOne, w}
     /\ todo' = [todo EXCEPT ![w] = @ \ {fund}]
     /\ holder' = IF current = {} THEN holder ELSE [holder EXCEPT ![fund] = w]
     /\ hit' = IF current = {} \/ pc[w] = "lock" THEN hit
               ELSE [hit EXCEPT ![w] = @ \cup {fund}]
     /\ UNCHANGED <<rows, pc, effective>>

NextStatement(w) ==
  /\ pc[w] \in {"lock", "delete"}
  /\ todo[w] = {}
  /\ pc' = [pc EXCEPT ![w] = IF @ = "lock" THEN "delete" ELSE "end"]
  /\ todo' = [todo EXCEPT ![w] = Snapshot(w, pc'[w])]
  /\ UNCHANGED <<rows, holder, effective, hit>>

Released(w) == [f \in DOMAIN holder |-> IF holder[f] = w THEN NoOne ELSE holder[f]]

\* The new row is inserted and the transaction commits.
Commit(w) ==
  /\ pc[w] = "end"
  /\ todo[w] = {}
  /\ rows' = {r \in rows : r.fund \notin hit[w]}
               \cup {EndedAt(r, effective[w]) :
                       r \in {x \in rows : x.fund \in hit[w] /\ x.from < effective[w]}}
               \cup {Row(w, Whole, effective[w])}
  /\ holder' = Released(w)
  /\ pc' = [pc EXCEPT ![w] = "done"]
  /\ UNCHANGED <<effective, todo, hit>>

\* Mutant: a failed request keeps its transaction open.
FailOpen(w) ==
  /\ pc[w] \in Statements
  /\ pc' = [pc EXCEPT ![w] = "failed"]
  /\ UNCHANGED <<rows, holder, effective, todo, hit>>
\* The request fails at any point and the session rolls back.
Fail(w) ==
  /\ pc[w] \in Statements
  /\ pc' = [pc EXCEPT ![w] = "failed"]
  /\ holder' = Released(w)
  /\ UNCHANGED <<rows, effective, todo, hit>>

Step(w) ==
  \/ Begin(w)
  \/ \E fund \in DOMAIN holder : Reach(w, fund)
  \/ NextStatement(w)
  \/ Commit(w)
LockNext == \E w \in Writers : Step(w) \/ Fail(w)

\* A request that can go on does; none has to fail.
LockSpec == LockInit /\ [][LockNext]_lockVars /\ \A w \in Writers : WF_lockVars(Step(w))

-----------------------------------------------------------------------------
(* Properties.                                                             *)

\* Every commit has the effect of its whole update on the rows committed before
\* it: two requests at a time behave as if one had waited.
Serializable ==
  [][\A w \in Writers : pc'[w] = "done" /\ pc[w] # "done"
       => UpdateAllocations(Alone(w), effective[w])]_lockVars

\* No day has two owners, each with the whole loan.
OneOwnerADay ==
  \A d \in Days : \A r, s \in ActiveOn(d) : r = s

\* A request that waits for another is served in the end, whether the other
\* commits or fails.
EveryRequestEnds ==
  \A w \in Writers : pc[w] = "lock" ~> pc[w] \in {"done", "failed"}

=============================================================================
