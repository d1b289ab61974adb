------------------------------ MODULE LedgerTx ------------------------------
(***************************************************************************)
(* Overlapping transactions on one loan.  Payments, reversals, payoffs and *)
(* accrual tasks each run in a READ COMMITTED session of their own.  The   *)
(* session copies the loan row when it reads it and writes the changed     *)
(* balances back, as absolute values, when it flushes; there is no version *)
(* column and no SELECT FOR UPDATE on the loan.  What orders sessions are  *)
(* the unique keys (payment number, entry number, accrual date), drawn     *)
(* from the rows committed so far, and the row lock of the UPDATE: an      *)
(* INSERT of a key that another open transaction has inserted waits for    *)
(* it, and fails once the key is committed.                                *)
(*                                                                         *)
(* Reversals all aim at one payment that is posted at the start.  The loan *)
(* has no PIK rate and no fees.                                            *)
(***************************************************************************)
EXTENDS Integers, FiniteSets, Functions

CONSTANTS
  Sessions,   \* requests and tasks
  Op,         \* session -> "pay", "payoff", "reverse" or "accrue"
  Amount,     \* gross amount of a payment, coupon of an accrual
  AccrualDay, \* day of an accrual task
  Loan0,      \* the loan row at the start
  Slack,      \* how far the amount of a payoff may be from the quote
  Target,     \* interest and principal of the payment to reverse
  NoOne       \* holder of the unlocked loan row

Abs(n) == IF n < 0 THEN -n ELSE n
SmallerOf(m, n) == IF m <= n THEN m ELSE n

Operations == {"pay", "payoff", "reverse", "accrue"}
ASSUME SessionsAssumption ==
  /\ Op \in [Sessions -> Operations] /\ NoOne \notin Sessions
  /\ Amount \in [Sessions -> Nat] /\ AccrualDay \in [Sessions -> Nat]
  /\ Target \in [interest : Nat, principal : Nat]
  /\ Loan0 \in [interest : Nat, principal : Nat, status : STRING]

VARIABLES
  loan,      \* committed loan row
  books,     \* net debit of 1110 and 1100 over all committed entries
  payments,  \* committed payments: number, amounts, status
  reversals, \* numbers of the committed reversal entries
  entries,   \* committed journal entries
  accruals,  \* committed interest_accrual rows: day, amount
  pc,        \* where a session is
  seen,      \* the loan row as the session read it
  num,       \* the unique key the session has drawn
  locked,    \* session that has updated the loan row and not ended
  overlap    \* history: two sessions that write the principal were open together

committed == <<loan, books, payments, reversals, entries, accruals>>
vars == <<committed, pc, seen, num, locked, overlap>>

Open == {"loan", "entries", "number", "insert", "flush", "commit"}
PrincipalWriters == {s \in Sessions : pc[s] \in Open /\ Op[s] # "accrue"}

\* The session goes on at a place; a session that ends drops what it has read.
Goto(s, place) ==
  /\ pc' = [pc EXCEPT ![s] = place]
  /\ seen' = IF place \in Open THEN seen ELSE [seen EXCEPT ![s] = Loan0]
  /\ num' = IF place \in Open THEN num ELSE [num EXCEPT ![s] = 0]

\* What a payment applies, by the loan row the session has seen.
Applied(s) ==
  LET i == SmallerOf(Amount[s], seen[s].interest)
  IN [interest |-> i, principal |-> SmallerOf(Amount[s] - i, seen[s].principal)]

\* Net effect of a session on the balances of the loan.
Effect(s) ==
  CASE Op[s] \in {"pay", "payoff"} ->
         [interest |-> -Applied(s).interest, principal |-> -Applied(s).principal]
    [] Op[s] = "reverse" -> Target
    [] Op[s] = "accrue"  -> [interest |-> Amount[s], principal |-> 0]

Paid(p) == [num |-> 1, interest |-> p.interest, principal |-> p.principal, status |-> "posted"]

Init ==
  /\ loan = Loan0
  /\ books = [interest |-> Loan0.interest, principal |-> Loan0.principal]
  /\ payments = {Paid(Target)}
  /\ reversals = {} /\ entries = 1 /\ accruals = {}
  /\ pc = [s \in Sessions |-> "start"]
  /\ seen = [s \in Sessions |-> Loan0]
  /\ num = [s \in Sessions |-> 0]
  /\ locked = NoOne /\ overlap = FALSE

TargetPosted == \E p \in payments : p.num = 1 /\ p.status = "posted"

\* reverse_payment looks at the payment, then at the loan, then at the entries
\* that are not reversed yet.
ReadPayment(s) ==
  /\ pc[s] = "start" /\ Op[s] = "reverse"
  /\ Goto(s, IF TargetPosted THEN "loan" ELSE "rejected")
  /\ UNCHANGED <<committed, locked, overlap>>

Quoted(s) == Abs(Amount[s] - (loan.interest + loan.principal)) <= Slack
Accepted(s) == loan.status # "paid_off" /\ (Op[s] = "payoff" => Quoted(s))

\* A payment asks for a payable status, a payoff for the quoted amount as well,
\* the accrual task for an accruing status; only a payoff leaves those here.
ReadLoan(s) ==
  /\ pc[s] = IF Op[s] = "reverse" THEN "loan" ELSE "start"
  /\ overlap' = (overlap \/ (Op[s] # "accrue" /\ PrincipalWriters \ {s} # {}))
  /\ IF Accepted(s)
     THEN /\ seen' = [seen EXCEPT ![s] = loan]
          /\ pc' = [pc EXCEPT ![s] = IF Op[s] = "reverse" THEN "entries" ELSE "number"]
          /\ UNCHANGED num
     ELSE Goto(s, "rejected")
  /\ UNCHANGED <<committed, locked>>

ReadEntries(s) ==
  /\ pc[s] = "entries"
  /\ Goto(s, IF TargetPosted THEN "number" ELSE "rejected")
  /\ UNCHANGED <<committed, locked, overlap>>

\* Payment and entry numbers count the rows there are; an accrual task first
\* looks for a row of its day.
NextKey(s) ==
  CASE Op[s] \in {"pay", "payoff"} -> Cardinality(payments) + 1
    [] Op[s] = "reverse" -> entries + 1
    [] Op[s] = "accrue"  -> AccrualDay[s]

AccruedOn(day) == \E r \in accruals : r.day = day
DrawNumber(s) ==
  /\ pc[s] = "number"
  /\ IF Op[s] = "accrue" /\ AccruedOn(AccrualDay[s])
     THEN Goto(s, "done")
     ELSE /\ num' = [num EXCEPT ![s] = NextKey(s)]
          /\ pc' = [pc EXCEPT ![s] = "insert"]
          /\ UNCHANGED seen
  /\ UNCHANGED <<committed, locked, overlap>>

SameTable(s, t) ==
  Op[s] = Op[t] \/ {Op[s], Op[t]} \subseteq {"pay", "payoff"}
KeyCommitted(s) ==
  CASE Op[s] \in {"pay", "payoff"} -> \E p \in payments : p.num = num[s]
    [] Op[s] = "reverse" -> num[s] \in reversals
    [] Op[s] = "accrue"  -> AccruedOn(num[s])

\* Mutant: there is no unique index.
InsertAnyway(s) ==
  /\ pc[s] = "insert"
  /\ Goto(s, "flush")
  /\ UNCHANGED <<committed, locked, overlap>>
\* The flush of the new row under its unique key.
Insert(s) ==
  /\ pc[s] = "insert"
  /\ \A t \in Sessions \ {s} :
       pc[t] \in {"flush", "commit"} /\ SameTable(s, t) => num[t] # num[s]
  /\ Goto(s, IF KeyCommitted(s) THEN "failed" ELSE "flush")
  /\ UNCHANGED <<committed, locked, overlap>>

\* The UPDATE of the loan row waits for the session that has updated it.
Flush(s) ==
  /\ pc[s] = "flush"
  /\ locked = NoOne
  /\ locked' = s
  /\ Goto(s, "commit")
  /\ UNCHANGED <<committed, overlap>>

\* Mutant: every balance is written back, changed or not.
WrittenLoanStale(s) ==
  [interest  |-> seen[s].interest + Effect(s).interest,
   principal |-> seen[s].principal + Effect(s).principal,
   status    |-> IF Op[s] = "payoff" THEN "paid_off" ELSE loan.status]
\* Only the columns that changed are written, from the copy of the session.
WrittenLoan(s) ==
  [loan EXCEPT
     !.interest  = IF Effect(s).interest = 0 THEN @
                   ELSE seen[s].interest + Effect(s).interest,
     !.principal = IF Effect(s).principal = 0 THEN @
                   ELSE seen[s].principal + Effect(s).principal,
     !.status    = IF Op[s] = "payoff" THEN "paid_off" ELSE @]

Commit(s) ==
  /\ pc[s] = "commit"
  /\ loan' = WrittenLoan(s)
  /\ books' = [interest  |-> books.interest + Effect(s).interest,
               principal |-> books.principal + Effect(s).principal]
  /\ entries' = entries + 1
  /\ payments' =
       CASE Op[s] \in {"pay", "payoff"} ->
              payments \cup {[num |-> num[s], interest |-> Applied(s).interest,
                              principal |-> Applied(s).principal, status |-> "posted"]}
         [] Op[s] = "reverse" ->
              {IF p.num = 1 THEN [p EXCEPT !.status = "reversed"] ELSE p : p \in payments}
         [] Op[s] = "accrue" -> payments
  /\ reversals' = IF Op[s] = "reverse" THEN reversals \cup {num[s]} ELSE reversals
  /\ accruals' = IF Op[s] = "accrue" THEN accruals \cup {[day |-> num[s], amount |-> Amount[s]]}
                ELSE accruals
  /\ locked' = NoOne
  /\ Goto(s, "done")
  /\ UNCHANGED overlap

\* Mutant: a session that fails is not rolled back.
FailOpen(s) ==
  /\ pc[s] \in Open
  /\ Goto(s, "failed")
  /\ UNCHANGED <<committed, locked, overlap>>
\* The request or the worker fails at any point; the session rolls back.
Fail(s) ==
  /\ pc[s] \in Open
  /\ locked' = IF locked = s THEN NoOne ELSE locked
  /\ Goto(s, "failed")
  /\ UNCHANGED <<committed, overlap>>

Step(s) ==
  \/ ReadPayment(s) \/ ReadLoan(s) \/ ReadEntries(s)
  \/ DrawNumber(s) \/ Insert(s) \/ Flush(s) \/ Commit(s)
Next == \E s \in Sessions : Step(s) \/ Fail(s)

\* A session that can go on does; none has to fail.
Spec == Init /\ [][Next]_vars /\ \A s \in Sessions : WF_vars(Step(s))

-----------------------------------------------------------------------------
PostedPayments(bucket) ==
  SumFunction([p \in {q \in payments : q.status = "posted"} |-> p[bucket]])
Accrued == SumFunction([r \in accruals |-> r.amount])

\* The journal follows the rows: whatever overlaps, the ledger accounts hold
\* what the loan owed at the start, plus the interest_accrual rows, one for a
\* day however many tasks ran for it, less what the payments that are still
\* posted applied.  (The unique keys on the accrual date and the payment number
\* are what makes it so.)
BooksFollowRows ==
  /\ books.interest + PostedPayments("interest") = Loan0.interest + Target.interest + Accrued
  /\ books.principal + PostedPayments("principal") = Loan0.principal + Target.principal
  /\ \A r, q \in accruals : r.day = q.day => r = q

\* An accrual in flight never costs a payment its principal: without PIK
\* interest the task writes back accrued_interest alone, so unless two sessions
\* that write the principal overlapped, current_principal is what the ledger
\* says.
PrincipalInBooks == ~overlap => loan.principal = books.principal

\* Every request and task ends: waiting for a unique key or for the loan row
\* is never circular, and a failed session lets go of both.
EverySessionEnds == \A s \in Sessions : <>(pc[s] \in {"done", "failed", "rejected"})

\* "Loan-level balances move once, not per-fund": the balances of the loan are
\* those of its ledger accounts.  Lost when sessions overlap.
BalancesInBooks ==
  loan.interest = books.interest /\ loan.principal = books.principal

\* "Only 'posted' payments can be reversed": a payment is reversed at most once.
ReversedOnce == Cardinality(reversals) <= 1

=============================================================================
