---------------------------- MODULE MCOwnership ----------------------------
(***************************************************************************)
(* What hangs on the allocation rows of one loan, of three funds and with  *)
(* a fifth of the loan as the unit of share: the portfolios and their      *)
(* reports, the books of the funds, and two writers at a time.  An initial *)
(* state chooses which; the state of the others stands still.              *)
(***************************************************************************)
EXTENDS AllocationLocking, Portfolios, FundLedger, TLC

CONSTANTS f1, f2, f3

VARIABLE scenario   \* which of the three

writerVars == <<holder, pc, effective, todo, hit>>
fundsVars == <<today, status, owed, record, fundStatus, closing, since>>
ownershipVars == <<scenario, rows, writerVars, fundsVars, ledgerVars>>

\* Sets with one owner, a fifth too little, a fifth too much and one refused.
MCRequests ==
  {f2 :> 5, f3 :> 5, f1 :> 1 @@ f2 :> 3, f1 :> 3 @@ f2 :> 3, f1 :> 1 @@ f2 :> 2}
MCPastDues == {[dpd |-> 31, pastDue |-> 3]}

\* Bounds: but for the writers, only two of the funds own the loan, and the third
\* is closed with their client and stays so.  The portfolios know two sets of
\* owners and age the loan on two days; the books know the inexact sets, last two
\* days and have one accrual.
TwoFunds ==
  /\ \A r \in rows' : r.fund # f3
  /\ closing' # {f3} /\ (fundStatus[f3] = "closed" => fundStatus'[f3] = "closed")
FewReports == today' < 2 /\ \A r \in rows' : r.fund = f1 => r.pct # 3
FewEntries ==
  /\ accruals' \in {{}, {0}, {1}}
  /\ \A r \in rows' : r.from < 2 /\ (r.pct = Whole => r.fund = f1)
  /\ \A k \in DOMAIN payments' : payments'[k].eff < 2

NoPortfolios ==
  /\ today = 0 /\ status = "none" /\ owed = 0 /\ record = [d \in {} |-> <<>>]
  /\ fundStatus = [f \in Funds |-> "active"] /\ closing = {} /\ since = {}
NoBooks ==
  /\ principal = 0 /\ interest = 0 /\ payments = <<>> /\ accruals = {}
  /\ books = [f \in Funds |-> [a \in Accounts |-> 0]]
NoWriters ==
  /\ holder = [f \in Writers \cup {LeadFund} |-> NoOne] /\ effective = [w \in Writers |-> 0]
  /\ pc = [w \in Writers |-> "done"] /\ todo = [w \in Writers |-> {}] /\ hit = todo

OInit ==
  \/ scenario = "portfolios" /\ PInit /\ NoBooks /\ NoWriters
  \/ scenario = "books" /\ FundInit /\ NoPortfolios /\ NoWriters
  \/ scenario = "writers" /\ LockInit /\ NoPortfolios /\ NoBooks

PortfolioStep ==
  scenario = "portfolios" /\ PNext /\ UNCHANGED <<scenario, ledgerVars, writerVars>>
  /\ TwoFunds /\ FewReports
BooksStep ==
  scenario = "books" /\ FundNext /\ UNCHANGED <<scenario, fundsVars, writerVars>>
  /\ TwoFunds /\ FewEntries
WriterStep(w) ==
  scenario = "writers" /\ Step(w) /\ UNCHANGED <<scenario, fundsVars, ledgerVars>>
WriterFails(w) ==
  scenario = "writers" /\ Fail(w) /\ UNCHANGED <<scenario, fundsVars, ledgerVars>>

ONext ==
  \/ PortfolioStep \/ BooksStep
  \/ \E w \in Writers : WriterStep(w) \/ WriterFails(w)
OSpec == OInit /\ [][ONext]_ownershipVars /\ \A w \in Writers : WF_ownershipVars(WriterStep(w))
=============================================================================
