----------------------------- MODULE Portfolios -----------------------------
(***************************************************************************)
(* The funds of a client around one loan they share: the funds are closed  *)
(* and opened again, the loan changes its status, ages and changes hands,  *)
(* and the reports are read at any moment.  Closing is a check and an      *)
(* update in one transaction, between which others commit.                 *)
(***************************************************************************)
EXTENDS AllocationHistory, Reports

CONSTANTS Statuses,         \* statuses of the loan that the instance visits
          Lent,             \* what it owes until it is paid off
          PastDues          \* past-due amounts the nightly run may find: [dpd, pastDue]

ASSUME PortfolioAssumption ==
  /\ Lent \in Nat /\ PastDues \subseteq [dpd : Nat, pastDue : Nat]
  /\ Statuses \subseteq {"boarding", "approved", "funded", "modified", "delinquent", "default",
                         "workout", "payoff_pending", "paid_off", "charged_off", "transferred"}

VARIABLES
  today,
  status, owed,       \* of the loan; status "none" before it is boarded
  record,             \* day -> delinquency record, for the days the loan was aged
  fundStatus,         \* of the funds; that of the client is only shown
  closing,            \* the funds the running close request has checked
  since               \* history: funds given a share since they were last checked

portfolioVars == <<rows, today, status, owed, record, fundStatus, closing, since>>

PInit ==
  /\ rows = {} /\ today = 0
  /\ status = "none" /\ owed = 0
  /\ record = [d \in {} |-> <<>>]
  /\ fundStatus = [f \in Funds |-> "active"]
  /\ closing = {} /\ since = {}

(***************************************************************************)
(* The loan.                                                               *)
(***************************************************************************)
\* create_loan, create_converted_loan: whatever the state of the lead fund.
CreateLoan(from) ==
  /\ status = "none"
  /\ status' = "boarding" /\ owed' = Lent
  /\ rows' = {Row(LeadFund, Whole, from)}
  /\ since' = since \cup {LeadFund}
  /\ UNCHANGED <<today, record, fundStatus, closing>>

STATUS_TRANSITIONS ==
  [boarding       |-> {"approved", "funded"},
   approved       |-> {"funded", "boarding"},
   funded         |-> {"modified", "delinquent", "default", "payoff_pending", "paid_off", "transferred"},
   modified       |-> {"funded", "delinquent", "default", "payoff_pending", "paid_off"},
   delinquent     |-> {"funded", "default", "workout", "payoff_pending", "paid_off", "charged_off"},
   default        |-> {"workout", "payoff_pending", "charged_off", "transferred"},
   workout        |-> {"funded", "modified", "paid_off", "charged_off"},
   payoff_pending |-> {"paid_off"},
   paid_off       |-> {},
   charged_off    |-> {"funded"},
   transferred    |-> {}]

UpdateStatus(new) ==
  /\ status # "none" /\ new \in STATUS_TRANSITIONS[status]
  /\ status' = new
  /\ UNCHANGED <<rows, today, owed, record, fundStatus, closing, since>>

\* A payoff: the payment clears the principal.
Payoff ==
  /\ status \in {"funded", "modified", "delinquent", "default", "workout", "payoff_pending"}
  /\ status' = "paid_off" /\ owed' = 0
  /\ UNCHANGED <<rows, today, record, fundStatus, closing, since>>

\* PUT /loans/{id}/allocations: a fund need only exist.
ChangeShares(new, eff) ==
  /\ status # "none"
  /\ UpdateAllocations(new, eff)
  /\ since' = since \cup DOMAIN new
  /\ UNCHANGED <<today, status, owed, record, fundStatus, closing>>

\* The nightly run writes or rewrites the record of the day.
Age(found) ==
  /\ status \in {"funded", "modified", "delinquent", "default", "workout"}
  /\ record' = [d \in DOMAIN record \cup {today} |-> IF d = today THEN found ELSE record[d]]
  /\ UNCHANGED <<rows, today, status, owed, fundStatus, closing, since>>

NextDay ==
  /\ today < MaxDay /\ today' = today + 1
  /\ UNCHANGED <<rows, status, owed, record, fundStatus, closing, since>>

(***************************************************************************)
(* Funds and their client.                                                 *)
(***************************************************************************)
\* No code ever sets the other status, written_off, that would let a fund go.
\* Mutant: the check asks for the fund the loan was boarded with.
LeadUnfinished(funds) ==
  IF LeadFund \in funds /\ status \notin {"none", "paid_off", "written_off"} THEN rows ELSE {}
Unfinished(funds) ==
  {r \in rows : r.fund \in funds /\ r.to = NoEnd /\ status \notin {"paid_off", "written_off"}}

\* close_portfolio and close_client: the shares are counted, ...
Check(funds) ==
  /\ closing = {}
  /\ Unfinished(funds) = {}
  /\ closing' = funds
  /\ since' = since \ funds
  /\ UNCHANGED <<rows, today, status, owed, record, fundStatus>>

\* ... then the funds are closed.
Close ==
  /\ closing # {}
  /\ fundStatus' = [f \in Funds |-> IF f \in closing THEN "closed" ELSE fundStatus[f]]
  /\ closing' = {}
  /\ UNCHANGED <<rows, today, status, owed, record, since>>

\* Reopening asks for nothing; reopening a client leaves its funds closed.
ReopenFund(f) ==
  /\ fundStatus[f] = "closed"
  /\ fundStatus' = [fundStatus EXCEPT ![f] = "active"]
  /\ UNCHANGED <<rows, today, status, owed, record, closing, since>>

PNext ==
  \/ Payoff \/ NextDay \/ Close \/ Check(Funds)
  \/ \E from \in Days : CreateLoan(from)
  \/ \E new \in Statuses : UpdateStatus(new)
  \/ \E new \in Requests, eff \in Days : ChangeShares(new, eff)
  \/ \E found \in PastDues : Age(found)
  \/ \E f \in Funds : Check({f}) \/ ReopenFund(f)
PSpec == PInit /\ [][PNext]_portfolioVars

(***************************************************************************)
(* Properties of the reports, for every day they may be asked for.         *)
(***************************************************************************)
Db == [loans |-> IF status = "none" THEN {} ELSE
                   {[id |-> 1, status |-> status, principal |-> owed, interest |-> 0,
                     fees |-> 0, maturity |-> MaxDay]},
       allocations |-> {[loan |-> 1, fund |-> r.fund, pct |-> r.pct, from |-> r.from, to |-> r.to] : r \in rows},
       records |-> {[loan |-> 1, day |-> d, dpd |-> record[d].dpd, pastDue |-> record[d].pastDue] : d \in DOMAIN record},
       tasks |-> {}, schedule |-> {}, payments |-> {},
       active |-> {f \in Funds : fundStatus[f] = "active"}]

\* The principal the summary spreads over the funds adds up to the loan's, on
\* every day it is owned, but for the tolerance of its shares; only the shares
\* of closed funds are missing from it.
SharesAddUp ==
  \A d \in Days :
    LET shown  == GrandPrincipal(PortfolioSummary(Db, d, Funds))
        hidden == TotalPrincipal(Join(Db, Funds \ Db.active, d, SummaryStatuses))
    IN (status \in SummaryStatuses /\ Owners(d) # {})
         => shown + hidden - owed * Whole \in -(PctTolerance * owed) .. PctTolerance * owed

\* The summary and the aging report agree on what is past due, except for what
\* a loan had past due when it was closed, boarded again or transferred, which
\* the summary goes on counting.
PastDueReconciles ==
  status # "none" => \A d \in Days :
    LET shown == GrandPastDue(PortfolioSummary(Db, d, Db.active))
        aged  == AgedPastDue(AgingReport(Db, d, Db.active, BUCKET_ORDER))
    IN shown = IF status \in AgingStatuses THEN aged
               ELSE TotalPastDue(Db, d, Join(Db, Db.active, d, {status}))

\* A closed fund has an open share of an unfinished loan only if it was given
\* the share after its close request had counted its shares: a loan once paid
\* off does not come back.
ClosedWhenEmpty ==
  \A f \in Funds, r \in rows :
    (fundStatus[f] = "closed" /\ r.fund = f /\ r.to = NoEnd /\ status # "paid_off") => f \in since
=============================================================================
