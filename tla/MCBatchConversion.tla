------------------------- MODULE MCBatchConversion -------------------------
(***************************************************************************)
(* Two files that share a loan of the prior servicer and a borrower's tax  *)
(* id; the first has a row with neither prior id nor number and one that   *)
(* cannot be parsed.                                                       *)
(***************************************************************************)
EXTENDS BatchConversion, TLC

LoanRow(portfolio, party, number, prior, asOf) ==
    [portfolio |-> portfolio, party |-> party, number |-> number, prior |-> prior,
     asOf |-> asOf, valid |-> TRUE]
PartyRow(ref, tax) == [ref |-> ref, tax |-> tax, named |-> TRUE]

MCFile ==
    "b1" :> [parties |-> <<PartyRow("r1", "t1")>>,
             loans |-> <<LoanRow("main", "r1", 0, "p1", TRUE), LoanRow("main", "r1", 0, None, TRUE),
                         LoanRow("main", "r1", 0, "p2", FALSE)>>]
    @@
    "b2" :> [parties |-> <<PartyRow("r1", "t1"), [PartyRow("r2", "t2") EXCEPT !.named = FALSE]>>,
             loans |-> <<LoanRow("main", "r1", 3, "p1", TRUE), LoanRow("main", "r2", 0, "p3", TRUE)>>]
MCFirst == "b1" :> "q1" @@ "b2" :> "q2"
MCSingles == {[prior |-> "p1", number |-> 2]}

VARIABLE scenario   \* "crashes" or "failures"
conversionVars == <<vars, scenario>>

\* Bounds: the database fails the tasks only where no worker dies; where one
\* may, no batch is asked for twice.
Crashes == scenario = "crashes" /\ UNCHANGED scenario
Failures == scenario = "failures" /\ UNCHANGED scenario

Preparing == /\ UNCHANGED scenario
             /\ \/ \E b \in Batches : Upload(b)
                \/ \E r \in Requests, b \in Batches : /\ RequestCommit(r, b)
                                                      /\ scenario = "failures" \/ MCFirst[b] = r
                \/ \E s \in Singles : BoardOne(s)
Asks(r) == (Dispatch(r) \/ RequestEnds(r)) /\ UNCHANGED scenario
Delivering == UNCHANGED scenario /\ \E w \in Workers, b \in Batches : Deliver(w, b)
Tasking(w) == (Crashes /\ Working(w)) \/ (Failures /\ TaskStep(w))
Dying(w) == Crashes /\ Crash(w)

MCInit == Init /\ scenario \in {"crashes", "failures"}
MCNext == \/ Preparing \/ Delivering
          \/ \E r \in Requests : Asks(r)
          \/ \E w \in Workers : Tasking(w) \/ Dying(w)
MCFairness == /\ \A r \in Requests : WF_conversionVars(Dispatch(r) /\ UNCHANGED scenario)
              /\ \A r \in Requests : WF_conversionVars(RequestEnds(r) /\ UNCHANGED scenario)
              /\ \A w \in Workers : WF_conversionVars(Tasking(w))
              /\ WF_conversionVars(Delivering)
MCSpec == MCInit /\ [][MCNext]_conversionVars /\ MCFairness
=============================================================================
