--------------------------- MODULE MCNightlyClose ---------------------------
(***************************************************************************)
(* Two workers that come by the two loans in opposite orders, as a query   *)
(* without ORDER BY may have it; and exports that overlap each other, the  *)
(* payments and the tasks of one worker.  An initial state chooses which.  *)
(***************************************************************************)
EXTENDS NightlyClose, TLC

MCOrder == "w1" :> <<1, 2>> @@ "w2" :> <<2, 1>>

VARIABLE scenario   \* "tasks" or "exports"
closeVars == <<vars, scenario>>

\* Bounds: with two workers nothing is exported or paid; with exports, one
\* worker runs the tasks, and its own failures have no part.
TasksOnly == scenario = "tasks" /\ UNCHANGED scenario
WithExports(w) == scenario = "exports" /\ w = "w1" /\ UNCHANGED scenario
InScope(w) == TasksOnly \/ WithExports(w)

Dispatching == (\E d \in Nights : Dispatch(d)) /\ UNCHANGED scenario
Receiving == \E w \in Workers, m \in queue : InScope(w) /\ ReadLoans(w, m)
Stepping(w) == InScope(w) /\ TaskStep(w)
Failing(w) == TasksOnly /\ TaskFails(w)
Paying == \E p \in Payments : WithExports("w1") /\ (PostPayment(p) \/ ReversePayment(p))
Exporting == \E x \in Exports : WithExports("w1") /\ ExportStep(x)

MCInit == Init /\ scenario \in {"tasks", "exports"}
MCNext == Dispatching \/ Receiving \/ Paying \/ Exporting
          \/ \E w \in Workers : Stepping(w) \/ Failing(w)
MCFairness == /\ WF_closeVars(Dispatching) /\ WF_closeVars(Receiving)
              /\ \A w \in Workers : WF_closeVars(Stepping(w))
MCSpec == MCInit /\ [][MCNext]_closeVars /\ MCFairness
=============================================================================
