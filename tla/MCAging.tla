------------------------------ MODULE MCAging ------------------------------
(***************************************************************************)
(* Two loans, the first without grace days and with a schedule that can be *)
(* regenerated; nights so far apart that each crosses other milestones.    *)
(***************************************************************************)
EXTENDS Aging, TLC

MCPlan == 1 :> << <<0, 30>>, <<60, 90>> >> @@ 2 :> << <<20>> >>
MCGrace == 1 :> 0 @@ 2 :> 10
=============================================================================
