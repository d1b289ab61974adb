--------------------------- MODULE EffectiveDates ---------------------------
(***************************************************************************)
(* The end date of an effective-dated row, which may be missing.           *)
(***************************************************************************)
EXTENDS Integers

CONSTANT NoEnd   \* end_date IS NULL

\* "end_date IS NULL OR end_date > :day"
OpenAt(r, d) == r.to = NoEnd \/ r.to > d
=============================================================================
