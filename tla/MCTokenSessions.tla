-------------------------- MODULE MCTokenSessions --------------------------
(***************************************************************************)
(* Two requests at once, of which neither has a name that matters.         *)
(***************************************************************************)
EXTENDS TokenSessions, TLC

Interchangeable == Permutations(Requests)
=============================================================================
