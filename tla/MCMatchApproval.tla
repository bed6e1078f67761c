---------------------------- MODULE MCMatchApproval ----------------------------
(***************************************************************************)
(* The instances of MatchApproval that TLC checks.                         *)
(***************************************************************************)
EXTENDS MatchApproval, TLC

CONSTANTS m1, m2

\* One match to a week, the weeks numbered as the matches are.
MCWeekOf == m1 :> 1 @@ m2 :> 2
OneWeekOf == m1 :> 1

\* Clients and correction notes are interchangeable.
Symmetric == Permutations(Clients) \cup Permutations(Notes)
=============================================================================
