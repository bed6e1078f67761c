----------------------------- MODULE MCSeasonSetup -----------------------------
(***************************************************************************)
(* The instances of SeasonSetup that TLC checks.                           *)
(***************************************************************************)
EXTENDS SeasonSetup, TLC

CONSTANTS t1, p1

\* One team comes from the previous season, with its captain.
OnePriorRoster == t1 :> {p1}
OnePriorCaptain == t1 :> p1
NoPriorRoster == [t \in {} |-> {}]
NoPriorCaptain == [t \in {} |-> NoPlayer]

\* New teams are interchangeable.
NewTeams == Permutations(Teams)
=============================================================================
