---------------------------- MODULE MCHandicapApply ----------------------------
(***************************************************************************)
(* The instances of HandicapApply that TLC checks.                         *)
(***************************************************************************)
EXTENDS HandicapApply, TLC

CONSTANTS none, low, high

\* Racks that imply a small handicap, and more of them that exceed the cap.
MCImplied == none :> 0 @@ low :> 1 @@ high :> 4
MCSize == none :> 0 @@ low :> 1 @@ high :> 2

\* The second set asks for more racks and caps lower, the third applies nothing.
MCRule(method, threshold, cap) ==
    [method |-> method, threshold |-> threshold, cap |-> cap]
MCRuleSets ==
    {MCRule("game_diff_average", 1, 2), MCRule("game_diff_average", 2, 1),
     MCRule("manual_review", 1, 2)}

NoId == "no request"
MCNoRequest == [id |-> NoId]

\* Clients and request ids are interchangeable.
Symmetric == Permutations(Clients) \cup Permutations(RequestIds) \cup Permutations(Players)
=============================================================================
