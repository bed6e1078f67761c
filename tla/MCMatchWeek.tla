------------------------------ MODULE MCMatchWeek ------------------------------
(***************************************************************************)
(* The instances of MatchWeek that TLC checks.                             *)
(***************************************************************************)
EXTENDS MatchWeek, TLC

CONSTANTS a, b, p1, p2, p3, c1, c2

\* The matches of a's and b's first two weeks; Blank has no teams yet, Again is
\* in the week of Return.
Pair == [slot |-> 1, week |-> 1, home |-> a, away |-> b]
Return == [slot |-> 2, week |-> 2, home |-> b, away |-> a]
Blank == [slot |-> 1, week |-> 1, home |-> NoTeam, away |-> NoTeam]
Again == [slot |-> 1, week |-> 2, home |-> a, away |-> b]
SomeSchedules == {{Pair}}
SomeAssignments == {<<a, b>>, <<a, NoTeam>>}

\* Two requests edit the schedule, or one edits it in every way; substitutes come
\* and go with one match in their week, two or none; or a pushback brings the match
\* into the week of the lineups.
Opening(plan, first, second) == [plan |-> plan, work |-> c1 :> first @@ c2 :> second]
SomeOpenings ==
    {Opening({Pair, Return}, {"generate"}, {"pushback"}),
     Opening({Blank, Return}, {"pushback", "generate", "assign"}, {}),
     Opening({Return}, {}, {"lineup", "substitute", "clear"}),
     Opening({Again, Return}, {}, {"lineup", "substitute"}),
     Opening({Blank}, {}, {"lineup", "substitute", "clear"}),
     Opening({Pair}, {"pushback"}, {"lineup", "substitute"})}
JustSubstitutes == {Opening({Return}, {}, {"lineup", "substitute", "clear"})}
SomeLineups == {{p1, p2}}
OnePlayer == {{p1}, {p2}}

\* Nothing names a player.
SamePlayers == Permutations({p1, p2})
=============================================================================
