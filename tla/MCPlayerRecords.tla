---------------------------- MODULE MCPlayerRecords ----------------------------
(***************************************************************************)
(* The instances of PlayerRecords that TLC checks.                         *)
(***************************************************************************)
EXTENDS PlayerRecords, TLC

CONSTANTS l1, l2, p1, p2, p3, p4, t1, t2, t3, c1, c2, round, apply

TwoLeagues == t1 :> l1 @@ t2 :> l1 @@ t3 :> l2

\* An administrator of the first league and a system administrator.
Admin(a) == [active |-> TRUE, player |-> NoPlayer, assignments |-> {a}, method |-> "session"]
TwoAdmins == c1 :> Admin(LeagueAdmin(l1)) @@ c2 :> Admin(SystemAdmin)

\* The season of the first league has its two teams.  p1 plays for t1 and has
\* met p2, who may be on the roster of t2 or stand in for p1 in the next lineup;
\* p3 has no account and may be new, as may the other league's team.  In one
\* opening p3 and p4 have met in the same round.
Played == [round |-> round, home |-> p1, away |-> p2]
PlayedToo == [round |-> round, home |-> p3, away |-> p4]
Regular == [team |-> t1, player |-> p1, subFor |-> NoPlayer]
Substitute == [team |-> t1, player |-> p2, subFor |-> p1]
Opening(known, other, place, results, seat) ==
    [players |-> {p1, p2} \cup known, teams |-> {t1, t2} \cup other,
     team |-> p1 :> t1 @@ p2 :> t2 @@ p3 :> NoTeam @@ p4 :> NoTeam,
     captain |-> t1 :> p1 @@ t2 :> NoPlayer @@ t3 :> NoPlayer,
     season |->
       [teams |-> {t1, t2}, captain |-> t1 :> p1 @@ t2 :> NoPlayer @@ t3 :> NoPlayer,
        roster |-> p1 :> t1 @@ p2 :> place @@ p3 :> NoTeam @@ p4 :> NoTeam,
        results |-> results, lineup |-> {seat},
        approver |-> "home" :> p1 @@ "away" :> NoPlayer],
     history |-> {[player |-> p1, request |-> apply]}]
SomeOpenings ==
    {Opening({p3}, {t3}, t2, {Played}, Regular),
     Opening({p3}, {}, NoTeam, {Played}, Substitute),
     Opening({}, {t3}, NoTeam, {Played}, Regular),
     Opening({p3, p4}, {}, NoTeam, {Played, PlayedToo}, Regular)}
=============================================================================
