------------------------------- MODULE MCScoring -------------------------------
(***************************************************************************)
(* One round of two players a side, and another match of the season.  Only *)
(* one visiting player is ever rated anew: from level with everybody to a  *)
(* difference of four, which the multipliers make a spot of ten or of four *)
(* balls and the threshold of five suppresses or does not.                 *)
(***************************************************************************)
EXTENDS Scoring

CONSTANTS h1, h2, a1, a2, home, away, third

MCHandicapsOf == [p \in {h1, h2, a1, a2} |-> IF p = a1 THEN {0, 400} ELSE {0}]

\* Five, or what ParseFloat reads as well and no sheet can be scored with.
MCRuleTexts == {[form |-> "whole", value |-> 500], [form |-> "nan", value |-> 0]}

Blank == [home |-> 0, away |-> 0]
HomeTen == [home |-> 10, away |-> 0]
AwayTen == [home |-> 0, away |-> 10]
\* Games are played in order; a loser made eight balls, a game was left open.
Full == {<<HomeTen, HomeTen, AwayTen>>, <<AwayTen, AwayTen, Blank>>}
Sheets ==
    {[n \in 1..3 |-> IF n <= k THEN f[n] ELSE Blank] : f \in Full, k \in 0..3}
    \cup {[n \in 1..3 |-> IF n = 1 THEN g ELSE Blank] :
            g \in {[home |-> 10, away |-> 8], [home |-> 5, away |-> 3]}}

EntriesOf(p, sheets) ==
    {[round |-> 1, home |-> p, away |-> q, games |-> s] : q \in {a1, a2}, s \in sheets}
Entries == EntriesOf(h1, Sheets) \cup EntriesOf(h2, {s \in Sheets : s[1] = s[2] /\ s[3] = Blank})
\* One row changed, added beside the others or left out, or the opponents exchanged.
PageEdits(entries) ==
    {entries \ {e} : e \in entries}
    \cup {{e \in entries : e.home # x.home} \cup {x} : x \in Entries}
    \cup {entries \cup {x} : x \in {e \in Entries : e.home = h2}}
    \cup {{[e EXCEPT !.away = IF e.away = a1 THEN a2 ELSE a1] : e \in entries}}

Typed(player, team, won, lost) ==
    [player |-> player, team |-> team, won |-> won, lost |-> lost, sets |-> 0, setsLost |-> 0]
\* By hand: nothing, or a row for a team that does not play the match.
MCHandResults == {{}, {Typed(h1, home, 1, 0), Typed(a1, third, 2, 1)}}
MCOtherMatches ==
    {[id |-> 1, home |-> home, away |-> away, results |-> {Typed(h1, home, 2, 1), Typed(a1, away, 1, 2)}],
     [id |-> 2, home |-> third, away |-> home, results |-> {Typed(h2, home, 1, 1)}],
     \* Nothing keeps a match from getting one team on both sides.
     [id |-> 3, home |-> third, away |-> third, results |-> {Typed(a2, third, 1, 0)}]}
================================================================================
