-------------------------------- MODULE Scoring --------------------------------
(***************************************************************************)
(* The score sheet of one match, from the games typed in to the standings: *)
(* ValidateRounds and saveRounds, the handicap spot and the winner of a    *)
(* pairing and of a round, match_results, and ComputeStandings.  Requests  *)
(* are served one after another here, and acceptance, which locks a sheet  *)
(* until it is withdrawn, is left out: saves, closes and approvals that    *)
(* overlap are the subject of MatchApproval.                               *)
(*                                                                         *)
(* Handicaps and the multiplier are counted in hundredths.                 *)
(***************************************************************************)
EXTENDS SeasonRules, FiniteSets, Functions

CONSTANTS
    HomePlayers, AwayPlayers,  \* the players of a match play for one side
    Rounds,
    Scores,          \* what is typed for a side of a game
    HandicapsOf,     \* the handicaps a player may be given
    Submissions(_),  \* the score sheets sent by a page that shows these entries
    HandResults,     \* the results submitted without a score sheet
    Teams, HomeTeam, AwayTeam,
    OtherMatches     \* the season's other matches, as the standings read them

Players == HomePlayers \cup AwayPlayers
Sides == {"home", "away"}
Other(side) == IF side = "home" THEN "away" ELSE "home"

\* The sum of a function's values.
Total(f) == FoldFunction(+, 0, f)

Game == [home : Scores, away : Scores]
Entry == [round : Rounds, home : HomePlayers, away : AwayPlayers, games : [1..3 -> Game]]
\* A row of round_results keeps the handicaps it was scored with.
Row == [round : Rounds, home : HomePlayers, away : AwayPlayers, games : [1..3 -> Game],
        homeHC : Int, awayHC : Int]
\* A row of match_results.
Result == [player : Players, team : Teams, won : Nat, lost : Nat, sets : Nat, setsLost : Nat]

ASSUME ScoringAssumption ==
    /\ HomePlayers \cap AwayPlayers = {}
    /\ Scores \subseteq Int
    /\ HandicapsOf \in [Players -> SUBSET Int]
    /\ {HomeTeam, AwayTeam} \subseteq Teams /\ HomeTeam # AwayTeam
    /\ \A rs \in HandResults : rs \subseteq Result
    /\ OtherMatches \subseteq [id : Nat \ {0}, home : Teams, away : Teams, results : SUBSET Result]

\* Every table of the database is finite.
ASSUME FiniteAssumption ==
    /\ IsFiniteSet(HomePlayers) /\ IsFiniteSet(AwayPlayers) /\ IsFiniteSet(Rounds)
    /\ IsFiniteSet(Teams) /\ IsFiniteSet(OtherMatches)
    /\ \A rs \in HandResults \cup {m.results : m \in OtherMatches} : IsFiniteSet(rs)

VARIABLES
    handicap,   \* players.handicap
    sheet,      \* round_results of the match
    results,    \* match_results of the match
    typed,      \* whether they were submitted without a score sheet
    completed,  \* matches.completed
    weekClosed  \* matches.week_closed

vars == <<rules, handicap, sheet, results, typed, completed, weekClosed>>

(***************************************************************************)
(* ValidateRounds.  A game is decided when a side has ten.                 *)
(***************************************************************************)
GameWinner(g) ==
    IF g.home = 10 THEN "home" ELSE IF g.away = 10 THEN "away" ELSE "none"

GameError(g) ==
    \/ ~({g.home, g.away} \subseteq 0..10)
    \/ g.home = 10 /\ g.away > 7
    \/ g.away = 10 /\ g.home > 7

One(condition) == IF condition THEN 1 ELSE 0
Points(g, side) == IF GameWinner(g) = "none" THEN 0 ELSE g[side]
Raw(games, side) == Points(games[1], side) + Points(games[2], side) + Points(games[3], side)
GamesWon(games, side) ==
    One(GameWinner(games[1]) = side) + One(GameWinner(games[2]) = side)
    + One(GameWinner(games[3]) = side)
Remaining(games) == 3 - GamesWon(games, "home") - GamesWon(games, "away")

\* CalcSpotM: the lower rated player gets the difference, in whole balls.
SpotTo(row) ==
    IF row.homeHC < row.awayHC THEN "home"
    ELSE IF row.awayHC < row.homeHC THEN "away" ELSE "none"
Spot(row) ==
    LET difference == IF row.homeHC < row.awayHC THEN row.awayHC - row.homeHC
                                                 ELSE row.homeHC - row.awayHC
    IN  (difference * Multiplier + 5000) \div 10000
\* Below the season's minimum there is no spot.
SpotGiven(row) == IF MinBall > 0 /\ Spot(row) < MinBall THEN 0 ELSE Spot(row)

Adjusted(row, side) == Raw(row.games, side) + (IF SpotTo(row) = side THEN SpotGiven(row) ELSE 0)

\* The other side cannot catch up with ten in every game that remains.
OutOfReach(row, side, other) ==
    Adjusted(row, side) > Adjusted(row, other) + Remaining(row.games) * 10
MoreGames(row, side, other) ==
    /\ Remaining(row.games) = 0
    /\ GamesWon(row.games, side) > GamesWon(row.games, other)

PairingWinner(row) ==
    IF Remaining(row.games) = 3 THEN "none"
    ELSE IF OutOfReach(row, "home", "away") THEN "home"
    ELSE IF OutOfReach(row, "away", "home") THEN "away"
    ELSE IF MoreGames(row, "home", "away") THEN "home"
    ELSE IF MoreGames(row, "away", "home") THEN "away" ELSE "none"

RoundWinner(rows, round) ==
    LET wins(side) == Cardinality({r \in rows : r.round = round /\ PairingWinner(r) = side})
    IN  IF wins("home") >= 2 THEN "home" ELSE IF wins("away") >= 2 THEN "away" ELSE "none"

HasError(rows) == \E r \in rows, n \in 1..3 : GameError(r.games[n])
AnyWinner(rows) == \E r \in rows, n \in 1..3 : 10 \in {r.games[n].home, r.games[n].away}

(***************************************************************************)
(* Saving the sheet.  A pairing that was saved before keeps its handicaps, *)
(* however the players are rated now.                                      *)
(***************************************************************************)
\* UNIQUE(match_id, round_number, home_player_id).
OnceAtHome(rows) == \A r, s \in rows : r.round = s.round /\ r.home = s.home => r = s

SameHome(e) == {r \in sheet : r.round = e.round /\ r.home = e.home}
SameAway(e) == {r \in sheet : r.round = e.round /\ r.away = e.away}
Ambiguous(e) == SameHome(e) = {} /\ Cardinality(SameAway(e)) > 1

HomeHC(e) ==
    IF SameHome(e) = {} THEN handicap[e.home] ELSE (CHOOSE r \in SameHome(e) : TRUE).homeHC
\* Mistake: the visiting player is rated anew at every save.
AwayHCNow(e) == handicap[e.away]
AwayHC(e) ==
    LET kept == IF SameHome(e) = {} THEN SameAway(e) ELSE SameHome(e) \cap SameAway(e)
    IN  IF kept = {} THEN handicap[e.away] ELSE (CHOOSE r \in kept : TRUE).awayHC
Scored(e) ==
    [round |-> e.round, home |-> e.home, away |-> e.away, games |-> e.games,
     homeHC |-> HomeHC(e), awayHC |-> AwayHC(e)]

\* What the rows give a player of a side: games won and lost, and rounds.
Tally(rows, player, side) ==
    LET mine == {r \in rows : r[side] = player}
        games(winner) == Total([r \in mine |-> GamesWon(r.games, winner)])
        rounds(winner) == Cardinality({r \in mine : RoundWinner(rows, r.round) = winner})
    IN  [player |-> player, team |-> IF side = "home" THEN HomeTeam ELSE AwayTeam,
         won |-> games(side), lost |-> games(Other(side)),
         sets |-> rounds(side), setsLost |-> rounds(Other(side))]
Tallies(rows) ==
    {t \in {Tally(rows, p, "home") : p \in HomePlayers}
           \cup {Tally(rows, p, "away") : p \in AwayPlayers} :
        t.won + t.lost + t.sets + t.setsLost > 0}

\* Mistake: what ValidateRounds reports does not stop the save.
AcceptableWithErrors(entries) == (\A e \in entries : ~Ambiguous(e)) /\ OnceAtHome(entries)
\* Otherwise the save is refused, or the insert of a row fails, and nothing is written.
Acceptable(entries) ==
    /\ \A e \in entries : ~Ambiguous(e)
    /\ ~HasError(entries) /\ OnceAtHome(entries)

\* A save of blank games takes the results away and leaves completed alone.
SaveRounds(entries) ==
    /\ entries \subseteq Entry
    /\ ~weekClosed /\ Resolves
    /\ Acceptable(entries)
    /\ sheet' = {Scored(e) : e \in entries}
    /\ results' = Tallies({Scored(e) : e \in entries})
    /\ typed' = FALSE
    /\ completed' = (completed \/ AnyWinner(entries))
    /\ UNCHANGED <<rules, handicap, weekClosed>>

\* Results without a score sheet; one that was saved stays.
SubmitResults(rs) ==
    /\ ~weekClosed
    /\ results' = rs /\ typed' = TRUE /\ completed' = TRUE
    /\ UNCHANGED <<rules, handicap, sheet, weekClosed>>

\* Mistake: a match without results stays completed.
ClearResultsOnly ==
    /\ ~weekClosed
    /\ results' = {} /\ typed' = FALSE
    /\ UNCHANGED <<rules, handicap, sheet, completed, weekClosed>>
ClearResults ==
    /\ ~weekClosed
    /\ results' = {} /\ typed' = FALSE /\ completed' = FALSE
    /\ UNCHANGED <<rules, handicap, sheet, weekClosed>>

\* UpdatePlayer, or an apply of the review.
ChangeHandicap(p, h) ==
    /\ h # handicap[p]
    /\ handicap' = [handicap EXCEPT ![p] = h]
    /\ UNCHANGED <<rules, sheet, results, typed, completed, weekClosed>>

(***************************************************************************)
(* validateWeekData: nobody plays twice in a round, some game has a winner *)
(* and the sheet has no error.  The administrator acknowledges the         *)
(* warnings.                                                               *)
(***************************************************************************)
Together(r, s) == r.round = s.round /\ {r.home, r.away} \cap {s.home, s.away} # {}
WeekValid ==
    /\ \A r, s \in sheet : Together(r, s) => r = s
    /\ AnyWinner(sheet) /\ ~HasError(sheet)

CloseWeek ==
    /\ ~weekClosed /\ Resolves /\ WeekValid
    /\ weekClosed' = TRUE
    /\ UNCHANGED <<rules, handicap, sheet, results, typed, completed>>

ReopenWeek ==
    /\ weekClosed /\ weekClosed' = FALSE
    /\ UNCHANGED <<rules, handicap, sheet, results, typed, completed>>

(***************************************************************************)
(* Standings: completed matches of closed weeks.                           *)
(***************************************************************************)
ThisMatch == [id |-> 0, home |-> HomeTeam, away |-> AwayTeam, results |-> results]
Counted == OtherMatches \cup (IF completed /\ weekClosed THEN {ThisMatch} ELSE {})

\* MatchOutcome tells a row by its team; the home side comes first, even if
\* AssignMatchTeams gave both sides the same team.
ResultsOf(m, side) ==
    {r \in m.results : r.team = m[side] /\ (side = "away" => r.team # m.home)}
Won(m, side) == Total([r \in ResultsOf(m, side) |-> r.won])
\* Two points for the side with more games won, one each when they are level.
MatchOutcome(m, side) ==
    IF Won(m, side) > Won(m, Other(side)) THEN 2
    ELSE IF Won(m, side) = Won(m, Other(side)) THEN 1 ELSE 0

\* Games of a team that is neither side's are the visiting side's.
GamesOf(m, side, field) ==
    Total([r \in {q \in m.results : q.team = m.home <=> side = "home"} |-> r[field]])

\* What a team played: matches, each as one of its sides.
Played(ms, t) == {x \in ms \X Sides : x[1][x[2]] = t}
GamesIn(played, field) == Total([x \in played |-> GamesOf(x[1], x[2], field)])

ComputeStandings ==
    [t \in Teams |->
        LET played == Played(Counted, t)
            with(points) == Cardinality({x \in played : MatchOutcome(x[1], x[2]) = points})
        IN  [played |-> Cardinality(played),
             points |-> Total([x \in played |-> MatchOutcome(x[1], x[2])]),
             wins |-> with(2), ties |-> with(1), losses |-> with(0),
             won |-> GamesIn(played, "won"), lost |-> GamesIn(played, "lost")]]

(***************************************************************************)
(* Specification.                                                          *)
(***************************************************************************)
EntryOf(r) == [round |-> r.round, home |-> r.home, away |-> r.away, games |-> r.games]

Init ==
    /\ RulesInit
    /\ handicap \in {h \in [Players -> UNION {HandicapsOf[p] : p \in Players}] :
                        \A p \in Players : h[p] \in HandicapsOf[p]}
    /\ sheet = {} /\ results = {} /\ typed = FALSE
    /\ completed = FALSE /\ weekClosed = FALSE

ChangeRules ==
    /\ RulesNext
    /\ UNCHANGED <<handicap, sheet, results, typed, completed, weekClosed>>

Next ==
    \/ ChangeRules
    \/ \E entries \in Submissions({EntryOf(r) : r \in sheet}) : SaveRounds(entries)
    \/ \E rs \in HandResults : SubmitResults(rs)
    \/ ClearResults
    \/ \E p \in Players : \E h \in HandicapsOf[p] : ChangeHandicap(p, h)
    \/ CloseWeek
    \/ ReopenWeek

Spec == Init /\ [][Next]_vars

(***************************************************************************)
(* Properties.                                                             *)
(***************************************************************************)
\* Types; a round has one row for a home player; no saved game is impossible.
TypeOK ==
    /\ RulesTypeOK
    /\ handicap \in [Players -> Int]
    /\ sheet \subseteq Row /\ OnceAtHome(sheet) /\ ~HasError(sheet)
    /\ results \subseteq Result
    /\ {typed, completed, weekClosed} \subseteq BOOLEAN

\* One pairing before and after a save that took no decided game back.
GamesAdded(r, s) ==
    /\ r.round = s.round /\ r.home = s.home /\ r.away = s.away
    /\ \A n \in 1..3 : GameWinner(r.games[n]) # "none" => s.games[n] = r.games[n]

(***************************************************************************)
(* A pairing that is decided stays decided the same way while games are    *)
(* added to its sheet, whatever the players' handicaps have become in the  *)
(* meantime: what the winner of a round was counted from does not turn.    *)
(* A change of the rules may turn it, at the next save.                    *)
(***************************************************************************)
DecisionsStand ==
    [][\A r \in sheet, s \in sheet' :
         GamesAdded(r, s) /\ rules' = rules /\ PairingWinner(r) # "none"
             => PairingWinner(s) = PairingWinner(r)]_vars

\* Games won on the sheet, counted from the sheet alone.
GamesOnSheet(side) == Total([r \in sheet |-> GamesWon(r.games, side)])

(***************************************************************************)
(* The standings show what was played: each match gives two points and as  *)
(* many wins as losses, and one that its score sheet was saved for gives   *)
(* its teams the games and the points of that sheet, however often it was  *)
(* saved, cleared, submitted by hand, closed and reopened.                 *)
(***************************************************************************)
StandingsShowPlay ==
    LET standing == ComputeStandings
        total(field) == Total([t \in Teams |-> standing[t][field]])
        others(t, field) == GamesIn(Played(OtherMatches, t), field)
        h == GamesOnSheet("home")  a == GamesOnSheet("away")
    IN  /\ total("points") = 2 * Cardinality(Counted)
        /\ total("wins") = total("losses")
        /\ completed /\ weekClosed /\ ~typed =>
             /\ standing[HomeTeam].won = others(HomeTeam, "won") + h
             /\ standing[AwayTeam].won = others(AwayTeam, "won") + a
             /\ standing[HomeTeam].lost = others(HomeTeam, "lost") + a
             /\ h + a > 0
             /\ MatchOutcome(ThisMatch, "home") =
                  IF h > a THEN 2 ELSE IF h = a THEN 1 ELSE 0
================================================================================
