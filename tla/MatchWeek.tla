------------------------------- MODULE MatchWeek -------------------------------
(***************************************************************************)
(* A season's matches and lineups once its schedule is in play:            *)
(* ScheduleService, PushbackService and MatchService, which move, replace  *)
(* and rename matches, and LineupService, which says who plays in them.    *)
(*                                                                         *)
(* A request of these services reads in statements of its own and then     *)
(* writes in one; the steps below are those.  Scores, acceptances, closed  *)
(* weeks and the season's close change in between: here each is one step,  *)
(* MatchApproval has theirs.                                               *)
(***************************************************************************)
EXTENDS Integers

CONSTANTS
    Teams, NoTeam,         \* NoTeam: a match's team that is NULL
    Players, NoPlayer,     \* NoPlayer: lineup_plans.sub_for_id is NULL
    Schedules,             \* what a generation may produce: sets of Entry
    Shifts,                \* the weeks a pushback adds
    Assignments,           \* the pairs of teams a match is assigned, also NoTeam
    Lineups,               \* the sets of players a lineup is saved with
    LineupWeeks,
    Clients,
    Openings,              \* the schedule there is at first, and the operations
                           \* each client asks for after it
    LastWeek,              \* bound of the model: no match is moved past it
    MaxSchedules,          \* bound of the model: schedules generated in play
    MaxSaves               \* bound of the model: lineups saved

Weeks == 1..LastWeek
Slots == 1..2
Side == Teams \cup {NoTeam}
Entry == [slot : Slots, week : Weeks, home : Side, away : Side]

ASSUME ScheduleAssumption ==
    \A plan \in Schedules \cup {o.plan : o \in Openings} :
        \A e, f \in plan : e \in Entry /\ (e.slot = f.slot => e = f)
ASSUME ShiftAssumption == Shifts \subseteq Nat \ {0}
ASSUME AssignmentAssumption == Assignments \subseteq Side \X Side
ASSUME BoundAssumption == MaxSchedules \in Nat /\ MaxSaves \in Nat
ASSUME LineupAssumption == NoPlayer \notin Players /\ Lineups \subseteq SUBSET Players

VARIABLES
    matches,       \* the rows of matches
    generated,     \* schedules generated so far, for the ids
    closedWeeks,   \* league_weeks with status 'closed'
    seasonClosed,  \* seasons.closed_at IS NOT NULL
    active,        \* seasons.active; activation is SeasonSetup's
    seats,         \* the rows of lineup_plans
    saves,         \* lineups saved so far, for the ids
    work,          \* the operations each client asks for
    request,       \* the unfinished request of each client
    alone          \* clients whose request no write of another has crossed

scheduleVars == <<matches, generated, closedWeeks, seasonClosed, active>>
lineupVars == <<seats, saves>>
requestVars == <<work, request, alone>>
vars == <<scheduleVars, lineupVars, requestVars>>

\* AUTOINCREMENT never gives an id again: an id is the insert that made the row.
MatchId == [schedule : 0..MaxSchedules, slot : Slots]
SeatId == [save : 1..MaxSaves, team : Teams, week : LineupWeeks, player : Players]

\* scored: its round_results have a won game, which ClearResults leaves there.
\* closed: matches.week_closed.  accepted: approved_at or processed_at is set.
Match == [id : MatchId, week : Weeks, home : Side, away : Side,
          completed : BOOLEAN, scored : BOOLEAN, closed : BOOLEAN, accepted : BOOLEAN]
Seat == [id : SeatId, player : Players, subFor : Players \cup {NoPlayer}]

Idle == [op |-> "idle"]
Request ==
    {Idle}
    \cup [op : {"pushback"}, step : {"weeks", "read"}, cutoff : Weeks, weeks : Shifts]
    \cup [op : {"shift"}, ids : SUBSET MatchId, weeks : Shifts]
    \cup [op : {"generate"}, step : {"weeks", "results", "save"}, plan : Schedules]
    \cup [op : {"assign"}, step : {"read", "write"}, match : MatchId, teams : Assignments]
    \cup [op : {"substitute"}, step : {"find", "write"}, seat : SeatId,
          player : Players, was : Players]
    \cup [op : {"substitute"}, step : {"locks", "lineups"}, seat : SeatId,
          player : Players, was : Players, match : MatchId]
    \cup [op : {"clear"}, step : {"find", "read"}, seat : SeatId]
    \cup [op : {"clear"}, step : {"locks"}, seat : SeatId, match : MatchId]
    \cup [op : {"clear"}, step : {"write"}, seat : SeatId, player : Players]

Op(c, op) == request[c].op = op
At(c, op, step) == request[c].op = op /\ request[c].step = step

NewMatches(number, plan) ==
    {[id |-> [schedule |-> number, slot |-> e.slot], week |-> e.week,
      home |-> e.home, away |-> e.away, completed |-> FALSE, scored |-> FALSE,
      closed |-> FALSE, accepted |-> FALSE] : e \in plan}

Init ==
    /\ generated = 0
    /\ \E o \in Openings : matches = NewMatches(0, o.plan) /\ work = o.work
    /\ closedWeeks = {} /\ seasonClosed = FALSE
    /\ active \in BOOLEAN
    /\ seats = {} /\ saves = 0
    /\ request = [c \in Clients |-> Idle]
    /\ alone = {}

-----------------------------------------------------------------------------
(* Requests. *)

Begin(c, r) ==
    /\ request[c] = Idle /\ r.op \in work[c]
    /\ request' = [request EXCEPT ![c] = r]
    /\ alone' = alone \cup {c}
    /\ UNCHANGED <<scheduleVars, lineupVars, work>>

\* A read, after which the request goes on as r.
Read(c, r) ==
    /\ request' = [request EXCEPT ![c] = r]
    /\ UNCHANGED <<scheduleVars, lineupVars, work, alone>>
Pass(c, step) == Read(c, [request[c] EXCEPT !.step = step])

\* A check rejects the request, or a statement fails and its transaction rolls back.
Reject(c) ==
    /\ request[c] # Idle
    /\ request' = [request EXCEPT ![c] = Idle]
    /\ alone' = alone \ {c}
    /\ UNCHANGED <<scheduleVars, lineupVars, work>>

\* The write that ends a request crosses all the others.
Finish(c) ==
    /\ request' = [request EXCEPT ![c] = Idle]
    /\ alone' = {} /\ UNCHANGED work

-----------------------------------------------------------------------------
(* Pushback: the unplayed matches from a week on move weeks later. *)

\* A new week_number is not checked against anything, a skipped week included.
Pushback(c, cutoff, n) ==
    /\ ~seasonClosed
    /\ Begin(c, [op |-> "pushback", step |-> "weeks", cutoff |-> cutoff, weeks |-> n])

\* Seeded fault: only the cutoff week itself is looked at.
ClosedAt(cutoff) == closedWeeks \cap {cutoff}
ClosedAtOrAfter(cutoff) == {w \in closedWeeks : w >= cutoff}

CheckOpenWeeks(c) ==
    /\ At(c, "pushback", "weeks")
    /\ ClosedAtOrAfter(request[c].cutoff) = {}
    /\ Pass(c, "read")

GetPushbackMatches(c) ==
    /\ At(c, "pushback", "read")
    /\ Read(c, [op |-> "shift", weeks |-> request[c].weeks,
                ids |-> {m.id : m \in {n \in matches :
                           n.week >= request[c].cutoff /\ ~n.completed}}])

\* Seeded fault: a match that has been played since it was read moves too.
MovesAsRead(m, ids) == m.id \in ids
Moves(m, ids) == m.id \in ids /\ ~m.completed

\* The match keeps its week_closed, its lineups keep their week.
ApplyPushback(c) ==
    /\ Op(c, "shift")
    /\ LET r == request[c] IN
       /\ \A m \in matches : Moves(m, r.ids) => m.week + r.weeks \in Weeks
       /\ matches' = {IF Moves(m, r.ids) THEN [m EXCEPT !.week = @ + r.weeks] ELSE m
                        : m \in matches}
    /\ Finish(c)
    /\ UNCHANGED <<generated, closedWeeks, seasonClosed, active, lineupVars>>

-----------------------------------------------------------------------------
(* Generation: the unplayed matches give way to a new schedule. *)

GenerateSchedule(c, plan) ==
    /\ ~seasonClosed
    /\ Begin(c, [op |-> "generate", step |-> "weeks", plan |-> plan])

CheckNoClosedWeek(c) ==
    /\ At(c, "generate", "weeks")
    /\ closedWeeks = {}
    /\ Pass(c, "results")

CheckNoResults(c) ==
    /\ At(c, "generate", "results")
    /\ active => \A m \in matches : ~m.completed
    /\ Pass(c, "save")

\* Results, acceptances and sheets go with a deleted match.
SaveGeneratedSchedule(c) ==
    /\ At(c, "generate", "save") /\ generated < MaxSchedules
    /\ generated' = generated + 1
    /\ matches' = {m \in matches : m.completed} \cup NewMatches(generated', request[c].plan)
    /\ Finish(c)
    /\ UNCHANGED <<closedWeeks, seasonClosed, active, lineupVars>>

-----------------------------------------------------------------------------
(* The teams of one match. *)

\* IsSeasonClosedForMatch; the id may be of a match that is no longer there, and a
\* team may be taken from the match again.
AssignMatchTeams(c, id, teams) ==
    /\ ~seasonClosed
    /\ Begin(c, [op |-> "assign", step |-> "read", match |-> id, teams |-> teams])

GetMatch(c) ==
    /\ At(c, "assign", "read")
    /\ \A m \in matches : m.id = request[c].match => ~m.completed
    /\ Pass(c, "write")

WriteTeams(c) ==
    /\ At(c, "assign", "write")
    /\ LET r == request[c] IN
       matches' = {IF m.id = r.match THEN [m EXCEPT !.home = r.teams[1], !.away = r.teams[2]]
                   ELSE m : m \in matches}
    /\ Finish(c)
    /\ UNCHANGED <<generated, closedWeeks, seasonClosed, active, lineupVars>>

-----------------------------------------------------------------------------
(* Lineups. *)

PlayedBy(team, week) == {m \in matches : m.week = week /\ team \in {m.home, m.away}}
Editable(m) == ~m.accepted /\ ~m.closed /\ ~seasonClosed

\* Delete the team's seats of the week and insert the new ones; nothing is locked.
SaveTeamLineup(team, week, players) ==
    /\ saves < MaxSaves /\ \E c \in Clients : "lineup" \in work[c]
    /\ saves' = saves + 1
    /\ seats' = {s \in seats : s.id.team # team \/ s.id.week # week} \cup
         {[id |-> [save |-> saves', team |-> team, week |-> week, player |-> p],
           player |-> p, subFor |-> NoPlayer] : p \in players}
    /\ alone' = {}
    /\ UNCHANGED <<scheduleVars, work, request>>

DeleteLineupPlan(s) ==
    /\ seats' = seats \ {s}
    /\ alone' = {}
    /\ UNCHANGED <<scheduleVars, saves, work, request>>

SetSubstitute(c, s, p) ==
    /\ p # s.player
    /\ Begin(c, [op |-> "substitute", step |-> "find", seat |-> s.id,
                 player |-> p, was |-> s.player])

ClearSubstitute(c, s) ==
    /\ s.subFor # NoPlayer
    /\ Begin(c, [op |-> "clear", step |-> "find", seat |-> s.id])

\* LIMIT 1: if the team has two matches in the week, either is found.
FindMatchID(c) ==
    LET r == request[c] IN
    \/ /\ At(c, "substitute", "find")
       /\ \E m \in PlayedBy(r.seat.team, r.seat.week) :
            Read(c, [op |-> r.op, step |-> "locks", seat |-> r.seat,
                     player |-> r.player, was |-> r.was, match |-> m.id])
    \/ /\ At(c, "clear", "find")
       /\ \E m \in PlayedBy(r.seat.team, r.seat.week) :
            Read(c, [op |-> r.op, step |-> "locks", seat |-> r.seat, match |-> m.id])

\* No match is scheduled: nothing is locked, and nobody else plays in it.
FindNoMatch(c) ==
    /\ At(c, "substitute", "find") \/ At(c, "clear", "find")
    /\ PlayedBy(request[c].seat.team, request[c].seat.week) = {}
    /\ Pass(c, IF Op(c, "substitute") THEN "write" ELSE "read")

\* The season's, the week's and the match's lock; a match that has gone has none.
Unlocked(c) == \A m \in matches : m.id = request[c].match => Editable(m)

CheckEditable(c) ==
    \/ /\ At(c, "substitute", "locks") /\ Unlocked(c)
       /\ Pass(c, "lineups")
    \/ /\ At(c, "clear", "locks") /\ Unlocked(c)
       /\ Read(c, [op |-> "clear", step |-> "read", seat |-> request[c].seat])

\* PlayerInMatchLineup
InLineup(p, teams, week, seat) ==
    \E s \in seats : s.id # seat /\ s.id.week = week /\ s.id.team \in teams /\ s.player = p

\* Seeded fault: the lineup of the other team is not looked at.
OwnTeam(m, seat) == {seat.team}
BothTeams(m, seat) == {m.home, m.away}

RejectIfPlayerAlreadyInMatch(c) ==
    /\ At(c, "substitute", "lineups")
    /\ LET r == request[c] IN
       /\ \E m \in matches : m.id = r.match /\
            ~InLineup(r.player, BothTeams(m, r.seat), r.seat.week, r.seat)
       /\ Read(c, [op |-> "substitute", step |-> "write", seat |-> r.seat,
                   player |-> r.player, was |-> r.was])

\* The store's ClearSubstitute reads the slot once more, before its transaction.
GetSubstitutedPlan(c) ==
    /\ At(c, "clear", "read")
    /\ \E s \in seats :
         /\ s.id = request[c].seat /\ s.subFor # NoPlayer
         /\ Read(c, [op |-> "clear", step |-> "write", seat |-> s.id, player |-> s.subFor])

\* Seeded fault: the transaction does not look at the match again.
NoGuard(seat) == TRUE
\* A match with scores is looked at again in the transaction of the change.
GuardScoredLineupChange(seat) ==
    \/ PlayedBy(seat.team, seat.week) = {}
    \/ \E m \in PlayedBy(seat.team, seat.week) : m.completed => Editable(m)

\* Seeded fault: one team may have a player twice in a week.
Anybody(p, seat) == TRUE
\* UNIQUE(team_id, week_number, season_id, player_id)
Unique(p, seat) == ~InLineup(p, {seat.team}, seat.week, seat)

ChangeSeat(seat, p, was) ==
    /\ \E s \in seats : s.id = seat
    /\ GuardScoredLineupChange(seat)
    /\ Unique(p, seat)
    /\ seats' = {IF s.id = seat THEN [s EXCEPT !.player = p, !.subFor = was] ELSE s : s \in seats}
    /\ UNCHANGED <<scheduleVars, saves>>

WriteSubstitute(c) ==
    /\ At(c, "substitute", "write")
    /\ ChangeSeat(request[c].seat, request[c].player, request[c].was)
    /\ Finish(c)

WriteCleared(c) ==
    /\ At(c, "clear", "write")
    /\ ChangeSeat(request[c].seat, request[c].player, NoPlayer)
    /\ Finish(c)

-----------------------------------------------------------------------------
(* What is decided elsewhere about the matches. *)

Decide(m, n) ==
    /\ matches' = (matches \ {m}) \cup {n}
    /\ alone' = {}
    /\ UNCHANGED <<generated, closedWeeks, seasonClosed, active, lineupVars, work, request>>

\* With a won game: what a sheet without one does is MatchApproval's.
SaveRounds(m) == Editable(m) /\ Decide(m, [m EXCEPT !.completed = TRUE, !.scored = TRUE])
ClearResults(m) == Editable(m) /\ Decide(m, [m EXCEPT !.completed = FALSE])
Accept(m) == m.completed /\ Editable(m) /\ Decide(m, [m EXCEPT !.accepted = TRUE])
Unaccept(m) ==
    /\ m.accepted /\ ~m.closed /\ ~seasonClosed
    /\ Decide(m, [m EXCEPT !.accepted = FALSE])

MatchesOf(w) == {m \in matches : m.week = w}
MarkWeek(w, closed) ==
    /\ matches' = {IF m.week = w THEN [m EXCEPT !.closed = closed] ELSE m : m \in matches}
    /\ alone' = {}
    /\ UNCHANGED <<generated, seasonClosed, active, lineupVars, work, request>>

\* A week without matches has nothing to validate and closes.
CloseWeek(w) ==
    /\ ~seasonClosed /\ active
    /\ \A m \in MatchesOf(w) : NoTeam \notin {m.home, m.away} /\ m.scored
    /\ closedWeeks' = closedWeeks \cup {w}
    /\ MarkWeek(w, TRUE)

ReopenWeek(w) ==
    /\ ~seasonClosed
    /\ MatchesOf(w) # {} /\ w \in closedWeeks
    /\ closedWeeks' = closedWeeks \ {w}
    /\ MarkWeek(w, FALSE)

SetSeasonClosed(closed) ==
    /\ seasonClosed' = closed
    /\ alone' = {}
    /\ UNCHANGED <<matches, generated, closedWeeks, active, lineupVars, work, request>>
CloseSeason ==
    /\ ~seasonClosed /\ active
    /\ \A m \in matches : m.week \in closedWeeks
    /\ SetSeasonClosed(TRUE)
ReopenSeason == seasonClosed /\ SetSeasonClosed(FALSE)

-----------------------------------------------------------------------------
ScheduleWork(c) ==
    \/ \E cutoff \in Weeks, n \in Shifts : Pushback(c, cutoff, n)
    \/ CheckOpenWeeks(c) \/ GetPushbackMatches(c) \/ ApplyPushback(c)
    \/ \E plan \in Schedules : GenerateSchedule(c, plan)
    \/ CheckNoClosedWeek(c) \/ CheckNoResults(c) \/ SaveGeneratedSchedule(c)
    \/ \E m \in matches, teams \in Assignments : AssignMatchTeams(c, m.id, teams)
    \/ GetMatch(c) \/ WriteTeams(c)

LineupWork(c) ==
    \/ \E s \in seats, p \in Players : SetSubstitute(c, s, p)
    \/ \E s \in seats : ClearSubstitute(c, s)
    \/ FindMatchID(c) \/ FindNoMatch(c) \/ CheckEditable(c)
    \/ RejectIfPlayerAlreadyInMatch(c) \/ GetSubstitutedPlan(c)
    \/ WriteSubstitute(c) \/ WriteCleared(c)

Lineup ==
    \/ \E t \in Teams, w \in LineupWeeks, ps \in Lineups : SaveTeamLineup(t, w, ps)
    \/ \E s \in seats : DeleteLineupPlan(s)

Play ==
    \/ \E m \in matches : SaveRounds(m) \/ ClearResults(m) \/ Accept(m) \/ Unaccept(m)
    \/ \E w \in Weeks : CloseWeek(w) \/ ReopenWeek(w)
    \/ CloseSeason \/ ReopenSeason

Next ==
    \/ \E c \in Clients : ScheduleWork(c) \/ LineupWork(c) \/ Reject(c)
    \/ Lineup \/ Play

Spec == Init /\ [][Next]_vars

-----------------------------------------------------------------------------
(* Properties. *)

\* Values have their types, a row its own id, and SQLite keeps its indexes: a
\* team has no player twice in a week (db.go:317).
TypeOK ==
    /\ matches \subseteq Match /\ seats \subseteq Seat
    /\ \A m, n \in matches : m.id = n.id => m = n
    /\ \A s, t \in seats : s.id = t.id => s = t
    /\ \A s, t \in seats :
         s.id.team = t.id.team /\ s.id.week = t.id.week /\ s.player = t.player => s = t
    /\ generated \in 0..MaxSchedules /\ saves \in 0..MaxSaves
    /\ closedWeeks \subseteq Weeks
    /\ seasonClosed \in BOOLEAN /\ active \in BOOLEAN
    /\ request \in [Clients -> Request]
    /\ alone \subseteq Clients

\* A match with a result is neither deleted nor moved, however the requests that
\* edit the schedule interleave with the scores (SaveGeneratedSchedule,
\* ApplyPushback: both look at completed again in their transaction).
CompletedMatchesStay ==
    [][\A m \in matches : m.completed =>
         \E n \in matches' : n.id = m.id /\ n.week = m.week]_vars

\* A request nobody else has crossed leaves each closed week with the matches it
\* was closed with: the checks of Pushback and GenerateSchedule are enough.
ClosedWeeksKeepMatches ==
    [][\A c \in alone : (request[c] # Idle /\ request'[c] = Idle) =>
         \A w \in closedWeeks :
            {m.id : m \in MatchesOf(w)} = {m.id : m \in {n \in matches' : n.week = w}}]_vars

Plays(p, m, lineups) ==
    {s \in lineups : s.id.week = m.week /\ s.id.team \in {m.home, m.away} /\ s.player = p}
Twice(p, m, lineups) == \E s, t \in Plays(p, m, lineups) : s # t
MakesTwice(m) == \E p \in Players : Twice(p, m, seats') /\ ~Twice(p, m, seats)

\* A substitution nobody else has crossed makes no player play twice in a match
\* ("must not end up playing twice in one match", lineup_service.go:150), where
\* the team has one match in the week.
SubstitutesAreNew ==
    [][\A c \in alone : At(c, "substitute", "write") /\ request'[c] = Idle =>
         LET played == PlayedBy(request[c].seat.team, request[c].seat.week) IN
         \A m \in matches : played = {m} => ~MakesTwice(m)]_vars

\* No substitution, set or cleared, reaches the lineup of a match with scores that
\* is accepted or processed, or in a closed week or season, at the moment of the
\* write; again where the team has one match in the week.
LockedLineupsStand ==
    [][\A c \in Clients :
         (At(c, "substitute", "write") \/ At(c, "clear", "write")) /\ seats' # seats
           /\ request'[c] = Idle =>
         LET played == PlayedBy(request[c].seat.team, request[c].seat.week) IN
         \A m \in matches : played = {m} /\ m.completed => Editable(m)]_vars

\* What ClearSubstitute's comment says (lineup_service.go:199): putting the player
\* back makes nobody play twice in a match who could not before the substitution,
\* that is, whom SetSubstitute would have kept from the other seat.
ClearAddsNobody ==
    [][\A c \in alone : At(c, "clear", "write") /\ request'[c] = Idle =>
         \A m \in matches, p \in Players :
            Twice(p, m, seats') /\ ~Twice(p, m, seats) =>
              \E s \in Plays(p, m, seats) : s.subFor = NoPlayer]_vars

=============================================================================
