----------------------------- MODULE PlayerRecords -----------------------------
(***************************************************************************)
(* Players, teams and money: PlayerService, TeamService and FinanceService *)
(* over their stores, with the season records a player appears in.  An     *)
(* administrator's request is authorized for the league it resolves to,    *)
(* may read, and then writes by id in a statement or a transaction of its  *)
(* own; requests of the other administrators come in between.              *)
(*                                                                         *)
(* SQLite enforces the foreign keys: a row another one refers to stays,    *)
(* unless the reference cascades.                                          *)
(***************************************************************************)
EXTENDS Authorization

CONSTANTS
    Teams,
    NoTeam,        \* players.team_id or a roster team that is NULL
    TeamLeague,    \* teams.league_id, which no request changes
    SeasonLeague,  \* the league of the season whose records are kept here
    Linked,        \* players an account names (users.player_id)
    Rounds, ApplyRequests,
    Payments,      \* bound of the model: dues payments ever recorded
    Openings,      \* the records there are when the model starts
    Clients, IdentityOf,
    MaxRequests    \* bound of the model: requests made

ASSUME TeamAssumption ==
    /\ NoTeam \notin Teams
    /\ TeamLeague \in [Teams -> Leagues] /\ SeasonLeague \in Leagues
ASSUME ClientAssumption ==
    /\ IdentityOf \in [Clients -> Identities]
    /\ MaxRequests \in Nat
ASSUME LinkedAssumption == Linked \subseteq Players
ASSUME FiniteAssumption ==
    /\ IsFiniteSet(Players) /\ IsFiniteSet(Teams)
    /\ IsFiniteSet(Rounds) /\ IsFiniteSet(ApplyRequests)

VARIABLES
    players,   \* ids in players
    teams,     \* ids in teams
    issued,    \* ids ever given: AUTOINCREMENT never gives one again
    team,      \* players.team_id
    captain,   \* teams.captain_id, which is not a foreign key
    season,    \* the season's records, below
    history,   \* handicap_history
    payments,  \* dues_payments
    payouts,   \* teams with a row in payouts
    request,   \* the unfinished request of each client
    started    \* requests made so far

rowVars == <<players, teams, issued, team, captain, season, history, payments, payouts>>
vars == <<rowVars, request, started>>

(***************************************************************************)
(* Records.  A round's result stands for its rows in round_results and     *)
(* match_results; the match, the week and the season are one.              *)
(***************************************************************************)
Someone == Players \cup {NoPlayer}
SomeTeam == Teams \cup {NoTeam}
Result == [round : Rounds, home : Players, away : Players]
Seat == [team : Teams, player : Players, subFor : Someone]   \* a lineup_plans row
SeasonRecords ==
    [teams : SUBSET Teams,               \* season_teams, and teams of matches
     captain : [Teams -> Someone],       \* season_teams.captain_id
     roster : [Players -> SomeTeam],     \* season_rosters, one row a player
     results : SUBSET Result,
     lineup : SUBSET Seat,
     approver : [{"home", "away"} -> Someone]]  \* the sides' approval actors
HistoryRow == [player : Players, request : ApplyRequests]
Payment == [id : Payments, player : Players, team : Teams]

Plays(p, r) == p \in {r.home, r.away}

\* What the keys of the schema ask of players, teams, the players' teams, a
\* season and a history: every reference names a row that is there.
Refer(ps, ts, tm, sn, hist) ==
    /\ \A p \in Players : tm[p] \in ts \cup {NoTeam}
    /\ \A p \in Players : sn.roster[p] # NoTeam => p \in ps /\ sn.roster[p] \in ts
    /\ \A t \in Teams : sn.captain[t] \in ps \cup {NoPlayer}
    /\ \A r \in sn.results : {r.home, r.away} \subseteq ps
    /\ \A s \in sn.lineup :
         s.player \in ps /\ s.team \in ts /\ s.subFor \in ps \cup {NoPlayer}
    /\ \A h \in hist : h.player \in ps
    /\ sn.teams \subseteq ts /\ Linked \subseteq ps
\* ... and the unique keys of round_results and lineup_plans.
Keys(sn) ==
    /\ \A a, b \in sn.results : a.round = b.round /\ a.home = b.home => a = b
    /\ \A a, b \in sn.lineup : a.team = b.team /\ a.player = b.player => a = b
\* Nobody plays twice in a round or against themself: no key, but what the close
\* of a week asks of its scoresheets.
Once(sn) ==
    /\ \A r \in sn.results : r.home # r.away
    /\ \A a, b \in sn.results, p \in Players :
         a.round = b.round /\ Plays(p, a) /\ Plays(p, b) => a = b

ASSUME OpeningAssumption ==
    \A o \in Openings :
        /\ o.players \subseteq Players /\ o.teams \subseteq Teams
        /\ o.team \in [Players -> SomeTeam] /\ o.captain \in [Teams -> Someone]
        /\ o.season \in SeasonRecords /\ o.history \subseteq HistoryRow
        /\ Refer(o.players, o.teams, o.team, o.season, o.history)
        /\ Keys(o.season)

LeagueOfTeam(t) == IF t = NoTeam THEN NoLeague ELSE TeamLeague[t]
LeagueOf(p) == LeagueOfTeam(team[p])

\* Rows that keep a player or a team from being deleted: of the season's records
\* sn, those whose reference does not cascade.
InResults(sn, p) == \E r \in sn.results : Plays(p, r)
Replaced(sn, p) == \E x \in sn.lineup : x.subFor = p /\ x.player # p
Enrolled(sn, p) == sn.roster[p] # NoTeam \/ \E t \in Teams : sn.captain[t] = p
\* Mistake: a connection of the pool that was opened without PRAGMA foreign_keys.
PlayerUnguarded(sn, p) == FALSE
PlayerReferenced(sn, p) ==
    p \in Linked \/ InResults(sn, p) \/ Replaced(sn, p) \/ Enrolled(sn, p)
TeamReferenced(t) ==
    \/ t \in season.teams \/ t \in payouts
    \/ \E p \in Players : season.roster[p] = t
    \/ \E d \in payments : d.team = t

(***************************************************************************)
(* Requests: each names what it still has to write.                        *)
(***************************************************************************)
Idle == [op |-> "idle"]
Request ==
    {Idle}
    \cup [op : {"createPlayer"}, team : SomeTeam]
    \cup [op : {"updatePlayer"}, player : Players, team : SomeTeam,
          league : Leagues \cup {NoLeague}]
    \cup [op : {"deletePlayer"}, step : {"count", "delete"}, player : Players]
    \cup [op : {"merge"}, step : {"find", "merge"}, source : Players, target : Players]
    \cup [op : {"createTeam"}, league : Leagues]
    \cup [op : {"updateTeam"}, team : Teams, captain : Someone]
    \cup [op : {"deleteTeam"}, step : {"unseat", "delete"}, team : Teams]
    \cup [op : {"recordDues"}, step : {"roster", "insert"}, player : Players, team : SomeTeam]
    \cup [op : {"recordPayout"}, step : {"teams", "insert"}, team : Teams]

Init ==
    /\ \E o \in Openings :
         /\ players = o.players /\ teams = o.teams
         /\ team = o.team /\ captain = o.captain
         /\ season = o.season /\ history = o.history
    /\ issued = players \cup teams
    /\ payments = {} /\ payouts = {}
    /\ request = [c \in Clients |-> Idle]
    /\ started = 0

Running(c, op) == request[c].op = op
At(c, op, step) == Running(c, op) /\ request[c].step = step
Continue(c, r) == request' = [request EXCEPT ![c] = r] /\ UNCHANGED started
Finish(c) == Continue(c, Idle)

\* guardedLeagueAdminAction: the middleware lets the request through.
Begin(c, action, league, r) ==
    /\ Running(c, "idle") /\ started < MaxRequests
    /\ Authorize(IdentityOf[c], action, Scope(league, NoPlayer))
    /\ request' = [request EXCEPT ![c] = r]
    /\ started' = started + 1
    /\ UNCHANGED rowVars

(***************************************************************************)
(* Players.                                                                *)
(***************************************************************************)
BeginCreatePlayer(c, t) ==
    /\ t \in teams \cup {NoTeam}
    /\ Begin(c, "roster_mutate", LeagueOfTeam(t), [op |-> "createPlayer", team |-> t])

\* The insert fails when the team is gone.
CreatePlayer(c) ==
    /\ Running(c, "createPlayer")
    /\ LET t == request[c].team
       IN  IF t \in teams \cup {NoTeam}
           THEN \E p \in Players \ issued :
                  /\ players' = players \cup {p} /\ issued' = issued \cup {p}
                  /\ team' = [team EXCEPT ![p] = t]
           ELSE UNCHANGED <<players, issued, team>>
    /\ Finish(c)
    /\ UNCHANGED <<teams, captain, season, history, payments, payouts>>

\* Mistake: a request that clears the team is taken for one that keeps it.
UpdateScopeKeeping(p, t) ==
    IF t = NoTeam THEN LeagueOf(p) ELSE UpdatePlayerScope(LeagueOf(p), LeagueOfTeam(t))
\* A request that would change or clear the league is a system administrator's.
UpdateScope(p, t) == UpdatePlayerScope(LeagueOf(p), LeagueOfTeam(t))
BeginUpdatePlayer(c, p, t) ==
    /\ p \in players /\ t \in teams \cup {NoTeam}
    /\ Begin(c, "roster_mutate", UpdateScope(p, t),
             [op |-> "updatePlayer", player |-> p, team |-> t, league |-> LeagueOf(p)])

\* Always writes the team, also none; writes nothing when the player is gone.
UpdatePlayer(c) ==
    /\ Running(c, "updatePlayer")
    /\ LET r == request[c]
       IN  team' = IF r.player \in players /\ r.team \in teams \cup {NoTeam}
                   THEN [team EXCEPT ![r.player] = r.team] ELSE team
    /\ Finish(c)
    /\ UNCHANGED <<players, teams, issued, captain, season, history, payments, payouts>>

BeginDeletePlayer(c, p) ==
    /\ p \in players
    /\ Begin(c, "roster_mutate", LeagueOf(p),
             [op |-> "deletePlayer", step |-> "count", player |-> p])

\* A player with handicap history is not deleted.
CountHistory(c) ==
    /\ At(c, "deletePlayer", "count")
    /\ IF \E h \in history : h.player = request[c].player
       THEN Finish(c)
       ELSE Continue(c, [request[c] EXCEPT !.step = "delete"])
    /\ UNCHANGED rowVars

\* The row goes, and by cascade the player's payments and what of the seats in sn
\* and of the history hist is the player's; the other references must be gone.
RemovePlayer(p, sn, hist) ==
    /\ players' = players \ {p}
    /\ team' = [team EXCEPT ![p] = NoTeam]
    /\ payments' = {d \in payments : d.player # p}
    /\ season' = [sn EXCEPT !.lineup = {x \in @ : x.player # p}]
    /\ history' = {h \in hist : h.player # p}

DeletePlayer(c) ==
    /\ At(c, "deletePlayer", "delete")
    /\ LET p == request[c].player
       IN  IF PlayerReferenced(season, p) \/ p \notin players
           THEN UNCHANGED rowVars
           ELSE /\ RemovePlayer(p, season, history)
                /\ UNCHANGED <<teams, issued, captain, payouts>>
    /\ Finish(c)

(***************************************************************************)
(* Merging a duplicate player into another one.                            *)
(***************************************************************************)
BeginMerge(c, s, t) ==
    /\ s \in players /\ t \in players
    /\ Begin(c, "roster_mutate", MergePlayerScope(LeagueOf(s), LeagueOf(t)),
             [op |-> "merge", step |-> "find", source |-> s, target |-> t])

\* MergePlayers of the service: two players, both there.
FindPlayers(c) ==
    /\ At(c, "merge", "find")
    /\ LET r == request[c]
       IN  IF r.source # r.target /\ {r.source, r.target} \subseteq players
           THEN Continue(c, [r EXCEPT !.step = "merge"])
           ELSE Finish(c)
    /\ UNCHANGED rowVars

\* What the merge refuses: both on the season's roster, both in one round of a
\* match, both in one lineup.
RosterConflict(s, t) == season.roster[s] # NoTeam /\ season.roster[t] # NoTeam
\* Mistake: only a row of both and two rows of one key are seen.
RoundConflictSameSide(s, t) ==
    \E a, b \in season.results :
        /\ a.round = b.round /\ Plays(s, a) /\ Plays(t, b)
        /\ a = b \/ (a.home = s /\ b.home = t)
RoundConflict(s, t) ==
    \E a, b \in season.results : a.round = b.round /\ Plays(s, a) /\ Plays(t, b)
LineupConflict(s, t) ==
    \E a, b \in season.lineup : a.team = b.team /\ a.player = s /\ b.player = t
Blocked(s, t) == RosterConflict(s, t) \/ RoundConflict(s, t) \/ LineupConflict(s, t)

\* Every reference named in mergeRepointStmts moves to the target; payments
\* and accounts are not among them.
Repoint(p, s, t) == IF p = s THEN t ELSE p
MovedResult(r, s, t) ==
    [round |-> r.round, home |-> Repoint(r.home, s, t), away |-> Repoint(r.away, s, t)]
MovedSeat(x, s, t) ==
    [team |-> x.team, player |-> Repoint(x.player, s, t), subFor |-> Repoint(x.subFor, s, t)]
MovedHistory(h, s, t) == [player |-> Repoint(h.player, s, t), request |-> h.request]
\* The one roster row of the two players is the target's.
MovedRoster(roster, s, t) ==
    [p \in Players |-> IF p = s THEN NoTeam
                       ELSE IF p = t /\ roster[t] = NoTeam THEN roster[s] ELSE roster[p]]

\* Mistake: lineup_plans.player_id is forgotten; its rows go with the source.
RepointSeasonButSeats(s, t) ==
    [season EXCEPT
       !.captain = [x \in Teams |-> Repoint(@[x], s, t)],
       !.roster = MovedRoster(@, s, t),
       !.results = {MovedResult(r, s, t) : r \in @},
       !.lineup = {[x EXCEPT !.subFor = Repoint(@, s, t)] : x \in @},
       !.approver = [x \in {"home", "away"} |-> Repoint(@[x], s, t)]]
RepointSeason(s, t) ==
    [season EXCEPT
       !.captain = [x \in Teams |-> Repoint(@[x], s, t)],
       !.roster = MovedRoster(@, s, t),
       !.results = {MovedResult(r, s, t) : r \in @},
       !.lineup = {MovedSeat(x, s, t) : x \in @},
       !.approver = [x \in {"home", "away"} |-> Repoint(@[x], s, t)]]

MergedHistory(s, t) == {MovedHistory(h, s, t) : h \in history}

\* One transaction, rolled back when a key or a foreign key stops it: two rows of
\* one apply request for the target, a row moved to a target that is gone, or a
\* row that still names the source, as an account's does, when it is deleted.
MergeRollsBack(s, t) ==
    LET sn == RepointSeason(s, t) IN
    \/ \E a \in ApplyRequests : {[player |-> p, request |-> a] : p \in {s, t}} \subseteq history
    \/ /\ t \notin players
       /\ \/ PlayerReferenced(sn, t)
          \/ \E x \in sn.lineup : x.player = t
          \/ \E h \in MergedHistory(s, t) : h.player = t
    \/ s \in players /\ PlayerReferenced(sn, s)

MergePlayers(c) ==
    /\ At(c, "merge", "merge")
    /\ LET s == request[c].source
           t == request[c].target
       IN  IF Blocked(s, t) \/ MergeRollsBack(s, t)
           THEN UNCHANGED rowVars
           ELSE /\ RemovePlayer(s, RepointSeason(s, t), MergedHistory(s, t))
                /\ captain' = [x \in Teams |-> Repoint(captain[x], s, t)]
                /\ UNCHANGED <<teams, issued, payouts>>
    /\ Finish(c)

(***************************************************************************)
(* Teams.                                                                  *)
(***************************************************************************)
BeginCreateTeam(c, l) == Begin(c, "roster_mutate", l, [op |-> "createTeam", league |-> l])

CreateTeam(c) ==
    /\ Running(c, "createTeam")
    /\ \E t \in Teams \ issued :
         /\ TeamLeague[t] = request[c].league
         /\ teams' = teams \cup {t} /\ issued' = issued \cup {t}
    /\ Finish(c)
    /\ UNCHANGED <<players, team, captain, season, history, payments, payouts>>

BeginUpdateTeam(c, t, p) ==
    /\ t \in teams
    /\ Begin(c, "roster_mutate", TeamLeague[t],
             [op |-> "updateTeam", team |-> t, captain |-> p])

\* Any id may be written as captain.
UpdateTeam(c) ==
    /\ Running(c, "updateTeam")
    /\ LET r == request[c]
       IN  captain' = IF r.team \in teams
                      THEN [captain EXCEPT ![r.team] = r.captain] ELSE captain
    /\ Finish(c)
    /\ UNCHANGED <<players, teams, issued, team, season, history, payments, payouts>>

BeginDeleteTeam(c, t) ==
    /\ t \in teams
    /\ Begin(c, "roster_mutate", TeamLeague[t],
             [op |-> "deleteTeam", step |-> "unseat", team |-> t])

\* The players lose their team in a statement of its own, kept when the next
\* one fails.
UnseatPlayers(c) ==
    /\ At(c, "deleteTeam", "unseat")
    /\ team' = [p \in Players |-> IF team[p] = request[c].team THEN NoTeam ELSE team[p]]
    /\ Continue(c, [request[c] EXCEPT !.step = "delete"])
    /\ UNCHANGED <<players, teams, issued, captain, season, history, payments, payouts>>

\* By cascade the seats of the team go; a player who joined it meanwhile has
\* none.
DeleteTeam(c) ==
    /\ At(c, "deleteTeam", "delete")
    /\ LET t == request[c].team
       IN  IF TeamReferenced(t) \/ t \notin teams
           THEN UNCHANGED rowVars
           ELSE /\ teams' = teams \ {t}
                /\ team' = [p \in Players |-> IF team[p] = t THEN NoTeam ELSE team[p]]
                /\ captain' = [captain EXCEPT ![t] = NoPlayer]
                /\ season' = [season EXCEPT !.lineup = {s \in @ : s.team # t}]
                /\ UNCHANGED <<players, issued, history, payments, payouts>>
    /\ Finish(c)

(***************************************************************************)
(* Money: a payment carries the team the player is on the roster of, read  *)
(* before it is inserted.                                                  *)
(***************************************************************************)
BeginRecordDues(c, p) ==
    Begin(c, "finance_write", SeasonLeague,
          [op |-> "recordDues", step |-> "roster", player |-> p, team |-> NoTeam])

ReadRoster(c) ==
    /\ At(c, "recordDues", "roster")
    /\ LET t == season.roster[request[c].player]
       IN  IF t = NoTeam THEN Finish(c)
           ELSE Continue(c, [request[c] EXCEPT !.step = "insert", !.team = t])
    /\ UNCHANGED rowVars

InsertDuesPayment(c) ==
    /\ At(c, "recordDues", "insert")
    /\ LET r == request[c]
       IN  IF r.player \in players /\ r.team \in teams
           THEN \E i \in Payments \ issued :
                  /\ payments' = payments \cup {[id |-> i, player |-> r.player, team |-> r.team]}
                  /\ issued' = issued \cup {i}
           ELSE UNCHANGED <<payments, issued>>
    /\ Finish(c)
    /\ UNCHANGED <<players, teams, team, captain, season, history, payouts>>

BeginRecordPayout(c, t) ==
    Begin(c, "finance_write", SeasonLeague,
          [op |-> "recordPayout", step |-> "teams", team |-> t])

ReadSeasonTeams(c) ==
    /\ At(c, "recordPayout", "teams")
    /\ IF request[c].team \in season.teams
       THEN Continue(c, [request[c] EXCEPT !.step = "insert"]) ELSE Finish(c)
    /\ UNCHANGED rowVars

InsertPayout(c) ==
    /\ At(c, "recordPayout", "insert")
    /\ payouts' = payouts \cup ({request[c].team} \cap teams)
    /\ Finish(c)
    /\ UNCHANGED <<players, teams, issued, team, captain, season, history, payments>>

Arrive(c) ==
    \/ \E t \in SomeTeam : BeginCreatePlayer(c, t)
    \/ \E p \in Players, t \in SomeTeam : BeginUpdatePlayer(c, p, t)
    \/ \E p \in Players : BeginDeletePlayer(c, p) \/ BeginRecordDues(c, p)
    \/ \E s, t \in Players : BeginMerge(c, s, t)
    \/ \E l \in Leagues : BeginCreateTeam(c, l)
    \/ \E t \in Teams, p \in Someone : BeginUpdateTeam(c, t, p)
    \/ \E t \in Teams : BeginDeleteTeam(c, t) \/ BeginRecordPayout(c, t)
Serve(c) ==
    \/ CreatePlayer(c) \/ UpdatePlayer(c) \/ CountHistory(c) \/ DeletePlayer(c)
    \/ FindPlayers(c) \/ MergePlayers(c)
    \/ CreateTeam(c) \/ UpdateTeam(c) \/ UnseatPlayers(c) \/ DeleteTeam(c)
    \/ ReadRoster(c) \/ InsertDuesPayment(c) \/ ReadSeasonTeams(c) \/ InsertPayout(c)

Next == \E c \in Clients : Arrive(c) \/ Serve(c)
Spec == Init /\ [][Next]_vars

(***************************************************************************)
(* Properties.                                                             *)
(***************************************************************************)
\* Every reference names a row that is there: the requests check before they write,
\* and whatever was deleted, merged or added in between, what is written names a
\* player or team there is, and what is deleted leaves nothing that names it.
References ==
    /\ Refer(players, teams, team, season, history)
    /\ \A d \in payments : d.player \in players /\ d.team \in teams
    /\ payouts \subseteq teams

\* The state keeps its type and its keys, and no reference dangles
\* (teams.captain_id, which is no foreign key, may).
TypeOK ==
    /\ players \subseteq Players /\ teams \subseteq Teams
    /\ issued \subseteq Players \cup Teams \cup Payments
    /\ players \cup teams \subseteq issued
    /\ team \in [Players -> SomeTeam] /\ captain \in [Teams -> Someone]
    /\ season \in SeasonRecords
    /\ history \subseteq HistoryRow /\ payments \subseteq Payment /\ payouts \subseteq Teams
    /\ request \in [Clients -> Request] /\ started \in 0..MaxRequests
    /\ References /\ Keys(season)

\* However players were merged, nobody who did not before plays twice in a round
\* of a match or against themself (the merge blockers of MergePlayers).
NobodyTwice == Once(season)

\* What a player stands in: results, the roster, captaincies, lineups, history.
ResultsOf(p) == {r \in season.results : Plays(p, r)}
SeatsOf(p) == {s \in season.lineup : s.player = p}
CaptainciesOf(p) == {t \in Teams : season.captain[t] = p}
LedBy(p) == {t \in Teams : captain[t] = p}
SidesOf(p) == {x \in {"home", "away"} : season.approver[x] = p}
HistoryOf(p) == {h \in history : h.player = p}
OnRoster(p) == IF season.roster[p] = NoTeam THEN 0 ELSE 1
Entries(p) ==
    Cardinality(ResultsOf(p)) + Cardinality(SeatsOf(p)) + Cardinality(CaptainciesOf(p))
      + Cardinality(LedBy(p)) + Cardinality(SidesOf(p)) + Cardinality(HistoryOf(p)) + OnRoster(p)

\* A merge that removes the source leaves the target with all that the two had:
\* no row is lost by a cascade and no two become one.
MergeKeepsRecords ==
    [][\A c \in Clients, s, t \in Players :
         /\ At(c, "merge", "merge") /\ request[c].source = s /\ request[c].target = t
         /\ request'[c] = Idle /\ s \in players \ players'
         => Entries(t)' = Entries(s) + Entries(t)]_vars

\* A league administrator's update does not take a player, who is still where
\* the administrator's rights were checked, into another league or out of the
\* league (updatePlayerScope).
PlayersStayInLeague ==
    [][\A c \in Clients, p \in Players :
         /\ Running(c, "updatePlayer") /\ request[c].player = p /\ request'[c] = Idle
         /\ ~IsSystemAdmin(IdentityOf[c])
         /\ LeagueOf(p) = request[c].league
         => LeagueOf(p)' = LeagueOf(p)]_vars

\* The schema's comment on dues and payouts: append-only history, without a
\* path that updates or deletes a payment.
PaymentsAreHistory == [][payments \subseteq payments']_vars

=============================================================================
