------------------------------ MODULE SeasonSetup ------------------------------
(***************************************************************************)
(* The setup of one managed season: its teams, rosters, captains and bye   *)
(* requests, the schedule generated from them and the mark that says it no *)
(* longer fits them, and the activation that starts play: SeasonService,   *)
(* ScheduleService and PushbackService over the stores they write through. *)
(*                                                                         *)
(* One action is one statement or transaction, or one read the request     *)
(* acts on later.  What the players, the weeks and the league's other      *)
(* season do between two steps of a request is at the end; MatchApproval   *)
(* models it in full.                                                      *)
(***************************************************************************)
EXTENDS Integers, FiniteSets

CONSTANTS
    Teams,          \* ids of teams; outside PriorTeams each is used once
    PriorTeams,     \* teams of the league's previous, managed season
    Players,
    PriorRoster,    \* the previous season's season_rosters
    PriorCaptain,   \* the previous season's season_teams.captain_id
    ByeWeeks,       \* weeks a bye is asked for; 0 is a week to be decided
    Clients,        \* administrators' requests in flight at once
    NoTeam, NoPlayer, NoBye,   \* SQL NULL, or no row
    MaxByes,        \* bound of the model: bye requests ever inserted
    MaxPlayed       \* bound of the model: schedules with results at once

ASSUME TeamAssumption == PriorTeams \subseteq Teams /\ NoTeam \notin Teams
ASSUME PlayerAssumption ==
    /\ NoPlayer \notin Players
    /\ PriorRoster \in [PriorTeams -> SUBSET Players]
    /\ PriorCaptain \in [PriorTeams -> Players \cup {NoPlayer}]
ASSUME ByeAssumption ==
    ByeWeeks \subseteq Nat /\ NoBye \notin [team : Teams, week : Nat, approved : BOOLEAN]
ASSUME BoundAssumption == MaxByes \in Nat /\ MaxPlayed \in Nat

VARIABLES
    teamRow,      \* the row of each id in teams
    teams,        \* season_teams of the season
    captain,      \* season_teams.captain_id
    rosterTeam,   \* season_rosters: one row per season and player
    bye,          \* bye_requests of the season, by id
    lastBye,      \* the last id given to a bye request
    stale,        \* seasons.schedule_stale
    unplayed,     \* the schedules that matches with completed = 0 come from
    played,       \* the schedules that matches with completed = 1 come from
    activated,    \* seasons.activated_at IS NOT NULL
    active,       \* seasons.active
    seasonClosed, \* seasons.closed_at IS NOT NULL
    weekClosed,   \* some week in league_weeks is closed
    otherActive,  \* another season of the league has active = 1
    request       \* the unfinished request of each client

teamVars == <<teamRow, teams, captain, rosterTeam>>
byeVars == <<bye, lastBye>>
scheduleVars == <<stale, unplayed, played>>
stateVars == <<activated, active, seasonClosed, weekClosed, otherActive>>
vars == <<teamVars, byeVars, scheduleVars, stateVars, request>>

ByeIds == 1..MaxByes
ByeRow == [team : Teams, week : ByeWeeks, approved : BOOLEAN]

\* The matches of a schedule are kept as what they were computed from.
Plan == [teams : SUBSET Teams, byes : SUBSET (ByeWeeks \X Teams)]

Idle == [op |-> "idle"]
Request ==
    {Idle}
    \cup [op : {"addTeam", "removeTeam"}, team : Teams]
    \cup [op : {"setCaptain"}, step : {"roster", "write"}, team : Teams,
          player : Players \cup {NoPlayer}]
    \cup [op : {"addPlayer"}, step : {"team", "player", "write"},
          team : Teams, player : Players]
    \cup [op : {"removePlayer"}, team : Teams, player : Players]
    \cup [op : {"createBye"}, step : {"count", "team", "duplicate", "write"},
          team : Teams, week : ByeWeeks]
    \cup [op : {"setBye"}, step : {"read", "conflict", "write"},
          bye : ByeIds, approve : BOOLEAN]
    \cup [op : {"deleteBye"}, bye : ByeIds]
    \cup [op : {"editCalendar", "pushback"}]
    \cup [op : {"mark"}, step : {"count", "set"}]
    \cup [op : {"activate"}, step : {"teams", "matches", "write"}]
    \cup [op : {"generate"}, step : {"season", "weeks", "results", "byes", "teams", "save"},
          active : BOOLEAN, plan : Plan]

Continue(c, r) == request' = [request EXCEPT ![c] = r]
Finish(c) == Continue(c, Idle)
Op(c, op) == request[c].op = op
At(c, op, step) == request[c].op = op /\ request[c].step = step
NextStep(c, step) == Continue(c, [request[c] EXCEPT !.step = step])
\* A read that lets the request go on to its next step.
Pass(c, step) ==
    /\ NextStep(c, step)
    /\ UNCHANGED <<teamVars, byeVars, scheduleVars, stateVars>>
Begin(c, r) ==
    /\ request[c] = Idle
    /\ Continue(c, r)
    /\ UNCHANGED <<teamVars, byeVars, scheduleVars, stateVars>>

Init ==
    /\ teamRow = [t \in Teams |-> IF t \in PriorTeams THEN "present" ELSE "unused"]
    /\ teams = {}
    /\ captain = [t \in Teams |-> NoPlayer]
    /\ rosterTeam = [p \in Players |-> NoTeam]
    /\ bye = [i \in ByeIds |-> NoBye]
    /\ lastBye = 0
    /\ stale = FALSE
    /\ unplayed = {} /\ played = {}
    /\ activated = FALSE /\ active = FALSE
    /\ seasonClosed = FALSE /\ weekClosed = FALSE
    /\ otherActive = FALSE
    /\ request = [c \in Clients |-> Idle]

\* After its write a request calls MarkStaleIfScheduled and ignores its error.
ThenMark(c) == Continue(c, [op |-> "mark", step |-> "count"])

CountUnplayed(c) ==
    /\ At(c, "mark", "count")
    /\ Continue(c, IF unplayed = {} THEN Idle ELSE [op |-> "mark", step |-> "set"])
    /\ UNCHANGED <<teamVars, byeVars, scheduleVars, stateVars>>

SetStale(c) ==
    /\ At(c, "mark", "set")
    /\ stale' = TRUE
    /\ Finish(c)
    /\ UNCHANGED <<teamVars, byeVars, unplayed, played, stateVars>>

\* The browser gives up, or SQLite is busy: the request's context is cancelled
\* and the mark is not written, with no error to anybody.
LoseMark(c) ==
    /\ Op(c, "mark")
    /\ Finish(c)
    /\ UNCHANGED <<teamVars, byeVars, scheduleVars, stateVars>>

\* A check rejects the request, or it fails: transactions roll back.
Reject(c) ==
    /\ request[c] # Idle /\ ~Op(c, "mark")
    /\ Finish(c)
    /\ UNCHANGED <<teamVars, byeVars, scheduleVars, stateVars>>

-----------------------------------------------------------------------------
(* Teams, captains and rosters of a draft. *)

\* Seeded fault: the draft check is left out.
DraftOrActive == ~seasonClosed
\* IsClosed, then IsDraft: activated_at IS NULL.
Draft == ~seasonClosed /\ ~activated

BeginAddTeam(c, t) == Draft /\ Begin(c, [op |-> "addTeam", team |-> t])
BeginRemoveTeam(c, t) == Draft /\ Begin(c, [op |-> "removeTeam", team |-> t])
BeginAddPlayer(c, t, p) ==
    Draft /\ Begin(c, [op |-> "addPlayer", step |-> "team", team |-> t, player |-> p])
BeginRemovePlayer(c, t, p) ==
    Draft /\ Begin(c, [op |-> "removePlayer", team |-> t, player |-> p])
\* A request without a captain needs no roster check.
BeginSetCaptain(c, t, p) ==
    /\ Draft
    /\ Begin(c, [op |-> "setCaptain", team |-> t, player |-> p,
                 step |-> IF p = NoPlayer THEN "write" ELSE "roster"])

\* AddSeasonTeamCopy: the captain and roster of the previous season come along,
\* except players who are already on another roster of this season.
AddSeasonTeamCopy(c, t) ==
    /\ Op(c, "addTeam") /\ request[c].team = t
    /\ t \in PriorTeams \ teams
    /\ teams' = teams \cup {t}
    /\ captain' = [captain EXCEPT ![t] = PriorCaptain[t]]
    /\ rosterTeam' = [p \in Players |->
                        IF p \in PriorRoster[t] /\ rosterTeam[p] = NoTeam
                        THEN t ELSE rosterTeam[p]]
    /\ ThenMark(c)
    /\ UNCHANGED <<teamRow, byeVars, scheduleVars, stateVars>>

\* AddSeasonTeamNew: a new row of teams.
AddSeasonTeamNew(c, t) ==
    /\ Op(c, "addTeam") /\ request[c].team = t
    /\ teamRow[t] = "unused"
    /\ teamRow' = [teamRow EXCEPT ![t] = "present"]
    /\ teams' = teams \cup {t}
    /\ ThenMark(c)
    /\ UNCHANGED <<captain, rosterTeam, byeVars, scheduleVars, stateVars>>

HasMatches(t) == \E plan \in unplayed \cup played : t \in plan.teams

\* A team no match and no other season refers to is deleted, with its byes.
ForgottenTeam(t) == t \notin PriorTeams /\ ~HasMatches(t)

\* RemoveSeasonTeam.
RemoveSeasonTeam(c, t) ==
    /\ Op(c, "removeTeam") /\ request[c].team = t
    /\ t \in teams
    /\ teams' = teams \ {t}
    /\ captain' = [captain EXCEPT ![t] = NoPlayer]
    /\ rosterTeam' = [p \in Players |->
                        IF rosterTeam[p] = t THEN NoTeam ELSE rosterTeam[p]]
    /\ teamRow' = [teamRow EXCEPT ![t] = IF ForgottenTeam(t) THEN "deleted" ELSE @]
    /\ bye' = [i \in ByeIds |->
                 IF ForgottenTeam(t) /\ bye[i] # NoBye /\ bye[i].team = t
                 THEN NoBye ELSE bye[i]]
    /\ ThenMark(c)
    /\ UNCHANGED <<lastBye, scheduleVars, stateVars>>

CheckCaptain(c) ==
    /\ At(c, "setCaptain", "roster")
    /\ rosterTeam[request[c].player] = request[c].team
    /\ Pass(c, "write")

\* UpdateSeasonTeamMeta: the roster is not looked at again.
UpdateSeasonTeamMeta(c) ==
    /\ At(c, "setCaptain", "write")
    /\ request[c].team \in teams
    /\ captain' = [captain EXCEPT ![request[c].team] = request[c].player]
    /\ Finish(c)
    /\ UNCHANGED <<teamRow, teams, rosterTeam, byeVars, scheduleVars, stateVars>>

CheckTeamInSeason(c) ==
    /\ At(c, "addPlayer", "team")
    /\ request[c].team \in teams
    /\ Pass(c, "player")

CheckPlayerFree(c) ==
    /\ At(c, "addPlayer", "player")
    /\ rosterTeam[request[c].player] \in {NoTeam, request[c].team}
    /\ Pass(c, "write")

\* INSERT OR IGNORE, under the foreign key to season_teams.
InsertOrGetRosterPlayer(c) ==
    /\ At(c, "addPlayer", "write")
    /\ request[c].team \in teams
    /\ rosterTeam' = [rosterTeam EXCEPT ![request[c].player] =
                        IF @ = NoTeam THEN request[c].team ELSE @]
    /\ Finish(c)
    /\ UNCHANGED <<teamRow, teams, captain, byeVars, scheduleVars, stateVars>>

\* DeleteRosterPlayer also takes the captaincy away.
DeleteRosterPlayer(c) ==
    /\ Op(c, "removePlayer")
    /\ rosterTeam[request[c].player] = request[c].team
    /\ rosterTeam' = [rosterTeam EXCEPT ![request[c].player] = NoTeam]
    /\ captain' = [captain EXCEPT ![request[c].team] =
                     IF @ = request[c].player THEN NoPlayer ELSE @]
    /\ Finish(c)
    /\ UNCHANGED <<teamRow, teams, byeVars, scheduleVars, stateVars>>

-----------------------------------------------------------------------------
(* Bye requests, and the calendar. *)

Requested(t, w) == \E i \in ByeIds : bye[i] # NoBye /\ bye[i].team = t /\ bye[i].week = w
Approved(i) == bye[i] # NoBye /\ bye[i].approved
ApprovedByes == {<<bye[i].week, bye[i].team>> : i \in {j \in ByeIds : Approved(j)}}

BeginCreateBye(c, t, w) ==
    /\ ~seasonClosed
    /\ Begin(c, [op |-> "createBye", step |-> "count", team |-> t, week |-> w])

CountParticipatingTeams(c) ==
    /\ At(c, "createBye", "count")
    /\ Cardinality(teams) % 2 = 1
    /\ Pass(c, "team")

CheckByeTeam(c) ==
    /\ At(c, "createBye", "team")
    /\ request[c].team \in teams
    /\ Pass(c, "duplicate")

HasDuplicateBye(c) ==
    /\ At(c, "createBye", "duplicate")
    /\ ~Requested(request[c].team, request[c].week)
    /\ Pass(c, "write")

\* The table's keys: the team exists, one row per season, team and week.
InsertByeRequest(c) ==
    /\ At(c, "createBye", "write")
    /\ teamRow[request[c].team] = "present"
    /\ ~Requested(request[c].team, request[c].week)
    /\ lastBye < MaxByes
    /\ lastBye' = lastBye + 1
    /\ bye' = [bye EXCEPT ![lastBye + 1] =
                 [team |-> request[c].team, week |-> request[c].week, approved |-> FALSE]]
    /\ Finish(c)
    /\ UNCHANGED <<teamVars, scheduleVars, stateVars>>

BeginSetBye(c, i, approve) ==
    /\ ~seasonClosed
    /\ Begin(c, [op |-> "setBye", step |-> "read", bye |-> i, approve |-> approve])

\* A bye without a week cannot be approved; only an approval can conflict.
GetByeRequest(c) ==
    /\ At(c, "setBye", "read")
    /\ bye[request[c].bye] # NoBye
    /\ request[c].approve => bye[request[c].bye].week # 0
    /\ Pass(c, IF request[c].approve THEN "conflict" ELSE "write")

\* Seeded fault: only another request of the same team counts.
ConflictOfTeam(i) ==
    \E j \in ByeIds \ {i} :
        Approved(j) /\ bye[j].week = bye[i].week /\ bye[j].team = bye[i].team
Conflict(i) == \E j \in ByeIds \ {i} : Approved(j) /\ bye[j].week = bye[i].week

\* The week is the one read before; the row of an id never changes its week.
HasByeConflict(c) ==
    /\ At(c, "setBye", "conflict")
    /\ bye[request[c].bye] # NoBye => ~Conflict(request[c].bye)
    /\ Pass(c, "write")

SetByeApproval(c) ==
    /\ At(c, "setBye", "write")
    /\ bye[request[c].bye] # NoBye
    /\ bye' = [bye EXCEPT ![request[c].bye].approved = request[c].approve]
    /\ ThenMark(c)
    /\ UNCHANGED <<teamVars, lastBye, scheduleVars, stateVars>>

BeginDeleteBye(c, i) == ~seasonClosed /\ Begin(c, [op |-> "deleteBye", bye |-> i])

DeleteByeRequest(c) ==
    /\ Op(c, "deleteBye")
    /\ bye[request[c].bye] # NoBye
    /\ bye' = [bye EXCEPT ![request[c].bye] = NoBye]
    /\ ThenMark(c)
    /\ UNCHANGED <<teamVars, lastBye, scheduleVars, stateVars>>

\* UpdateSeason, CreateSkippedWeek and DeleteSkippedWeek write dates and
\* counts of weeks, which a generation takes from its own request.
BeginEditCalendar(c) == ~seasonClosed /\ Begin(c, [op |-> "editCalendar"])
EditCalendar(c) ==
    /\ Op(c, "editCalendar")
    /\ ThenMark(c)
    /\ UNCHANGED <<teamVars, byeVars, scheduleVars, stateVars>>

-----------------------------------------------------------------------------
(* The schedule. *)

\* GenerateSchedule reads six times before its one transaction.
BeginGenerate(c) ==
    /\ ~seasonClosed
    /\ Begin(c, [op |-> "generate", step |-> "season", active |-> FALSE,
                 plan |-> [teams |-> {}, byes |-> {}]])

GetScheduleSeasonMeta(c) ==
    /\ At(c, "generate", "season")
    /\ Continue(c, [request[c] EXCEPT !.step = "weeks", !.active = active])
    /\ UNCHANGED <<teamVars, byeVars, scheduleVars, stateVars>>

HasClosedWeeks(c) == At(c, "generate", "weeks") /\ ~weekClosed /\ Pass(c, "results")

HasCompletedMatches(c) ==
    /\ At(c, "generate", "results")
    /\ request[c].active => played = {}
    /\ Pass(c, "byes")

\* One bye a week: of two approved for a week the row read last stays.
OneForEachWeek(byes) ==
    /\ byes \subseteq ApprovedByes
    /\ \A b \in ApprovedByes : \E d \in byes : d[1] = b[1]
    /\ \A b, d \in byes : b[1] = d[1] => b = d

LoadByeRequests(c) ==
    /\ At(c, "generate", "byes")
    /\ \E byes \in SUBSET ApprovedByes :
          /\ OneForEachWeek(byes)
          /\ Continue(c, [request[c] EXCEPT !.step = "teams", !.plan.byes = byes])
    /\ UNCHANGED <<teamVars, byeVars, scheduleVars, stateVars>>

CollectTeamIDs(c) ==
    /\ At(c, "generate", "teams")
    /\ Cardinality(teams) >= 2
    /\ Continue(c, [request[c] EXCEPT !.step = "save", !.plan.teams = teams])
    /\ UNCHANGED <<teamVars, byeVars, scheduleVars, stateVars>>

\* Seeded fault: the matches of the old schedule stay.
SaveBesideOldSchedule(c) ==
    /\ At(c, "generate", "save")
    /\ \A t \in request[c].plan.teams : teamRow[t] = "present"
    /\ unplayed' = unplayed \cup {request[c].plan}
    /\ stale' = FALSE
    /\ Finish(c)
    /\ UNCHANGED <<teamVars, byeVars, played, stateVars>>
\* The unplayed matches are replaced, under the foreign keys to teams.
SaveGeneratedSchedule(c) ==
    /\ At(c, "generate", "save")
    /\ \A t \in request[c].plan.teams : teamRow[t] = "present"
    /\ unplayed' = {request[c].plan}
    /\ stale' = FALSE
    /\ Finish(c)
    /\ UNCHANGED <<teamVars, byeVars, played, stateVars>>

\* A pushback moves weeks and dates, which are not kept here, and clears the mark.
BeginPushback(c) == ~seasonClosed /\ Begin(c, [op |-> "pushback"])
ApplyPushback(c) ==
    /\ Op(c, "pushback")
    /\ stale' = FALSE
    /\ Finish(c)
    /\ UNCHANGED <<teamVars, byeVars, unplayed, played, stateVars>>

-----------------------------------------------------------------------------
(* Activation. *)

\* Seeded fault: the checklist does not look at the mark.
BeginActivateUnmarked(c) == Begin(c, [op |-> "activate", step |-> "teams"])
\* GetMeta: the mark read here is a blocker of the checklist.
BeginActivate(c) == ~stale /\ Begin(c, [op |-> "activate", step |-> "teams"])

\* Every team has players and a captain among them.
TeamReady(t) == captain[t] # NoPlayer /\ rosterTeam[captain[t]] = t
TeamsReady == Cardinality(teams) >= 2 /\ \A t \in teams : TeamReady(t)

CheckTeamSummaries(c) == At(c, "activate", "teams") /\ TeamsReady /\ Pass(c, "matches")

CheckMatchCount(c) ==
    /\ At(c, "activate", "matches")
    /\ unplayed \cup played # {}
    /\ Pass(c, "write")

\* Seeded fault: only the season itself is updated.
ActivateBesideOthers(c) ==
    /\ At(c, "activate", "write")
    /\ active' = TRUE /\ activated' = TRUE
    /\ Finish(c)
    /\ UNCHANGED <<teamVars, byeVars, scheduleVars, seasonClosed, weekClosed, otherActive>>
\* The league's other seasons stop being active; closed_at is not looked at.
Activate(c) ==
    /\ At(c, "activate", "write")
    /\ otherActive' = FALSE
    /\ active' = TRUE /\ activated' = TRUE
    /\ Finish(c)
    /\ UNCHANGED <<teamVars, byeVars, scheduleVars, seasonClosed, weekClosed>>

-----------------------------------------------------------------------------
(* The rest of the league, in between. *)

\* A match of the schedule is completed: the last unplayed one, or not.
SaveResult(plan) ==
    /\ ~seasonClosed
    /\ plan \in unplayed
    /\ Cardinality(played \cup {plan}) <= MaxPlayed
    /\ played' = played \cup {plan}
    /\ unplayed' \in {unplayed, unplayed \ {plan}}
    /\ UNCHANGED <<teamVars, byeVars, stale, stateVars, request>>

\* The result of a match is cleared: the last one of the schedule, or not.
ClearResult(plan) ==
    /\ ~seasonClosed
    /\ plan \in played
    /\ unplayed' = unplayed \cup {plan}
    /\ played' \in {played, played \ {plan}}
    /\ UNCHANGED <<teamVars, byeVars, stale, stateVars, request>>

CloseOrReopenWeek ==
    /\ ~seasonClosed /\ activated
    /\ weekClosed' \in BOOLEAN
    /\ UNCHANGED <<teamVars, byeVars, scheduleVars, activated, active, seasonClosed,
                   otherActive, request>>

CloseSeason ==
    /\ activated /\ ~seasonClosed /\ weekClosed
    /\ seasonClosed' = TRUE /\ active' = FALSE
    /\ UNCHANGED <<teamVars, byeVars, scheduleVars, activated, weekClosed,
                   otherActive, request>>

ReopenSeason ==
    /\ seasonClosed
    /\ seasonClosed' = FALSE
    /\ UNCHANGED <<teamVars, byeVars, scheduleVars, activated, active, weekClosed,
                   otherActive, request>>

OtherSeasonActivates ==
    /\ active' = FALSE /\ otherActive' = TRUE
    /\ UNCHANGED <<teamVars, byeVars, scheduleVars, activated, seasonClosed,
                   weekClosed, request>>

OtherSeasonCloses ==
    /\ otherActive /\ otherActive' = FALSE
    /\ UNCHANGED <<teamVars, byeVars, scheduleVars, activated, active,
                   seasonClosed, weekClosed, request>>

TeamStep(c) ==
    \/ \E t \in Teams :
          \/ BeginAddTeam(c, t) \/ AddSeasonTeamCopy(c, t) \/ AddSeasonTeamNew(c, t)
          \/ BeginRemoveTeam(c, t) \/ RemoveSeasonTeam(c, t)
          \/ \E p \in Players : BeginAddPlayer(c, t, p) \/ BeginRemovePlayer(c, t, p)
          \/ \E p \in Players \cup {NoPlayer} : BeginSetCaptain(c, t, p)
    \/ CheckCaptain(c) \/ UpdateSeasonTeamMeta(c)
    \/ CheckTeamInSeason(c) \/ CheckPlayerFree(c) \/ InsertOrGetRosterPlayer(c)
    \/ DeleteRosterPlayer(c)

ByeStep(c) ==
    \/ \E t \in Teams, w \in ByeWeeks : BeginCreateBye(c, t, w)
    \/ CountParticipatingTeams(c) \/ CheckByeTeam(c) \/ HasDuplicateBye(c)
    \/ InsertByeRequest(c)
    \/ \E i \in ByeIds : BeginDeleteBye(c, i) \/ \E a \in BOOLEAN : BeginSetBye(c, i, a)
    \/ GetByeRequest(c) \/ HasByeConflict(c) \/ SetByeApproval(c) \/ DeleteByeRequest(c)

ScheduleStep(c) ==
    \/ BeginEditCalendar(c) \/ EditCalendar(c)
    \/ BeginGenerate(c) \/ GetScheduleSeasonMeta(c) \/ HasClosedWeeks(c)
    \/ HasCompletedMatches(c) \/ LoadByeRequests(c) \/ CollectTeamIDs(c)
    \/ SaveGeneratedSchedule(c)
    \/ BeginPushback(c) \/ ApplyPushback(c)
    \/ CountUnplayed(c) \/ SetStale(c) \/ LoseMark(c) \/ Reject(c)

ActivationStep(c) ==
    BeginActivate(c) \/ CheckTeamSummaries(c) \/ CheckMatchCount(c) \/ Activate(c)

PlayStep ==
    \/ \E plan \in unplayed : SaveResult(plan)
    \/ \E plan \in played : ClearResult(plan)
    \/ CloseOrReopenWeek \/ CloseSeason \/ ReopenSeason
    \/ OtherSeasonActivates \/ OtherSeasonCloses

Next ==
    \/ \E c \in Clients : TeamStep(c) \/ ByeStep(c) \/ ScheduleStep(c) \/ ActivationStep(c)
    \/ PlayStep

Spec == Init /\ [][Next]_vars

-----------------------------------------------------------------------------
(* Properties. *)

\* The variables have their types and the rows refer to one another as the
\* schema's keys demand: a player is on the roster, and a captain is kept, of
\* a team of the season only; the teams of the season and of a bye exist.
TypeOK ==
    /\ teamRow \in [Teams -> {"unused", "present", "deleted"}]
    /\ teams \subseteq {t \in Teams : teamRow[t] = "present"}
    /\ captain \in [Teams -> Players \cup {NoPlayer}]
    /\ \A t \in Teams \ teams : captain[t] = NoPlayer
    /\ rosterTeam \in [Players -> teams \cup {NoTeam}]
    /\ bye \in [ByeIds -> ByeRow \cup {NoBye}]
    /\ \A i \in ByeIds : bye[i] # NoBye => i <= lastBye /\ teamRow[bye[i].team] = "present"
    /\ lastBye \in 0..MaxByes
    /\ unplayed \subseteq Plan /\ played \subseteq Plan
    /\ {stale, activated, active, seasonClosed, weekClosed, otherActive} \subseteq BOOLEAN
    /\ request \in [Clients -> Request]

\* A league has at most one active season, whichever seasons are activated,
\* closed and reopened at the same time.
OneActiveSeason == ~(active /\ otherActive)

\* With one administrator, an activated season has two teams or more, each
\* with a captain on its roster: what the checklist saw is still so after any
\* later step, since a season that was ever activated is no draft again.
ActivatedTeamsReady == activated => TeamsReady

\* With one administrator, a season becomes active only with a schedule and
\* without the mark that its teams or byes have changed since.
ActivatesFreshSchedule ==
    [][~active /\ active' => ~stale /\ unplayed \cup played # {}]_vars

\* The schedule's unplayed matches come from the present teams and byes.
ScheduleFits ==
    \A plan \in unplayed : plan.teams = teams /\ plan.byes = ApprovedByes
MisfitIsMarked == ScheduleFits \/ stale \/ \E c \in Clients : Op(c, "mark")

\* With one administrator, a schedule that no longer fits its teams and byes is
\* marked stale.  Only three steps can make a misfit look fresh: the error of
\* the mark that is ignored, a pushback that clears it, and the clearing of a
\* result that brings a match of an older schedule back.
MisfitStaysMarked ==
    [][MisfitIsMarked /\ ~MisfitIsMarked'
         => \/ \E c \in Clients : LoseMark(c) \/ ApplyPushback(c)
            \/ \E plan \in played : ClearResult(plan)]_vars

\* With one administrator, at most one bye of a week is approved: the natural
\* bye of a week is a single slot.
OneByeAWeek ==
    \A i, j \in ByeIds :
        Approved(i) /\ Approved(j) /\ bye[i].week = bye[j].week => i = j

=============================================================================
