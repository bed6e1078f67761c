--------------------------- MODULE SeasonSetup_proofs ---------------------------
(***************************************************************************)
(* Theorems about SeasonSetup, for all sets of teams, players, weeks and   *)
(* administrators; the last four for a single administrator.               *)
(***************************************************************************)
EXTENDS SeasonSetup, FiniteSetTheorems, TLAPS

-----------------------------------------------------------------------------
(* The requests and their steps. *)

\* The sets of records that Request is made of, by operation.
AddPlayers == [op : {"addPlayer"}, step : {"team", "player", "write"},
               team : Teams, player : Players]
SetCaptains == [op : {"setCaptain"}, step : {"roster", "write"}, team : Teams,
                player : Players \cup {NoPlayer}]
CreateByes == [op : {"createBye"}, step : {"count", "team", "duplicate", "write"},
               team : Teams, week : ByeWeeks]
SetByes == [op : {"setBye"}, step : {"read", "conflict", "write"},
            bye : ByeIds, approve : BOOLEAN]
Activations == [op : {"activate"}, step : {"teams", "matches", "write"}]
Generations == [op : {"generate"},
                step : {"season", "weeks", "results", "byes", "teams", "save"},
                active : BOOLEAN, plan : Plan]

\* A request of an operation with steps is a record of that operation.
LEMMA RequestKinds ==
    ASSUME NEW r \in Request
    PROVE  /\ r.op = "addPlayer" => r \in AddPlayers
           /\ r.op = "setCaptain" => r \in SetCaptains
           /\ r.op = "createBye" => r \in CreateByes
           /\ r.op = "setBye" => r \in SetByes
           /\ r.op = "activate" => r \in Activations
           /\ r.op = "generate" => r \in Generations
           /\ r.op \in {"addTeam", "removeTeam"}
                => r \in [op : {"addTeam", "removeTeam"}, team : Teams]
           /\ r.op = "removePlayer"
                => r \in [op : {"removePlayer"}, team : Teams, player : Players]
           /\ r.op = "deleteBye" => r \in [op : {"deleteBye"}, bye : ByeIds]
BY DEF Request, Idle, AddPlayers, SetCaptains, CreateByes, SetByes, Activations, Generations

\* Whatever a request becomes keeps the table of requests typed.
LEMMA ContinueTyped ==
    ASSUME NEW c \in Clients, NEW r \in Request,
           request \in [Clients -> Request], Continue(c, r)
    PROVE  request' \in [Clients -> Request]
BY DEF Continue

\* The requests without arguments are requests.
LEMMA IdleAndMark ==
    /\ Idle \in Request
    /\ [op |-> "mark", step |-> "count"] \in Request
    /\ [op |-> "mark", step |-> "set"] \in Request
    /\ [op |-> "editCalendar"] \in Request
    /\ [op |-> "pushback"] \in Request
    /\ [op |-> "activate", step |-> "teams"] \in Request
BY DEF Request

\* Finishing a request and marking after a write leave the requests typed.
LEMMA EndsTyped ==
    ASSUME NEW c \in Clients, request \in [Clients -> Request],
           Finish(c) \/ ThenMark(c)
    PROVE  request' \in [Clients -> Request]
BY ContinueTyped, IdleAndMark DEF Finish, ThenMark

\* Each operation keeps the requests typed.
LEMMA TeamRequestsTyped ==
    ASSUME NEW c \in Clients, request \in [Clients -> Request], TeamStep(c)
    PROVE  request' \in [Clients -> Request]
<1>1. ASSUME NEW t \in Teams,
             \/ BeginAddTeam(c, t) \/ BeginRemoveTeam(c, t)
             \/ \E p \in Players : BeginAddPlayer(c, t, p) \/ BeginRemovePlayer(c, t, p)
             \/ \E p \in Players \cup {NoPlayer} : BeginSetCaptain(c, t, p)
      PROVE  request' \in [Clients -> Request]
    <2>1. ASSUME BeginAddTeam(c, t) \/ BeginRemoveTeam(c, t)
          PROVE  request' \in [Clients -> Request]
        <3>1. /\ [op |-> "addTeam", team |-> t] \in Request
              /\ [op |-> "removeTeam", team |-> t] \in Request
            BY DEF Request
        <3> QED BY <2>1, <3>1, ContinueTyped DEF BeginAddTeam, BeginRemoveTeam, Begin
    <2>2. ASSUME NEW p \in Players, BeginAddPlayer(c, t, p) \/ BeginRemovePlayer(c, t, p)
          PROVE  request' \in [Clients -> Request]
        <3>1. /\ [op |-> "addPlayer", step |-> "team", team |-> t, player |-> p] \in Request
              /\ [op |-> "removePlayer", team |-> t, player |-> p] \in Request
            BY DEF Request
        <3> QED BY <2>2, <3>1, ContinueTyped DEF BeginAddPlayer, BeginRemovePlayer, Begin
    <2>3. ASSUME NEW p \in Players \cup {NoPlayer}, BeginSetCaptain(c, t, p)
          PROVE  request' \in [Clients -> Request]
        <3>1. [op |-> "setCaptain", team |-> t, player |-> p,
               step |-> IF p = NoPlayer THEN "write" ELSE "roster"] \in Request
            BY DEF Request
        <3> QED BY <2>3, <3>1, ContinueTyped DEF BeginSetCaptain, Begin
    <2> QED BY <1>1, <2>1, <2>2, <2>3
<1>2. ASSUME NEW t \in Teams,
             AddSeasonTeamCopy(c, t) \/ AddSeasonTeamNew(c, t) \/ RemoveSeasonTeam(c, t)
      PROVE  request' \in [Clients -> Request]
    BY <1>2, EndsTyped DEF AddSeasonTeamCopy, AddSeasonTeamNew, RemoveSeasonTeam
<1>3. CASE UpdateSeasonTeamMeta(c) \/ InsertOrGetRosterPlayer(c) \/ DeleteRosterPlayer(c)
    BY <1>3, EndsTyped DEF UpdateSeasonTeamMeta, InsertOrGetRosterPlayer, DeleteRosterPlayer
<1>4. CASE CheckCaptain(c)
    <2>1. request[c] \in SetCaptains
        BY <1>4, RequestKinds DEF CheckCaptain, At
    <2>2. [request[c] EXCEPT !.step = "write"] \in Request
        BY <2>1 DEF SetCaptains, Request
    <2> QED BY <1>4, <2>2, ContinueTyped DEF CheckCaptain, Pass, NextStep
<1>5. CASE CheckTeamInSeason(c) \/ CheckPlayerFree(c)
    <2>1. request[c] \in AddPlayers
        BY <1>5, RequestKinds DEF CheckTeamInSeason, CheckPlayerFree, At
    <2>2. /\ [request[c] EXCEPT !.step = "player"] \in Request
          /\ [request[c] EXCEPT !.step = "write"] \in Request
        BY <2>1 DEF AddPlayers, Request
    <2> QED BY <1>5, <2>2, ContinueTyped DEF CheckTeamInSeason, CheckPlayerFree, Pass, NextStep
<1> QED BY <1>1, <1>2, <1>3, <1>4, <1>5 DEF TeamStep

\* Steps of the byes keep the requests typed.
LEMMA ByeRequestsTyped ==
    ASSUME NEW c \in Clients, request \in [Clients -> Request], ByeStep(c)
    PROVE  request' \in [Clients -> Request]
<1>1. ASSUME NEW t \in Teams, NEW w \in ByeWeeks, BeginCreateBye(c, t, w)
      PROVE  request' \in [Clients -> Request]
    <2>1. [op |-> "createBye", step |-> "count", team |-> t, week |-> w] \in Request
        BY DEF Request
    <2> QED BY <1>1, <2>1, ContinueTyped DEF BeginCreateBye, Begin
<1>2. ASSUME NEW i \in ByeIds,
             BeginDeleteBye(c, i) \/ \E a \in BOOLEAN : BeginSetBye(c, i, a)
      PROVE  request' \in [Clients -> Request]
    <2>1. ASSUME NEW a \in BOOLEAN
          PROVE  /\ [op |-> "setBye", step |-> "read", bye |-> i, approve |-> a] \in Request
                 /\ [op |-> "deleteBye", bye |-> i] \in Request
        BY DEF Request
    <2> QED BY <1>2, <2>1, ContinueTyped DEF BeginDeleteBye, BeginSetBye, Begin
<1>3. CASE InsertByeRequest(c) \/ SetByeApproval(c) \/ DeleteByeRequest(c)
    BY <1>3, EndsTyped DEF InsertByeRequest, SetByeApproval, DeleteByeRequest
<1>4. CASE CountParticipatingTeams(c) \/ CheckByeTeam(c) \/ HasDuplicateBye(c)
    <2>1. request[c] \in CreateByes
        BY <1>4, RequestKinds DEF CountParticipatingTeams, CheckByeTeam, HasDuplicateBye, At
    <2>2. /\ [request[c] EXCEPT !.step = "team"] \in Request
          /\ [request[c] EXCEPT !.step = "duplicate"] \in Request
          /\ [request[c] EXCEPT !.step = "write"] \in Request
        BY <2>1 DEF CreateByes, Request
    <2> QED BY <1>4, <2>2, ContinueTyped
         DEF CountParticipatingTeams, CheckByeTeam, HasDuplicateBye, Pass, NextStep
<1>5. CASE GetByeRequest(c) \/ HasByeConflict(c)
    <2>1. request[c] \in SetByes
        BY <1>5, RequestKinds DEF GetByeRequest, HasByeConflict, At
    <2>2. /\ [request[c] EXCEPT !.step = "conflict"] \in Request
          /\ [request[c] EXCEPT !.step = "write"] \in Request
        BY <2>1 DEF SetByes, Request
    <2> QED BY <1>5, <2>2, ContinueTyped DEF GetByeRequest, HasByeConflict, Pass, NextStep
<1> QED BY <1>1, <1>2, <1>3, <1>4, <1>5 DEF ByeStep

\* The approved byes are pairs of a week and a team.
LEMMA ApprovedTyped ==
    ASSUME bye \in [ByeIds -> ByeRow \cup {NoBye}]
    PROVE  ApprovedByes \subseteq ByeWeeks \X Teams
BY DEF ApprovedByes, Approved, ByeRow

\* Each read of a generation adds a set of its type to what is planned.
LEMMA GenerationRequestsTyped ==
    ASSUME NEW c \in Clients, TypeOK,
           \/ BeginGenerate(c) \/ GetScheduleSeasonMeta(c) \/ HasClosedWeeks(c)
           \/ HasCompletedMatches(c) \/ LoadByeRequests(c) \/ CollectTeamIDs(c)
    PROVE  request' \in [Clients -> Request]
<1>0. /\ request \in [Clients -> Request] /\ active \in BOOLEAN
      /\ teams \in SUBSET Teams /\ bye \in [ByeIds -> ByeRow \cup {NoBye}]
    BY DEF TypeOK
<1>1. CASE BeginGenerate(c)
    <2>1. [op |-> "generate", step |-> "season", active |-> FALSE,
           plan |-> [teams |-> {}, byes |-> {}]] \in Request
        BY DEF Request, Plan
    <2> QED BY <1>0, <1>1, <2>1, ContinueTyped DEF BeginGenerate, Begin
<1>2. ASSUME request[c].op = "generate"
      PROVE  request[c] \in Generations
    BY <1>0, <1>2, RequestKinds
<1>3. ASSUME NEW r \in Generations,
             NEW step \in {"weeks", "results", "byes"}, NEW a \in BOOLEAN
      PROVE  /\ [r EXCEPT !.step = step] \in Request
             /\ [r EXCEPT !.step = step, !.active = a] \in Request
    BY <1>3 DEF Generations, Request
<1>4. ASSUME NEW r \in Generations, NEW bs \in SUBSET (ByeWeeks \X Teams)
      PROVE  [r EXCEPT !.step = "teams", !.plan.byes = bs] \in Request
    <2>1. [r.plan EXCEPT !.byes = bs] \in Plan
        BY DEF Generations, Plan
    <2>2. [r EXCEPT !.step = "teams", !.plan = [r.plan EXCEPT !.byes = bs]] \in Request
        BY <2>1 DEF Generations, Request
    <2>3. [r EXCEPT !.step = "teams", !.plan.byes = bs]
            = [r EXCEPT !.step = "teams", !.plan = [r.plan EXCEPT !.byes = bs]]
        BY DEF Generations
    <2> QED BY <2>2, <2>3
<1>5. ASSUME NEW r \in Generations, NEW ts \in SUBSET Teams
      PROVE  [r EXCEPT !.step = "save", !.plan.teams = ts] \in Request
    <2>1. [r.plan EXCEPT !.teams = ts] \in Plan
        BY DEF Generations, Plan
    <2>2. [r EXCEPT !.step = "save", !.plan = [r.plan EXCEPT !.teams = ts]] \in Request
        BY <2>1 DEF Generations, Request
    <2>3. [r EXCEPT !.step = "save", !.plan.teams = ts]
            = [r EXCEPT !.step = "save", !.plan = [r.plan EXCEPT !.teams = ts]]
        BY DEF Generations
    <2> QED BY <2>2, <2>3
<1>6. CASE GetScheduleSeasonMeta(c)
    <2>1. [request[c] EXCEPT !.step = "weeks", !.active = active] \in Request
        BY <1>0, <1>2, <1>3, <1>6 DEF GetScheduleSeasonMeta, At
    <2> QED BY <1>0, <1>6, <2>1, ContinueTyped DEF GetScheduleSeasonMeta
<1>7. CASE HasClosedWeeks(c) \/ HasCompletedMatches(c)
    <2>1. /\ [request[c] EXCEPT !.step = "results"] \in Request
          /\ [request[c] EXCEPT !.step = "byes"] \in Request
        BY <1>2, <1>3, <1>7 DEF HasClosedWeeks, HasCompletedMatches, At
    <2> QED BY <1>0, <1>7, <2>1, ContinueTyped
         DEF HasClosedWeeks, HasCompletedMatches, Pass, NextStep
<1>8. CASE LoadByeRequests(c)
    <2>1. PICK byes \in SUBSET ApprovedByes :
             Continue(c, [request[c] EXCEPT !.step = "teams", !.plan.byes = byes])
        BY <1>8 DEF LoadByeRequests
    <2>2. byes \in SUBSET (ByeWeeks \X Teams)
        BY <1>0, ApprovedTyped
    <2>3. [request[c] EXCEPT !.step = "teams", !.plan.byes = byes] \in Request
        BY <1>2, <1>4, <1>8, <2>2 DEF LoadByeRequests, At
    <2> QED BY <1>0, <2>1, <2>3, ContinueTyped
<1>9. CASE CollectTeamIDs(c)
    <2>1. [request[c] EXCEPT !.step = "save", !.plan.teams = teams] \in Request
        BY <1>0, <1>2, <1>5, <1>9 DEF CollectTeamIDs, At
    <2> QED BY <1>0, <1>9, <2>1, ContinueTyped DEF CollectTeamIDs
<1> QED BY <1>1, <1>6, <1>7, <1>8, <1>9

\* Steps of the schedule and of an activation keep the requests typed.
LEMMA ScheduleRequestsTyped ==
    ASSUME NEW c \in Clients, TypeOK, ScheduleStep(c) \/ ActivationStep(c)
    PROVE  request' \in [Clients -> Request]
<1>0. request \in [Clients -> Request]
    BY DEF TypeOK
<1>1. CASE BeginEditCalendar(c) \/ BeginPushback(c) \/ BeginActivate(c)
    BY <1>0, <1>1, ContinueTyped, IdleAndMark
    DEF BeginEditCalendar, BeginPushback, BeginActivate, Begin
<1>2. CASE \/ EditCalendar(c) \/ SaveGeneratedSchedule(c) \/ ApplyPushback(c)
           \/ SetStale(c) \/ LoseMark(c) \/ Reject(c) \/ Activate(c)
    BY <1>0, <1>2, EndsTyped
    DEF EditCalendar, SaveGeneratedSchedule, ApplyPushback, SetStale, LoseMark, Reject, Activate
<1>3. CASE CountUnplayed(c)
    BY <1>0, <1>3, ContinueTyped, IdleAndMark DEF CountUnplayed
<1>4. CASE CheckTeamSummaries(c) \/ CheckMatchCount(c)
    <2>1. request[c] \in Activations
        BY <1>0, <1>4, RequestKinds DEF CheckTeamSummaries, CheckMatchCount, At
    <2>2. /\ [request[c] EXCEPT !.step = "matches"] \in Request
          /\ [request[c] EXCEPT !.step = "write"] \in Request
        BY <2>1 DEF Activations, Request
    <2> QED BY <1>0, <1>4, <2>2, ContinueTyped
         DEF CheckTeamSummaries, CheckMatchCount, Pass, NextStep
<1> QED BY <1>1, <1>2, <1>3, <1>4, GenerationRequestsTyped DEF ScheduleStep, ActivationStep

-----------------------------------------------------------------------------
(* The rows of the database. *)

TeamRows ==
    /\ teamRow \in [Teams -> {"unused", "present", "deleted"}]
    /\ teams \subseteq {t \in Teams : teamRow[t] = "present"}
    /\ \A t \in PriorTeams : teamRow[t] = "present"
    /\ captain \in [Teams -> Players \cup {NoPlayer}]
    /\ \A t \in Teams \ teams : captain[t] = NoPlayer
    /\ rosterTeam \in [Players -> teams \cup {NoTeam}]
ByeRows ==
    /\ bye \in [ByeIds -> ByeRow \cup {NoBye}]
    /\ lastBye \in 0..MaxByes
    /\ \A i \in ByeIds : bye[i] # NoBye => i <= lastBye /\ teamRow[bye[i].team] = "present"
OtherRows ==
    /\ unplayed \subseteq Plan /\ played \subseteq Plan
    /\ {stale, activated, active, seasonClosed, weekClosed, otherActive} \subseteq BOOLEAN

\* The type invariant is inductive together with the rows of the teams of the
\* previous season, which nothing deletes.
Typed == TypeOK /\ \A t \in PriorTeams : teamRow[t] = "present"

\* The type invariant by the parts of the database it is about.
LEMMA TypedParts ==
    Typed <=> TeamRows /\ ByeRows /\ OtherRows /\ request \in [Clients -> Request]
BY DEF Typed, TypeOK, TeamRows, ByeRows, OtherRows

\* A row of bye_requests is not the absence of one.
LEMMA ByeRowIsNotNoBye == NoBye \notin ByeRow
BY ByeAssumption DEF ByeRow

\* Adding a team.
LEMMA AddTeamRows ==
    ASSUME NEW c \in Clients, NEW t \in Teams, TeamRows, ByeRows,
           AddSeasonTeamCopy(c, t) \/ AddSeasonTeamNew(c, t)
    PROVE  TeamRows' /\ ByeRows'
<1>1. CASE AddSeasonTeamCopy(c, t)
    <2>1. PriorCaptain[t] \in Players \cup {NoPlayer} /\ teamRow[t] = "present"
        BY <1>1, PlayerAssumption DEF AddSeasonTeamCopy, TeamRows
    <2>2. rosterTeam' \in [Players -> teams' \cup {NoTeam}]
        BY <1>1 DEF AddSeasonTeamCopy, TeamRows
    <2>3. captain' \in [Teams -> Players \cup {NoPlayer}]
          /\ \A u \in Teams \ teams' : captain'[u] = NoPlayer
        BY <1>1, <2>1 DEF AddSeasonTeamCopy, TeamRows
    <2>4. teamRow' = teamRow /\ teams' = teams \cup {t} /\ bye' = bye /\ lastBye' = lastBye
        BY <1>1 DEF AddSeasonTeamCopy, byeVars
    <2> QED BY <2>1, <2>2, <2>3, <2>4 DEF TeamRows, ByeRows
<1>2. CASE AddSeasonTeamNew(c, t)
    <2>1. /\ teamRow' = [teamRow EXCEPT ![t] = "present"] /\ teams' = teams \cup {t}
          /\ captain' = captain /\ rosterTeam' = rosterTeam
          /\ bye' = bye /\ lastBye' = lastBye
        BY <1>2 DEF AddSeasonTeamNew, byeVars
    <2>2. TeamRows'
        BY <2>1 DEF TeamRows
    <2>3. ByeRows'
        BY <2>1, ByeRowIsNotNoBye DEF ByeRows, TeamRows, ByeRow
    <2> QED BY <2>2, <2>3
<1> QED BY <1>1, <1>2

\* Removing a team takes its captain, its roster and, with its own row, its byes.
LEMMA RemoveTeamRows ==
    ASSUME NEW c \in Clients, NEW t \in Teams, TeamRows, ByeRows, RemoveSeasonTeam(c, t)
    PROVE  TeamRows' /\ ByeRows'
<1>1. /\ t \in teams /\ teams' = teams \ {t} /\ lastBye' = lastBye
      /\ captain' = [captain EXCEPT ![t] = NoPlayer]
      /\ rosterTeam' = [p \in Players |->
                          IF rosterTeam[p] = t THEN NoTeam ELSE rosterTeam[p]]
      /\ teamRow' = [teamRow EXCEPT ![t] = IF ForgottenTeam(t) THEN "deleted" ELSE @]
      /\ bye' = [i \in ByeIds |->
                   IF ForgottenTeam(t) /\ bye[i] # NoBye /\ bye[i].team = t
                   THEN NoBye ELSE bye[i]]
    BY DEF RemoveSeasonTeam
<1>2. teamRow' \in [Teams -> {"unused", "present", "deleted"}]
    BY <1>1 DEF TeamRows
<1>3. \A u \in Teams \ {t} : teamRow'[u] = teamRow[u]
    BY <1>1 DEF TeamRows
<1>4. ~ForgottenTeam(t) => teamRow'[t] = "present"
    BY <1>1 DEF TeamRows
<1>5. ForgottenTeam(t) => t \notin PriorTeams
    BY DEF ForgottenTeam
<1>6. captain' \in [Teams -> Players \cup {NoPlayer}]
      /\ \A u \in Teams \ teams' : captain'[u] = NoPlayer
    BY <1>1 DEF TeamRows
<1>7. rosterTeam' \in [Players -> teams' \cup {NoTeam}]
    BY <1>1 DEF TeamRows
<1>8. TeamRows'
    BY <1>1, <1>2, <1>3, <1>4, <1>5, <1>6, <1>7, TeamAssumption DEF TeamRows
<1>9. bye' \in [ByeIds -> ByeRow \cup {NoBye}]
    BY <1>1 DEF ByeRows
<1>10. ASSUME NEW i \in ByeIds, bye'[i] # NoBye
       PROVE  i <= lastBye' /\ teamRow'[bye'[i].team] = "present"
    <2>1. bye'[i] = bye[i] /\ bye[i] \in ByeRow
        BY <1>1, <1>10 DEF ByeRows
    <2>2. bye[i].team \in Teams /\ teamRow[bye[i].team] = "present" /\ i <= lastBye
        BY <1>10, <2>1 DEF ByeRows, ByeRow
    <2>3. CASE bye[i].team = t
        <3>1. ~ForgottenTeam(t)
            BY <1>1, <1>10, <2>1, <2>3
        <3> QED BY <1>1, <1>4, <2>1, <2>2, <2>3, <3>1
    <2>4. CASE bye[i].team # t
        BY <1>1, <1>3, <2>1, <2>2, <2>4
    <2> QED BY <2>3, <2>4
<1> QED BY <1>1, <1>8, <1>9, <1>10 DEF ByeRows

\* Captains and rosters.
LEMMA RosterRows ==
    ASSUME NEW c \in Clients, TeamRows, request \in [Clients -> Request],
           UpdateSeasonTeamMeta(c) \/ InsertOrGetRosterPlayer(c) \/ DeleteRosterPlayer(c)
    PROVE  TeamRows'
<1>1. CASE UpdateSeasonTeamMeta(c)
    <2>1. request[c].team \in teams /\ request[c].player \in Players \cup {NoPlayer}
        BY <1>1, RequestKinds DEF UpdateSeasonTeamMeta, At, SetCaptains
    <2>2. /\ captain' = [captain EXCEPT ![request[c].team] = request[c].player]
          /\ teamRow' = teamRow /\ teams' = teams /\ rosterTeam' = rosterTeam
        BY <1>1 DEF UpdateSeasonTeamMeta
    <2> QED BY <2>1, <2>2 DEF TeamRows
<1>2. CASE InsertOrGetRosterPlayer(c)
    <2>1. request[c].team \in teams
        BY <1>2 DEF InsertOrGetRosterPlayer
    <2>2. /\ rosterTeam' = [rosterTeam EXCEPT ![request[c].player] =
                              IF @ = NoTeam THEN request[c].team ELSE @]
          /\ teamRow' = teamRow /\ teams' = teams /\ captain' = captain
        BY <1>2 DEF InsertOrGetRosterPlayer
    <2> QED BY <2>1, <2>2 DEF TeamRows
<1>3. CASE DeleteRosterPlayer(c)
    <2>1. /\ rosterTeam' = [rosterTeam EXCEPT ![request[c].player] = NoTeam]
          /\ captain' = [captain EXCEPT ![request[c].team] =
                           IF @ = request[c].player THEN NoPlayer ELSE @]
          /\ teamRow' = teamRow /\ teams' = teams
        BY <1>3 DEF DeleteRosterPlayer
    <2> QED BY <2>1 DEF TeamRows
<1> QED BY <1>1, <1>2, <1>3

\* A step of the teams changes nothing but teams, byes and requests.
LEMMA TeamStepRows ==
    ASSUME NEW c \in Clients, Typed, TeamStep(c)
    PROVE  TeamRows' /\ ByeRows' /\ OtherRows'
<1>0. TeamRows /\ ByeRows /\ OtherRows /\ request \in [Clients -> Request]
    BY TypedParts
<1>1. ASSUME NEW t \in Teams, AddSeasonTeamCopy(c, t) \/ AddSeasonTeamNew(c, t)
      PROVE  TeamRows' /\ ByeRows' /\ OtherRows'
    <2>1. UNCHANGED <<scheduleVars, stateVars>>
        BY <1>1 DEF AddSeasonTeamCopy, AddSeasonTeamNew
    <2> QED BY <1>0, <1>1, <2>1, AddTeamRows DEF OtherRows, scheduleVars, stateVars
<1>2. ASSUME NEW t \in Teams, RemoveSeasonTeam(c, t)
      PROVE  TeamRows' /\ ByeRows' /\ OtherRows'
    <2>1. UNCHANGED <<scheduleVars, stateVars>>
        BY <1>2 DEF RemoveSeasonTeam
    <2> QED BY <1>0, <1>2, <2>1, RemoveTeamRows DEF OtherRows, scheduleVars, stateVars
<1>3. CASE UpdateSeasonTeamMeta(c) \/ InsertOrGetRosterPlayer(c) \/ DeleteRosterPlayer(c)
    <2>1. UNCHANGED <<teamRow, byeVars, scheduleVars, stateVars>>
        BY <1>3 DEF UpdateSeasonTeamMeta, InsertOrGetRosterPlayer, DeleteRosterPlayer
    <2> QED BY <1>0, <1>3, <2>1, RosterRows
         DEF ByeRows, OtherRows, byeVars, scheduleVars, stateVars
<1>4. ASSUME UNCHANGED <<teamVars, byeVars, scheduleVars, stateVars>>
      PROVE  TeamRows' /\ ByeRows' /\ OtherRows'
    BY <1>0, <1>4 DEF TeamRows, ByeRows, OtherRows, teamVars, byeVars, scheduleVars, stateVars
<1>5. ASSUME NEW t \in Teams,
             \/ BeginAddTeam(c, t) \/ BeginRemoveTeam(c, t)
             \/ \E p \in Players : BeginAddPlayer(c, t, p) \/ BeginRemovePlayer(c, t, p)
             \/ \E p \in Players \cup {NoPlayer} : BeginSetCaptain(c, t, p)
      PROVE  UNCHANGED <<teamVars, byeVars, scheduleVars, stateVars>>
    BY <1>5 DEF BeginAddTeam, BeginRemoveTeam, BeginAddPlayer, BeginRemovePlayer,
                BeginSetCaptain, Begin
<1>6. ASSUME CheckCaptain(c) \/ CheckTeamInSeason(c) \/ CheckPlayerFree(c)
      PROVE  UNCHANGED <<teamVars, byeVars, scheduleVars, stateVars>>
    BY <1>6 DEF CheckCaptain, CheckTeamInSeason, CheckPlayerFree, Pass
<1> QED BY <1>1, <1>2, <1>3, <1>4, <1>5, <1>6 DEF TeamStep

\* A step of the byes changes nothing but byes and requests.
LEMMA ByeStepRows ==
    ASSUME NEW c \in Clients, Typed, ByeStep(c)
    PROVE  /\ TeamRows' /\ ByeRows' /\ OtherRows'
           /\ UNCHANGED <<teamVars, scheduleVars, stateVars>>
<1>0. TeamRows /\ ByeRows /\ OtherRows /\ request \in [Clients -> Request]
    BY TypedParts
<1>1. UNCHANGED <<teamVars, scheduleVars, stateVars>>
    BY DEF ByeStep, BeginCreateBye, CountParticipatingTeams, CheckByeTeam, HasDuplicateBye,
           InsertByeRequest, BeginDeleteBye, BeginSetBye, GetByeRequest, HasByeConflict,
           SetByeApproval, DeleteByeRequest, Begin, Pass
<1>2. TeamRows' /\ OtherRows'
    BY <1>0, <1>1 DEF TeamRows, OtherRows, teamVars, scheduleVars, stateVars
<1>3. CASE InsertByeRequest(c)
    <2>1. request[c].team \in Teams /\ request[c].week \in ByeWeeks
        BY <1>0, <1>3, RequestKinds DEF InsertByeRequest, At, CreateByes
    <2> DEFINE row == [team |-> request[c].team, week |-> request[c].week, approved |-> FALSE]
    <2>2. row \in ByeRow
        BY <2>1 DEF ByeRow
    <2>3. /\ lastBye < MaxByes /\ lastBye' = lastBye + 1
          /\ bye' = [bye EXCEPT ![lastBye + 1] = row]
          /\ teamRow[row.team] = "present" /\ teamRow' = teamRow
        BY <1>1, <1>3 DEF InsertByeRequest, teamVars
    <2> HIDE DEF row
    <2> QED BY <1>0, <1>2, <1>1, <2>2, <2>3, BoundAssumption DEF ByeRows, ByeIds
<1>4. CASE SetByeApproval(c)
    <2>1. request[c].bye \in ByeIds /\ request[c].approve \in BOOLEAN
        BY <1>0, <1>4, RequestKinds DEF SetByeApproval, At, SetByes
    <2>2. /\ bye[request[c].bye] # NoBye /\ lastBye' = lastBye /\ teamRow' = teamRow
          /\ bye' = [bye EXCEPT ![request[c].bye].approved = request[c].approve]
        BY <1>1, <1>4 DEF SetByeApproval, teamVars
    <2>3. bye[request[c].bye] \in ByeRow
        BY <1>0, <2>1, <2>2 DEF ByeRows
    <2>4. [bye[request[c].bye] EXCEPT !.approved = request[c].approve] \in ByeRow
          /\ [bye[request[c].bye] EXCEPT !.approved = request[c].approve].team
               = bye[request[c].bye].team
        BY <2>1, <2>3 DEF ByeRow
    <2> QED BY <1>0, <1>1, <1>2, <2>1, <2>2, <2>4 DEF ByeRows
<1>5. CASE DeleteByeRequest(c)
    <2>1. /\ bye' = [bye EXCEPT ![request[c].bye] = NoBye]
          /\ lastBye' = lastBye /\ teamRow' = teamRow
        BY <1>1, <1>5 DEF DeleteByeRequest, teamVars
    <2> QED BY <1>0, <1>1, <1>2, <2>1 DEF ByeRows
<1>6. ASSUME ~(InsertByeRequest(c) \/ SetByeApproval(c) \/ DeleteByeRequest(c))
      PROVE  TeamRows' /\ ByeRows' /\ OtherRows'
    <2>1. UNCHANGED byeVars
        BY <1>6 DEF ByeStep, BeginCreateBye, CountParticipatingTeams, CheckByeTeam,
             HasDuplicateBye, BeginDeleteBye, BeginSetBye, GetByeRequest, HasByeConflict,
             Begin, Pass
    <2> QED BY <1>0, <1>1, <1>2, <2>1 DEF ByeRows, byeVars, teamVars
<1> QED BY <1>1, <1>3, <1>4, <1>5, <1>6, <1>2

\* A step of the schedule changes nothing but the schedule and requests.
LEMMA ScheduleStepRows ==
    ASSUME NEW c \in Clients, Typed, ScheduleStep(c)
    PROVE  /\ TeamRows' /\ ByeRows' /\ OtherRows'
           /\ UNCHANGED <<teamVars, byeVars, played, stateVars>>
<1>0. TeamRows /\ ByeRows /\ OtherRows /\ request \in [Clients -> Request]
    BY TypedParts
<1>1. UNCHANGED <<teamVars, byeVars, played, stateVars>>
    BY DEF ScheduleStep, BeginEditCalendar, EditCalendar, BeginGenerate,
           GetScheduleSeasonMeta, HasClosedWeeks, HasCompletedMatches, LoadByeRequests,
           CollectTeamIDs, SaveGeneratedSchedule, BeginPushback, ApplyPushback,
           CountUnplayed, SetStale, LoseMark, Reject, Begin, Pass, scheduleVars
<1>2. TeamRows' /\ ByeRows'
    BY <1>0, <1>1 DEF TeamRows, ByeRows, teamVars, byeVars
<1>3. CASE SaveGeneratedSchedule(c)
    <2>1. request[c].plan \in Plan
        BY <1>0, <1>3, RequestKinds DEF SaveGeneratedSchedule, At, Generations
    <2> QED BY <1>0, <1>1, <1>2, <1>3, <2>1 DEF SaveGeneratedSchedule, OtherRows, stateVars
<1>4. CASE ApplyPushback(c) \/ SetStale(c)
    BY <1>0, <1>1, <1>2, <1>4 DEF ApplyPushback, SetStale, OtherRows, stateVars
<1>5. ASSUME ~(SaveGeneratedSchedule(c) \/ ApplyPushback(c) \/ SetStale(c))
      PROVE  TeamRows' /\ ByeRows' /\ OtherRows'
    <2>1. UNCHANGED scheduleVars
        BY <1>5 DEF ScheduleStep, BeginEditCalendar, EditCalendar, BeginGenerate,
             GetScheduleSeasonMeta, HasClosedWeeks, HasCompletedMatches, LoadByeRequests,
             CollectTeamIDs, BeginPushback, CountUnplayed, LoseMark, Reject, Begin, Pass
    <2> QED BY <1>0, <1>1, <1>2, <2>1 DEF OtherRows, scheduleVars, stateVars
<1> QED BY <1>1, <1>3, <1>4, <1>5

\* Activation and play change nothing but the schedule and the season's state.
LEMMA ActivationStepRows ==
    ASSUME NEW c \in Clients, Typed, ActivationStep(c)
    PROVE  /\ TeamRows' /\ ByeRows' /\ OtherRows'
           /\ UNCHANGED <<teamVars, byeVars, scheduleVars, seasonClosed, weekClosed>>
<1>0. TeamRows /\ ByeRows /\ OtherRows
    BY TypedParts
<1>1. UNCHANGED <<teamVars, byeVars, scheduleVars, seasonClosed, weekClosed>>
    BY DEF ActivationStep, BeginActivate, CheckTeamSummaries, CheckMatchCount, Activate,
           Begin, Pass, stateVars
<1>2. TeamRows' /\ ByeRows'
    BY <1>0, <1>1 DEF TeamRows, ByeRows, teamVars, byeVars
<1>3. UNCHANGED stateVars \/ (active' = TRUE /\ activated' = TRUE /\ otherActive' = FALSE)
    BY DEF ActivationStep, BeginActivate, CheckTeamSummaries, CheckMatchCount, Activate,
           Begin, Pass
<1>4. OtherRows'
    BY <1>0, <1>1, <1>3 DEF OtherRows, scheduleVars, stateVars
<1> QED BY <1>1, <1>2, <1>4

\* Play changes nothing of the setup but which matches are played.
LEMMA PlayStepRows ==
    ASSUME Typed, PlayStep
    PROVE  /\ TeamRows' /\ ByeRows' /\ OtherRows'
           /\ UNCHANGED <<teamVars, byeVars, stale, request>>
<1>0. TeamRows /\ ByeRows /\ OtherRows
    BY TypedParts
<1>1. UNCHANGED <<teamVars, byeVars, stale, request>>
    BY DEF PlayStep, SaveResult, ClearResult, CloseOrReopenWeek, CloseSeason, ReopenSeason,
           OtherSeasonActivates, OtherSeasonCloses, scheduleVars
<1>2. TeamRows' /\ ByeRows'
    BY <1>0, <1>1 DEF TeamRows, ByeRows, teamVars, byeVars
<1>3. CASE \/ \E plan \in unplayed : SaveResult(plan)
           \/ \E plan \in played : ClearResult(plan)
    BY <1>0, <1>1, <1>2, <1>3 DEF SaveResult, ClearResult, OtherRows, stateVars
<1>4. CASE \/ CloseOrReopenWeek \/ CloseSeason \/ ReopenSeason
           \/ OtherSeasonActivates \/ OtherSeasonCloses
    BY <1>0, <1>1, <1>2, <1>4 DEF CloseOrReopenWeek, CloseSeason, ReopenSeason,
         OtherSeasonActivates, OtherSeasonCloses, OtherRows, scheduleVars
<1> QED BY <1>3, <1>4 DEF PlayStep

\* Types are kept, for any number of administrators.
LEMMA TypedStep ==
    ASSUME Typed, [Next]_vars
    PROVE  Typed'
<1>0. /\ TeamRows /\ ByeRows /\ OtherRows /\ request \in [Clients -> Request] /\ TypeOK
    BY TypedParts DEF Typed
<1>1. Typed' <=> TeamRows' /\ ByeRows' /\ OtherRows' /\ request' \in [Clients -> Request]
    BY DEF Typed, TypeOK, TeamRows, ByeRows, OtherRows
<1>2. ASSUME NEW c \in Clients, TeamStep(c)
      PROVE  Typed'
    BY <1>0, <1>1, <1>2, TeamStepRows, TeamRequestsTyped
<1>3. ASSUME NEW c \in Clients, ByeStep(c)
      PROVE  Typed'
    BY <1>0, <1>1, <1>3, ByeStepRows, ByeRequestsTyped
<1>4. ASSUME NEW c \in Clients, ScheduleStep(c)
      PROVE  Typed'
    BY <1>0, <1>1, <1>4, ScheduleStepRows, ScheduleRequestsTyped
<1>5. ASSUME NEW c \in Clients, ActivationStep(c)
      PROVE  Typed'
    BY <1>0, <1>1, <1>5, ActivationStepRows, ScheduleRequestsTyped
<1>6. CASE PlayStep
    BY <1>0, <1>1, <1>6, PlayStepRows
<1>7. CASE UNCHANGED vars
    BY <1>0, <1>1, <1>7
    DEF TeamRows, ByeRows, OtherRows, vars, teamVars, byeVars, scheduleVars, stateVars
<1> QED BY <1>2, <1>3, <1>4, <1>5, <1>6, <1>7 DEF Next

\* The season begins as a typed draft, without teams.
LEMMA TypedInit == Init => Typed
<1> SUFFICES ASSUME Init PROVE Typed
    OBVIOUS
<1>1. TeamRows
    BY TeamAssumption DEF Init, TeamRows
<1>2. ByeRows
    BY BoundAssumption DEF Init, ByeRows
<1>3. OtherRows /\ request \in [Clients -> Request]
    BY IdleAndMark DEF Init, OtherRows
<1> QED BY <1>1, <1>2, <1>3, TypedParts

\* Types and the previous season's teams stay, whatever happens at the same time.
LEMMA AlwaysTyped == Spec => []Typed
BY TypedInit, TypedStep, PTL DEF Spec

\* The rows of the season refer to one another as the schema's keys demand,
\* whatever administrators do at the same time.
THEOREM TypeCorrect == Spec => []TypeOK
<1>1. Typed => TypeOK
    BY DEF Typed
<1> QED BY AlwaysTyped, <1>1, PTL

\* A league has one active season, whatever happens at the same time.
THEOREM OneActiveCorrect == Spec => []OneActiveSeason
<1>1. Init => OneActiveSeason
    BY DEF Init, OneActiveSeason
<1>2. ASSUME Typed, OneActiveSeason, [Next]_vars
      PROVE  OneActiveSeason'
    <2>1. ASSUME NEW c \in Clients, TeamStep(c)
          PROVE  UNCHANGED stateVars
        BY <2>1 DEF TeamStep, BeginAddTeam, BeginRemoveTeam, BeginAddPlayer,
             BeginRemovePlayer, BeginSetCaptain, AddSeasonTeamCopy, AddSeasonTeamNew,
             RemoveSeasonTeam, CheckCaptain, UpdateSeasonTeamMeta, CheckTeamInSeason,
             CheckPlayerFree, InsertOrGetRosterPlayer, DeleteRosterPlayer, Begin, Pass
    <2>2. ASSUME NEW c \in Clients, ByeStep(c) \/ ScheduleStep(c)
          PROVE  UNCHANGED stateVars
        BY <1>2, <2>2, ByeStepRows, ScheduleStepRows
    <2>3. ASSUME NEW c \in Clients, ActivationStep(c)
          PROVE  UNCHANGED <<active, otherActive>> \/ otherActive' = FALSE
        BY <2>3 DEF ActivationStep, BeginActivate, CheckTeamSummaries, CheckMatchCount,
             Activate, Begin, Pass, stateVars
    <2>4. ASSUME PlayStep
          PROVE  UNCHANGED <<active, otherActive>> \/ otherActive' = FALSE \/ active' = FALSE
        BY <2>4 DEF PlayStep, SaveResult, ClearResult, CloseOrReopenWeek, CloseSeason,
             ReopenSeason, OtherSeasonActivates, OtherSeasonCloses, stateVars
    <2>5. UNCHANGED <<active, otherActive>> \/ otherActive' = FALSE \/ active' = FALSE
        BY <1>2, <2>1, <2>2, <2>3, <2>4 DEF Next, stateVars, vars
    <2> QED BY <1>2, <2>5 DEF OneActiveSeason
<1> QED BY <1>1, <1>2, AlwaysTyped, PTL DEF Spec

-----------------------------------------------------------------------------
(* A single administrator. *)

Alone == \A c, d \in Clients : c = d

DraftOps == {"addTeam", "removeTeam", "setCaptain", "addPlayer", "removePlayer"}

\* What a request in flight relies on: a change of the teams is one of a draft,
\* and what the checklist of an activation has seen is still so.
RequestsRely ==
    \A c \in Clients :
        /\ request[c].op \in DraftOps => ~activated
        /\ Op(c, "activate") => ~stale
        /\ At(c, "activate", "matches") => TeamsReady
        /\ At(c, "activate", "write") => TeamsReady /\ unplayed \cup played # {}
ActivationInv == ActivatedTeamsReady /\ RequestsRely

\* What is finished or marked is no request of another kind.
LEMMA EndsAs ==
    ASSUME NEW c \in Clients, request \in [Clients -> Request],
           Finish(c) \/ ThenMark(c)
    PROVE  request'[c].op \in {"idle", "mark"}
BY DEF Finish, ThenMark, Continue, Idle

\* A next step of an operation is one of the same operation.
LEMMA GoesOnAs ==
    ASSUME NEW c \in Clients, request \in [Clients -> Request], NEW step,
           request[c].op \in {"setCaptain", "addPlayer", "createBye", "setBye",
                              "activate", "generate"},
           NextStep(c, step)
    PROVE  request'[c].op = request[c].op /\ request'[c].step = step
<1>1. \/ request[c] \in SetCaptains \/ request[c] \in AddPlayers
      \/ request[c] \in CreateByes \/ request[c] \in SetByes
      \/ request[c] \in Activations \/ request[c] \in Generations
    BY RequestKinds
<1>2. /\ [request[c] EXCEPT !.step = step].op = request[c].op
      /\ [request[c] EXCEPT !.step = step].step = step
    BY <1>1 DEF SetCaptains, AddPlayers, CreateByes, SetByes, Activations, Generations
<1> QED BY <1>2 DEF NextStep, Continue

\* The teams are changed by the requests of a draft, which begin in a draft.
LEMMA TeamForm ==
    ASSUME NEW c \in Clients, Typed, TeamStep(c)
    PROVE  /\ UNCHANGED <<scheduleVars, stateVars>>
           /\ request'[c].op \in DraftOps \cup {"idle", "mark"}
           /\ request'[c].op \in DraftOps => ~activated \/ request[c].op \in DraftOps
           /\ UNCHANGED <<teams, captain, rosterTeam>> \/ request[c].op \in DraftOps
<1>0. request \in [Clients -> Request]
    BY TypedParts
<1>1. ASSUME NEW t \in Teams,
             AddSeasonTeamCopy(c, t) \/ AddSeasonTeamNew(c, t) \/ RemoveSeasonTeam(c, t)
      PROVE  /\ UNCHANGED <<scheduleVars, stateVars>> /\ request[c].op \in DraftOps
             /\ request'[c].op \in {"idle", "mark"}
    BY <1>0, <1>1, EndsAs DEF AddSeasonTeamCopy, AddSeasonTeamNew, RemoveSeasonTeam,
         Op, DraftOps
<1>2. ASSUME UpdateSeasonTeamMeta(c) \/ InsertOrGetRosterPlayer(c) \/ DeleteRosterPlayer(c)
      PROVE  /\ UNCHANGED <<scheduleVars, stateVars>> /\ request[c].op \in DraftOps
             /\ request'[c].op \in {"idle", "mark"}
    BY <1>0, <1>2, EndsAs DEF UpdateSeasonTeamMeta, InsertOrGetRosterPlayer,
         DeleteRosterPlayer, At, Op, DraftOps
<1>3. ASSUME CheckCaptain(c) \/ CheckTeamInSeason(c) \/ CheckPlayerFree(c)
      PROVE  /\ UNCHANGED <<teamVars, scheduleVars, stateVars>>
             /\ request[c].op \in DraftOps /\ request'[c].op = request[c].op
    BY <1>0, <1>3, GoesOnAs DEF CheckCaptain, CheckTeamInSeason, CheckPlayerFree, Pass,
         At, DraftOps
<1>4. ASSUME NEW t \in Teams,
             \/ BeginAddTeam(c, t) \/ BeginRemoveTeam(c, t)
             \/ \E p \in Players : BeginAddPlayer(c, t, p) \/ BeginRemovePlayer(c, t, p)
             \/ \E p \in Players \cup {NoPlayer} : BeginSetCaptain(c, t, p)
      PROVE  /\ UNCHANGED <<teamVars, scheduleVars, stateVars>>
             /\ ~activated /\ request'[c].op \in DraftOps
    BY <1>0, <1>4 DEF BeginAddTeam, BeginRemoveTeam, BeginAddPlayer, BeginRemovePlayer,
         BeginSetCaptain, Begin, Continue, Draft, DraftOps
<1> QED BY <1>1, <1>2, <1>3, <1>4 DEF TeamStep, teamVars

\* A step of the byes leaves a request about byes, the mark or nothing.
LEMMA ByeForm ==
    ASSUME NEW c \in Clients, Typed, ByeStep(c)
    PROVE  request'[c].op \in {"createBye", "setBye", "deleteBye", "idle", "mark"}
<1>0. request \in [Clients -> Request]
    BY TypedParts
<1>1. CASE InsertByeRequest(c) \/ SetByeApproval(c) \/ DeleteByeRequest(c)
    BY <1>0, <1>1, EndsAs DEF InsertByeRequest, SetByeApproval, DeleteByeRequest
<1>2. CASE \/ CountParticipatingTeams(c) \/ CheckByeTeam(c) \/ HasDuplicateBye(c)
           \/ GetByeRequest(c) \/ HasByeConflict(c)
    BY <1>0, <1>2, GoesOnAs DEF CountParticipatingTeams, CheckByeTeam, HasDuplicateBye,
         GetByeRequest, HasByeConflict, Pass, At
<1>3. CASE \/ \E t \in Teams, w \in ByeWeeks : BeginCreateBye(c, t, w)
           \/ \E i \in ByeIds : BeginDeleteBye(c, i) \/ \E a \in BOOLEAN : BeginSetBye(c, i, a)
    BY <1>0, <1>3 DEF BeginCreateBye, BeginDeleteBye, BeginSetBye, Begin, Continue
<1> QED BY <1>1, <1>2, <1>3 DEF ByeStep

\* A step of the schedule leaves a request about it, the mark or nothing.
LEMMA ScheduleForm ==
    ASSUME NEW c \in Clients, Typed, ScheduleStep(c)
    PROVE  request'[c].op \in {"editCalendar", "generate", "pushback", "idle", "mark"}
<1>0. request \in [Clients -> Request]
    BY TypedParts
<1>1. CASE \/ EditCalendar(c) \/ SaveGeneratedSchedule(c) \/ ApplyPushback(c)
           \/ SetStale(c) \/ LoseMark(c) \/ Reject(c)
    BY <1>0, <1>1, EndsAs DEF EditCalendar, SaveGeneratedSchedule, ApplyPushback, SetStale,
         LoseMark, Reject
<1>2. CASE HasClosedWeeks(c) \/ HasCompletedMatches(c)
    BY <1>0, <1>2, GoesOnAs DEF HasClosedWeeks, HasCompletedMatches, Pass, At
<1>3. CASE GetScheduleSeasonMeta(c) \/ LoadByeRequests(c) \/ CollectTeamIDs(c)
    <2>1. request[c] \in Generations
        BY <1>0, <1>3, RequestKinds
        DEF GetScheduleSeasonMeta, LoadByeRequests, CollectTeamIDs, At
    <2>2. ASSUME NEW s, NEW a, NEW v
          PROVE  /\ [request[c] EXCEPT !.step = s, !.active = a].op = "generate"
                 /\ [request[c] EXCEPT !.step = s, !.plan.byes = v].op = "generate"
                 /\ [request[c] EXCEPT !.step = s, !.plan.teams = v].op = "generate"
        BY <2>1 DEF Generations
    <2>3. ASSUME GetScheduleSeasonMeta(c) PROVE request'[c].op = "generate"
        BY <1>0, <2>2, <2>3 DEF GetScheduleSeasonMeta, Continue
    <2>4. ASSUME LoadByeRequests(c) PROVE request'[c].op = "generate"
        BY <1>0, <2>2, <2>4 DEF LoadByeRequests, Continue
    <2>5. ASSUME CollectTeamIDs(c) PROVE request'[c].op = "generate"
        BY <1>0, <2>2, <2>5 DEF CollectTeamIDs, Continue
    <2> QED BY <1>3, <2>3, <2>4, <2>5
<1>4. CASE BeginEditCalendar(c) \/ BeginGenerate(c) \/ BeginPushback(c) \/ CountUnplayed(c)
    BY <1>0, <1>4 DEF BeginEditCalendar, BeginGenerate, BeginPushback, CountUnplayed, Begin,
         Continue, Idle
<1> QED BY <1>1, <1>2, <1>3, <1>4 DEF ScheduleStep

\* An activation keeps what its checklist established.
LEMMA ActivationStepKeeps ==
    ASSUME Alone, Typed, ActivationInv, NEW c \in Clients, ActivationStep(c)
    PROVE  ActivationInv'
<1>0. request \in [Clients -> Request]
    BY TypedParts
<1>1. UNCHANGED <<teams, captain, rosterTeam, stale, unplayed, played>>
    BY ActivationStepRows DEF teamVars, scheduleVars
<1>2. TeamsReady' <=> TeamsReady
    BY <1>1 DEF TeamsReady, TeamReady
<1>3. CASE BeginActivate(c)
    <2>1. request'[c].op = "activate" /\ request'[c].step = "teams"
          /\ ~stale /\ activated' = activated
        BY <1>0, <1>3 DEF BeginActivate, Begin, Continue, stateVars
    <2> QED BY <1>1, <1>2, <2>1
         DEF ActivationInv, ActivatedTeamsReady, RequestsRely, Alone, At, Op, DraftOps
<1>4. CASE CheckTeamSummaries(c) \/ CheckMatchCount(c)
    <2>1. /\ request[c].op = "activate" /\ request'[c].op = "activate"
          /\ request'[c].step = "matches" => TeamsReady
          /\ request'[c].step = "write" =>
               request[c].step = "matches" /\ unplayed \cup played # {}
          /\ activated' = activated
        BY <1>0, <1>4, GoesOnAs
        DEF CheckTeamSummaries, CheckMatchCount, Pass, At, stateVars
    <2> QED BY <1>1, <1>2, <2>1
         DEF ActivationInv, ActivatedTeamsReady, RequestsRely, Alone, At, Op, DraftOps
<1>5. CASE Activate(c)
    <2>1. TeamsReady
        BY <1>5 DEF Activate, ActivationInv, RequestsRely
    <2>2. request'[c].op = "idle"
        BY <1>0, <1>5 DEF Activate, Finish, Continue, Idle
    <2> QED BY <1>1, <1>2, <2>1, <2>2
         DEF ActivationInv, ActivatedTeamsReady, RequestsRely, Alone, At, Op, DraftOps
<1> QED BY <1>3, <1>4, <1>5 DEF ActivationStep

\* Play keeps what requests rely on: matches stay, played or not.
LEMMA PlayStepKeeps ==
    ASSUME Typed, ActivationInv, PlayStep
    PROVE  ActivationInv'
<1>1. UNCHANGED <<teams, captain, rosterTeam, stale, request>>
    BY PlayStepRows DEF teamVars
<1>2. TeamsReady' <=> TeamsReady
    BY <1>1 DEF TeamsReady, TeamReady
<1>3. activated' = activated
      /\ (unplayed \cup played # {} => unplayed' \cup played' # {})
    BY DEF PlayStep, SaveResult, ClearResult, CloseOrReopenWeek, CloseSeason, ReopenSeason,
           OtherSeasonActivates, OtherSeasonCloses, stateVars, scheduleVars
<1> QED BY <1>1, <1>2, <1>3 DEF ActivationInv, ActivatedTeamsReady, RequestsRely, At, Op

\* What requests and activated seasons rely on is kept by every step.
LEMMA ActivationStays ==
    ASSUME Alone, Typed, ActivationInv, [Next]_vars
    PROVE  ActivationInv'
<1>1. ASSUME NEW c \in Clients, TeamStep(c) \/ ByeStep(c) \/ ScheduleStep(c)
      PROVE  ActivationInv'
    <2>1. /\ activated' = activated
          /\ request'[c].op \in DraftOps => ~activated
          /\ request'[c].op # "activate"
          /\ UNCHANGED <<teams, captain, rosterTeam>> \/ ~activated
        <3>1. CASE TeamStep(c)
            BY <3>1, TeamForm DEF ActivationInv, RequestsRely, stateVars, DraftOps
        <3>2. CASE ByeStep(c)
            BY <3>2, ByeForm, ByeStepRows DEF stateVars, teamVars, DraftOps
        <3>3. CASE ScheduleStep(c)
            BY <3>3, ScheduleForm, ScheduleStepRows DEF stateVars, teamVars, DraftOps
        <3> QED BY <1>1, <3>1, <3>2, <3>3
    <2>2. ActivatedTeamsReady'
        BY <2>1 DEF ActivationInv, ActivatedTeamsReady, TeamsReady, TeamReady
    <2>3. RequestsRely'
        BY <2>1 DEF RequestsRely, Alone, At, Op
    <2> QED BY <2>2, <2>3 DEF ActivationInv
<1>2. CASE UNCHANGED vars
    BY <1>2 DEF vars, teamVars, scheduleVars, stateVars, ActivationInv, ActivatedTeamsReady,
         RequestsRely, TeamsReady, TeamReady, At, Op
<1> QED BY <1>1, <1>2, ActivationStepKeeps, PlayStepKeeps DEF Next

\* What the requests of a single administrator rely on always holds.
LEMMA ActivationAlways ==
    ASSUME Alone
    PROVE  Spec => []ActivationInv
<1>1. Init => ActivationInv
    BY DEF Init, ActivationInv, ActivatedTeamsReady, RequestsRely, At, Op, Idle, DraftOps
<1>2. Typed /\ ActivationInv /\ [Next]_vars => ActivationInv'
    BY ActivationStays
<1> QED BY <1>1, <1>2, AlwaysTyped, PTL DEF Spec

\* With a single administrator, the teams of an activated season are ready.
THEOREM ReadyCorrect ==
    ASSUME Alone
    PROVE  Spec => []ActivatedTeamsReady
<1>1. ActivationInv => ActivatedTeamsReady
    BY DEF ActivationInv
<1> QED BY ActivationAlways, <1>1, PTL

\* With a single administrator, a season becomes active with a schedule that is
\* not marked.
THEOREM FreshCorrect ==
    ASSUME Alone
    PROVE  Spec => ActivatesFreshSchedule
<1>1. ASSUME Typed, ActivationInv, [Next]_vars
      PROVE  [~active /\ active' => ~stale /\ unplayed \cup played # {}]_vars
    <2>1. ASSUME NEW c \in Clients, TeamStep(c) \/ ByeStep(c) \/ ScheduleStep(c)
          PROVE  active' = active
        BY <1>1, <2>1, TeamForm, ByeStepRows, ScheduleStepRows DEF stateVars
    <2>2. ASSUME NEW c \in Clients, ActivationStep(c), ~active, active'
          PROVE  ~stale /\ unplayed \cup played # {}
        BY <1>1, <2>2 DEF ActivationStep, BeginActivate, CheckTeamSummaries, CheckMatchCount,
             Activate, Begin, Pass, stateVars, ActivationInv, RequestsRely, At, Op
    <2>3. ASSUME PlayStep
          PROVE  active' = active \/ active' = FALSE
        BY <2>3 DEF PlayStep, SaveResult, ClearResult, CloseOrReopenWeek, CloseSeason,
             ReopenSeason, OtherSeasonActivates, OtherSeasonCloses, stateVars
    <2> QED BY <1>1, <2>1, <2>2, <2>3 DEF Next
<1> QED BY <1>1, AlwaysTyped, ActivationAlways, PTL DEF Spec, ActivatesFreshSchedule

-----------------------------------------------------------------------------
(* Byes and schedules, with a single administrator. *)

\* What an approval relies on from its check to its write.
ApprovalsRely ==
    \A c \in Clients :
        At(c, "setBye", "write") /\ request[c].approve
            => (bye[request[c].bye] # NoBye => ~Conflict(request[c].bye))
ByeInv == OneByeAWeek /\ ApprovalsRely

\* Byes that are withdrawn, deleted or not yet approved conflict with none.
LEMMA FewerApproved ==
    ASSUME OneByeAWeek,
           \A i \in ByeIds : Approved(i)' => Approved(i) /\ bye'[i].week = bye[i].week
    PROVE  OneByeAWeek'
BY DEF OneByeAWeek

\* An approval that has no conflict leaves one bye a week.
LEMMA ApproveOne ==
    ASSUME ByeRows, OneByeAWeek, NEW k \in ByeIds, NEW a \in BOOLEAN,
           bye[k] # NoBye, a => ~Conflict(k),
           bye' = [bye EXCEPT ![k].approved = a]
    PROVE  OneByeAWeek'
<1>1. /\ bye'[k].week = bye[k].week /\ bye'[k].approved = a
      /\ \A i \in ByeIds \ {k} : bye'[i] = bye[i]
    BY DEF ByeRows, ByeRow
<1>2. CASE a
    <2>1. \A i \in ByeIds \ {k} : Approved(i) => bye[i].week # bye[k].week
        BY <1>2 DEF Conflict
    <2> QED BY <1>1, <2>1 DEF OneByeAWeek, Approved
<1>3. CASE ~a
    BY <1>1, <1>3, FewerApproved DEF Approved
<1> QED BY <1>2, <1>3

\* No request is no request for the mark.
LEMMA IdleIsIdle == Idle.op = "idle"
BY DEF Idle

\* A step of the teams or their roster deletes byes or leaves them alone.
LEMMA TeamByes ==
    ASSUME NEW c \in Clients, Typed, TeamStep(c)
    PROVE  /\ \A i \in ByeIds : bye'[i] \in {bye[i], NoBye}
           /\ request[c].op # "mark"
           /\ request'[c].op = "mark" \/ UNCHANGED <<teams, bye>>
<1>0. request \in [Clients -> Request]
    BY TypedParts
<1>1. ASSUME NEW t \in Teams, AddSeasonTeamCopy(c, t) \/ AddSeasonTeamNew(c, t)
      PROVE  bye' = bye /\ request[c].op # "mark" /\ request'[c].op = "mark"
    BY <1>0, <1>1 DEF AddSeasonTeamCopy, AddSeasonTeamNew, Op, ThenMark, Continue, byeVars
<1>2. ASSUME NEW t \in Teams, RemoveSeasonTeam(c, t)
      PROVE  /\ \A i \in ByeIds : bye'[i] \in {bye[i], NoBye}
             /\ request[c].op # "mark" /\ request'[c].op = "mark"
    BY <1>0, <1>2 DEF RemoveSeasonTeam, Op, ThenMark, Continue
<1>3. ASSUME \/ UpdateSeasonTeamMeta(c) \/ InsertOrGetRosterPlayer(c)
             \/ DeleteRosterPlayer(c)
             \/ CheckCaptain(c) \/ CheckTeamInSeason(c) \/ CheckPlayerFree(c)
      PROVE  UNCHANGED <<teams, bye>> /\ request[c].op # "mark"
    BY <1>3 DEF UpdateSeasonTeamMeta, InsertOrGetRosterPlayer, DeleteRosterPlayer,
         CheckCaptain, CheckTeamInSeason, CheckPlayerFree, Pass, At, Op, byeVars, teamVars
<1>4. ASSUME NEW t \in Teams,
             \/ BeginAddTeam(c, t) \/ BeginRemoveTeam(c, t)
             \/ \E p \in Players : BeginAddPlayer(c, t, p) \/ BeginRemovePlayer(c, t, p)
             \/ \E p \in Players \cup {NoPlayer} : BeginSetCaptain(c, t, p)
      PROVE  UNCHANGED <<teams, bye>> /\ request[c].op # "mark"
    <2>1. request[c] = Idle /\ UNCHANGED <<teamVars, byeVars>>
        BY <1>4 DEF BeginAddTeam, BeginRemoveTeam, BeginAddPlayer, BeginRemovePlayer,
             BeginSetCaptain, Begin
    <2> QED BY <2>1, IdleIsIdle DEF byeVars, teamVars
<1> QED BY <1>1, <1>2, <1>3, <1>4 DEF TeamStep

\* A step of the byes either asks for the mark or approves and withdraws none.
LEMMA ByeByes ==
    ASSUME NEW c \in Clients, Typed, ByeStep(c)
    PROVE  /\ request[c].op # "mark"
           /\ request'[c].op = "mark" \/ bye' = bye \/ InsertByeRequest(c)
<1>0. request \in [Clients -> Request]
    BY TypedParts
<1>1. ASSUME SetByeApproval(c) \/ DeleteByeRequest(c)
      PROVE  request[c].op # "mark" /\ request'[c].op = "mark"
    BY <1>0, <1>1 DEF SetByeApproval, DeleteByeRequest, At, Op, ThenMark, Continue
<1>2. ASSUME \/ CountParticipatingTeams(c) \/ CheckByeTeam(c) \/ HasDuplicateBye(c)
             \/ GetByeRequest(c) \/ HasByeConflict(c)
      PROVE  request[c].op # "mark" /\ bye' = bye
    BY <1>2 DEF CountParticipatingTeams, CheckByeTeam, HasDuplicateBye, GetByeRequest,
         HasByeConflict, Pass, At, byeVars
<1>3. ASSUME \/ \E t \in Teams, w \in ByeWeeks : BeginCreateBye(c, t, w)
             \/ \E i \in ByeIds : BeginDeleteBye(c, i)
                                  \/ \E a \in BOOLEAN : BeginSetBye(c, i, a)
      PROVE  request[c].op # "mark" /\ bye' = bye
    <2>1. request[c] = Idle /\ UNCHANGED byeVars
        BY <1>3 DEF BeginCreateBye, BeginDeleteBye, BeginSetBye, Begin
    <2> QED BY <2>1, IdleIsIdle DEF byeVars
<1>4. ASSUME InsertByeRequest(c) PROVE request[c].op # "mark"
    BY <1>4 DEF InsertByeRequest, At
<1> QED BY <1>1, <1>2, <1>3, <1>4 DEF ByeStep

\* A bye is inserted unapproved, under an id that was not used.
LEMMA InsertedBye ==
    ASSUME NEW c \in Clients, Typed, InsertByeRequest(c)
    PROVE  \A i \in ByeIds : /\ Approved(i)' <=> Approved(i)
                             /\ Approved(i) => bye'[i] = bye[i]
<1>1. ByeRows
    BY TypedParts
<1> DEFINE row == [team |-> request[c].team, week |-> request[c].week, approved |-> FALSE]
<1>2. bye' = [bye EXCEPT ![lastBye + 1] = row] /\ row.approved = FALSE
    BY DEF InsertByeRequest
<1>3. \A i \in ByeIds : Approved(i) => i # lastBye + 1
    BY <1>1, BoundAssumption DEF ByeRows, ByeIds, Approved
<1> HIDE DEF row
<1> QED BY <1>1, <1>2, <1>3 DEF ByeRows, Approved

\* From its check to its write an approval has no conflict.
LEMMA ByeStepKeeps ==
    ASSUME Alone, Typed, ByeInv, NEW c \in Clients, ByeStep(c)
    PROVE  ByeInv'
<1>0. request \in [Clients -> Request] /\ ByeRows
    BY TypedParts
<1>1. CASE InsertByeRequest(c)
    <2>1. OneByeAWeek'
        BY <1>1, InsertedBye, FewerApproved DEF ByeInv
    <2>2. request'[c].op = "idle"
        BY <1>0, <1>1 DEF InsertByeRequest, Finish, Continue, Idle
    <2> QED BY <2>1, <2>2 DEF ByeInv, ApprovalsRely, Alone, At
<1>2. CASE SetByeApproval(c)
    <2>1. request[c].bye \in ByeIds /\ request[c].approve \in BOOLEAN
        BY <1>0, <1>2, RequestKinds DEF SetByeApproval, At, SetByes
    <2>2. /\ bye[request[c].bye] # NoBye
          /\ request[c].approve => ~Conflict(request[c].bye)
          /\ bye' = [bye EXCEPT ![request[c].bye].approved = request[c].approve]
        BY <1>2 DEF SetByeApproval, ByeInv, ApprovalsRely
    <2>3. PICK k \in ByeIds : k = request[c].bye
        BY <2>1
    <2>4. PICK a \in BOOLEAN : a = request[c].approve
        BY <2>1
    <2>5. OneByeAWeek'
        BY <1>0, <2>2, <2>3, <2>4, ApproveOne DEF ByeInv
    <2>6. request'[c].op = "mark"
        BY <1>0, <1>2 DEF SetByeApproval, ThenMark, Continue
    <2> QED BY <2>5, <2>6 DEF ByeInv, ApprovalsRely, Alone, At
<1>3. CASE DeleteByeRequest(c)
    <2>1. \A i \in ByeIds : bye'[i] \in {bye[i], NoBye}
        BY <1>0, <1>3 DEF DeleteByeRequest, ByeRows
    <2>2. OneByeAWeek'
        BY <2>1, FewerApproved DEF ByeInv, Approved
    <2>3. request'[c].op = "mark"
        BY <1>0, <1>3 DEF DeleteByeRequest, ThenMark, Continue
    <2> QED BY <2>2, <2>3 DEF ByeInv, ApprovalsRely, Alone, At
<1>4. CASE GetByeRequest(c) \/ HasByeConflict(c)
    <2>1. request[c] \in SetByes /\ bye' = bye
        BY <1>0, <1>4, RequestKinds DEF GetByeRequest, HasByeConflict, At, Pass, byeVars
    <2>2. /\ request'[c].bye = request[c].bye /\ request'[c].approve = request[c].approve
        BY <1>0, <1>4, <2>1
        DEF GetByeRequest, HasByeConflict, Pass, NextStep, Continue, SetByes
    <2>3. CASE GetByeRequest(c)
        <3>1. request'[c].step = IF request[c].approve THEN "conflict" ELSE "write"
            BY <1>0, <2>1, <2>3 DEF GetByeRequest, Pass, NextStep, Continue, SetByes
        <3> QED BY <2>1, <2>2, <3>1
             DEF ByeInv, OneByeAWeek, Approved, ApprovalsRely, Alone, At
    <2>4. CASE HasByeConflict(c)
        <3>1. bye[request[c].bye] # NoBye => ~Conflict(request[c].bye)
            BY <2>4 DEF HasByeConflict
        <3> QED BY <2>1, <2>2, <3>1
             DEF ByeInv, OneByeAWeek, Approved, ApprovalsRely, Alone, At, Conflict
    <2> QED BY <1>4, <2>3, <2>4
<1>5. CASE \/ CountParticipatingTeams(c) \/ CheckByeTeam(c) \/ HasDuplicateBye(c)
           \/ \E t \in Teams, w \in ByeWeeks : BeginCreateBye(c, t, w)
           \/ \E i \in ByeIds : BeginDeleteBye(c, i)
    <2>1. bye' = bye /\ request'[c].op \in {"createBye", "deleteBye"}
        BY <1>0, <1>5, GoesOnAs DEF CountParticipatingTeams, CheckByeTeam, HasDuplicateBye,
             BeginCreateBye, BeginDeleteBye, Begin, Continue, Pass, At, byeVars
    <2> QED BY <2>1 DEF ByeInv, OneByeAWeek, Approved, ApprovalsRely, Alone, At
<1>6. CASE \E i \in ByeIds, a \in BOOLEAN : BeginSetBye(c, i, a)
    <2>1. bye' = bye /\ request'[c].step = "read"
        BY <1>0, <1>6 DEF BeginSetBye, Begin, Continue, byeVars
    <2> QED BY <2>1 DEF ByeInv, OneByeAWeek, Approved, ApprovalsRely, Alone, At
<1> QED BY <1>1, <1>2, <1>3, <1>4, <1>5, <1>6 DEF ByeStep

\* One bye a week is kept by every step.
LEMMA ByesStay ==
    ASSUME Alone, Typed, ByeInv, [Next]_vars
    PROVE  ByeInv'
<1>1. ASSUME NEW c \in Clients, TeamStep(c) \/ ScheduleStep(c) \/ ActivationStep(c)
      PROVE  ByeInv'
    <2>1. \A i \in ByeIds : bye'[i] \in {bye[i], NoBye}
        BY <1>1, TeamByes, ScheduleStepRows, ActivationStepRows DEF byeVars
    <2>2. OneByeAWeek'
        BY <2>1, FewerApproved DEF ByeInv, Approved
    <2>3. request'[c].op # "setBye"
        <3>1. CASE TeamStep(c)
            BY <3>1, TeamForm DEF DraftOps
        <3>2. CASE ScheduleStep(c)
            BY <3>2, ScheduleForm
        <3>3. CASE ActivationStep(c)
            BY <3>3, TypedParts, EndsAs, GoesOnAs
            DEF ActivationStep, BeginActivate, CheckTeamSummaries, CheckMatchCount, Activate,
                Begin, Continue, Pass, At
        <3> QED BY <1>1, <3>1, <3>2, <3>3
    <2> QED BY <2>2, <2>3 DEF ByeInv, ApprovalsRely, Alone, At
<1>2. CASE PlayStep \/ UNCHANGED vars
    <2>1. bye' = bye /\ request' = request
        BY <1>2, PlayStepRows DEF vars, byeVars
    <2> QED BY <2>1 DEF ByeInv, OneByeAWeek, Approved, ApprovalsRely, At, Conflict
<1> QED BY <1>1, <1>2, ByeStepKeeps DEF Next

\* One bye a week always holds, and what approvals rely on.
LEMMA ByesAlways ==
    ASSUME Alone
    PROVE  Spec => []ByeInv
<1>1. Init => ByeInv
    BY DEF Init, ByeInv, OneByeAWeek, Approved, ApprovalsRely, At, Idle
<1>2. Typed /\ ByeInv /\ [Next]_vars => ByeInv'
    BY ByesStay
<1> QED BY <1>1, <1>2, AlwaysTyped, PTL DEF Spec

\* With a single administrator, one bye of a week is approved.
THEOREM OneByeCorrect ==
    ASSUME Alone
    PROVE  Spec => []OneByeAWeek
<1>1. ByeInv => OneByeAWeek
    BY DEF ByeInv
<1> QED BY ByesAlways, <1>1, PTL

\* What a generation has read is still so when it saves.
GenerationsRely ==
    \A c \in Clients :
        /\ At(c, "generate", "teams") => request[c].plan.byes = ApprovedByes
        /\ At(c, "generate", "save") => /\ request[c].plan.byes = ApprovedByes
                                        /\ request[c].plan.teams = teams

\* Of one bye a week, none is dropped on the way into the generation.
LEMMA AllByesAreLoaded ==
    ASSUME ByeRows, OneByeAWeek, NEW byes, OneForEachWeek(byes)
    PROVE  byes = ApprovedByes
<1>1. \A b, d \in ApprovedByes : b[1] = d[1] => b = d
    BY DEF ApprovedByes, OneByeAWeek
<1>2. byes \subseteq ApprovedByes /\ \A b \in ApprovedByes : \E d \in byes : d[1] = b[1]
    BY DEF OneForEachWeek
<1> QED BY <1>1, <1>2

\* A generation plans for the approved byes and the teams of the season.
LEMMA GenerationStepKeeps ==
    ASSUME Alone, Typed, ByeInv, GenerationsRely, NEW c \in Clients, ScheduleStep(c)
    PROVE  GenerationsRely'
<1>0. request \in [Clients -> Request] /\ ByeRows
    BY TypedParts
<1>1. teams' = teams /\ bye' = bye
    BY ScheduleStepRows DEF teamVars, byeVars
<1>2. ApprovedByes' = ApprovedByes
    BY <1>1 DEF ApprovedByes, Approved
<1>3. CASE LoadByeRequests(c)
    <2>1. PICK byes \in SUBSET ApprovedByes :
             /\ OneForEachWeek(byes)
             /\ Continue(c, [request[c] EXCEPT !.step = "teams", !.plan.byes = byes])
        BY <1>3 DEF LoadByeRequests
    <2>2. byes = ApprovedByes
        BY <1>0, <2>1, AllByesAreLoaded DEF ByeInv
    <2>3. request[c] \in Generations
        BY <1>0, <1>3, RequestKinds DEF LoadByeRequests, At
    <2>4. request'[c].step = "teams" /\ request'[c].plan.byes = byes
        BY <1>0, <2>1, <2>3 DEF Continue, Generations, Plan
    <2> QED BY <1>2, <2>2, <2>4 DEF GenerationsRely, Alone, At
<1>4. CASE CollectTeamIDs(c)
    <2>1. request[c] \in Generations /\ request[c].plan.byes = ApprovedByes
        BY <1>0, <1>4, RequestKinds DEF CollectTeamIDs, At, GenerationsRely
    <2>2. /\ request'[c].step = "save" /\ request'[c].plan.teams = teams
          /\ request'[c].plan.byes = request[c].plan.byes
        BY <1>0, <1>4, <2>1 DEF CollectTeamIDs, Continue, Generations, Plan
    <2> QED BY <1>1, <1>2, <2>1, <2>2 DEF GenerationsRely, Alone, At
<1>5. CASE GetScheduleSeasonMeta(c)
    <2>1. request[c] \in Generations
        BY <1>0, <1>5, RequestKinds DEF GetScheduleSeasonMeta, At
    <2>2. request'[c].step = "weeks"
        BY <1>0, <1>5, <2>1 DEF GetScheduleSeasonMeta, Continue, Generations
    <2> QED BY <2>2 DEF GenerationsRely, Alone, At
<1>6. CASE HasClosedWeeks(c) \/ HasCompletedMatches(c)
    <2>1. request'[c].step \in {"results", "byes"}
        BY <1>0, <1>6, GoesOnAs DEF HasClosedWeeks, HasCompletedMatches, Pass, At
    <2> QED BY <2>1 DEF GenerationsRely, Alone, At
<1>7. CASE BeginGenerate(c)
    <2>1. request'[c].step = "season"
        BY <1>0, <1>7 DEF BeginGenerate, Begin, Continue
    <2> QED BY <2>1 DEF GenerationsRely, Alone, At
<1>8. CASE \/ EditCalendar(c) \/ SaveGeneratedSchedule(c) \/ ApplyPushback(c)
           \/ SetStale(c) \/ LoseMark(c) \/ Reject(c)
    <2>1. request'[c].op \in {"idle", "mark"}
        BY <1>0, <1>8, EndsAs DEF EditCalendar, SaveGeneratedSchedule, ApplyPushback,
             SetStale, LoseMark, Reject
    <2> QED BY <2>1 DEF GenerationsRely, Alone, At
<1>9. CASE BeginEditCalendar(c) \/ BeginPushback(c) \/ CountUnplayed(c)
    <2>1. request'[c].op \in {"editCalendar", "pushback", "idle", "mark"}
        BY <1>0, <1>9 DEF BeginEditCalendar, BeginPushback, CountUnplayed, Begin, Continue,
             Idle
    <2> QED BY <2>1 DEF GenerationsRely, Alone, At
<1> QED BY <1>3, <1>4, <1>5, <1>6, <1>7, <1>8, <1>9 DEF ScheduleStep

\* What a generation has read stays so until it saves.
LEMMA GenerationsStay ==
    ASSUME Alone, Typed, ByeInv, GenerationsRely, [Next]_vars
    PROVE  GenerationsRely'
<1>1. ASSUME NEW c \in Clients, TeamStep(c) \/ ByeStep(c) \/ ActivationStep(c)
      PROVE  GenerationsRely'
    <2>1. request'[c].op # "generate"
        <3>1. CASE TeamStep(c)
            BY <3>1, TeamForm DEF DraftOps
        <3>2. CASE ByeStep(c)
            BY <3>2, ByeForm
        <3>3. CASE ActivationStep(c)
            BY <3>3, TypedParts, EndsAs, GoesOnAs
            DEF ActivationStep, BeginActivate, CheckTeamSummaries, CheckMatchCount, Activate,
                Begin, Continue, Pass, At
        <3> QED BY <1>1, <3>1, <3>2, <3>3
    <2> QED BY <2>1 DEF GenerationsRely, Alone, At
<1>2. CASE PlayStep \/ UNCHANGED vars
    <2>1. bye' = bye /\ teams' = teams /\ request' = request
        BY <1>2, PlayStepRows DEF vars, byeVars, teamVars
    <2> QED BY <2>1 DEF GenerationsRely, At, ApprovedByes, Approved
<1> QED BY <1>1, <1>2, GenerationStepKeeps DEF Next

\* The named ways a misfit loses its mark.
Unmarking ==
    \/ \E c \in Clients : LoseMark(c) \/ ApplyPushback(c)
    \/ \E plan \in played : ClearResult(plan)

\* No other step of an administrator makes a misfit look fresh.
LEMMA AdministratorKeepsMark ==
    ASSUME Alone, Typed, GenerationsRely, MisfitIsMarked, ~Unmarking, NEW c \in Clients,
           TeamStep(c) \/ ByeStep(c) \/ ScheduleStep(c) \/ ActivationStep(c)
    PROVE  MisfitIsMarked'
<1>0. request \in [Clients -> Request]
    BY TypedParts
<1>1. ASSUME request'[c].op = "mark" PROVE MisfitIsMarked'
    BY <1>1 DEF MisfitIsMarked, Op
\* Nothing the mark is about changes, and the mark is not on its way.
<1>2. ASSUME teams' = teams, ApprovedByes' = ApprovedByes, unplayed' = unplayed,
             stale' = stale, request[c].op # "mark"
      PROVE  MisfitIsMarked'
    <2>1. ScheduleFits \/ stale
        BY <1>2 DEF MisfitIsMarked, Op, Alone
    <2> QED BY <1>2, <2>1 DEF MisfitIsMarked, ScheduleFits
<1>3. bye' = bye => ApprovedByes' = ApprovedByes
    BY DEF ApprovedByes, Approved
<1>4. CASE TeamStep(c)
    BY <1>1, <1>2, <1>3, <1>4, TeamByes, TeamForm DEF scheduleVars
<1>5. CASE ByeStep(c)
    <2>1. teams' = teams /\ unplayed' = unplayed /\ stale' = stale
        BY <1>5, ByeStepRows DEF teamVars, scheduleVars
    <2>2. ASSUME InsertByeRequest(c) PROVE ApprovedByes' = ApprovedByes
        BY <2>2, InsertedBye DEF ApprovedByes
    <2> QED BY <1>1, <1>2, <1>3, <1>5, <2>1, <2>2, ByeByes
<1>6. CASE ActivationStep(c)
    <2>1. teams' = teams /\ bye' = bye /\ unplayed' = unplayed /\ stale' = stale
        BY <1>6, ActivationStepRows DEF teamVars, byeVars, scheduleVars
    <2>2. request[c].op # "mark"
        BY <1>6, IdleIsIdle DEF ActivationStep, BeginActivate, CheckTeamSummaries,
             CheckMatchCount, Activate, Begin, Pass, At
    <2> QED BY <1>2, <1>3, <2>1, <2>2
<1>7. CASE ScheduleStep(c)
    <2>1. teams' = teams /\ bye' = bye
        BY <1>7, ScheduleStepRows DEF teamVars, byeVars
    <2>2. CASE SaveGeneratedSchedule(c)
        <3>1. unplayed' = {request[c].plan} /\ request[c].plan.teams = teams
              /\ request[c].plan.byes = ApprovedByes
            BY <2>2 DEF SaveGeneratedSchedule, GenerationsRely
        <3> QED BY <1>3, <2>1, <3>1 DEF MisfitIsMarked, ScheduleFits
    <2>3. CASE SetStale(c)
        BY <2>3 DEF SetStale, MisfitIsMarked
    <2>4. CASE CountUnplayed(c)
        <3>1. unplayed' = unplayed /\ (unplayed # {} => request'[c].op = "mark")
            BY <1>0, <2>4 DEF CountUnplayed, Continue, scheduleVars
        <3> QED BY <1>1, <3>1 DEF MisfitIsMarked, ScheduleFits
    <2>5. CASE EditCalendar(c)
        BY <1>0, <1>1, <2>5 DEF EditCalendar, ThenMark, Continue
    <2>6. CASE \/ BeginEditCalendar(c) \/ BeginGenerate(c) \/ BeginPushback(c)
               \/ GetScheduleSeasonMeta(c) \/ HasClosedWeeks(c) \/ HasCompletedMatches(c)
               \/ LoadByeRequests(c) \/ CollectTeamIDs(c) \/ Reject(c)
        <3>1. UNCHANGED scheduleVars /\ request[c].op # "mark"
            BY <2>6, IdleIsIdle DEF BeginEditCalendar, BeginGenerate, BeginPushback,
                 GetScheduleSeasonMeta, HasClosedWeeks, HasCompletedMatches,
                 LoadByeRequests, CollectTeamIDs, Reject, Begin, Pass, At, Op
        <3> QED BY <1>2, <1>3, <2>1, <3>1 DEF scheduleVars
    <2> QED BY <1>7, <2>2, <2>3, <2>4, <2>5, <2>6 DEF ScheduleStep, Unmarking
<1> QED BY <1>4, <1>5, <1>6, <1>7

\* No other step of play makes a misfit look fresh.
LEMMA PlayKeepsMark ==
    ASSUME Typed, MisfitIsMarked, ~Unmarking, PlayStep
    PROVE  MisfitIsMarked'
<1>1. teams' = teams /\ bye' = bye /\ stale' = stale /\ request' = request
    BY PlayStepRows DEF teamVars, byeVars
<1>2. unplayed' \subseteq unplayed
    BY DEF PlayStep, SaveResult, CloseOrReopenWeek, CloseSeason, ReopenSeason,
           OtherSeasonActivates, OtherSeasonCloses, scheduleVars, Unmarking
<1>3. ApprovedByes' = ApprovedByes
    BY <1>1 DEF ApprovedByes, Approved
<1> QED BY <1>1, <1>2, <1>3 DEF MisfitIsMarked, ScheduleFits, Op

\* With a single administrator, a schedule that does not fit its teams and byes
\* keeps its mark but for the three ways named.
THEOREM MisfitCorrect ==
    ASSUME Alone
    PROVE  Spec => MisfitStaysMarked
<1>1. Init => GenerationsRely
    BY DEF Init, GenerationsRely, At, Idle
<1>2. Typed /\ ByeInv /\ GenerationsRely /\ [Next]_vars => GenerationsRely'
    BY GenerationsStay
<1>3. ASSUME Typed, GenerationsRely, [Next]_vars
      PROVE  [MisfitIsMarked /\ ~MisfitIsMarked'
                => \/ \E c \in Clients : LoseMark(c) \/ ApplyPushback(c)
                   \/ \E plan \in played : ClearResult(plan)]_vars
    <2>1. MisfitIsMarked /\ ~Unmarking /\ Next => MisfitIsMarked'
        BY <1>3, AdministratorKeepsMark, PlayKeepsMark DEF Next
    <2> QED BY <1>3, <2>1 DEF Unmarking
<1> QED BY <1>1, <1>2, <1>3, AlwaysTyped, ByesAlways, PTL DEF Spec, MisfitStaysMarked

=============================================================================
