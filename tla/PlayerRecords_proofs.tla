------------------------- MODULE PlayerRecords_proofs -------------------------
(***************************************************************************)
(* References, merges and leagues of players: for all players, teams,      *)
(* seasons, administrators and requests in flight.                         *)
(***************************************************************************)
EXTENDS PlayerRecords, FiniteSetTheorems, TLAPS

(***************************************************************************)
(* The types of the rows and of the requests.                              *)
(***************************************************************************)
RowsTyped ==
    /\ players \subseteq Players /\ teams \subseteq Teams
    /\ issued \subseteq Players \cup Teams \cup Payments
    /\ players \cup teams \subseteq issued
    /\ team \in [Players -> SomeTeam] /\ captain \in [Teams -> Someone]
    /\ season \in SeasonRecords
    /\ history \subseteq HistoryRow /\ payments \subseteq Payment /\ payouts \subseteq Teams
RowsOK == RowsTyped /\ References /\ Keys(season)

\* What a request in flight has found: two players of a merge, and that an
\* update by a league administrator stays in the league.
Found(c, r) ==
    /\ r.op = "merge" /\ r.step = "merge" => r.source # r.target
    /\ r.op = "updatePlayer" /\ ~IsSystemAdmin(IdentityOf[c]) => LeagueOfTeam(r.team) = r.league
RequestsOK ==
    /\ request \in [Clients -> Request] /\ started \in 0..MaxRequests
    /\ \A c \in Clients : Found(c, request[c])

Typed == RowsOK /\ RequestsOK

LEMMA Types == Typed => TypeOK
  BY DEF Typed, RowsOK, RowsTyped, RequestsOK, TypeOK

(***************************************************************************)
(* What a step does to the rows.                                           *)
(***************************************************************************)
LEMMA SameRows == RowsOK /\ UNCHANGED rowVars => RowsOK'
  BY DEF RowsOK, RowsTyped, References, Refer, Keys, Plays, rowVars

LEMMA CreatePlayerRows == ASSUME Typed, NEW c \in Clients, CreatePlayer(c) PROVE RowsOK'
  <1> DEFINE t == request[c].team
  <1>1. CASE t \in teams \cup {NoTeam}
    <2>1. PICK p \in Players \ issued :
            /\ players' = players \cup {p} /\ issued' = issued \cup {p}
            /\ team' = [team EXCEPT ![p] = t]
      BY <1>1 DEF CreatePlayer
    <2>2. UNCHANGED <<teams, captain, season, history, payments, payouts>>
      BY DEF CreatePlayer
    <2> HIDE DEF t
    <2>3. RowsTyped'
      BY <1>1, <2>1, <2>2 DEF Typed, RowsOK, RowsTyped, SomeTeam
    <2>4. References'
      BY <1>1, <2>1, <2>2 DEF Typed, RowsOK, RowsTyped, References, Refer
    <2> QED
      BY <2>2, <2>3, <2>4 DEF Typed, RowsOK, Keys
  <1>2. CASE t \notin teams \cup {NoTeam}
    BY <1>2, SameRows DEF Typed, CreatePlayer, rowVars
  <1> QED
    BY <1>1, <1>2

LEMMA UpdatePlayerRows == ASSUME Typed, NEW c \in Clients, UpdatePlayer(c) PROVE RowsOK'
  <1> DEFINE r == request[c]
  <1>1. CASE r.player \in players /\ r.team \in teams \cup {NoTeam}
    <2>1. /\ team' = [team EXCEPT ![r.player] = r.team]
          /\ UNCHANGED <<players, teams, issued, captain, season, history, payments, payouts>>
      BY <1>1 DEF UpdatePlayer
    <2> HIDE DEF r
    <2>2. RowsTyped'
      BY <1>1, <2>1 DEF Typed, RowsOK, RowsTyped, SomeTeam
    <2>3. References'
      BY <1>1, <2>1 DEF Typed, RowsOK, RowsTyped, References, Refer
    <2> QED
      BY <2>1, <2>2, <2>3 DEF Typed, RowsOK, Keys
  <1>2. CASE ~(r.player \in players /\ r.team \in teams \cup {NoTeam})
    BY <1>2, SameRows DEF Typed, UpdatePlayer, rowVars
  <1> QED
    BY <1>1, <1>2

\* A season some seats of which are gone.
LEMMA FewerSeats ==
    ASSUME season \in SeasonRecords, Keys(season), NEW L, L \subseteq season.lineup,
           season' = [season EXCEPT !.lineup = L]
    PROVE  /\ season' \in SeasonRecords /\ Keys(season')
           /\ season'.lineup = L /\ season'.teams = season.teams
           /\ season'.captain = season.captain /\ season'.roster = season.roster
           /\ season'.results = season.results
  <1>1. /\ season'.lineup = L /\ season'.teams = season.teams
        /\ season'.captain = season.captain /\ season'.roster = season.roster
        /\ season'.results = season.results
    BY DEF SeasonRecords
  <1>2. season' \in SeasonRecords
    BY DEF SeasonRecords
  <1> QED
    BY <1>1, <1>2 DEF Keys

LEMMA DeletePlayerRows == ASSUME Typed, NEW c \in Clients, DeletePlayer(c) PROVE RowsOK'
  <1> DEFINE p == request[c].player
  <1>1. CASE PlayerReferenced(season, p) \/ p \notin players
    BY <1>1, SameRows DEF Typed, DeletePlayer
  <1>2. CASE ~PlayerReferenced(season, p) /\ p \in players
    <2>1. /\ players' = players \ {p} /\ team' = [team EXCEPT ![p] = NoTeam]
          /\ payments' = {d \in payments : d.player # p}
          /\ season' = [season EXCEPT !.lineup = {s \in @ : s.player # p}]
          /\ history' = {h \in history : h.player # p}
          /\ UNCHANGED <<teams, issued, captain, payouts>>
      BY <1>2 DEF DeletePlayer, RemovePlayer
    <2> HIDE DEF p
    <2>2. season \in SeasonRecords /\ Keys(season)
      BY DEF Typed, RowsOK, RowsTyped
    <2> DEFINE L == {s \in season.lineup : s.player # p}
    <2>3. /\ season' \in SeasonRecords /\ Keys(season')
          /\ season'.lineup = L /\ season'.teams = season.teams
          /\ season'.captain = season.captain /\ season'.roster = season.roster
          /\ season'.results = season.results
      BY <2>1, <2>2, FewerSeats
    <2>4. RowsTyped'
      BY <2>1, <2>3 DEF Typed, RowsOK, RowsTyped, SomeTeam
    <2>5. /\ \A r \in season.results : r.home # p /\ r.away # p
          /\ season.roster[p] = NoTeam
          /\ \A t \in Teams : season.captain[t] # p
          /\ \A s \in L : s.subFor # p
          /\ p \notin Linked /\ p \in Players /\ p # NoPlayer
      BY <1>2, LinkAssumption
      DEF PlayerReferenced, InResults, Replaced, Enrolled, Plays, Typed, RowsOK, RowsTyped
    <2>6. References
      BY DEF Typed, RowsOK
    <2>7. Refer(players, teams, team, season, history)'
      <3>1. Refer(players, teams, team, season, history)
        BY <2>6 DEF References
      <3> QED
        BY <2>1, <2>3, <2>5, <3>1 DEF Refer, Typed, RowsOK, RowsTyped
    <2>8. References'
      BY <2>1, <2>6, <2>7 DEF References
    <2> QED
      BY <2>3, <2>4, <2>8 DEF RowsOK
  <1> QED
    BY <1>1, <1>2

LEMMA CreateTeamRows == ASSUME Typed, NEW c \in Clients, CreateTeam(c) PROVE RowsOK'
  <1>1. PICK t \in Teams \ issued : teams' = teams \cup {t} /\ issued' = issued \cup {t}
    BY DEF CreateTeam
  <1>2. UNCHANGED <<players, team, captain, season, history, payments, payouts>>
    BY DEF CreateTeam
  <1>3. RowsTyped'
    BY <1>1, <1>2 DEF Typed, RowsOK, RowsTyped
  <1>4. References'
    BY <1>1, <1>2 DEF Typed, RowsOK, References, Refer
  <1> QED
    BY <1>2, <1>3, <1>4 DEF Typed, RowsOK, Keys

LEMMA UpdateTeamRows == ASSUME Typed, NEW c \in Clients, UpdateTeam(c) PROVE RowsOK'
  <1>1. request[c] \in Request /\ request[c].op = "updateTeam"
    BY DEF Typed, RequestsOK, UpdateTeam, Running
  <1>2. request[c].captain \in Someone
    BY <1>1 DEF Request, Idle
  <1>3. captain' \in [Teams -> Someone]
    BY <1>2 DEF Typed, RowsOK, RowsTyped, UpdateTeam
  <1>4. UNCHANGED <<players, teams, issued, team, season, history, payments, payouts>>
    BY DEF UpdateTeam
  <1> QED
    BY <1>3, <1>4 DEF Typed, RowsOK, RowsTyped, References, Refer, Keys

LEMMA UnseatRows == ASSUME Typed, NEW c \in Clients, UnseatPlayers(c) PROVE RowsOK'
  <1>1. team' = [p \in Players |-> IF team[p] = request[c].team THEN NoTeam ELSE team[p]]
        /\ UNCHANGED <<players, teams, issued, captain, season, history, payments, payouts>>
    BY DEF UnseatPlayers
  <1>2. team' \in [Players -> SomeTeam] /\ \A p \in Players : team'[p] \in {NoTeam, team[p]}
    BY <1>1 DEF Typed, RowsOK, RowsTyped, SomeTeam
  <1>3. References'
    BY <1>1, <1>2 DEF Typed, RowsOK, References, Refer
  <1> QED
    BY <1>1, <1>2, <1>3 DEF Typed, RowsOK, RowsTyped, Keys

LEMMA DeleteTeamRows == ASSUME Typed, NEW c \in Clients, DeleteTeam(c) PROVE RowsOK'
  <1> DEFINE t == request[c].team
  <1>1. CASE TeamReferenced(t) \/ t \notin teams
    BY <1>1, SameRows DEF Typed, DeleteTeam
  <1>2. CASE ~TeamReferenced(t) /\ t \in teams
    <2>1. /\ teams' = teams \ {t}
          /\ team' = [p \in Players |-> IF team[p] = t THEN NoTeam ELSE team[p]]
          /\ captain' = [captain EXCEPT ![t] = NoPlayer]
          /\ season' = [season EXCEPT !.lineup = {s \in @ : s.team # t}]
          /\ UNCHANGED <<players, issued, history, payments, payouts>>
      BY <1>2 DEF DeleteTeam
    <2> HIDE DEF t
    <2>2. season \in SeasonRecords /\ Keys(season)
      BY DEF Typed, RowsOK, RowsTyped
    <2> DEFINE L == {s \in season.lineup : s.team # t}
    <2>3. /\ season' \in SeasonRecords /\ Keys(season')
          /\ season'.lineup = L /\ season'.teams = season.teams
          /\ season'.captain = season.captain /\ season'.roster = season.roster
          /\ season'.results = season.results
      BY <2>1, <2>2, FewerSeats
    <2>4. /\ team' \in [Players -> SomeTeam] /\ captain' \in [Teams -> Someone]
          /\ \A p \in Players : team'[p] # t /\ team'[p] \in {NoTeam, team[p]}
      BY <1>2, <2>1, TeamAssumption DEF Typed, RowsOK, RowsTyped, SomeTeam, Someone
    <2>5. RowsTyped'
      BY <2>1, <2>3, <2>4 DEF Typed, RowsOK, RowsTyped
    <2>6. /\ t \notin season.teams /\ t \notin payouts
          /\ \A p \in Players : season.roster[p] # t
          /\ \A d \in payments : d.team # t
      BY <1>2 DEF TeamReferenced
    <2>7. References
      BY DEF Typed, RowsOK
    <2>8. Refer(players, teams, team, season, history)'
      <3>1. Refer(players, teams, team, season, history)
        BY <2>7 DEF References
      <3> QED
        BY <2>1, <2>3, <2>4, <2>6, <3>1 DEF Refer
    <2>9. References'
      BY <2>1, <2>6, <2>7, <2>8 DEF References
    <2> QED
      BY <2>3, <2>5, <2>9 DEF RowsOK
  <1> QED
    BY <1>1, <1>2

LEMMA InsertDuesRows == ASSUME Typed, NEW c \in Clients, InsertDuesPayment(c) PROVE RowsOK'
  <1> DEFINE r == request[c]
  <1>1. CASE r.player \in players /\ r.team \in teams
    <2>1. PICK i \in Payments \ issued :
            /\ payments' = payments \cup {[id |-> i, player |-> r.player, team |-> r.team]}
            /\ issued' = issued \cup {i}
      BY <1>1 DEF InsertDuesPayment
    <2>2. UNCHANGED <<players, teams, team, captain, season, history, payouts>>
      BY DEF InsertDuesPayment
    <2> HIDE DEF r
    <2>3. RowsTyped'
      BY <1>1, <2>1, <2>2 DEF Typed, RowsOK, RowsTyped, Payment
    <2>4. References'
      BY <1>1, <2>1, <2>2 DEF Typed, RowsOK, References, Refer
    <2> QED
      BY <2>2, <2>3, <2>4 DEF Typed, RowsOK, Keys
  <1>2. CASE ~(r.player \in players /\ r.team \in teams)
    BY <1>2, SameRows DEF Typed, InsertDuesPayment, rowVars
  <1> QED
    BY <1>1, <1>2

LEMMA InsertPayoutRows == ASSUME Typed, NEW c \in Clients, InsertPayout(c) PROVE RowsOK'
  <1>1. payouts' \subseteq payouts \cup teams
        /\ UNCHANGED <<players, teams, issued, team, captain, season, history, payments>>
    BY DEF InsertPayout
  <1> QED
    BY <1>1 DEF Typed, RowsOK, RowsTyped, References, Refer, Keys

(***************************************************************************)
(* What a merge does to the rows that name the two players.                *)
(***************************************************************************)
LEMMA MovedTyped ==
    ASSUME NEW s \in Players, NEW t \in Players
    PROVE  /\ \A r \in Result : MovedResult(r, s, t) \in Result
           /\ \A x \in Seat : MovedSeat(x, s, t) \in Seat
           /\ \A h \in HistoryRow : MovedHistory(h, s, t) \in HistoryRow
  BY DEF Result, Seat, HistoryRow, Someone, MovedResult, MovedSeat, MovedHistory, Repoint

\* The season after the merge, column by column.
LEMMA SeasonAfter ==
    ASSUME season \in SeasonRecords, NEW s \in Players, NEW t \in Players
    PROVE  LET sn == RepointSeason(s, t) IN
           /\ sn \in SeasonRecords
           /\ sn.teams = season.teams
           /\ sn.captain = [x \in Teams |-> Repoint(season.captain[x], s, t)]
           /\ sn.roster = MovedRoster(season.roster, s, t)
           /\ sn.results = {MovedResult(r, s, t) : r \in season.results}
           /\ sn.lineup = {MovedSeat(x, s, t) : x \in season.lineup}
           /\ sn.approver = [x \in {"home", "away"} |-> Repoint(season.approver[x], s, t)]
  <1> DEFINE sn == RepointSeason(s, t)
  <1> DEFINE roster == MovedRoster(season.roster, s, t)
             results == {MovedResult(r, s, t) : r \in season.results}
             lineup == {MovedSeat(x, s, t) : x \in season.lineup}
             captains == [x \in Teams |-> Repoint(season.captain[x], s, t)]
             approver == [x \in {"home", "away"} |-> Repoint(season.approver[x], s, t)]
  <1>1. sn = [season EXCEPT !.captain = captains, !.roster = roster, !.results = results,
                            !.lineup = lineup, !.approver = approver]
    BY DEF RepointSeason
  <1>2. /\ season.roster \in [Players -> SomeTeam] /\ season.results \subseteq Result
        /\ season.lineup \subseteq Seat /\ season.captain \in [Teams -> Someone]
        /\ season.approver \in [{"home", "away"} -> Someone] /\ season.teams \subseteq Teams
    BY DEF SeasonRecords
  <1>3. roster \in [Players -> SomeTeam]
    BY <1>2 DEF MovedRoster, SomeTeam
  <1>4. results \subseteq Result /\ lineup \subseteq Seat
    BY <1>2, MovedTyped
  <1>5. captains \in [Teams -> Someone] /\ approver \in [{"home", "away"} -> Someone]
    BY <1>2 DEF Someone, Repoint
  <1> HIDE DEF roster, results, lineup, captains, approver, sn
  <1>6. /\ sn.teams = season.teams /\ sn.captain = captains /\ sn.roster = roster
        /\ sn.results = results /\ sn.lineup = lineup /\ sn.approver = approver
        /\ sn \in SeasonRecords
    BY <1>1, <1>2, <1>3, <1>4, <1>5 DEF SeasonRecords
  <1> QED
    BY <1>6 DEF roster, results, lineup, captains, approver, sn

\* What a merge that is not refused has established.
Merging(s, t) ==
    /\ s \in Players /\ t \in Players /\ s # t
    /\ ~Blocked(s, t) /\ ~MergeRollsBack(s, t)
    /\ players' = players \ {s} /\ team' = [team EXCEPT ![s] = NoTeam]
    /\ payments' = {d \in payments : d.player # s}
    /\ season' = RepointSeason(s, t)
    /\ captain' = [x \in Teams |-> Repoint(captain[x], s, t)]
    /\ history' = {MovedHistory(h, s, t) : h \in history}
    /\ UNCHANGED <<teams, issued, payouts>>

LEMMA MergePlayersForm ==
    ASSUME Typed, NEW c \in Clients, MergePlayers(c)
    PROVE  UNCHANGED rowVars \/ Merging(request[c].source, request[c].target)
  <1> DEFINE s == request[c].source
             t == request[c].target
  <1>1. request[c] \in Request /\ request[c].op = "merge" /\ request[c].step = "merge"
    BY DEF Typed, RequestsOK, MergePlayers, At, Running
  <1>2. s \in Players /\ t \in Players
    BY <1>1 DEF Request, Idle
  <1>3. s # t
    BY <1>1 DEF Typed, RequestsOK, Found
  <1>4. CASE Blocked(s, t) \/ MergeRollsBack(s, t)
    BY <1>4 DEF MergePlayers
  <1>5. CASE ~Blocked(s, t) /\ ~MergeRollsBack(s, t)
    <2> DEFINE sn == RepointSeason(s, t)
    <2>1. /\ RemovePlayer(s, sn, MergedHistory(s, t))
          /\ captain' = [x \in Teams |-> Repoint(captain[x], s, t)]
          /\ UNCHANGED <<teams, issued, payouts>>
      BY <1>5 DEF MergePlayers
    <2> HIDE DEF s, t, sn
    <2>2. /\ sn \in SeasonRecords /\ sn.lineup = {MovedSeat(x, s, t) : x \in season.lineup}
      BY <1>2, SeasonAfter DEF sn, Typed, RowsOK, RowsTyped
    <2>3. {x \in sn.lineup : x.player # s} = sn.lineup
      BY <1>3, <2>2 DEF MovedSeat, Repoint
    <2>4. {h \in MergedHistory(s, t) : h.player # s} = MergedHistory(s, t)
      BY <1>3 DEF MergedHistory, MovedHistory, Repoint
    <2>5. [sn EXCEPT !.lineup = sn.lineup] = sn
      BY <2>2 DEF SeasonRecords
    <2>6. season' = sn /\ history' = MergedHistory(s, t)
      BY <2>1, <2>3, <2>4, <2>5 DEF RemovePlayer
    <2>7. ~Blocked(s, t) /\ ~MergeRollsBack(s, t) /\ s \in Players /\ t \in Players /\ s # t
      BY <1>2, <1>3, <1>5
    <2>8. Merging(s, t)
      BY <2>1, <2>6, <2>7 DEF Merging, RemovePlayer, MergedHistory, sn
    <2> QED
      BY <2>8 DEF s, t
  <1> QED
    BY <1>4, <1>5

\* Only a player that nothing refers to is merged into one that is gone.
LEMMA TargetThere ==
    ASSUME Typed, NEW s, NEW t, Merging(s, t)
    PROVE  /\ s \notin Linked
           /\ t \notin players =>
                /\ \A r \in season.results : r.home # s /\ r.away # s
                /\ season.roster[s] = NoTeam
                /\ \A x \in Teams : season.captain[x] # s
                /\ \A x \in season.lineup : x.player # s /\ x.subFor # s
                /\ \A h \in history : h.player # s
  <1> DEFINE sn == RepointSeason(s, t)
  <1>1. s \notin Linked
    BY DEF Merging, MergeRollsBack, PlayerReferenced, Typed, RowsOK, References, Refer
  <1>2. ASSUME t \notin players
        PROVE  /\ \A r \in season.results : r.home # s /\ r.away # s
               /\ season.roster[s] = NoTeam
               /\ \A x \in Teams : season.captain[x] # s
               /\ \A x \in season.lineup : x.player # s /\ x.subFor # s
               /\ \A h \in history : h.player # s
    <2>1. /\ sn.captain = [x \in Teams |-> Repoint(season.captain[x], s, t)]
          /\ sn.roster = MovedRoster(season.roster, s, t)
          /\ sn.results = {MovedResult(r, s, t) : r \in season.results}
          /\ sn.lineup = {MovedSeat(x, s, t) : x \in season.lineup}
      BY SeasonAfter DEF Merging, Typed, RowsOK, RowsTyped
    <2>2. /\ ~PlayerReferenced(sn, t)
          /\ \A x \in sn.lineup : x.player # t
          /\ \A h \in MergedHistory(s, t) : h.player # t
      BY <1>2 DEF Merging, MergeRollsBack
    <2> HIDE DEF sn
    <2>3. \A r \in season.results : r.home # s /\ r.away # s
      <3> SUFFICES ASSUME NEW r \in season.results PROVE r.home # s /\ r.away # s
        OBVIOUS
      <3>1. ~Plays(t, MovedResult(r, s, t))
        BY <2>1, <2>2 DEF PlayerReferenced, InResults
      <3> QED
        BY <3>1 DEF Plays, MovedResult, Repoint
    <2>4. season.roster[s] = NoTeam
      <3>1. season.roster[t] = NoTeam /\ t \in Players /\ s # t
        BY <1>2 DEF Merging, Typed, RowsOK, References, Refer
      <3>2. MovedRoster(season.roster, s, t)[t] = season.roster[s]
        BY <3>1 DEF MovedRoster
      <3> QED
        BY <2>1, <2>2, <3>2 DEF PlayerReferenced, Enrolled
    <2>5. \A x \in Teams : season.captain[x] # s
      BY <2>1, <2>2 DEF PlayerReferenced, Enrolled, Repoint
    <2>6. \A x \in season.lineup : x.player # s /\ x.subFor # s
      <3> SUFFICES ASSUME NEW x \in season.lineup PROVE x.player # s /\ x.subFor # s
        OBVIOUS
      <3>1. MovedSeat(x, s, t).player # t /\ MovedSeat(x, s, t).subFor # t
        BY <2>1, <2>2 DEF PlayerReferenced, Replaced
      <3> QED
        BY <3>1 DEF MovedSeat, Repoint
    <2>7. \A h \in history : h.player # s
      <3> SUFFICES ASSUME NEW h \in history PROVE h.player # s
        OBVIOUS
      <3>1. MovedHistory(h, s, t).player # t
        BY <2>2 DEF MergedHistory
      <3> QED
        BY <3>1 DEF MovedHistory, Repoint
    <2> QED
      BY <2>3, <2>4, <2>5, <2>6, <2>7
  <1> QED
    BY <1>1, <1>2

LEMMA MergeRows ==
    ASSUME Typed, NEW s, NEW t, Merging(s, t)
    PROVE  RowsOK'
  <1>1. /\ season \in SeasonRecords /\ Keys(season) /\ s \in Players /\ t \in Players /\ s # t
        /\ NoPlayer \notin Players
    BY LinkAssumption DEF Typed, RowsOK, RowsTyped, Merging
  <1>2. /\ season' \in SeasonRecords
        /\ season'.teams = season.teams
        /\ season'.captain = [x \in Teams |-> Repoint(season.captain[x], s, t)]
        /\ season'.roster = MovedRoster(season.roster, s, t)
        /\ season'.results = {MovedResult(r, s, t) : r \in season.results}
        /\ season'.lineup = {MovedSeat(x, s, t) : x \in season.lineup}
    <2>1. season' = RepointSeason(s, t)
      BY DEF Merging
    <2> QED
      BY <1>1, <2>1, SeasonAfter
  <1>3. /\ season.results \subseteq Result /\ season.lineup \subseteq Seat
        /\ season.captain \in [Teams -> Someone] /\ season.roster \in [Players -> SomeTeam]
    BY <1>1 DEF SeasonRecords
  <1>4. RowsTyped'
    <2>1. history' \subseteq HistoryRow
      BY <1>1, MovedTyped DEF Merging, Typed, RowsOK, RowsTyped
    <2>2. captain' \in [Teams -> Someone] /\ team' \in [Players -> SomeTeam]
      BY <1>1 DEF Merging, Typed, RowsOK, RowsTyped, Repoint, Someone, SomeTeam
    <2> QED
      BY <1>2, <2>1, <2>2 DEF Merging, Typed, RowsOK, RowsTyped
  <1>5. References /\ Refer(players, teams, team, season, history)
    BY DEF Typed, RowsOK, References
  <1>6. /\ s \notin Linked
        /\ t \notin players =>
             /\ \A r \in season.results : r.home # s /\ r.away # s
             /\ season.roster[s] = NoTeam
             /\ \A x \in Teams : season.captain[x] # s
             /\ \A x \in season.lineup : x.player # s /\ x.subFor # s
             /\ \A h \in history : h.player # s
    BY TargetThere
  <1>7. /\ players' = players \ {s} /\ team' = [team EXCEPT ![s] = NoTeam]
        /\ payments' = {d \in payments : d.player # s}
        /\ history' = {MovedHistory(h, s, t) : h \in history}
        /\ UNCHANGED <<teams, issued, payouts>>
    BY DEF Merging
  <1>8. References'
    <2>1. \A p \in Players : team'[p] \in teams' \cup {NoTeam}
      BY <1>1, <1>5, <1>7 DEF Refer, Typed, RowsOK, RowsTyped
    <2>2. \A p \in Players :
            season'.roster[p] # NoTeam => p \in players' /\ season'.roster[p] \in teams'
      BY <1>1, <1>2, <1>5, <1>6, <1>7 DEF MovedRoster, Refer
    <2>3. \A x \in Teams : season'.captain[x] \in players' \cup {NoPlayer}
      BY <1>1, <1>2, <1>5, <1>6, <1>7 DEF Repoint, Refer
    <2>4. \A r \in season'.results : {r.home, r.away} \subseteq players'
      BY <1>1, <1>2, <1>5, <1>6, <1>7 DEF MovedResult, Repoint, Refer
    <2>5. \A x \in season'.lineup :
            x.player \in players' /\ x.team \in teams' /\ x.subFor \in players' \cup {NoPlayer}
      BY <1>1, <1>2, <1>5, <1>6, <1>7 DEF MovedSeat, Repoint, Refer
    <2>6. \A h \in history' : h.player \in players'
      BY <1>1, <1>5, <1>6, <1>7 DEF MovedHistory, Repoint, Refer
    <2>7. season'.teams \subseteq teams' /\ Linked \subseteq players'
      BY <1>1, <1>2, <1>5, <1>6, <1>7 DEF Refer
    <2>8. Refer(players, teams, team, season, history)'
      BY <2>1, <2>2, <2>3, <2>4, <2>5, <2>6, <2>7 DEF Refer
    <2> QED
      BY <1>5, <1>7, <2>8 DEF References
  <1>9. Keys(season')
    <2>1. \A a, b \in season.results :
            MovedResult(a, s, t).round = MovedResult(b, s, t).round /\ MovedResult(a, s, t).home = MovedResult(b, s, t).home
              => a = b
      BY <1>1 DEF MovedResult, Repoint, Keys, Merging, Blocked, RoundConflict, Plays
    <2>2. \A a, b \in season.lineup :
            MovedSeat(a, s, t).team = MovedSeat(b, s, t).team
            /\ MovedSeat(a, s, t).player = MovedSeat(b, s, t).player => a = b
      BY <1>1 DEF MovedSeat, Repoint, Keys, Merging, Blocked, LineupConflict
    <2> QED
      BY <1>2, <2>1, <2>2 DEF Keys
  <1> QED
    BY <1>4, <1>8, <1>9 DEF RowsOK

LEMMA MergePlayersRows == ASSUME Typed, NEW c \in Clients, MergePlayers(c) PROVE RowsOK'
  BY MergePlayersForm, MergeRows, SameRows DEF Typed

(***************************************************************************)
(* What a step does to the requests.                                       *)
(***************************************************************************)
LEMMA IdleRequest == Idle \in Request /\ \A c : Found(c, Idle)
  BY DEF Idle, Request, Found

LEMMA Moves ==
    ASSUME RequestsOK, NEW c \in Clients, NEW r \in Request, Found(c, r),
           request' = [request EXCEPT ![c] = r], started' \in 0..MaxRequests
    PROVE  RequestsOK'
  BY DEF RequestsOK

LEMMA Begins ==
    ASSUME RequestsOK, NEW c \in Clients, NEW action, NEW league, NEW r \in Request,
           Begin(c, action, league, r), Found(c, r)
    PROVE  RequestsOK' /\ UNCHANGED rowVars
  <1>1. started' \in 0..MaxRequests
    BY ClientAssumption DEF RequestsOK, Begin
  <1> QED
    BY <1>1, Moves DEF Begin

LEMMA Goes ==
    ASSUME RequestsOK, NEW c \in Clients, NEW r \in Request, Found(c, r), Continue(c, r)
    PROVE  RequestsOK'
  BY Moves DEF Continue, RequestsOK

\* An update by a league administrator was authorized for a league, which is the
\* player's and the new team's.
LEMMA UpdateStays ==
    ASSUME NEW c \in Clients, NEW p, NEW t, ~IsSystemAdmin(IdentityOf[c]),
           Authorize(IdentityOf[c], "roster_mutate", Scope(UpdateScope(p, t), NoPlayer))
    PROVE  LeagueOfTeam(t) = LeagueOf(p)
  <1>1. UpdateScope(p, t) # NoLeague
    BY DEF Authorize, LeagueActions, OverviewActions, Scope
  <1> QED
    BY <1>1 DEF UpdateScope, UpdatePlayerScope

LEMMA ArriveRequests ==
    ASSUME Typed, NEW c \in Clients, Arrive(c)
    PROVE  RequestsOK' /\ UNCHANGED rowVars
  <1>1. RequestsOK /\ team \in [Players -> SomeTeam]
    BY DEF Typed, RowsOK, RowsTyped
  <1>2. ASSUME NEW p \in Players, NEW t \in SomeTeam, BeginUpdatePlayer(c, p, t)
        PROVE  RequestsOK' /\ UNCHANGED rowVars
    <2> DEFINE r == [op |-> "updatePlayer", player |-> p, team |-> t, league |-> LeagueOf(p)]
    <2>1. LeagueOf(p) \in Leagues \cup {NoLeague}
      BY <1>1, TeamAssumption DEF LeagueOf, LeagueOfTeam, SomeTeam
    <2>2. r \in Request
      BY <2>1 DEF Request
    <2>3. Found(c, r)
      BY <1>2, UpdateStays DEF BeginUpdatePlayer, Begin, Found
    <2> QED
      BY <1>1, <1>2, <2>2, <2>3, Begins DEF BeginUpdatePlayer
  <1>3. ASSUME NEW s \in Players, NEW t \in Players, BeginMerge(c, s, t)
        PROVE  RequestsOK' /\ UNCHANGED rowVars
    <2> DEFINE r == [op |-> "merge", step |-> "find", source |-> s, target |-> t]
    <2>1. r \in Request /\ Found(c, r)
      BY DEF Request, Found
    <2> QED
      BY <1>1, <1>3, <2>1, Begins DEF BeginMerge
  <1>4. ASSUME NEW t \in SomeTeam, BeginCreatePlayer(c, t)
        PROVE  RequestsOK' /\ UNCHANGED rowVars
    <2> DEFINE r == [op |-> "createPlayer", team |-> t]
    <2>1. r \in Request /\ Found(c, r)
      BY DEF Request, Found
    <2> QED
      BY <1>1, <1>4, <2>1, Begins DEF BeginCreatePlayer
  <1>5. ASSUME NEW p \in Players, BeginDeletePlayer(c, p)
        PROVE  RequestsOK' /\ UNCHANGED rowVars
    <2> DEFINE r == [op |-> "deletePlayer", step |-> "count", player |-> p]
    <2>1. r \in Request /\ Found(c, r)
      BY DEF Request, Found
    <2> QED
      BY <1>1, <1>5, <2>1, Begins DEF BeginDeletePlayer
  <1>6. ASSUME NEW p \in Players, BeginRecordDues(c, p)
        PROVE  RequestsOK' /\ UNCHANGED rowVars
    <2> DEFINE r == [op |-> "recordDues", step |-> "roster", player |-> p, team |-> NoTeam]
    <2>1. r \in Request /\ Found(c, r)
      BY DEF Request, Found, SomeTeam
    <2> QED
      BY <1>1, <1>6, <2>1, Begins DEF BeginRecordDues
  <1>7. ASSUME NEW l \in Leagues, BeginCreateTeam(c, l)
        PROVE  RequestsOK' /\ UNCHANGED rowVars
    <2> DEFINE r == [op |-> "createTeam", league |-> l]
    <2>1. r \in Request /\ Found(c, r)
      BY DEF Request, Found
    <2> QED
      BY <1>1, <1>7, <2>1, Begins DEF BeginCreateTeam
  <1>8. ASSUME NEW t \in Teams, NEW p \in Someone, BeginUpdateTeam(c, t, p)
        PROVE  RequestsOK' /\ UNCHANGED rowVars
    <2> DEFINE r == [op |-> "updateTeam", team |-> t, captain |-> p]
    <2>1. r \in Request /\ Found(c, r)
      BY DEF Request, Found
    <2> QED
      BY <1>1, <1>8, <2>1, Begins DEF BeginUpdateTeam
  <1>9. ASSUME NEW t \in Teams, BeginDeleteTeam(c, t)
        PROVE  RequestsOK' /\ UNCHANGED rowVars
    <2> DEFINE r == [op |-> "deleteTeam", step |-> "unseat", team |-> t]
    <2>1. r \in Request /\ Found(c, r)
      BY DEF Request, Found
    <2> QED
      BY <1>1, <1>9, <2>1, Begins DEF BeginDeleteTeam
  <1>10. ASSUME NEW t \in Teams, BeginRecordPayout(c, t)
         PROVE  RequestsOK' /\ UNCHANGED rowVars
    <2> DEFINE r == [op |-> "recordPayout", step |-> "teams", team |-> t]
    <2>1. r \in Request /\ Found(c, r)
      BY DEF Request, Found
    <2> QED
      BY <1>1, <1>10, <2>1, Begins DEF BeginRecordPayout
  <1> QED
    BY <1>2, <1>3, <1>4, <1>5, <1>6, <1>7, <1>8, <1>9, <1>10 DEF Arrive

LEMMA ServeRequests ==
    ASSUME Typed, NEW c \in Clients, Serve(c)
    PROVE  RequestsOK'
  <1>1. RequestsOK /\ request[c] \in Request /\ Found(c, request[c])
    BY DEF Typed, RequestsOK
  <1>2. CASE Finish(c)
    BY <1>1, <1>2, IdleRequest, Goes DEF Finish
  <1>3. CASE CountHistory(c) /\ ~Finish(c)
    <2> DEFINE r == [request[c] EXCEPT !.step = "delete"]
    <2>1. request[c].op = "deletePlayer"
      BY <1>3 DEF CountHistory, At, Running
    <2>2. r \in Request /\ Found(c, r)
      BY <1>1, <2>1 DEF Request, Idle, Found
    <2> QED
      BY <1>1, <1>3, <2>2, Goes DEF CountHistory
  <1>4. CASE FindPlayers(c) /\ ~Finish(c)
    <2> DEFINE r == [request[c] EXCEPT !.step = "merge"]
    <2>1. request[c].op = "merge" /\ request[c].source # request[c].target
      BY <1>4 DEF FindPlayers, At, Running
    <2>2. r \in Request /\ Found(c, r)
      BY <1>1, <2>1 DEF Request, Idle, Found
    <2> QED
      BY <1>1, <1>4, <2>2, Goes DEF FindPlayers
  <1>5. CASE UnseatPlayers(c)
    <2> DEFINE r == [request[c] EXCEPT !.step = "delete"]
    <2>1. request[c].op = "deleteTeam"
      BY <1>5 DEF UnseatPlayers, At, Running
    <2>2. r \in Request /\ Found(c, r)
      BY <1>1, <2>1 DEF Request, Idle, Found
    <2> QED
      BY <1>1, <1>5, <2>2, Goes DEF UnseatPlayers
  <1>6. CASE ReadRoster(c) /\ ~Finish(c)
    <2> DEFINE t == season.roster[request[c].player]
               r == [request[c] EXCEPT !.step = "insert", !.team = t]
    <2>1. request[c].op = "recordDues"
      BY <1>6 DEF ReadRoster, At, Running
    <2>2. t \in SomeTeam
      BY <1>1, <2>1 DEF Typed, RowsOK, RowsTyped, SeasonRecords, Request, Idle
    <2>3. r \in Request /\ Found(c, r)
      BY <1>1, <2>1, <2>2 DEF Request, Idle, Found
    <2> QED
      BY <1>1, <1>6, <2>3, Goes DEF ReadRoster
  <1>7. CASE ReadSeasonTeams(c) /\ ~Finish(c)
    <2> DEFINE r == [request[c] EXCEPT !.step = "insert"]
    <2>1. request[c].op = "recordPayout"
      BY <1>7 DEF ReadSeasonTeams, At, Running
    <2>2. r \in Request /\ Found(c, r)
      BY <1>1, <2>1 DEF Request, Idle, Found
    <2> QED
      BY <1>1, <1>7, <2>2, Goes DEF ReadSeasonTeams
  <1> QED
    BY <1>2, <1>3, <1>4, <1>5, <1>6, <1>7
    DEF Serve, CreatePlayer, UpdatePlayer, DeletePlayer, MergePlayers, CreateTeam, UpdateTeam,
        DeleteTeam, InsertDuesPayment, InsertPayout

LEMMA ServeRows == ASSUME Typed, NEW c \in Clients, Serve(c) PROVE RowsOK'
  <1>1. CASE CountHistory(c) \/ FindPlayers(c) \/ ReadRoster(c) \/ ReadSeasonTeams(c)
    BY <1>1, SameRows DEF Typed, CountHistory, FindPlayers, ReadRoster, ReadSeasonTeams
  <1> QED
    BY <1>1, CreatePlayerRows, UpdatePlayerRows, DeletePlayerRows, MergePlayersRows,
       CreateTeamRows, UpdateTeamRows, UnseatRows, DeleteTeamRows, InsertDuesRows, InsertPayoutRows
    DEF Serve

LEMMA TypedInit == Init => Typed
  <1> SUFFICES ASSUME Init PROVE Typed
    OBVIOUS
  <1>1. RowsTyped
    BY OpeningAssumption DEF Init, RowsTyped
  <1>2. References /\ Keys(season)
    BY OpeningAssumption DEF Init, References
  <1>3. RequestsOK
    BY IdleRequest, ClientAssumption DEF Init, RequestsOK
  <1> QED
    BY <1>1, <1>2, <1>3 DEF Typed, RowsOK

LEMMA TypedNext == Typed /\ [Next]_vars => Typed'
  <1> SUFFICES ASSUME Typed, [Next]_vars PROVE Typed'
    OBVIOUS
  <1>1. CASE UNCHANGED vars
    BY <1>1, SameRows DEF Typed, RequestsOK, vars
  <1>2. ASSUME NEW c \in Clients, Arrive(c) PROVE Typed'
    BY <1>2, ArriveRequests, SameRows DEF Typed
  <1>3. ASSUME NEW c \in Clients, Serve(c) PROVE Typed'
    BY <1>3, ServeRequests, ServeRows DEF Typed
  <1> QED
    BY <1>1, <1>2, <1>3 DEF Next

LEMMA AlwaysTyped == Spec => []Typed
  BY TypedInit, TypedNext, PTL DEF Spec

\* The records keep their types and their keys.
THEOREM TypeCorrect == Spec => []TypeOK
  BY Types, AlwaysTyped, PTL

\* No delete, cascade or merge leaves a row that names a player or a team that is
\* gone, whatever came between its reads and its write: what keeps a row from being
\* deleted is decided in the statement that deletes it.
THEOREM ReferencesCorrect == Spec => []References
  <1>1. Typed => References
    BY DEF Typed, RowsOK
  <1> QED
    BY <1>1, AlwaysTyped, PTL

(***************************************************************************)
(* Nobody plays twice.                                                     *)
(***************************************************************************)
\* Requests but a merge leave the results as they are.
LEMMA ResultsStay ==
    ASSUME Typed, [Next]_vars
    PROVE  UNCHANGED season.results \/ \E s, t \in Players : Merging(s, t)
  <1>1. season \in SeasonRecords
    BY DEF Typed, RowsOK, RowsTyped
  <1>2. CASE UNCHANGED season
    BY <1>2
  <1>3. ASSUME NEW c \in Clients, MergePlayers(c), ~UNCHANGED season
        PROVE  \E s, t \in Players : Merging(s, t)
    BY <1>3, MergePlayersForm DEF Merging, rowVars
  <1>4. ASSUME NEW c \in Clients, DeletePlayer(c) \/ DeleteTeam(c), ~UNCHANGED season
        PROVE  UNCHANGED season.results
    <2>1. CASE DeletePlayer(c)
      <3>1. season' = [season EXCEPT !.lineup = {x \in @ : x.player # request[c].player}]
        BY <1>4, <2>1 DEF DeletePlayer, RemovePlayer, rowVars
      <3> QED
        BY <1>1, <3>1 DEF SeasonRecords
    <2>2. CASE DeleteTeam(c)
      <3>1. season' = [season EXCEPT !.lineup = {x \in @ : x.team # request[c].team}]
        BY <1>4, <2>2 DEF DeleteTeam, rowVars
      <3> QED
        BY <1>1, <3>1 DEF SeasonRecords
    <2> QED
      BY <1>4, <2>1, <2>2
  <1>5. CASE UNCHANGED vars \/ \E c \in Clients : Arrive(c)
    BY <1>2, <1>5, ArriveRequests DEF vars, rowVars
  <1>6. ASSUME NEW c \in Clients, Serve(c), ~UNCHANGED season
        PROVE  MergePlayers(c) \/ DeletePlayer(c) \/ DeleteTeam(c)
    BY <1>6 DEF Serve, CreatePlayer, UpdatePlayer, CountHistory, FindPlayers, CreateTeam,
                UpdateTeam, UnseatPlayers, ReadRoster, InsertDuesPayment, ReadSeasonTeams,
                InsertPayout, rowVars
  <1> QED
    BY <1>2, <1>3, <1>4, <1>5, <1>6 DEF Next

\* Nobody but the target gets results, and the two players' are of different rounds.
LEMMA MergeOnce ==
    ASSUME Typed, Once(season), NEW s, NEW t, Merging(s, t)
    PROVE  Once(season')
  <1>1. s \in Players /\ t \in Players /\ s # t /\ season \in SeasonRecords
    BY DEF Merging, Typed, RowsOK, RowsTyped
  <1>2. season'.results = {MovedResult(r, s, t) : r \in season.results}
    <2>1. season' = RepointSeason(s, t)
      BY DEF Merging
    <2> QED
      BY <1>1, <2>1, SeasonAfter
  <1>3. \A a, b \in season.results : a.round = b.round /\ Plays(s, a) => ~Plays(t, b)
    BY DEF Merging, Blocked, RoundConflict
  <1>4. \A a \in season.results : MovedResult(a, s, t).home # MovedResult(a, s, t).away
    BY <1>3 DEF MovedResult, Repoint, Once, Plays
  <1>5. \A a \in season.results, p \in Players :
          Plays(p, MovedResult(a, s, t)) => (p # s /\ Plays(p, a)) \/ (p = t /\ Plays(s, a))
    <2> SUFFICES ASSUME NEW a \in season.results, NEW p \in Players, Plays(p, MovedResult(a, s, t))
                 PROVE  (p # s /\ Plays(p, a)) \/ (p = t /\ Plays(s, a))
      OBVIOUS
    <2>1. p \in {Repoint(a.home, s, t), Repoint(a.away, s, t)}
      BY DEF MovedResult, Plays
    <2> QED
      BY <1>1, <2>1 DEF Repoint, Plays
  <1>6. \A a, b \in season.results, p \in Players :
          a.round = b.round /\ Plays(p, MovedResult(a, s, t)) /\ Plays(p, MovedResult(b, s, t))
            => a = b
    <2>1. \A a, b \in season.results, p \in Players :
            a.round = b.round /\ Plays(p, a) /\ Plays(p, b) => a = b
      BY DEF Once
    <2> SUFFICES ASSUME NEW a \in season.results, NEW b \in season.results, NEW p \in Players,
                        a.round = b.round, Plays(p, MovedResult(a, s, t)),
                        Plays(p, MovedResult(b, s, t))
                 PROVE  a = b
      OBVIOUS
    <2>2. /\ (p # s /\ Plays(p, a)) \/ (p = t /\ Plays(s, a))
          /\ (p # s /\ Plays(p, b)) \/ (p = t /\ Plays(s, b))
      BY <1>5
    <2>3. ~(Plays(s, a) /\ Plays(t, b)) /\ ~(Plays(s, b) /\ Plays(t, a))
      BY <1>3
    <2> QED
      BY <1>1, <2>1, <2>2, <2>3
  <1>7. \A a \in season.results : MovedResult(a, s, t).round = a.round
    BY DEF MovedResult
  <1>8. \A a, b \in season'.results, p \in Players :
          a.round = b.round /\ Plays(p, a) /\ Plays(p, b) => a = b
    BY <1>2, <1>6, <1>7
  <1> QED
    BY <1>2, <1>4, <1>8 DEF Once

OnceAtStart == \A o \in Openings : Once(o.season)

\* If nobody plays twice in the season's results at the start, as in weeks that can
\* be closed, no sequence of merges makes anyone.
THEOREM NobodyTwiceCorrect == OnceAtStart /\ Spec => []NobodyTwice
  <1>1. OnceAtStart /\ Init => NobodyTwice
    BY DEF OnceAtStart, Init, NobodyTwice
  <1>2. Typed /\ NobodyTwice /\ [Next]_vars => NobodyTwice'
    BY ResultsStay, MergeOnce DEF NobodyTwice, Once
  <1> QED
    BY <1>1, <1>2, AlwaysTyped, PTL DEF Spec

(***************************************************************************)
(* Leagues.                                                                *)
(***************************************************************************)
\* The request of a client changes by a step of that client.
LEMMA OwnStep ==
    ASSUME Typed, [Next]_vars, NEW c \in Clients, request'[c] # request[c]
    PROVE  Arrive(c) \/ Serve(c)
  <1>1. ASSUME NEW d \in Clients, Arrive(d) \/ Serve(d)
        PROVE  \E r : request' = [request EXCEPT ![d] = r]
    <2>1. CASE Arrive(d)
      BY <2>1 DEF Arrive, BeginCreatePlayer, BeginUpdatePlayer, BeginDeletePlayer,
                  BeginRecordDues, BeginMerge, BeginCreateTeam, BeginUpdateTeam,
                  BeginDeleteTeam, BeginRecordPayout, Begin
    <2>2. CASE Serve(d)
      BY <2>2 DEF Serve, CreatePlayer, UpdatePlayer, CountHistory, DeletePlayer, FindPlayers,
                  MergePlayers, CreateTeam, UpdateTeam, UnseatPlayers, DeleteTeam, ReadRoster,
                  InsertDuesPayment, ReadSeasonTeams, InsertPayout, Finish, Continue
    <2> QED
      BY <1>1, <2>1, <2>2
  <1>2. request \in [Clients -> Request]
    BY DEF Typed, RequestsOK
  <1>3. ASSUME NEW d \in Clients, Arrive(d) \/ Serve(d) PROVE d = c
    BY <1>1, <1>2, <1>3
  <1> QED
    BY <1>3 DEF Next, vars

\* A request of one operation is served by the actions of that operation.
LEMMA UpdateServed ==
    ASSUME Typed, [Next]_vars, NEW c \in Clients, Running(c, "updatePlayer"), request'[c] = Idle
    PROVE  UpdatePlayer(c)
  <1>1. request'[c] # request[c]
    BY DEF Running, Idle
  <1>2. ~Arrive(c)
    BY DEF Arrive, BeginCreatePlayer, BeginUpdatePlayer, BeginDeletePlayer, BeginRecordDues,
           BeginMerge, BeginCreateTeam, BeginUpdateTeam, BeginDeleteTeam, BeginRecordPayout,
           Begin, Running
  <1> QED
    BY <1>1, <1>2, OwnStep
    DEF Serve, CreatePlayer, CountHistory, DeletePlayer, FindPlayers, MergePlayers, CreateTeam,
        UpdateTeam, UnseatPlayers, DeleteTeam, ReadRoster, InsertDuesPayment, ReadSeasonTeams,
        InsertPayout, At, Running

\* The update of a league administrator leaves the player in the league in which
\* the administrator's rights were checked, if the player is still there.
THEOREM LeaguesCorrect == Spec => PlayersStayInLeague
  <1> DEFINE Stay(c, p) ==
               /\ Running(c, "updatePlayer") /\ request[c].player = p /\ request'[c] = Idle
               /\ ~IsSystemAdmin(IdentityOf[c])
               /\ LeagueOf(p) = request[c].league
               => LeagueOf(p)' = LeagueOf(p)
  <1>1. ASSUME Typed, [Next]_vars, NEW c \in Clients, NEW p \in Players PROVE Stay(c, p)
    <2> SUFFICES ASSUME Running(c, "updatePlayer"), request[c].player = p, request'[c] = Idle,
                        ~IsSystemAdmin(IdentityOf[c]), LeagueOf(p) = request[c].league
                 PROVE  LeagueOf(p)' = LeagueOf(p)
      OBVIOUS
    <2>1. UpdatePlayer(c)
      BY <1>1, UpdateServed
    <2>2. LeagueOfTeam(request[c].team) = LeagueOf(p)
      BY <1>1 DEF Typed, RequestsOK, Found, Running
    <2>3. team'[p] = team[p] \/ team'[p] = request[c].team
      BY <1>1, <2>1 DEF UpdatePlayer, Typed, RowsOK, RowsTyped
    <2> QED
      BY <2>2, <2>3 DEF LeagueOf, LeagueOfTeam
  <1>2. Typed /\ [Next]_vars => [\A c \in Clients, p \in Players : Stay(c, p)]_vars
    BY <1>1
  <1> QED
    BY <1>2, AlwaysTyped, PTL DEF Spec, PlayersStayInLeague

(***************************************************************************)
(* A merge keeps every record.                                             *)
(***************************************************************************)
\* The rows of a season are finitely many.
LEMMA FiniteRows ==
    ASSUME RowsTyped
    PROVE  /\ \A S : S \subseteq season.results => IsFiniteSet(S)
           /\ \A S : S \subseteq season.lineup => IsFiniteSet(S)
           /\ \A S : S \subseteq history => IsFiniteSet(S)
           /\ \A S : S \subseteq Teams => IsFiniteSet(S)
           /\ \A S : S \subseteq {"home", "away"} => IsFiniteSet(S)
  <1>1. IsFiniteSet(Result)
    <2> DEFINE D == (Rounds \X Players) \X Players
               f == [d \in D |-> [round |-> d[1][1], home |-> d[1][2], away |-> d[2]]]
    <2>1. IsFiniteSet(D)
      BY FiniteAssumption, FS_Product
    <2>2. \A r \in Result : <<<<r.round, r.home>>, r.away>> \in D
                              /\ f[<<<<r.round, r.home>>, r.away>>] = r
      BY DEF Result
    <2>3. f \in [D -> Result]
      BY DEF Result
    <2> HIDE DEF f, D
    <2>4. f \in Surjection(D, Result)
      BY <2>2, <2>3 DEF Surjection
    <2> QED
      BY <2>1, <2>4, FS_Surjection
  <1>2. IsFiniteSet(Seat)
    <2> DEFINE D == (Teams \X Players) \X Someone
               f == [d \in D |-> [team |-> d[1][1], player |-> d[1][2], subFor |-> d[2]]]
    <2>1. IsFiniteSet(Someone)
      BY FiniteAssumption, FS_AddElement DEF Someone
    <2>2. IsFiniteSet(D)
      BY <2>1, FiniteAssumption, FS_Product
    <2>3. \A x \in Seat : <<<<x.team, x.player>>, x.subFor>> \in D
                            /\ f[<<<<x.team, x.player>>, x.subFor>>] = x
      BY DEF Seat
    <2>4. f \in [D -> Seat]
      BY DEF Seat
    <2> HIDE DEF f, D
    <2>5. f \in Surjection(D, Seat)
      BY <2>3, <2>4 DEF Surjection
    <2> QED
      BY <2>2, <2>5, FS_Surjection
  <1>3. IsFiniteSet(HistoryRow)
    <2> DEFINE D == Players \X ApplyRequests
               f == [d \in D |-> [player |-> d[1], request |-> d[2]]]
    <2>1. IsFiniteSet(D)
      BY FiniteAssumption, FS_Product
    <2>2. \A h \in HistoryRow : <<h.player, h.request>> \in D /\ f[<<h.player, h.request>>] = h
      BY DEF HistoryRow
    <2>3. f \in [D -> HistoryRow]
      BY DEF HistoryRow
    <2> HIDE DEF f, D
    <2>4. f \in Surjection(D, HistoryRow)
      BY <2>2, <2>3 DEF Surjection
    <2> QED
      BY <2>1, <2>4, FS_Surjection
  <1>4. IsFiniteSet({"home", "away"})
    <2>1. IsFiniteSet({"home"})
      BY FS_Singleton
    <2>2. IsFiniteSet({"home"} \cup {"away"})
      BY <2>1, FS_AddElement
    <2>3. {"home", "away"} = {"home"} \cup {"away"}
      OBVIOUS
    <2> QED
      BY <2>2, <2>3
  <1>5. season.results \subseteq Result /\ season.lineup \subseteq Seat /\ history \subseteq HistoryRow
    BY DEF RowsTyped, SeasonRecords
  <1> QED
    BY <1>1, <1>2, <1>3, <1>4, <1>5, FiniteAssumption, FS_Subset

\* What two sets of rows become when no two of them become one.
LEMMA CountMoved ==
    ASSUME NEW A, NEW B, IsFiniteSet(A), IsFiniteSet(B), A \cap B = {}, NEW D,
           NEW f \in [A \cup B -> D],
           \A x, y \in A \cup B : f[x] = f[y] => x = y,
           \A d \in D : \E x \in A \cup B : f[x] = d
    PROVE  Cardinality(D) = Cardinality(A) + Cardinality(B) /\ Cardinality(D) \in Nat
  <1>1. f \in Bijection(A \cup B, D)
    BY DEF Bijection, Injection, Surjection, IsInjective
  <1>2. ExistsBijection(A \cup B, D)
    BY <1>1 DEF ExistsBijection
  <1>3. IsFiniteSet(A \cup B)
    BY FS_Union
  <1>4. Cardinality(A \cup B) = Cardinality(A) + Cardinality(B) - Cardinality(A \cap B)
    BY FS_Union
  <1>5. Cardinality(A \cap B) = 0
    BY FS_EmptySet
  <1>6. Cardinality(A) \in Nat /\ Cardinality(B) \in Nat
    BY FS_CardinalityType
  <1>7. Cardinality(D) = Cardinality(A \cup B)
    BY <1>2, <1>3, FS_Bijection
  <1> QED
    BY <1>4, <1>5, <1>6, <1>7

\* A column that names one player in each of finitely many rows.
Naming(column, X, p) == {x \in X : column[x] = p}
LEMMA CountColumn ==
    ASSUME NEW X, IsFiniteSet(X), NEW column, NEW s, NEW t, s # t,
           NEW moved, moved = [x \in X |-> Repoint(column[x], s, t)]
    PROVE  Cardinality(Naming(moved, X, t))
             = Cardinality(Naming(column, X, s)) + Cardinality(Naming(column, X, t))
  <1> DEFINE A == Naming(column, X, s)
             B == Naming(column, X, t)
             D == Naming(moved, X, t)
             f == [x \in A \cup B |-> x]
  <1>1. D = A \cup B /\ A \cap B = {} /\ A \subseteq X /\ B \subseteq X
    BY DEF Repoint, Naming
  <1>2. IsFiniteSet(A) /\ IsFiniteSet(B)
    BY <1>1, FS_Subset
  <1> HIDE DEF A, B, D
  <1>3. f \in [A \cup B -> D] /\ \A x \in A \cup B : f[x] = x
    BY <1>1
  <1> HIDE DEF f
  <1>4. \A x, y \in A \cup B : f[x] = f[y] => x = y
    BY <1>3
  <1>5. \A d \in D : \E x \in A \cup B : f[x] = d
    BY <1>1, <1>3
  <1>6. IsFiniteSet(A) /\ IsFiniteSet(B) /\ A \cap B = {}
    BY <1>1, <1>2
  <1>7. f \in [A \cup B -> D]
    BY <1>3
  <1>8. Cardinality(D) = Cardinality(A) + Cardinality(B)
    BY <1>4, <1>5, <1>6, <1>7, CountMoved
  <1> QED
    BY <1>8 DEF A, B, D

LEMMA CountResults ==
    ASSUME Typed, NEW s, NEW t, Merging(s, t)
    PROVE  Cardinality(ResultsOf(t)') = Cardinality(ResultsOf(s)) + Cardinality(ResultsOf(t))
  <1> DEFINE A == {r \in season.results : Plays(s, r)}
             B == {r \in season.results : Plays(t, r)}
             D == {r \in season'.results : Plays(t, r)}
             f == [r \in A \cup B |-> MovedResult(r, s, t)]
  <1>1. /\ s \in Players /\ t \in Players /\ s # t /\ season \in SeasonRecords
        /\ season.results \subseteq Result
        /\ \A a, b \in season.results : a.round = b.round /\ a.home = b.home => a = b
    BY DEF Merging, Typed, RowsOK, RowsTyped, Keys, SeasonRecords
  <1>2. season'.results = {MovedResult(r, s, t) : r \in season.results}
    <2>1. season' = RepointSeason(s, t)
      BY DEF Merging
    <2> QED
      BY <1>1, <2>1, SeasonAfter
  <1>3. \A a, b \in season.results : a.round = b.round /\ Plays(s, a) => ~Plays(t, b)
    BY DEF Merging, Blocked, RoundConflict
  <1>4. IsFiniteSet(A) /\ IsFiniteSet(B) /\ A \cap B = {}
    <2>1. A \subseteq season.results /\ B \subseteq season.results
      OBVIOUS
    <2>2. A \cap B = {}
      BY <1>3
    <2> QED
      BY <2>1, <2>2, FiniteRows DEF Typed, RowsOK
  <1>5. \A r \in season.results : Plays(t, MovedResult(r, s, t)) <=> Plays(s, r) \/ Plays(t, r)
    BY <1>1 DEF MovedResult, Plays, Repoint
  <1>6. f \in [A \cup B -> D]
    BY <1>2, <1>5
  <1>7. \A d \in D : \E r \in A \cup B : f[r] = d
    BY <1>2, <1>5
  <1>8. \A x, y \in A \cup B : f[x] = f[y] => x = y
    <2> SUFFICES ASSUME NEW x \in A \cup B, NEW y \in A \cup B,
                        MovedResult(x, s, t) = MovedResult(y, s, t)
                 PROVE  x = y
      OBVIOUS
    <2>1. x.round = y.round /\ Repoint(x.home, s, t) = Repoint(y.home, s, t)
      BY DEF MovedResult
    <2>2. x \in season.results /\ y \in season.results
      OBVIOUS
    <2>3. ~(Plays(s, x) /\ Plays(t, y)) /\ ~(Plays(s, y) /\ Plays(t, x))
      BY <1>3, <2>1, <2>2
    <2>4. x.home = y.home
      BY <2>1, <2>3 DEF Repoint, Plays
    <2> QED
      BY <1>1, <2>1, <2>2, <2>4
  <1> HIDE DEF A, B, D, f
  <1>9. Cardinality(D) = Cardinality(A) + Cardinality(B)
    BY <1>4, <1>6, <1>7, <1>8, CountMoved
  <1> QED
    BY <1>9 DEF A, B, D, ResultsOf

LEMMA CountSeats ==
    ASSUME Typed, NEW s, NEW t, Merging(s, t)
    PROVE  Cardinality(SeatsOf(t)') = Cardinality(SeatsOf(s)) + Cardinality(SeatsOf(t))
  <1> DEFINE A == {x \in season.lineup : x.player = s}
             B == {x \in season.lineup : x.player = t}
             D == {x \in season'.lineup : x.player = t}
             f == [x \in A \cup B |-> MovedSeat(x, s, t)]
  <1>1. /\ s \in Players /\ t \in Players /\ s # t /\ season \in SeasonRecords
        /\ \A a, b \in season.lineup : a.team = b.team /\ a.player = b.player => a = b
    BY DEF Merging, Typed, RowsOK, RowsTyped, Keys
  <1>2. season'.lineup = {MovedSeat(x, s, t) : x \in season.lineup}
    <2>1. season' = RepointSeason(s, t)
      BY DEF Merging
    <2> QED
      BY <1>1, <2>1, SeasonAfter
  <1>3. \A a, b \in season.lineup : a.team = b.team /\ a.player = s => b.player # t
    BY DEF Merging, Blocked, LineupConflict
  <1>4. IsFiniteSet(A) /\ IsFiniteSet(B) /\ A \cap B = {}
    <2>1. A \subseteq season.lineup /\ B \subseteq season.lineup /\ A \cap B = {}
      BY <1>1
    <2> QED
      BY <2>1, FiniteRows DEF Typed, RowsOK
  <1>5. \A x \in season.lineup : MovedSeat(x, s, t).player = t <=> x.player \in {s, t}
    BY <1>1 DEF MovedSeat, Repoint
  <1>6. f \in [A \cup B -> D]
    BY <1>2, <1>5
  <1>7. \A d \in D : \E x \in A \cup B : f[x] = d
    BY <1>2, <1>5
  <1>8. \A x, y \in A \cup B : f[x] = f[y] => x = y
    BY <1>1, <1>3 DEF MovedSeat
  <1> HIDE DEF A, B, D, f
  <1>9. Cardinality(D) = Cardinality(A) + Cardinality(B)
    BY <1>4, <1>6, <1>7, <1>8, CountMoved
  <1> QED
    BY <1>9 DEF A, B, D, SeatsOf

LEMMA CountHistoryRows ==
    ASSUME Typed, NEW s, NEW t, Merging(s, t)
    PROVE  Cardinality(HistoryOf(t)') = Cardinality(HistoryOf(s)) + Cardinality(HistoryOf(t))
  <1> DEFINE A == {h \in history : h.player = s}
             B == {h \in history : h.player = t}
             D == {h \in history' : h.player = t}
             f == [h \in A \cup B |-> MovedHistory(h, s, t)]
  <1>1. /\ s \in Players /\ t \in Players /\ s # t
        /\ history \subseteq HistoryRow /\ history' = {MovedHistory(h, s, t) : h \in history}
    BY DEF Merging, Typed, RowsOK, RowsTyped
  <1>2. \A a, b \in history : a.request = b.request /\ a.player = s => b.player # t
    <2> SUFFICES ASSUME NEW a \in history, NEW b \in history, a.request = b.request,
                        a.player = s, b.player = t
                 PROVE  FALSE
      OBVIOUS
    <2>1. /\ a = [player |-> s, request |-> a.request] /\ b = [player |-> t, request |-> a.request]
          /\ a.request \in ApplyRequests
      BY <1>1 DEF HistoryRow
    <2>2. {[player |-> p, request |-> a.request] : p \in {s, t}} \subseteq history
      BY <2>1
    <2> QED
      BY <2>1, <2>2 DEF Merging, MergeRollsBack
  <1>3. IsFiniteSet(A) /\ IsFiniteSet(B) /\ A \cap B = {}
    <2>1. A \subseteq history /\ B \subseteq history /\ A \cap B = {}
      BY <1>1
    <2> QED
      BY <2>1, FiniteRows DEF Typed, RowsOK
  <1>4. \A h \in history : MovedHistory(h, s, t).player = t <=> h.player \in {s, t}
    BY <1>1 DEF MovedHistory, Repoint
  <1>5. f \in [A \cup B -> D]
    BY <1>1, <1>4
  <1>6. \A d \in D : \E h \in A \cup B : f[h] = d
    BY <1>1, <1>4
  <1>7. \A x, y \in A \cup B : f[x] = f[y] => x = y
    BY <1>1, <1>2 DEF MovedHistory, HistoryRow
  <1> HIDE DEF A, B, D, f
  <1>8. Cardinality(D) = Cardinality(A) + Cardinality(B)
    BY <1>3, <1>5, <1>6, <1>7, CountMoved
  <1> QED
    BY <1>8 DEF A, B, D, HistoryOf

LEMMA MergeKeeps ==
    ASSUME Typed, NEW s, NEW t, Merging(s, t)
    PROVE  Entries(t)' = Entries(s) + Entries(t)
  <1>1. /\ s \in Players /\ t \in Players /\ s # t /\ season \in SeasonRecords
        /\ season' = RepointSeason(s, t) /\ ~RosterConflict(s, t)
    BY DEF Merging, Typed, RowsOK, RowsTyped, Blocked
  <1>2. /\ season'.captain = [x \in Teams |-> Repoint(season.captain[x], s, t)]
        /\ season'.roster = MovedRoster(season.roster, s, t)
        /\ season'.approver = [x \in {"home", "away"} |-> Repoint(season.approver[x], s, t)]
    BY <1>1, SeasonAfter
  <1>3. Cardinality(CaptainciesOf(t)') = Cardinality(CaptainciesOf(s)) + Cardinality(CaptainciesOf(t))
    <2>1. Cardinality(Naming(season'.captain, Teams, t))
            = Cardinality(Naming(season.captain, Teams, s))
                + Cardinality(Naming(season.captain, Teams, t))
      BY <1>1, <1>2, CountColumn, FiniteAssumption
    <2> QED
      BY <2>1 DEF Naming, CaptainciesOf
  <1>4. Cardinality(SidesOf(t)') = Cardinality(SidesOf(s)) + Cardinality(SidesOf(t))
    <2> DEFINE X == {"home", "away"}
    <2>1. IsFiniteSet(X)
      BY FiniteRows DEF Typed, RowsOK
    <2>2. Cardinality(Naming(season'.approver, X, t))
            = Cardinality(Naming(season.approver, X, s)) + Cardinality(Naming(season.approver, X, t))
      BY <1>1, <1>2, <2>1, CountColumn
    <2> QED
      BY <2>2 DEF Naming, SidesOf
  <1>5. Cardinality(LedBy(t)') = Cardinality(LedBy(s)) + Cardinality(LedBy(t))
    <2>1. captain' = [x \in Teams |-> Repoint(captain[x], s, t)]
      BY DEF Merging
    <2>2. Cardinality(Naming(captain', Teams, t))
            = Cardinality(Naming(captain, Teams, s)) + Cardinality(Naming(captain, Teams, t))
      BY <1>1, <2>1, CountColumn, FiniteAssumption
    <2> QED
      BY <2>2 DEF Naming, LedBy
  <1>6. OnRoster(t)' = OnRoster(s) + OnRoster(t)
    BY <1>1, <1>2 DEF OnRoster, RosterConflict, MovedRoster
  <1>7. \A p : /\ ResultsOf(p) \subseteq season.results /\ SeatsOf(p) \subseteq season.lineup
               /\ CaptainciesOf(p) \subseteq Teams /\ SidesOf(p) \subseteq {"home", "away"}
               /\ HistoryOf(p) \subseteq history /\ LedBy(p) \subseteq Teams
    BY DEF ResultsOf, SeatsOf, CaptainciesOf, SidesOf, HistoryOf, LedBy
  <1>8. \A p : /\ Cardinality(ResultsOf(p)) \in Nat /\ Cardinality(SeatsOf(p)) \in Nat
               /\ Cardinality(CaptainciesOf(p)) \in Nat /\ Cardinality(SidesOf(p)) \in Nat
               /\ Cardinality(HistoryOf(p)) \in Nat /\ OnRoster(p) \in Nat
               /\ Cardinality(LedBy(p)) \in Nat
    BY <1>7, FiniteRows, FS_CardinalityType DEF Typed, RowsOK, OnRoster
  <1> QED
    BY <1>3, <1>4, <1>5, <1>6, <1>8, CountResults, CountSeats, CountHistoryRows DEF Entries

\* A merge that removes the source leaves the target with all the rows of both.
THEOREM MergeCorrect == Spec => MergeKeepsRecords
  <1> DEFINE Keeps(c, s, t) ==
               /\ At(c, "merge", "merge") /\ request[c].source = s /\ request[c].target = t
               /\ request'[c] = Idle /\ s \in players \ players'
               => Entries(t)' = Entries(s) + Entries(t)
  <1>1. ASSUME Typed, [Next]_vars, NEW c \in Clients, NEW s \in Players, NEW t \in Players
        PROVE  Keeps(c, s, t)
    <2> SUFFICES ASSUME At(c, "merge", "merge"), request[c].source = s, request[c].target = t,
                        request'[c] = Idle, s \in players \ players'
                 PROVE  Entries(t)' = Entries(s) + Entries(t)
      OBVIOUS
    <2>1. request'[c] # request[c]
      BY DEF At, Running, Idle
    <2>2. ~Arrive(c)
      BY DEF Arrive, BeginCreatePlayer, BeginUpdatePlayer, BeginDeletePlayer, BeginRecordDues,
             BeginMerge, BeginCreateTeam, BeginUpdateTeam, BeginDeleteTeam, BeginRecordPayout,
             Begin, At, Running
    <2>3. MergePlayers(c)
      BY <1>1, <2>1, <2>2, OwnStep
      DEF Serve, CreatePlayer, UpdatePlayer, CountHistory, DeletePlayer, FindPlayers, CreateTeam,
          UpdateTeam, UnseatPlayers, DeleteTeam, ReadRoster, InsertDuesPayment, ReadSeasonTeams,
          InsertPayout, At, Running
    <2>4. ~UNCHANGED rowVars
      BY DEF rowVars
    <2>5. Merging(s, t)
      BY <1>1, <2>3, <2>4, MergePlayersForm
    <2> QED
      BY <1>1, <2>5, MergeKeeps
  <1>2. Typed /\ [Next]_vars => [\A c \in Clients, s, t \in Players : Keeps(c, s, t)]_vars
    BY <1>1
  <1> QED
    BY <1>2, AlwaysTyped, PTL DEF Spec, MergeKeepsRecords

=============================================================================
