# A verified model of league_app

`league_app` is a Go web application that runs pool leagues: seasons are set up and scheduled,
captains and players enter scores, teams approve them, an administrator accepts and processes them,
weeks and seasons are closed, and handicaps are recomputed and applied. It keeps everything in one
SQLite database behind stores (`src/backend/storage/sqlite`), with the rules in domain services
(`src/backend/domains`), HTTP handlers (`src/handlers`) and a JavaScript interface (`src/web`).

The modules here are TLA+ translations of the parts of that program whose correctness depends on
more than one statement. TLC checks them on small instances, and TLAPS proves every safety property
of these checks for all instances. `PROJECT.json` maps every definition to the lines it models.

## 1. What can go wrong in this program

Every HTTP request runs in its own goroutine over an unlimited connection pool. Transactions are
`BEGIN DEFERRED` (except handicap apply, which is `BEGIN IMMEDIATE`), the journal is WAL and no
`busy_timeout` is set. There is no lock in the Go code that spans two store calls. Hence

* one transaction is atomic, and a write that meets another writer fails with `SQLITE_BUSY` and
  rolls back;
* two store calls of one request are two steps, and any other request may run between them;
* whatever a browser shows was read at some earlier time, and what it sends may be old, repeated or
  unanswered;
* a request may stop anywhere (client gone, server stopped, database busy), keeping what it has
  committed.

Nothing runs in the background: no timers, queues or workers. Migrations run before the server
listens.

## 2. Inventory

| Component | State | Operations | Hard part | What makes it correct |
|---|---|---|---|---|
| Score entry (`matches/round_service.go`, `round_store.go`) | `score_revision`, `completed`, `round_results`, `match_results` | save rounds, submit, clear, substitute in a scored match | stale pages; edits racing locks | an edit advances the revision and clears the teams' statements; a locked match is never edited |
| Team approval (`team_approval_service.go`) | `<side>_approval_state`, its revision and note | approve, withdraw, request a correction | approval of scores replaced meanwhile | a statement is about the current scores |
| Acceptance and processing (`approval_service.go`) | `approved_at`, `processed_at`, `match_approval_events` | accept or override, unapprove, process, unprocess | read match, season, week, then write | the event describes the match; processed implies accepted |
| Weeks (`matches/service.go`, `closeweek.go`, `week_store.go`) | `league_weeks.status`, `matches.week_closed` | close (validates, then processes approved matches), reopen | validation outside the transaction | both records of a closed week agree; a closed week is final |
| Season close (`seasons/close_service.go`) | `closed_at`, `final_standings_snapshot` | close, reopen | weeks, standings, season row and write are four steps | only closed weeks; stored standings are the final ones |
| Schedule generation (`scheduling.go`, `schedule_service.go`) | none between requests | circle method, cycles, bye permutation, dates | the permutation and its index arithmetic; the date loop | rounds seat everyone, every pair meets, byes are honoured, the loops end |
| Handicap review and apply (`domains/handicaps`) | `players.handicap`, `admin_hold`, `handicap_history` | recommendations, apply, replay | stale reviews, retries, lost answers | a request is recorded whole, once, as reviewed |
| Season setup (`domains/seasons`) | teams, rosters, captains, byes, skipped weeks, `schedule_stale`, `activated_at` | create, activate, add and remove, approve byes | check, write and stale mark are separate statements | an unmarked schedule fits the teams; captains are on rosters |
| Schedule store, pushback, team assignment (`schedule_service.go`, `pushback_service.go`, `match_service.go`) | unplayed `matches` | replace, shift weeks, assign teams | the schedule is computed from earlier reads; shifts are increments | played matches stay; closed weeks keep their matches |
| Lineups (`lineup_service.go`) | `lineup_plans` | set, substitute, clear | duplicate and lock checks before the transaction | a substitute is new to the match; locked lineups stand |
| Scoring, standings (`scoring.go`, `scoresheet.go`, `round_config.go`) and season rules (`rules/service.go`) | `round_results`, `match_results`, `season_rules` | validate, spot, decide, tally, standings; write a rule | handicaps change under a saved sheet; results with and without a sheet | decisions stand; the standings show what was played |
| Players, teams, finances (`players`, `teams`, `finances`) | `players`, `teams`, `dues_payments`, `payouts` and every table that names a player | edit, delete, merge, record | references with and without foreign keys; rights checked before the write | no row dangles; a merge keeps every row; players stay in their league |
| Sessions, setup tokens, keys, roles (`auth`, the middleware) | `users`, `sessions`, `password_setup_tokens`, `user_api_keys`, `role_assignments` | log in and out, guarded calls, deactivate, reactivate, issue, grant, revoke | credentials read statement by statement while others revoke them | a call is served only to who was entitled; what is revoked stays so |
| Authorization policy (`auth/authz.go`, scope resolvers) | none | decide | which league a request is about | used by the two components above |
| Routing, start-up, backup, deployment | none that changes under requests | - | - | - |

How they interact: the services share the tables and nothing else. Setup writes what generation
reads; generation writes the matches that score entry and weeks work on; processing decides which
racks handicap recommendations are computed from; applying changes the handicaps later scores use;
a player merge rewrites references in all of them. Every request but a login passes the middleware,
which reads the caller's credentials and roles anew.

## 3. The modules

| Module | Contents | Depends on |
|---|---|---|
| `ScoreLedger` | abstract: numbered scores, what two teams say, one verdict | - |
| `MatchApproval` | score entry, team approval, acceptance, processing, week close, season close | `ScoreLedger` (refined) |
| `MatchApproval_proofs` | theorems about `MatchApproval`, at the end those with one client | `MatchApproval`, TLAPS |
| `ScheduleGeneration` | the computation of one schedule | - |
| `HandicapApply` | review, apply, replay, and what changes around them | - |
| `ScheduleGeneration_proofs` | theorems about `ScheduleGeneration` | `ScheduleGeneration`, TLAPS |
| `HandicapApply_proofs` | theorems about `HandicapApply` | `HandicapApply`, TLAPS |
| `SeasonSetup` | teams, rosters, captains, byes, the schedule's mark, activation | - |
| `SeasonSetup_proofs` | theorems about `SeasonSetup` | `SeasonSetup`, TLAPS |
| `MatchWeek` | the rows of `matches` and of `lineup_plans` under pushback, generation, team assignment, lineups and substitutions | - |
| `MatchWeek_proofs` | theorems about `MatchWeek` | `MatchWeek`, TLAPS |
| `SeasonRules` | the two rules scoring reads, their writes and their reading | - |
| `Scoring` | one match from the games typed in to the standings | `SeasonRules` |
| `Scoring_proofs` | theorems about `Scoring`, and about sums | `Scoring`, TLAPS |
| `Authorization` | the policy, as operators | - |
| `Accounts` | logins, sessions, tokens, keys, roles and guarded calls | `Authorization` |
| `Accounts_proofs` | theorems about `Accounts` | `Accounts`, TLAPS |
| `PlayerRecords` | players, teams and money, with the authorization of each request | `Authorization` |
| `PlayerRecords_proofs` | theorems about `PlayerRecords` | `PlayerRecords`, TLAPS |
| `MC...` | constants for TLC | the module named |

### MatchApproval

One action is one transaction, or one read whose result the request acts on later. `request[c]`
holds what a client's page or unfinished request remembers; everything else is columns of the
database. A page is loaded in two requests, the approval state with the revision first (`OpenPage`)
and the scores afterwards (`LoadRounds`), in the order of the page's code. The write of an edit is
`AdvanceScoreRevision`, whose guard is the `WHERE` clause `matchStillEditableSQL`, together with the
replacement of the results in the same transaction. Acceptance is `ReadForAccept`,
`CheckSeasonOpen`, `CheckWeekOpen`, `AdminAccept`; processing, unapproval and unprocessing have the
same three reads and then write by id alone, and so do their actions. Closing a week is
`BeginCloseWeek` (season check), `ValidateWeek`, `CloseWeek`; closing a season is `ListWeeks`,
`GetStandings`, `CheckSeasonCloseable`, `CloseSeason`. `Abort` is any failure of a request.

Abstractions. Saved scores are whether some game was won, which is all that `completed` and the week
validation look at. `acceptance` is the row of `match_approval_events` that belongs to the standing
acceptance; the table itself only grows. The validations of a request's contents, eligibility and
roster checks reject without changing anything and are `Abort`. Whether the override flag is sent is
left open: without it a request that would be an override is rejected. The several queries of a week
validation, and of the standings, are each one read. One activated season.

### ScoreLedger

The promise without requests or transactions: a verdict is given at one instant and is
`admin_accepted` exactly if both teams approve the current scores then. `LedgerSpec` is the
refinement: `revision` is `score_revision`, `said` is the approval columns and `verdict` is the type
of the standing acceptance.

### ScheduleGeneration

Runs inside one request, so nothing interleaves with it; what is hard is the arithmetic. One step is
one pass of a loop: `PlayRound` (the circle method), `BuildEntries` (the switch on the schedule
type), `FindNaturalByes`, `HonourRequest` or `SkipRequest` (the request loop of
`applyByeRequests`), `BeginPairing`, `PairWeeks` and `IndexOutOfRange` (the loop over the remaining
weeks), `AssignDate`. Go ranges over maps in any order; the natural bye that survives is therefore
any week the team sits out. Entries of a week are its set of pairs, dates are weeks after the
start, and the slots of a blanket schedule, which name no teams, are empty sets. A team may have
been removed after its bye was approved, so requests may name a team that does not play.

### HandicapApply

`FetchRecommendations` is the page's read, `ConfirmApply` sends a request built from what the page
shows, `BeginApply` is the check that the season is open, which the service makes before its
transaction, and `ApplyFresh`, `Replay` and `Refuse` are the outcomes of that transaction. A request
stays in `sent` and may be served any number of times, at any time; `LoseConnection` is an answer
that does not arrive. Around it, players are edited and merged, racks appear and disappear, rules,
roster and the state of the season change.

Abstractions. A token is the record it is a hash of, a request hash the set of entries. A player's
racks are one value `s` with `Implied[s]`, the handicap of the window, and `Size[s]`, its length;
racks without a handicap snapshot are not counted by either. A season none of whose matches is
processed recommends nothing, as under `manual_review`, and is not told apart from it. Requests are
put together from pages; the structural validation of other requests refuses them without an
effect. `Refuse` may happen to any request, since another writer makes it a conflict. Deleting a
player is left out: the database refuses to delete players with scored rounds and the code those
with handicap history. One season.

### SeasonSetup

One managed season, from draft to close. A request is a chain of separate statements, and each is an
action: the closed and draft checks (`BeginAddTeam` and the other `Begin...` actions), the reads a
write is decided on (`CheckCaptain`, `CheckTeamInSeason`, `CheckPlayerFree`, `HasByeConflict`, the six
reads of `GenerateSchedule`, the three of the activation checklist), the write itself
(`AddSeasonTeamCopy`, `RemoveSeasonTeam`, `SetByeApproval`, `SaveGeneratedSchedule`, `Activate` and so
on), and then the mark: `CountUnplayed` and `SetStale` are the two statements of
`MarkStaleIfScheduled`. The services ignore its error, and so `LoseMark` is a request that ends there.
`Reject` is a check that fails, or a transaction that rolls back.

`teams` with `captain` are the rows of `season_teams`, `rosterTeam` is `season_rosters` (one row per
season and player), `bye` is `bye_requests` by id, `teamRow` says whether the row of `teams` exists:
removing a team that no match and no other season refers to deletes it, and its byes with it. The
writes repeat the keys of the schema, which reject what an overtaken check let through.

Matches are kept as `Plan`, the teams and approved byes they were computed from, with one set for the
unplayed and one for the played. That is what the mark is about: a schedule *fits* if its unplayed
matches were computed from the present teams and byes. How a plan becomes matches is
`ScheduleGeneration`. At the end of the module are the steps of play that matter here: results saved
and cleared, weeks and the season closed and reopened, another season of the league activated.

Abstractions. What `UpdateSeason` and skipped weeks write are dates and counts, of which only the mark
is kept (`EditCalendar`); of a pushback only that it clears the mark. A week closed is any week.
A season close is one step here (`MatchApproval` has its four). Left out: deleting a season, blanket
schedules that name no teams, seasons from before `season_teams`, and merging or deleting players,
which the rosters' foreign keys or the merge's blockers keep from orphaning rows.

### MatchWeek

The rows of one season's `matches` under everything that edits a schedule in play, and the lineups of
its weeks. Three requests edit the schedule: `Pushback`, `CheckOpenWeeks`, `GetPushbackMatches`,
`ApplyPushback` (the ids are read, and each row still unplayed in the transaction gets its week
incremented); `GenerateSchedule`, `CheckNoClosedWeek`, `CheckNoResults`, `SaveGeneratedSchedule` (the
unplayed rows go, completed ones stay); `AssignMatchTeams`, `GetMatch`, `WriteTeams` (by id). A lineup
is saved and deleted at once; a substitution is found its match (`FindMatchID`, whose query takes any
of several), has its locks checked (`CheckEditable`) and the player looked for in both lineups
(`RejectIfPlayerAlreadyInMatch`), and is written in a transaction that looks at the locks of a match
with scores again (`GuardScoredLineupChange`) and keeps the table's unique index (`Unique`);
`ClearSubstitute` reads the slot once more in the store and makes no such search. Ids never come
again, so a row is named by the insert that made it. `alone` is history: the requests no write of
another client has crossed.

Abstractions. Scores, acceptances, closed weeks and the season's close are one step each, as their
steps are `MatchApproval`'s, and `accepted` is approved or processed. A save of scores is one with a
won game. The three lock reads of a substitution are one step, and so are the read of the match and of
its lineups: `LockedLineupsStand` depends on neither, since the write looks at the locks again, and
`SubstitutesAreNew` is about requests that no write has crossed, for which one step reads what three
read. Whether the season is active is fixed; dates, the season's end and the stale mark are
`SeasonSetup`'s. `LastWeek` keeps a pushback inside the model.

### SeasonRules and Scoring

`ValidateWeekData`, `ValidateRounds` and `saveRounds` for the sheet of one match: what a game must be
(`GameError`), who won it, the handicap spot (`Spot`, in hundredths and rounded as the code rounds),
whether a lead is out of reach (`OutOfReach`), the winner of a pairing and of a round, the handicaps a
row keeps from save to save (`HomeHC`, `AwayHC`), the tallies that become `match_results`, results
submitted without a sheet, and `ComputeStandings` over this match and others. `SeasonRules` is the
write of a rule, which accepts what `ParseFloat` reads, and the reading of it on every save, which
wants more (`Resolves`); a text is its spelling and its number.

The standings count a match once for each side (`Played`), so that a match of a team with itself,
which `AssignMatchTeams` lets be made, counts as it does in the code, where both sides are then one
entry.

Abstractions. One match and one request at a time. Acceptance, which locks a sheet until it is
withdrawn, is left out. Statistics of players, the column of points used and the page's own count of
rounds are displays. Scores are integers as typed.

### Authorization, Accounts and PlayerRecords

`Authorization` is `auth.Authorize`, the score policy and the two scope resolvers, as operators.
`Accounts` runs the middleware on them one statement at a time: a call reads its session
(`ReadSession`), the user (`CheckUser`), slides the idle window (`Touch`), falls back to its key
(`ResolveApplyUserByAPIKey`), reads the roles and asks the policy (`AuthorizeCall`), and then its
handler does its own statements (`Deactivate` and two more, `RevokeActiveTokens` and `CreateToken`,
...). A login is `BeginLogin`, `CheckAccount`, `Rehash` where the hash is weak, `CreateSession` and
`DeleteExpiredForUser`. `Abandon` is a request that ends anywhere. `shut` is history: what the
credentials of a call have lacked at every moment since it began, and `overlapped` the accounts for
which two issues of a token ran at once and none has run alone since; a session that ran out lacks its
time only until a call that read it while it lasted extends it. Passwords are compared, not hashed,
and a token or cookie is named by its row, being random. Time is the clock of the server.

`PlayerRecords` takes an administrator's request from its authorization (`Begin`, for the league the
resolvers find) over its reads to its write. A player's rows are kept by what refers to them: results
of a round, seats, roster, captaincies, approvals, handicap history, payments; foreign keys either
keep the player (`PlayerReferenced`) or cascade (`RemovePlayer`); `teams.captain_id` is none and may
name a player who is gone. `MergePlayers` is the blockers, the repointing of the
eleven columns and the delete in one transaction (`MergeRollsBack` where a key stops it). Deleting a
team and a player are two statements each, and a payment takes the team read before its insert.

Abstractions. Eligibility of a linked player is a set; the static administrator token opens only the
creation of an account. Of a league only its creation is here, in `Accounts`; the delete of a league
and its cascade are left out. The name lookup after the insert of a payment changes nothing. One
season, one match.

### Seeded faults

Some operators are not used by the specification and say "Seeded fault" or "Mistake": each is the operator after
it with a plausible mistake (a dropped guard, a missing reset, an off-by-one). Replacing the operator
by the faulty one must make TLC find the property listed for it in `PROJECT.json` violated, which
shows that the property depends on the code.

## 4. The runs

| Run | Instance | Result |
|---|---|---|
| `approval_concurrent` | 2 clients, 1 match in 1 week, 2 notes, 2 edits; 0.6 million states | holds: `SideNamesCurrentScores`, `AcceptanceMatchesRecord`, `RevisionNamesScores`, `LockedMatchFrozen`, `LedgerSpec` |
| `approval_serial` | 1 client, 2 matches in 2 weeks, 2 edits; 1.3 million states | holds: `ProcessedIsAccepted`, `ClosedWeekIsFinal`, `ClosedSeasonWeeksClosed`, `ClosedSeasonIsFinal` |
| `schedule_generation` | 2 to 6 teams, all types, lengths 4 and 7, up to 2 byes in weeks 1, 3, 6, two skip sets; 0.2 million states | holds: `RoundsSeatEveryTeam`, `EveryPairMeets`, `CompatibleByesPermute`, `CompatibleByesHonoured`, `PanicsOnlyBeyondSchedule`, `EarliestDates`, `EveryPassCounts`, `GenerationEnds` |
| `handicap_apply` | 1 client, 2 players, 2 request ids, 2 requests, 2 changes around them; 1.1 million states | holds: `RecordedWhole`, `ToldIsRecorded`, `AppliedAsReviewed` |
| `season_activation` | 1 administrator, 1 team of the previous season and 2 new ones, 2 players, play in between; 1.6 million states | holds: `OneActiveSeason`, `ActivatedTeamsReady`, `ActivatesFreshSchedule`, `MisfitStaysMarked` |
| `season_byes` | 1 administrator, 3 new teams, 2 byes for week 1 or a week to be decided; 0.25 million states | holds: `OneByeAWeek` |
| `match_week` | 2 clients, 2 teams, 2 weeks, 2 players, six openings; 1.7 million states | holds: `TypeOK`, `CompletedMatchesStay`, `ClosedWeeksKeepMatches`, `SubstitutesAreNew`, `LockedLineupsStand` |
| `scoring` | 2 players a side, 1 round, 2 rules, 3 other matches; 15 thousand states | holds: `TypeOK`, `StandingsShowPlay`, `DecisionsStand` |
| `accounts` | 2 requests in flight of 3, 2 accounts, 2 leagues, 1 session, 2 tokens, 2 ticks of the clock; 1.0 million states | holds: `ServedIsEntitled`, `OneLiveToken`, `RevokedForGood` |
| `players` | 2 administrators, 3 requests, 4 players, 3 teams in 2 leagues; 0.5 million states | holds: `References`, `NobodyTwice`, `MergeKeepsRecords`, `PlayersStayInLeague` |
| `players_merge_payments` | the same, 2 requests | `PaymentsAreHistory` fails |
| `lineup_cleared_twice` | 3 players, one opening of `match_week` | `ClearAddsNobody` fails |

The first run asks what interleaving may do to one match, the second what the order of the stages
guarantees when nothing interleaves; the four properties of the second fail with two clients. The last
two runs show disagreements of the code with its own comments (section 6). Types and
`WeekFlagsAgree`, which are proved, are not checked again by the runs of the first four modules,
nor are types by those of the last two.

Bounds and why they are enough.

* `MaxRevision = 2`: a page can be loaded at one revision, outdated by a second and again by a
  third; a further edit repeats the situation of the second. What is proved is proved of the module
  with its bound `MaxRevision`, for every value of it.
* Two clients: each hazard listed is between one slow request and one that overtakes it. A third
  party can be played by the fast client one operation after the other.
* One match, concurrently: no statement of these services reads one match and writes another, but
  for closing a week or a season, which `approval_serial` does with two.
* Two to six teams: even and odd circles, with and without a bye slot, and the smallest with more
  than one game a week; lengths 4 and 7 stop a cycle before and after its end. Byes in weeks 1, 3
  and 6 lie inside and outside the schedules. Every iteration order of the maps is covered.
* Two changes around a review: a value can change and change back (a review that is stale and looks
  fresh), a player can leave the roster and then be merged into another who stays, and the season
  can be activated and closed. Two requests: a retry under the same id, under a fresh one, and an id
  used for something else.
* One administrator in `SeasonSetup`, with play and the league's other season running in between at
  any step. Setup is the work of one person, and that is what the code gets right: with two, a team
  added while a generation is between its reads and its write, or a captain taken off the roster
  between the check and the write, break `MisfitStaysMarked` and `ActivatedTeamsReady`, and the
  hazards of `PROJECT.json` say where. `TypeOK` and `OneActiveSeason` are proved for any number.
* Three teams: with two a generation has one possible plan, with three the teams of an old and of a
  new schedule differ; an even and an odd number play, and byes need an odd one. Two byes for one
  week are the smallest conflict, week 0 a bye whose week is open. Two players: one with a team and
  one to replace them as captain.
* `match_week`: what a client asks for is fixed by the opening, so that each pair of requests that can
  meet at the same rows meets: a generation and a pushback, the three edits in every order by one
  client, substitutions among one match of the week, two matches or none, and a pushback that brings a
  match into the week of a lineup. Two weeks are one before and one after a shift; one generation in
  play replaces the opening's rows.
* `scoring`: the sheets hold every stage of a pairing that one side wins early, at the end or by games,
  an impossible game and one left open; only one visiting player is rated anew, which makes a spot of
  four or of ten balls around a threshold of five. One round, since only tallies and the validation of
  a week sum over rounds. `Ambiguous`, which needs three home players, is not reached.
* `accounts`: three requests are an administrator's change and two others around it, or a login, its
  call and a change between them; a session is idle for one tick and lasts two, so that it can run out
  and be extended or not. Any two of them may be issues of a setup token, one that ends before the
  next begins; the first two may overlap, by one administrator or by two, and the third then issue
  alone. `FewAdministrators` keeps the third from overlapping another administrative call, which halves
  the states; the proofs have no such bound. Two accounts make calls with different rights.
  Leagues and clients are interchangeable.
* `players`: three requests are a check, what overtakes it, and what it leaves behind; the openings
  differ in who the merged players meet (rounds, lineups, rosters), in which ids are free, and one has
  two rows in the round, so that a merge can make somebody play in both of them and not only against
  themself.

Symmetry is used where the sets are interchangeable model values (clients, notes, players, request
ids, leagues), never in a run with a liveness property. Deadlock is checked in the runs of
`MatchApproval`, `HandicapApply`, `SeasonSetup` and `Scoring`. It is not where the system of the model
really stops: a finished computation does nothing more, and `Accounts`, `PlayerRecords` and
`MatchWeek` may use up their bounds with every request done.

Fairness. Only `ScheduleGeneration` has any: `WF_vars(Next)`, because it is a sequential computation
inside one request, which goes on as long as the server runs. The other modules have none: any request
may be abandoned, and nothing in the program retries, so nothing there must eventually happen.

## 5. What is proved

`MatchApproval_proofs` proves, for all sets of matches, weeks, clients and notes, from the three
assumptions of the module (`WeekOf` maps matches to weeks, `NoNote` is not a note, `MaxRevision` is a
natural number):

* `TypeCorrect`: `Spec => []TypeOK`.
* `SidesCorrect`, `AcceptanceCorrect`, `RevisionsCorrect`: three invariants of `approval_concurrent`;
  and `WeekFlagsCorrect`, that the two records of a closed week agree.
* `LockedFrozen`: `Spec => LockedMatchFrozen`.
* `ImplementsLedger`: `Spec => LedgerSpec`.

The inductive invariant is `IInv == TypeOK /\ SafetyInv`, where `SafetyInv` is
`SideNamesCurrentScores /\ AcceptanceMatchesRecord /\ WeekFlagsAgree /\ PagesInv`. Three of the
invariants are inductive once types are known. `RevisionNamesScores` is not: a page is read in two
requests, and its second read gives a page that names its scores only if the revision of the first
was not ahead of the match. `PagesInv` adds that (`OpeningIsBehind`). The proof has a lemma for each
group of actions that says what the group may change (`ScoreEntryForm`, `TeamActionForm`,
`AdministrationFrame` and so on), and for each conjunct a lemma that uses those. Refinement then needs
of each step that it is a step of the ledger: an edit or a statement is made on an editable match,
which `AcceptanceMatchesRecord` makes an undecided one (`EditableIsUndecided`); an acceptance writes
the type the ledger decides because the write pins the revision and both sides it was computed from
(`AcceptRefines`).

The last part of the module proves the four properties of `approval_serial` for a single client
(`Alone`) and any number of matches, weeks, notes and edits. `SerialInv` is their conjunction with
`ChecksHold`: what a request in flight has checked (`RelyOn`) is still so when it writes, as nobody
else could change it. It is inductive only beside the `IInv` above, which says that an approved match
is completed, and so cannot be edited under a closed week. For two clients `ChecksHold` is false, and
so are the four properties.

`ScheduleGeneration_proofs` proves, for every number of teams, schedule type, length, set of bye
requests and calendar, from the assumptions that teams are at least two, lengths and weeks positive,
dates counted from the start, and requests and skipped dates, being rows of the database, finite:

* `TypeCorrect` and `RoundsCorrect`: the types, and that every week seats everybody once. The
  inductive part is `SeatsInv` (everybody has one seat of the circle, and the bye slot has one if the
  number is odd): `RoundIsGood` derives a round from it, `SeatsTurn` keeps it, and `EntriesAreGood`
  shows that reversing, doubling and cycling rounds gives rounds.
* `PermuteCorrect`, `HonouredCorrect`, `PanicsCorrect`: the properties of bye requests. `ByesInv` says
  that natural byes are byes, `ClaimInv` that what is claimed was claimed by the request for that
  week, `PairInv` that what is left to come from and to go to are equally many. A round leaves at
  most one team out (`OneSitsOut`), so requests of different teams never claim the same week; an
  injection from the claimed weeks to the requests in one direction, and in the other one from the
  requests to the weeks, gives the count (`BeginPairingByes`).
* `DatesCorrect`: as many dates as played days so far is inductive with `EarliestDates`.
* `PairsCorrect`: every pair meets as often as the schedule type promises. The seats after any number
  of turns have a closed form (`Circle`), in which two seats are opposite exactly if their places add
  up to the number of rounds, which happens in one round of each cycle (`OppositeOnce`).
  `RoundsTurned` says so of the rounds played so far, and `Fixtures` of the entries built from them;
  the weeks of a custom schedule are counted by their remainders (`TurnsEvenly`). The few facts about
  remainders this needs are stated once (`RemainderOf`, `RemainderMoves`).
* `ProgressCorrect`: `Spec => EveryPassCounts`. A step begins a later loop, or lowers `PassesLeft`, a
  natural number, within the running one; the loop over the calendar adds no week on a date passed
  over, but then fewer such dates are ahead. `CountInv` says that what is counted is finite and that
  no date is assigned beyond the last week, which needs a finite set of weeks to have a last one
  (`MaxIsMost`). So no generation has infinitely many steps, and of `GenerationEnds` only the use of
  fairness is left to TLC.

`HandicapApply_proofs` proves, for all sets of players, clients and request ids, with the assumptions
that the implied handicap of every window, capped by any rules, is a handicap, and that the id of
"no request" is none of the request ids:

* `TypeCorrect`, and the three properties of `handicap_apply`: `RecordedCorrect`, `ToldCorrect`,
  `AppliedCorrect`.

The inductive invariant is `TypeOK /\ RequestsInv /\ RecordedWhole /\ ToldIsRecorded`, where
`RequestsInv` says that what is served, and what a client is told of, was sent. A step that changes
the history either writes all rows of a request under an id without rows or moves rows in a merge
(`HistorySteps`), and a merge changes no token (`MovedRow`, `TokensKept`).

`SeasonSetup_proofs` proves, from the assumptions that the previous season's teams are teams, its
rosters and captains players, and the markers for no row are no rows:

* `TypeCorrect` and `OneActiveCorrect`, for any number of administrators. `Typed` adds to `TypeOK` that
  the teams of the previous season stay: without it, adding one could refer to a deleted row.
* `ReadyCorrect`, `FreshCorrect`, `MisfitCorrect` and `OneByeCorrect`, the other properties of
  `season_activation` and that of `season_byes`, for a single administrator (`Alone`) among any number
  of teams, players, weeks and byes. Each rests on what a request relies on between its reads and its
  write: `RequestsRely` (a change of the teams is one of a draft, and what the checklist saw is still
  so), `ApprovalsRely` (an approval has no conflict) and `GenerationsRely` (what was read is what the
  season has). These fail for two administrators, which is where the hazards are; that one bye of a
  week is approved is in turn why the map of byes a generation loads drops none of them
  (`AllByesAreLoaded`).

`MatchWeek_proofs` proves, for all sets of clients, teams, weeks, players and openings, from the
assumptions that a schedule fills each slot once, that shifts go forward, that teams are assigned in
pairs and that the bounds are natural numbers:

* `TypeCorrect`: the types, and with them the keys of the two tables. What makes it inductive is that
  the id of a row names an insert already made, so that those of the next insert are new.
* `CompletedCorrect`: `Spec => CompletedMatchesStay`. Pushback, assignment and play change rows in
  place (`InPlace`), and a generation deletes rows that are not completed at that very statement: of
  each action it is shown that it keeps `IInv` and the completed rows where they are (`Kept`).
* `ClosedWeeksCorrect`, `SubstitutesCorrect`, `LineupsCorrect`: what the code gets right when no write
  of another client crosses a request. `AloneFits` says what each request of `alone` has checked and
  still relies on (`Fit`): that no week from its cutoff on is closed and the rows it read are there,
  that the match found for a substitution is the team's, that its player is free. The locks of a match
  with scores need no history, since the transaction reads them again.

`Scoring_proofs` proves, for all players, rounds, scores, handicaps, rules, teams, other matches and
re-saves, from the assumptions that players play for one side, scores and handicaps are integers, the
two sides of the match are different teams, results count in natural numbers, and tables are finite:

* `DecidedPairingsStand`: `Spec => DecisionsStand`. The home player of a row is the only one of that
  name in the round (`OnceAtHome`), so a later save of the pairing finds the handicaps saved with it,
  and with unchanged rules the same spot (`SameSpot`); a lead that was out of reach exceeds ten balls
  for every game still to play, and a later save that keeps what was played adds at most that
  (`DecisionKept`).
* `TypeCorrect`: among the types, that no saved game is impossible, and that tallies are natural
  numbers, as a sheet has at most one row for a round and a home player (`SheetsAreFinite`).
* `StandingsCorrect`: `Spec => []StandingsShowPlay`. `PlayInv` says that the results of a completed
  match that were not submitted by hand are those of its sheet (`SheetCounted`), whatever the rules
  have become since, and that a week is closed over a winner. The rest is about sums. A sum over a
  finite set is a fold, which is defined by recursion, and there is no induction to use: `TotalCounts`
  shows that counting pairs satisfies the equation of the fold, and that a least set on which two
  solutions differ cannot exist. Sums are cardinalities then, and a bijection shows that they can be
  taken group by group (`TotalByGroups`): games by player (`TalliesShowSheet`), points by team and by
  match (`PointsOfMatches`), wins by team (`OutcomesOfMatches`).

`Accounts_proofs` proves, for all sets of accounts, leagues, passwords, sessions, tokens and clients
and all lifetimes, from the assumptions that the founder is an account that plays for nobody, that
linked players are players, that the markers for no row are no rows, and that times and bounds are
natural numbers:

* `TypeCorrect`. `Typed` adds to the types that rows belong to accounts there are (`Owned`) and that
  what a request carries names rows (`RequestsName`).
* `RevokedCorrect`: `Spec => RevokedForGood`, since no step makes an id that was used unused again.
* `OneTokenCorrect`: `Spec => []OneLiveToken`, for any number of administrators. For an account that is
  not in `overlapped`, `TokensInv` says that one issue at most is between its two statements
  (`OneIssue`), that the account has no live token then (`IssueIsFirst`) and one at most otherwise
  (`OneLive`). The first statement of an issue revokes every live token, those that an overlap left
  included, so an issue that begins alone takes its account out of `overlapped`; without the history
  the property is false, which is the race of two issuers in section 6.
* `EntitledCorrect`: `Spec => []ServedIsEntitled`. `HistoryTrue` says that what a call's history has it
  lacking it still lacks, and that what the call was found to have is not in its history. The first
  attempt at this proof failed for a good reason: with longer lifetimes than TLC was given, a session
  can run out between its read and `Touch`, which extends it all the same, and a call that began while
  it had run out is served while the history still had the session as dead. That is what the
  middleware does; the history now ends the lack where the session lives again, and the run has
  lifetimes at which this happens.

`PlayerRecords_proofs` proves, for all sets of players, teams, leagues, administrators and openings,
from the assumptions that the tables of an opening refer to rows there are and have their keys, that
tables are finite and that each client is one account:

* `ReferencesCorrect`: `Spec => []References`, that no row refers to a player or team that is gone, and
  with it `TypeCorrect`. `Typed` adds to the types and the keys what a request has found (`Found`). A
  write that finds its rows gone fails, and a delete finds no row that names its player, or removes
  it; a merge into a player deleted meanwhile goes through only if the source has nothing to move
  (`TargetThere`).
* `NobodyTwiceCorrect`: `OnceAtStart /\ Spec => []NobodyTwice`. A merge makes two players one, and its
  blockers refuse two who play in one round; the theorem is about openings in which nobody plays
  twice, which the validation of a week asks for and the insert of a row does not.
* `LeaguesCorrect`: `Spec => PlayersStayInLeague`.
* `MergeCorrect`: `Spec => MergeKeepsRecords`. The rows before and after a merge are as many because
  moving them is a bijection: rows that differed still do, or the merge is blocked or rolls back.

Only model-checked: `GenerationEnds`, beyond what `ProgressCorrect` says of it, and the absence of
deadlock, since liveness under fairness and `ENABLED` are out of the prover's reach. Only proved, and
left out of the runs: the type invariants of `MatchApproval`, `ScheduleGeneration`, `HandicapApply`,
`SeasonSetup`, `Accounts` and `PlayerRecords`.

## 6. Findings

Two runs show the code doing what a comment beside it excludes:

* **A merge deletes payments** (`players_merge_payments`, `PaymentsAreHistory`). `MergePlayers`
  repoints eleven references and then deletes the source player; `dues_payments` is not among them and
  its key cascades, so the payments of the source are gone. `db/db.go` calls the table append-only
  history, and `doc/domains/players/README.md` says that every reference is repointed.
* **Clearing a substitute can seat a player twice** (`lineup_cleared_twice`, `ClearAddsNobody`).
  `ClearSubstitute` puts the replaced player back without looking for them in the other lineup,
  because that "cannot introduce a new duplicate"; while they were replaced the other team could seat
  them.

Other disagreements and weak places met while reading and modelling. The models contain the code that
does these things unless the line says otherwise; no run is spent on them.

* *Approval.* `UnapproveMatch` writes by id after its checks, and a week close in between leaves a match
  processed and not accepted. `ReopenWeek` asks for the season first and writes later, and a season
  close in between leaves a closed season with an open week. The state sent after a team action is
  read after the write, and the page keeps the scores it had: it then holds the revision of scores it
  does not show.
* *Weeks and schedules.* Approved byes of one team in two weeks leave one week with two rounds and one
  with none. `Activate` does not ask whether the season is closed. A week without matches closes
  (a test expects it), but `ReopenWeek` then answers 404, so that generation and pushback stay refused
  for good, although the generation's answer is documented as: reopen the week.
* *Matches.* A pushback leaves completed matches where they are, and can give a team two matches in a
  week, of which `FindMatchID` takes any; it leaves `lineup_plans` at the old week; and it ignores
  the season's skipped weeks, although `doc/domains/schedules/README.md` says that existing No Play
  dates are honoured. Two pushbacks, or one repeated after a lost answer, add up.
  `AssignMatchTeams` asks only whether the match is completed: the teams of a cleared match in a week
  closed since can change, and a result saved between its check and its write gets other teams. A
  generation that checked before a week was closed adds matches to it. The season of a schedule that
  is not active is regenerated beside its completed matches. `AssignMatchTeams` takes one team for both
  sides, and such a match counts as two that it played. The substitute of a substitute takes the place
  of the first one's name for the original. Saving a lineup and deleting one look at no lock and
  not at the other team.
* *Handicaps.* The review page says "Server error - no handicaps were changed" for every failure it
  does not know, also when the apply has committed.
* *Players.* `DeletePlayer` counts the player's handicap history in one statement and deletes in the
  next, without a transaction: a merge that makes the player the target in between, or an applied
  handicap, gives the player history, which the delete removes by cascade, although the comment on the
  function says that players with history are not deleted. The comment that the delete of a merge "cannot hit a foreign-key restriction" does not
  hold for a player linked to an account: that merge rolls back. Two players who are both in one apply
  request cannot be merged, since the history may have one row for each request and player. A lineup
  row of the target as substitute for the source becomes one of a player for themselves.
* *Accounts.* A login that read the account as active creates its session after `Deactivate` revoked
  them all, and it works again after `Reactivate`. A login with the old password that rehashes it can
  overwrite the password a setup token has just set. Two issues of a token for one account
  that overlap leave two that can be used, until the next issue.
* *Scoring.* `ValidateValue` accepts texts as `2.0` and `NaN` for rules that `ResolveRoundConfig` then
  refuses: every save of scores and close of a week fails until the rule is corrected. `handicap_pts_used`
  and `handicap_to` of a row are computed without the threshold, the early stop and the tie on games
  that `doc/domains/rules/README.md` describes, and are shown. `ClearResults` leaves `round_results`,
  so a week closes over a match that counts for nothing, and saving a sheet of blank games leaves a
  match completed without results. Saving a sheet again computes its spots with the multiplier of the
  day, and two players who swapped opponents meet with the visiting players' handicaps of the day.
  Teams equal in points and wins are ordered by the iteration of a map and an unstable sort. Outside
  the model: the page counts a round as won by whoever has more pairings, where
  `doc/domains/matches/README.md` asks for two of them, and season statistics leave out a player who
  appears in a lineup only.

## 7. Not modelled, and why

* Start-up, migrations and backup: migrations run alone before the server listens, the one rebuild of
  a table in a single transaction, and a backup copies the database file, below the level of these
  models.
* Routing and wiring, rendering, the web interface beyond the pages named above, and the deployment
  scripts keep no state that the services depend on. The match page is modelled as far as what it
  remembers decides a later request.
* The delete of a league or of a season, each one cascade in one transaction.
* The configuration of dues, the summaries of money and the statistics of players: single statements
  that write one row or only read.
* The static administrator token, apart from the creation of the first account.
* What two administrators can do to one season's setup is not a run: the properties fail, the code
  promises nothing else, and the hazards list the places.

## 8. Plan

Done, in this order: `MatchApproval` with `ScoreLedger`, `ScheduleGeneration`, `HandicapApply`,
`SeasonSetup`, each with proofs; `MatchWeek`, which has the rows of matches together with lineups,
since a substitution finds its match by them; `SeasonRules` and `Scoring`; `Authorization`, `Accounts`
and `PlayerRecords`; the serial invariants of `MatchApproval`; proofs of every safety property of the
runs, `EveryPairMeets`, `StandingsShowPlay` and `EveryPassCounts` being the last.

Left, the most valuable first:

1. The delete of a league and of a season, as cascades over `PlayerRecords` and `SeasonSetup`.
