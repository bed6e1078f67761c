----------------------------- MODULE MatchApproval -----------------------------
(***************************************************************************)
(* Score entry, team approval, administrator acceptance, processing, week  *)
(* close and season close for the matches of one activated season:         *)
(* RoundService, WeekService and the close half of SeasonService, over the *)
(* SQLite stores they write through.                                       *)
(*                                                                         *)
(* One action is one database transaction, or one read whose result the    *)
(* request acts on later.  A request that reads before it writes is        *)
(* therefore several actions, and requests of different clients interleave *)
(* between them as they do in the server, where every request runs in its  *)
(* own goroutine and no lock spans two store calls.                        *)
(***************************************************************************)
EXTENDS Integers

CONSTANTS
    Matches,      \* the season's scheduled matches, both teams assigned
    Weeks,        \* week numbers
    WeekOf,       \* matches.week_number
    Clients,      \* browsers: players, captains, administrators
    Notes,        \* correction notes a team may leave
    NoNote,       \* the empty correction note
    MaxRevision   \* bound of the model: score edits per match

ASSUME WeekOfAssumption == WeekOf \in [Matches -> Weeks]
ASSUME NoteAssumption == NoNote \notin Notes
ASSUME RevisionAssumption == MaxRevision \in Nat

VARIABLES
    scoreRevision,   \* matches.score_revision
    completed,       \* matches.completed
    gameWon,         \* some saved game of the match's round_results has a 10
    side,            \* matches.<side>_approval_state, _state_score_revision, _correction_note
    approved,        \* matches.approved_at IS NOT NULL
    processed,       \* matches.processed_at IS NOT NULL
    weekClosed,      \* matches.week_closed
    acceptance,      \* the row of match_approval_events that records the
                     \* standing acceptance (older rows stay in the table)
    weekStatus,      \* league_weeks.status
    seasonClosed,    \* seasons.closed_at IS NOT NULL
    finalStandings,  \* seasons.final_standings_snapshot
    request          \* the page or the unfinished request of each client

scoreVars == <<scoreRevision, completed, gameWon, side>>
verdictVars == <<approved, acceptance>>
weekVars == <<weekClosed, weekStatus>>
seasonVars == <<seasonClosed, finalStandings>>
vars == <<scoreVars, verdictVars, processed, weekVars, seasonVars, request>>

Sides == {"home", "away"}
NoRev == -1          \* SQL NULL where a score revision is stored
ScheduledWeeks == {WeekOf[m] : m \in Matches}
MatchesOf(w) == {m \in Matches : WeekOf[m] = w}

Pending == [state |-> "pending", revision |-> NoRev, note |-> NoNote]
Approval(n) == [state |-> "approved", revision |-> n, note |-> NoNote]
Correction(n, note) ==
    [state |-> "correction_requested", revision |-> n, note |-> note]

\* WithdrawTeamApproval resets every column of the side.
Withdrawn(old) == Pending

SideState ==
    {Pending} \cup [state : {"approved"}, revision : Nat, note : {NoNote}]
              \cup [state : {"correction_requested"}, revision : Nat, note : Notes]

\* What match_approval_events keeps of a side.
Snapshot(s) == [state |-> s.state, note |-> s.note]
SideSnapshot == [state : {"pending", "approved"}, note : {NoNote}]
                  \cup [state : {"correction_requested"}, note : Notes]
NoAcceptance == [type |-> "none"]
Acceptance ==
    {NoAcceptance} \cup
    [type : {"admin_accepted", "admin_override"}, revision : Nat,
     sides : [Sides -> SideSnapshot]]

-----------------------------------------------------------------------------
(* Requests.  A client looks at a match and keeps the page; a handler that  *)
(* reads, checks and then writes keeps what it read and the step it is at.  *)

Idle == [op |-> "idle"]
Steps == {"season", "week", "write"}
OpeningRequest == [op : {"opening"}, match : Matches, revision : Nat]
PageRequest == [op : {"page", "panel"}, match : Matches, revision : Nat,
                won : BOOLEAN]
SpokenRequest == [op : {"spoken"}, match : Matches, won : BOOLEAN]
AcceptRequest == [op : {"accept"}, step : Steps, match : Matches,
                  revision : Nat, sides : [Sides -> SideState]]
MatchRequest == [op : {"process", "unapprove", "unprocess"}, step : Steps,
                 match : Matches]
WeekRequest == [op : {"closeWeek", "reopenWeek"}, step : {"check", "write"},
                week : Weeks]
SeasonRequest == [op : {"closeSeason"}, step : {"read", "check", "write"},
                  standings : [Matches -> Nat \cup {NoRev}]]
ReopenRequest == [op : {"reopenSeason"}]
Request == {Idle} \cup OpeningRequest \cup PageRequest \cup SpokenRequest
             \cup AcceptRequest \cup MatchRequest \cup WeekRequest
             \cup SeasonRequest \cup ReopenRequest

Continue(c, r) == request' = [request EXCEPT ![c] = r]
Finish(c) == Continue(c, Idle)
At(c, op, step) == request[c].op = op /\ request[c].step = step
NextStep(c, step) == Continue(c, [request[c] EXCEPT !.step = step])

\* The revision on the client's page of this match is the current one.
PageIsCurrent(c, m) ==
    /\ request[c].op \in {"page", "panel"}
    /\ request[c].match = m
    /\ request[c].revision = scoreRevision[m]

\* A player must send the revision of the page; the administrator may omit it.
MayWriteScores(c, m) == request[c] = Idle \/ PageIsCurrent(c, m)

Init ==
    /\ scoreRevision = [m \in Matches |-> 0]
    /\ completed = [m \in Matches |-> FALSE]
    /\ gameWon = [m \in Matches |-> FALSE]
    /\ side = [m \in Matches |-> [s \in Sides |-> Pending]]
    /\ approved = [m \in Matches |-> FALSE]
    /\ processed = [m \in Matches |-> FALSE]
    /\ weekClosed = [m \in Matches |-> FALSE]
    /\ acceptance = [m \in Matches |-> NoAcceptance]
    /\ weekStatus = [w \in Weeks |-> "open"]
    /\ seasonClosed = FALSE
    /\ finalStandings = [m \in Matches |-> NoRev]
    /\ request = [c \in Clients |-> Idle]

\* The browser fetches the approval state first and the scores afterwards.
OpenPage(c, m) ==
    /\ request[c] = Idle
    /\ Continue(c, [op |-> "opening", match |-> m, revision |-> scoreRevision[m]])
    /\ UNCHANGED <<scoreVars, verdictVars, processed, weekVars, seasonVars>>

LoadRounds(c) ==
    /\ request[c].op = "opening"
    /\ Continue(c, [op |-> "page", match |-> request[c].match,
                    revision |-> request[c].revision,
                    won |-> gameWon[request[c].match]])
    /\ UNCHANGED <<scoreVars, verdictVars, processed, weekVars, seasonVars>>

\* After a team action the server reads the approval state again and the page
\* shows it in its approval panel, beside the scores it already shows.
RefreshPanel(c) ==
    /\ request[c].op = "spoken"
    /\ Continue(c, [op |-> "panel", match |-> request[c].match,
                    revision |-> scoreRevision[request[c].match],
                    won |-> request[c].won])
    /\ UNCHANGED <<scoreVars, verdictVars, processed, weekVars, seasonVars>>

\* The request fails: a check rejects it, SQLite is busy, the client or the
\* server goes away.  Transactions roll back, so nothing but the request is lost.
Abort(c) ==
    /\ request[c] # Idle
    /\ Finish(c)
    /\ UNCHANGED <<scoreVars, verdictVars, processed, weekVars, seasonVars>>

-----------------------------------------------------------------------------
(* Score edits: one transaction whose first statement is the guarded UPDATE. *)

\* Seeded faults: a lock forgotten in the WHERE clause.
EditableIfProcessed(m) == ~approved[m] /\ ~weekClosed[m] /\ ~seasonClosed
\* matchStillEditableSQL
Editable(m) ==
    /\ ~approved[m]
    /\ ~processed[m]
    /\ ~weekClosed[m]
    /\ ~seasonClosed

\* Seeded faults: approvals survive the edit; the revision does not advance.
EditKeepingApprovals(m) ==
    /\ Editable(m)
    /\ scoreRevision[m] < MaxRevision
    /\ scoreRevision' = [scoreRevision EXCEPT ![m] = @ + 1]
    /\ UNCHANGED side
EditKeepingRevision(m) ==
    /\ Editable(m)
    /\ side' = [side EXCEPT ![m] = [s \in Sides |-> Pending]]
    /\ UNCHANGED scoreRevision
\* The guarded revision advance; a side that is not pending is cleared.
AdvanceScoreRevision(m) ==
    /\ Editable(m)
    /\ scoreRevision[m] < MaxRevision
    /\ scoreRevision' = [scoreRevision EXCEPT ![m] = @ + 1]
    /\ side' = [side EXCEPT ![m] =
                  [s \in Sides |-> IF @[s].state = "pending" THEN @[s] ELSE Pending]]

\* Replaces the round results; completed is only ever raised, by a won game.
SaveRounds(c, m, won) ==
    /\ MayWriteScores(c, m)
    /\ AdvanceScoreRevision(m)
    /\ gameWon' = [gameWon EXCEPT ![m] = won]
    /\ completed' = [completed EXCEPT ![m] = @ \/ won]
    /\ Finish(c)
    /\ UNCHANGED <<verdictVars, processed, weekVars, seasonVars>>

\* Replaces the per-player match_results only; the round results stay.
SubmitResults(c, m) ==
    /\ MayWriteScores(c, m)
    /\ AdvanceScoreRevision(m)
    /\ completed' = [completed EXCEPT ![m] = TRUE]
    /\ Finish(c)
    /\ UNCHANGED <<gameWon, verdictVars, processed, weekVars, seasonVars>>

\* Deletes the per-player match_results only; the round results stay.
ClearResults(c, m) ==
    /\ MayWriteScores(c, m)
    /\ AdvanceScoreRevision(m)
    /\ completed' = [completed EXCEPT ![m] = FALSE]
    /\ Finish(c)
    /\ UNCHANGED <<gameWon, verdictVars, processed, weekVars, seasonVars>>

\* SetSubstitute and ClearSubstitute in the lineup of a match with scores.
SubstituteChange(c, m) ==
    /\ request[c] = Idle
    /\ completed[m]
    /\ AdvanceScoreRevision(m)
    /\ UNCHANGED <<completed, gameWon, verdictVars, processed, weekVars,
                   seasonVars, request>>

-----------------------------------------------------------------------------
(* What a team says of the scores: one conditional UPDATE. *)

\* Seeded fault: the row is matched by its revision alone.
TeamMayActOnRevision(c, m) == PageIsCurrent(c, m)
TeamMayAct(c, m) == PageIsCurrent(c, m) /\ Editable(m)

AwaitSnapshot(c, m) ==
    Continue(c, [op |-> "spoken", match |-> m, won |-> request[c].won])
SetSide(c, m, s, statement) ==
    /\ side' = [side EXCEPT ![m][s] = statement]
    /\ AwaitSnapshot(c, m)
    /\ UNCHANGED <<scoreRevision, completed, gameWon, verdictVars, processed,
                   weekVars, seasonVars>>

ApproveTeamSide(c, m, s) ==
    /\ TeamMayAct(c, m)
    /\ completed[m]
    /\ SetSide(c, m, s, Approval(request[c].revision))

WithdrawTeamApproval(c, m, s) ==
    /\ TeamMayAct(c, m)
    /\ side[m][s].state = "approved"
    /\ SetSide(c, m, s, Withdrawn(side[m][s]))

RequestCorrection(c, m, s, note) ==
    /\ TeamMayAct(c, m)
    /\ completed[m]
    /\ SetSide(c, m, s, Correction(request[c].revision, note))

-----------------------------------------------------------------------------
(* The administrator on one match: read the match row, look at the season,  *)
(* look at the week, write.  Every condition on the match row is one on the *)
(* row as first read, so it is a guard of the read.                         *)

BothApproved(sides, n) ==
    \A s \in Sides : sides[s].state = "approved" /\ sides[s].revision = n

ReadForAccept(c, m) ==
    /\ PageIsCurrent(c, m)
    /\ completed[m] /\ ~processed[m] /\ ~approved[m]
    /\ Continue(c, [op |-> "accept", step |-> "season", match |-> m,
                    revision |-> scoreRevision[m], sides |-> side[m]])
    /\ UNCHANGED <<scoreVars, verdictVars, processed, weekVars, seasonVars>>

\* Seeded fault: a processed match may be unapproved.
ReadWithoutProcessedCheck(c, m, op) ==
    /\ request[c] = Idle
    /\ op = "process" => approved[m]
    /\ Continue(c, [op |-> op, step |-> "season", match |-> m])
    /\ UNCHANGED <<scoreVars, verdictVars, processed, weekVars, seasonVars>>
\* ProcessMatch needs an approved match, UnapproveMatch one not processed.
ReadForVerdict(c, m, op) ==
    /\ request[c] = Idle
    /\ op = "process" => approved[m]
    /\ op = "unapprove" => ~processed[m]
    /\ Continue(c, [op |-> op, step |-> "season", match |-> m])
    /\ UNCHANGED <<scoreVars, verdictVars, processed, weekVars, seasonVars>>

CheckSeasonOpen(c) ==
    /\ \E op \in {"accept", "process", "unapprove", "unprocess"} : At(c, op, "season")
    /\ ~seasonClosed
    /\ NextStep(c, "week")
    /\ UNCHANGED <<scoreVars, verdictVars, processed, weekVars, seasonVars>>

CheckWeekOpen(c) ==
    /\ \E op \in {"accept", "process", "unapprove", "unprocess"} : At(c, op, "week")
    /\ ~weekClosed[request[c].match]
    /\ NextStep(c, "write")
    /\ UNCHANGED <<scoreVars, verdictVars, processed, weekVars, seasonVars>>

\* Seeded fault: the write pins the revision but not what the teams said.
StillAsReadButSides(r) ==
    /\ scoreRevision[r.match] = r.revision
    /\ completed[r.match]
    /\ Editable(r.match)
\* GuardedAdminAccept pins the revision and both complete sides.
StillAsRead(r) ==
    /\ scoreRevision[r.match] = r.revision
    /\ completed[r.match]
    /\ side[r.match] = r.sides
    /\ Editable(r.match)

\* The write and its event, from the values that were read.  Without the
\* override flag the request is rejected unless both teams approved.
AdminAccept(c) ==
    /\ At(c, "accept", "write")
    /\ StillAsRead(request[c])
    /\ LET r == request[c] IN
       /\ approved' = [approved EXCEPT ![r.match] = TRUE]
       /\ acceptance' = [acceptance EXCEPT ![r.match] =
            [type |-> IF BothApproved(r.sides, r.revision)
                      THEN "admin_accepted" ELSE "admin_override",
             revision |-> r.revision,
             sides |-> [s \in Sides |-> Snapshot(r.sides[s])]]]
    /\ Finish(c)
    /\ UNCHANGED <<scoreVars, processed, weekVars, seasonVars>>

\* The three other writes name the match and nothing else.  The event of an
\* acceptance that is taken back stays in the log and stands for nothing.
ProcessMatch(c) ==
    /\ At(c, "process", "write")
    /\ processed' = [processed EXCEPT ![request[c].match] = TRUE]
    /\ Finish(c)
    /\ UNCHANGED <<scoreVars, verdictVars, weekVars, seasonVars>>

UnapproveMatch(c) ==
    /\ At(c, "unapprove", "write")
    /\ approved' = [approved EXCEPT ![request[c].match] = FALSE]
    /\ acceptance' = [acceptance EXCEPT ![request[c].match] = NoAcceptance]
    /\ Finish(c)
    /\ UNCHANGED <<scoreVars, processed, weekVars, seasonVars>>

UnprocessMatch(c) ==
    /\ At(c, "unprocess", "write")
    /\ processed' = [processed EXCEPT ![request[c].match] = FALSE]
    /\ Finish(c)
    /\ UNCHANGED <<scoreVars, verdictVars, weekVars, seasonVars>>

-----------------------------------------------------------------------------
(* Weeks.  The season is activated, so the draft check always passes.  An   *)
(* unacknowledged warning rejects the request.                              *)

BeginCloseWeek(c, w) ==
    /\ request[c] = Idle
    /\ ~seasonClosed
    /\ Continue(c, [op |-> "closeWeek", step |-> "check", week |-> w])
    /\ UNCHANGED <<scoreVars, verdictVars, processed, weekVars, seasonVars>>

\* Every match of the week has a won game in its saved rounds.
ValidateWeek(c) ==
    /\ At(c, "closeWeek", "check")
    /\ \A m \in MatchesOf(request[c].week) : gameWon[m]
    /\ NextStep(c, "write")
    /\ UNCHANGED <<scoreVars, verdictVars, processed, weekVars, seasonVars>>

\* Seeded fault: closing the week processes nothing.
ProcessedWithoutClose(w) == processed
\* Closing the week processes its completed, approved matches.
ProcessedByClose(w) ==
    [m \in Matches |-> \/ processed[m]
                       \/ m \in MatchesOf(w) /\ completed[m] /\ approved[m]]

CloseWeek(c) ==
    /\ At(c, "closeWeek", "write")
    /\ LET w == request[c].week IN
       /\ weekStatus' = [weekStatus EXCEPT ![w] = "closed"]
       /\ weekClosed' = [m \in Matches |-> weekClosed[m] \/ m \in MatchesOf(w)]
       /\ processed' = ProcessedByClose(w)
    /\ Finish(c)
    /\ UNCHANGED <<scoreVars, verdictVars, seasonVars>>

\* Seeded fault: the weeks of a closed season may be reopened.
ReopenInClosedSeason(c, w) ==
    /\ request[c] = Idle
    /\ w \in ScheduledWeeks
    /\ Continue(c, [op |-> "reopenWeek", step |-> "check", week |-> w])
    /\ UNCHANGED <<scoreVars, verdictVars, processed, weekVars, seasonVars>>
BeginReopenWeek(c, w) ==
    /\ request[c] = Idle
    /\ w \in ScheduledWeeks
    /\ ~seasonClosed
    /\ Continue(c, [op |-> "reopenWeek", step |-> "check", week |-> w])
    /\ UNCHANGED <<scoreVars, verdictVars, processed, weekVars, seasonVars>>

CheckWeekStatus(c) ==
    /\ At(c, "reopenWeek", "check")
    /\ weekStatus[request[c].week] = "closed"
    /\ NextStep(c, "write")
    /\ UNCHANGED <<scoreVars, verdictVars, processed, weekVars, seasonVars>>

OpenedMatches(w) == [m \in Matches |-> weekClosed[m] /\ m \notin MatchesOf(w)]

ReopenWeek(c) ==
    /\ At(c, "reopenWeek", "write")
    /\ LET w == request[c].week IN
       /\ weekStatus' = [weekStatus EXCEPT ![w] = "open"]
       /\ weekClosed' = OpenedMatches(w)
    /\ Finish(c)
    /\ UNCHANGED <<scoreVars, verdictVars, processed, seasonVars>>

-----------------------------------------------------------------------------
(* Closing the season: list the weeks, compute the standings, read the       *)
(* season row, write.  An unclosed week found in the list is a blocker.      *)

\* Seeded fault: the list of weeks is not looked at.
NoBlockers == TRUE
\* No unclosed week among the season's scheduled weeks.
AllWeeksClosed == \A w \in ScheduledWeeks : weekStatus[w] = "closed"

\* Standings count the completed matches of closed weeks.
OfficialResults ==
    [m \in Matches |-> IF completed[m] /\ weekClosed[m] THEN scoreRevision[m]
                                                         ELSE NoRev]

ListWeeks(c) ==
    /\ request[c] = Idle
    /\ AllWeeksClosed
    /\ Continue(c, [op |-> "closeSeason", step |-> "read",
                    standings |-> [m \in Matches |-> NoRev]])
    /\ UNCHANGED <<scoreVars, verdictVars, processed, weekVars, seasonVars>>

GetStandings(c) ==
    /\ At(c, "closeSeason", "read")
    /\ Continue(c, [op |-> "closeSeason", step |-> "check",
                    standings |-> OfficialResults])
    /\ UNCHANGED <<scoreVars, verdictVars, processed, weekVars, seasonVars>>

CheckSeasonCloseable(c) ==
    /\ At(c, "closeSeason", "check")
    /\ ~seasonClosed
    /\ Matches # {}
    /\ NextStep(c, "write")
    /\ UNCHANGED <<scoreVars, verdictVars, processed, weekVars, seasonVars>>

CloseSeason(c) ==
    /\ At(c, "closeSeason", "write")
    /\ seasonClosed' = TRUE
    /\ finalStandings' = request[c].standings
    /\ Finish(c)
    /\ UNCHANGED <<scoreVars, verdictVars, processed, weekVars>>

BeginReopenSeason(c) ==
    /\ request[c] = Idle
    /\ seasonClosed
    /\ Continue(c, [op |-> "reopenSeason"])
    /\ UNCHANGED <<scoreVars, verdictVars, processed, weekVars, seasonVars>>

\* The snapshot of the last close stays.
ReopenSeason(c) ==
    /\ request[c].op = "reopenSeason"
    /\ seasonClosed' = FALSE
    /\ Finish(c)
    /\ UNCHANGED <<scoreVars, verdictVars, processed, weekVars, finalStandings>>

-----------------------------------------------------------------------------
Browsing(c) == LoadRounds(c) \/ RefreshPanel(c)

ScoreEntry(c, m) ==
    \/ OpenPage(c, m)
    \/ \E won \in BOOLEAN : SaveRounds(c, m, won)
    \/ SubmitResults(c, m)
    \/ ClearResults(c, m)
    \/ SubstituteChange(c, m)

TeamAction(c, m) == \E s \in Sides :
    \/ ApproveTeamSide(c, m, s)
    \/ WithdrawTeamApproval(c, m, s)
    \/ \E note \in Notes : RequestCorrection(c, m, s, note)

Administration(c) ==
    \/ \E m \in Matches : ReadForAccept(c, m)
    \/ \E m \in Matches, op \in {"process", "unapprove", "unprocess"} :
          ReadForVerdict(c, m, op)
    \/ CheckSeasonOpen(c)
    \/ CheckWeekOpen(c)
    \/ AdminAccept(c)
    \/ ProcessMatch(c)
    \/ UnapproveMatch(c)
    \/ UnprocessMatch(c)

WeekAction(c) ==
    \/ \E w \in Weeks : BeginCloseWeek(c, w)
    \/ ValidateWeek(c)
    \/ CloseWeek(c)
    \/ \E w \in Weeks : BeginReopenWeek(c, w)
    \/ CheckWeekStatus(c)
    \/ ReopenWeek(c)

SeasonAction(c) ==
    \/ ListWeeks(c)
    \/ GetStandings(c)
    \/ CheckSeasonCloseable(c)
    \/ CloseSeason(c)
    \/ BeginReopenSeason(c)
    \/ ReopenSeason(c)

Next == \E c \in Clients :
    \/ \E m \in Matches : ScoreEntry(c, m) \/ TeamAction(c, m)
    \/ Browsing(c)
    \/ Administration(c)
    \/ WeekAction(c)
    \/ SeasonAction(c)
    \/ Abort(c)

Spec == Init /\ [][Next]_vars

-----------------------------------------------------------------------------
(* Properties. *)

\* The type invariant: in particular a pending side carries neither a
\* revision nor a note, an approval a revision only, a correction both.
TypeOK ==
    /\ scoreRevision \in [Matches -> Nat]
    /\ completed \in [Matches -> BOOLEAN]
    /\ gameWon \in [Matches -> BOOLEAN]
    /\ side \in [Matches -> [Sides -> SideState]]
    /\ approved \in [Matches -> BOOLEAN]
    /\ processed \in [Matches -> BOOLEAN]
    /\ weekClosed \in [Matches -> BOOLEAN]
    /\ acceptance \in [Matches -> Acceptance]
    /\ weekStatus \in [Weeks -> {"open", "closed"}]
    /\ seasonClosed \in BOOLEAN
    /\ finalStandings \in [Matches -> Nat \cup {NoRev}]
    /\ request \in [Clients -> Request]

\* What a team has said is about the scores the match has now, and there are
\* scores: no edit, clear or substitution leaves an approval standing for
\* scores the team never saw, whichever requests were in flight.
SideNamesCurrentScores ==
    \A m \in Matches, s \in Sides :
        side[m][s] # Pending =>
            completed[m] /\ side[m][s].revision = scoreRevision[m]

\* A match is accepted exactly as long as an acceptance stands, and the event
\* written for it describes the match: the current scores, what both teams say
\* of them now, and a plain acceptance rather than an override exactly when
\* both approve them.
AcceptanceMatchesRecord ==
    \A m \in Matches :
        LET a == acceptance[m] IN
        IF ~approved[m] THEN a = NoAcceptance ELSE
        /\ a # NoAcceptance
        /\ completed[m]
        /\ a.revision = scoreRevision[m]
        /\ \A s \in Sides : a.sides[s] = Snapshot(side[m][s])
        /\ a.type = "admin_accepted" <=> BothApproved(side[m], scoreRevision[m])

\* The two places that record a closed week, league_weeks.status and the
\* week_closed flag of each of its matches, never disagree.
WeekFlagsAgree ==
    \A m \in Matches : weekClosed[m] <=> weekStatus[WeekOf[m]] = "closed"

\* A page as it was loaded, if its revision is still the match's revision,
\* shows the match's scores, although it was read in two requests: comparing
\* revisions is enough to detect a stale page, because the revision is read
\* first and every transaction that changes the scores advances it.
ShowsItsRevision(c) ==
    LET m == request[c].match IN
    /\ request[c].revision =< scoreRevision[m]
    /\ request[c].revision = scoreRevision[m] => request[c].won = gameWon[m]
RevisionNamesScores ==
    \A c \in Clients : request[c].op = "page" => ShowsItsRevision(c)

\* A match that is accepted, processed, or in a closed week or season keeps
\* its scores, its revision and what the teams said, also against requests
\* that began before it was locked.
Locked(m) == approved[m] \/ processed[m] \/ weekClosed[m] \/ seasonClosed
LockedMatchFrozen ==
    [][\A m \in Matches : Locked(m) =>
          /\ scoreRevision'[m] = scoreRevision[m]
          /\ completed'[m] = completed[m] /\ gameWon'[m] = gameWon[m]
          /\ side'[m] = side[m]]_vars

\* A verdict spread over four database calls is as good as one given at a
\* single instant: the approval of a match implements ScoreLedger.
Ledger == INSTANCE ScoreLedger WITH
    revision <- scoreRevision,
    said <- side,
    verdict <- [m \in Matches |-> acceptance[m].type]
LedgerSpec == Ledger!Spec

\* A processed match is an accepted one: processing needs approval, and
\* approval cannot be taken back before processing is.
ProcessedIsAccepted == \A m \in Matches : processed[m] => approved[m]

\* A closed week is final: each of its matches has a won game on record, and
\* the accepted ones have been processed.
ClosedWeekIsFinal ==
    \A m \in Matches : weekClosed[m] => gameWon[m] /\ (approved[m] => processed[m])

\* All scheduled weeks of a closed season are closed.
ClosedSeasonWeeksClosed ==
    seasonClosed => \A w \in ScheduledWeeks : weekStatus[w] = "closed"

\* The standings stored with a closed season are those of its matches now.
ClosedSeasonIsFinal == seasonClosed => finalStandings = OfficialResults

=============================================================================
