-------------------------- MODULE MatchApproval_proofs --------------------------
(***************************************************************************)
(* What holds of MatchApproval for every set of matches, weeks, clients    *)
(* and notes and every bound on the revisions; at the end, what the order  *)
(* of the stages ensures when there is a single client.                    *)
(***************************************************************************)
EXTENDS MatchApproval, TLAPS

-----------------------------------------------------------------------------
(* Requests: the kind of a request determines the record it is kept in. *)

\* The kinds of requests are told apart by their operation.
LEMMA RequestKinds ==
    ASSUME NEW r \in Request
    PROVE  /\ r.op = "opening" => r \in OpeningRequest
           /\ r.op \in {"page", "panel"} => r \in PageRequest
           /\ r.op = "spoken" => r \in SpokenRequest
           /\ r.op = "accept" => r \in AcceptRequest
           /\ r.op \in {"process", "unapprove", "unprocess"} => r \in MatchRequest
           /\ r.op \in {"closeWeek", "reopenWeek"} => r \in WeekRequest
           /\ r.op = "closeSeason" => r \in SeasonRequest
BY SMT DEF Request, Idle, OpeningRequest, PageRequest, SpokenRequest, AcceptRequest,
           MatchRequest, WeekRequest, SeasonRequest, ReopenRequest

-----------------------------------------------------------------------------
(* Type correctness. *)

\* What a team says is a well-typed statement.
LEMMA StatementTypes ==
    /\ Pending \in SideState
    /\ \A n \in Nat : Approval(n) \in SideState
    /\ \A n \in Nat, note \in Notes : Correction(n, note) \in SideState
    /\ \A s \in SideState : Snapshot(s) \in SideSnapshot
BY DEF SideState, Pending, Approval, Correction, Snapshot, SideSnapshot

\* An edit keeps the revision and the statements well typed.
LEMMA AdvanceType ==
    ASSUME TypeOK, NEW m \in Matches, AdvanceScoreRevision(m)
    PROVE  /\ scoreRevision' \in [Matches -> Nat]
           /\ side' \in [Matches -> [Sides -> SideState]]
BY StatementTypes DEF TypeOK, AdvanceScoreRevision

\* The season starts well typed.
LEMMA TypeInit == Init => TypeOK
<1> SUFFICES ASSUME Init PROVE TypeOK
    OBVIOUS
<1>1. Idle \in Request
    BY DEF Request
<1>2. NoAcceptance \in Acceptance
    BY DEF Acceptance
<1> QED BY <1>1, <1>2, StatementTypes DEF Init, TypeOK, NoRev

\* Every step that only moves a request on is of this form.
LEMMA RequestStepType ==
    ASSUME TypeOK, NEW c \in Clients, NEW r \in Request, Continue(c, r),
           UNCHANGED <<scoreVars, verdictVars, processed, weekVars, seasonVars>>
    PROVE  TypeOK'
BY DEF TypeOK, Continue, scoreVars, verdictVars, weekVars, seasonVars

\* A request that ends leaves the types alone.
LEMMA FinishType ==
    ASSUME TypeOK, NEW c \in Clients, Finish(c)
    PROVE  request' \in [Clients -> Request]
BY DEF TypeOK, Finish, Continue, Request

\* Loading pages keeps the types.
LEMMA BrowsingType ==
    ASSUME TypeOK, NEW c \in Clients, Browsing(c)
    PROVE  TypeOK'
<1>0. request[c] \in Request
    BY DEF TypeOK
<1>1. CASE LoadRounds(c)
    <2>1. request[c] \in OpeningRequest
        BY <1>0, <1>1, RequestKinds DEF LoadRounds
    <2> DEFINE r == [op |-> "page", match |-> request[c].match,
                     revision |-> request[c].revision,
                     won |-> gameWon[request[c].match]]
    <2>2. r \in Request
        BY <2>1 DEF TypeOK, Request, OpeningRequest, PageRequest
    <2> QED BY <1>1, <2>2, RequestStepType DEF LoadRounds
<1>2. CASE RefreshPanel(c)
    <2>1. request[c] \in SpokenRequest
        BY <1>0, <1>2, RequestKinds DEF RefreshPanel
    <2> DEFINE r == [op |-> "panel", match |-> request[c].match,
                     revision |-> scoreRevision[request[c].match],
                     won |-> request[c].won]
    <2>2. r \in Request
        BY <2>1 DEF TypeOK, Request, SpokenRequest, PageRequest
    <2> QED BY <1>2, <2>2, RequestStepType DEF RefreshPanel
<1> QED BY <1>1, <1>2 DEF Browsing

\* Score entry keeps the types.
LEMMA ScoreEntryType ==
    ASSUME TypeOK, NEW c \in Clients, NEW m \in Matches, ScoreEntry(c, m)
    PROVE  TypeOK'
<1>1. CASE OpenPage(c, m)
    <2> DEFINE r == [op |-> "opening", match |-> m, revision |-> scoreRevision[m]]
    <2>1. r \in Request
        BY DEF TypeOK, Request, OpeningRequest
    <2> QED BY <1>1, <2>1, RequestStepType DEF OpenPage
<1>2. CASE \E won \in BOOLEAN : SaveRounds(c, m, won)
    <2>1. PICK won \in BOOLEAN : SaveRounds(c, m, won)
        BY <1>2
    <2> QED BY <2>1, AdvanceType, FinishType
            DEF SaveRounds, TypeOK, verdictVars, weekVars, seasonVars
<1>3. CASE SubmitResults(c, m)
    BY <1>3, AdvanceType, FinishType
    DEF SubmitResults, TypeOK, verdictVars, weekVars, seasonVars
<1>4. CASE ClearResults(c, m)
    BY <1>4, AdvanceType, FinishType
    DEF ClearResults, TypeOK, verdictVars, weekVars, seasonVars
<1>5. CASE SubstituteChange(c, m)
    BY <1>5, AdvanceType
    DEF SubstituteChange, TypeOK, verdictVars, weekVars, seasonVars
<1> QED BY <1>1, <1>2, <1>3, <1>4, <1>5 DEF ScoreEntry

\* The statement a team action records, always about the match's revision.
LEMMA TeamActionForm ==
    ASSUME TypeOK, NEW c \in Clients, NEW m \in Matches, TeamAction(c, m)
    PROVE  /\ Editable(m)
           /\ \E s \in Sides, st \in SideState :
                 /\ SetSide(c, m, s, st)
                 /\ \/ st = Pending
                    \/ /\ completed[m]
                       /\ \/ st = Approval(scoreRevision[m])
                          \/ \E note \in Notes : st = Correction(scoreRevision[m], note)
<1>1. PICK s \in Sides : \/ ApproveTeamSide(c, m, s)
                         \/ WithdrawTeamApproval(c, m, s)
                         \/ \E note \in Notes : RequestCorrection(c, m, s, note)
    BY DEF TeamAction
<1>2. scoreRevision[m] \in Nat
    BY DEF TypeOK
<1>3. CASE ApproveTeamSide(c, m, s)
    BY <1>2, <1>3, StatementTypes DEF ApproveTeamSide, TeamMayAct, PageIsCurrent
<1>4. CASE WithdrawTeamApproval(c, m, s)
    BY <1>4, StatementTypes DEF WithdrawTeamApproval, TeamMayAct, Withdrawn
<1>5. CASE \E note \in Notes : RequestCorrection(c, m, s, note)
    BY <1>2, <1>5, StatementTypes DEF RequestCorrection, TeamMayAct, PageIsCurrent
<1> QED BY <1>1, <1>3, <1>4, <1>5

\* Approving, withdrawing and requesting a correction keep the types.
LEMMA TeamActionType ==
    ASSUME TypeOK, NEW c \in Clients, NEW m \in Matches, TeamAction(c, m)
    PROVE  TypeOK'
<1>1. PICK s \in Sides, st \in SideState : SetSide(c, m, s, st)
    BY TeamActionForm
<1>2. request[c] \in PageRequest
    BY RequestKinds
    DEF TeamAction, ApproveTeamSide, WithdrawTeamApproval, RequestCorrection, TeamMayAct,
        PageIsCurrent, TypeOK
<1> DEFINE r == [op |-> "spoken", match |-> m, won |-> request[c].won]
<1>3. r \in Request
    BY <1>2 DEF Request, PageRequest, SpokenRequest
<1>4. request' \in [Clients -> Request]
    BY <1>1, <1>3 DEF SetSide, AwaitSnapshot, Continue, TypeOK
<1> QED BY <1>1, <1>4 DEF SetSide, TypeOK, verdictVars, weekVars, seasonVars

\* A request that goes on to its next call is well typed.
LEMMA NextStepType ==
    ASSUME TypeOK, NEW c \in Clients, NEW step,
           \/ request[c] \in AcceptRequest \cup MatchRequest /\ step \in Steps
           \/ request[c] \in WeekRequest /\ step \in {"check", "write"}
           \/ request[c] \in SeasonRequest /\ step \in {"read", "check", "write"}
    PROVE  [request[c] EXCEPT !.step = step] \in Request
BY DEF Request, AcceptRequest, MatchRequest, WeekRequest, SeasonRequest

\* Acceptance, processing and their reversals keep the types.
LEMMA AdministrationType ==
    ASSUME TypeOK, NEW c \in Clients, Administration(c)
    PROVE  TypeOK'
<1>0. request[c] \in Request
    BY DEF TypeOK
<1>1. CASE \E m \in Matches : ReadForAccept(c, m)
    <2>1. PICK m \in Matches : ReadForAccept(c, m)
        BY <1>1
    <2> DEFINE r == [op |-> "accept", step |-> "season", match |-> m,
                     revision |-> scoreRevision[m], sides |-> side[m]]
    <2>2. r \in Request
        BY DEF TypeOK, Request, AcceptRequest, Steps
    <2> QED BY <2>1, <2>2, RequestStepType DEF ReadForAccept
<1>2. CASE \E m \in Matches, op \in {"process", "unapprove", "unprocess"} :
              ReadForVerdict(c, m, op)
    <2>1. PICK m \in Matches, op \in {"process", "unapprove", "unprocess"} :
              ReadForVerdict(c, m, op)
        BY <1>2
    <2> DEFINE r == [op |-> op, step |-> "season", match |-> m]
    <2>2. r \in Request
        BY DEF Request, MatchRequest, Steps
    <2> QED BY <2>1, <2>2, RequestStepType DEF ReadForVerdict
<1>3. CASE CheckSeasonOpen(c)
    <2>1. request[c] \in AcceptRequest \cup MatchRequest
        BY <1>0, <1>3, RequestKinds DEF CheckSeasonOpen, At
    <2>2. [request[c] EXCEPT !.step = "week"] \in Request
        BY <2>1, NextStepType DEF Steps
    <2> QED BY <1>3, <2>2, RequestStepType DEF CheckSeasonOpen, NextStep
<1>4. CASE CheckWeekOpen(c)
    <2>1. request[c] \in AcceptRequest \cup MatchRequest
        BY <1>0, <1>4, RequestKinds DEF CheckWeekOpen, At
    <2>2. [request[c] EXCEPT !.step = "write"] \in Request
        BY <2>1, NextStepType DEF Steps
    <2> QED BY <1>4, <2>2, RequestStepType DEF CheckWeekOpen, NextStep
<1>5. CASE AdminAccept(c)
    <2>1. request[c] \in AcceptRequest
        BY <1>0, <1>5, RequestKinds DEF AdminAccept, At
    <2> DEFINE r == request[c]
               event == [type |-> IF BothApproved(r.sides, r.revision)
                                  THEN "admin_accepted" ELSE "admin_override",
                         revision |-> r.revision,
                         sides |-> [s \in Sides |-> Snapshot(r.sides[s])]]
    <2>2. r.match \in Matches /\ r.revision \in Nat /\ r.sides \in [Sides -> SideState]
        BY <2>1 DEF AcceptRequest
    <2>3. event \in Acceptance
        BY <2>2, StatementTypes DEF Acceptance
    <2>4. acceptance' = [acceptance EXCEPT ![r.match] = event]
        BY <1>5 DEF AdminAccept
    <2>5. acceptance' \in [Matches -> Acceptance]
        BY <2>3, <2>4 DEF TypeOK
    <2> QED BY <1>5, <2>5, FinishType
            DEF AdminAccept, TypeOK, scoreVars, weekVars, seasonVars
<1>6. CASE ProcessMatch(c)
    BY <1>6, FinishType DEF ProcessMatch, TypeOK, scoreVars, verdictVars, weekVars, seasonVars
<1>7. CASE UnapproveMatch(c)
    BY <1>7, FinishType
    DEF UnapproveMatch, TypeOK, Acceptance, scoreVars, weekVars, seasonVars
<1>8. CASE UnprocessMatch(c)
    BY <1>8, FinishType DEF UnprocessMatch, TypeOK, scoreVars, verdictVars, weekVars, seasonVars
<1> QED BY <1>1, <1>2, <1>3, <1>4, <1>5, <1>6, <1>7, <1>8 DEF Administration

\* Closing and reopening a week keep the types.
LEMMA WeekActionType ==
    ASSUME TypeOK, NEW c \in Clients, WeekAction(c)
    PROVE  TypeOK'
<1>0. request[c] \in Request
    BY DEF TypeOK
<1>1. CASE \E w \in Weeks : BeginCloseWeek(c, w)
    <2>1. PICK w \in Weeks : BeginCloseWeek(c, w)
        BY <1>1
    <2> DEFINE r == [op |-> "closeWeek", step |-> "check", week |-> w]
    <2>2. r \in Request
        BY DEF Request, WeekRequest
    <2> QED BY <2>1, <2>2, RequestStepType DEF BeginCloseWeek
<1>2. CASE ValidateWeek(c)
    <2>1. request[c] \in WeekRequest
        BY <1>0, <1>2, RequestKinds DEF ValidateWeek, At
    <2>2. [request[c] EXCEPT !.step = "write"] \in Request
        BY <2>1, NextStepType
    <2> QED BY <1>2, <2>2, RequestStepType DEF ValidateWeek, NextStep
<1>3. CASE CloseWeek(c)
    <2>1. processed' \in [Matches -> BOOLEAN] /\ weekClosed' \in [Matches -> BOOLEAN]
        BY <1>3 DEF CloseWeek, ProcessedByClose, TypeOK
    <2> QED BY <1>3, <2>1, FinishType
            DEF CloseWeek, TypeOK, scoreVars, verdictVars, seasonVars
<1>4. CASE \E w \in Weeks : BeginReopenWeek(c, w)
    <2>1. PICK w \in Weeks : BeginReopenWeek(c, w)
        BY <1>4
    <2> DEFINE r == [op |-> "reopenWeek", step |-> "check", week |-> w]
    <2>2. r \in Request
        BY DEF Request, WeekRequest
    <2> QED BY <2>1, <2>2, RequestStepType DEF BeginReopenWeek
<1>5. CASE CheckWeekStatus(c)
    <2>1. request[c] \in WeekRequest
        BY <1>0, <1>5, RequestKinds DEF CheckWeekStatus, At
    <2>2. [request[c] EXCEPT !.step = "write"] \in Request
        BY <2>1, NextStepType
    <2> QED BY <1>5, <2>2, RequestStepType DEF CheckWeekStatus, NextStep
<1>6. CASE ReopenWeek(c)
    <2>1. weekClosed' \in [Matches -> BOOLEAN]
        BY <1>6 DEF ReopenWeek, OpenedMatches, TypeOK
    <2> QED BY <1>6, <2>1, FinishType
            DEF ReopenWeek, TypeOK, scoreVars, verdictVars, seasonVars
<1> QED BY <1>1, <1>2, <1>3, <1>4, <1>5, <1>6 DEF WeekAction

\* Closing and reopening the season keep the types.
LEMMA SeasonActionType ==
    ASSUME TypeOK, NEW c \in Clients, SeasonAction(c)
    PROVE  TypeOK'
<1>0. request[c] \in Request
    BY DEF TypeOK
<1> DEFINE Closing(step, standings) ==
        [op |-> "closeSeason", step |-> step, standings |-> standings]
<1>1. CASE ListWeeks(c)
    <2>1. Closing("read", [m \in Matches |-> NoRev]) \in Request
        BY DEF Request, SeasonRequest
    <2> QED BY <1>1, <2>1, RequestStepType DEF ListWeeks
<1>2. CASE GetStandings(c)
    <2>1. OfficialResults \in [Matches -> Nat \cup {NoRev}]
        BY DEF OfficialResults, TypeOK
    <2>2. Closing("check", OfficialResults) \in Request
        BY <2>1 DEF Request, SeasonRequest
    <2> QED BY <1>2, <2>2, RequestStepType DEF GetStandings
<1>3. CASE CheckSeasonCloseable(c)
    <2>1. request[c] \in SeasonRequest
        BY <1>0, <1>3, RequestKinds DEF CheckSeasonCloseable, At
    <2>2. [request[c] EXCEPT !.step = "write"] \in Request
        BY <2>1, NextStepType
    <2> QED BY <1>3, <2>2, RequestStepType DEF CheckSeasonCloseable, NextStep
<1>4. CASE CloseSeason(c)
    <2>1. request[c] \in SeasonRequest
        BY <1>0, <1>4, RequestKinds DEF CloseSeason, At
    <2>2. finalStandings' \in [Matches -> Nat \cup {NoRev}]
        BY <1>4, <2>1 DEF CloseSeason, SeasonRequest
    <2> QED BY <1>4, <2>2, FinishType
            DEF CloseSeason, TypeOK, scoreVars, verdictVars, weekVars
<1>5. CASE BeginReopenSeason(c)
    <2>1. [op |-> "reopenSeason"] \in Request
        BY DEF Request, ReopenRequest
    <2> QED BY <1>5, <2>1, RequestStepType DEF BeginReopenSeason
<1>6. CASE ReopenSeason(c)
    BY <1>6, FinishType DEF ReopenSeason, TypeOK, scoreVars, verdictVars, weekVars
<1> QED BY <1>1, <1>2, <1>3, <1>4, <1>5, <1>6 DEF SeasonAction

\* Types are inductive.
LEMMA TypeNext == TypeOK /\ [Next]_vars => TypeOK'
<1> SUFFICES ASSUME TypeOK, [Next]_vars PROVE TypeOK'
    OBVIOUS
<1>1. CASE UNCHANGED vars
    BY <1>1 DEF TypeOK, vars, scoreVars, verdictVars, weekVars, seasonVars
<1>2. CASE Next
    <2>1. PICK c \in Clients : \/ \E m \in Matches : ScoreEntry(c, m) \/ TeamAction(c, m)
                               \/ Browsing(c) \/ Administration(c) \/ WeekAction(c)
                               \/ SeasonAction(c) \/ Abort(c)
        BY <1>2 DEF Next
    <2>2. CASE Abort(c)
        BY <2>2, FinishType
        DEF Abort, TypeOK, scoreVars, verdictVars, weekVars, seasonVars
    <2> QED BY <2>1, <2>2, BrowsingType, ScoreEntryType, TeamActionType, AdministrationType,
               WeekActionType, SeasonActionType
<1> QED BY <1>1, <1>2

\* Every reachable state is well typed, whatever the constants: a pending side
\* never keeps a revision or a note behind.
THEOREM TypeCorrect == Spec => []TypeOK
BY TypeInit, TypeNext, PTL DEF Spec

-----------------------------------------------------------------------------
(* What each group of actions may disturb. *)

StateKept == UNCHANGED <<scoreVars, verdictVars, processed, weekVars, seasonVars>>

ScoreEdit(m) ==
    /\ AdvanceScoreRevision(m)
    /\ \E b \in BOOLEAN : completed' = [completed EXCEPT ![m] = b]
    /\ \E b \in BOOLEAN : gameWon' = [gameWon EXCEPT ![m] = b]
    /\ UNCHANGED <<verdictVars, processed, weekVars, seasonVars>>

\* Loading pages changes nothing but the request.
LEMMA BrowsingFrame ==
    ASSUME NEW c \in Clients, Browsing(c)
    PROVE  StateKept
BY DEF Browsing, LoadRounds, RefreshPanel, StateKept

\* Every edit advances the revision of one editable match, or changes nothing.
LEMMA ScoreEntryForm ==
    ASSUME TypeOK, NEW c \in Clients, NEW m \in Matches, ScoreEntry(c, m)
    PROVE  StateKept \/ ScoreEdit(m)
<1> completed[m] \in BOOLEAN /\ gameWon[m] \in BOOLEAN
    /\ completed = [completed EXCEPT ![m] = completed[m]]
    /\ gameWon = [gameWon EXCEPT ![m] = gameWon[m]]
    BY DEF TypeOK
<1>1. CASE OpenPage(c, m)
    BY <1>1 DEF OpenPage, StateKept
<1>2. CASE \E won \in BOOLEAN : SaveRounds(c, m, won)
    <2>1. PICK won \in BOOLEAN : SaveRounds(c, m, won)
        BY <1>2
    <2>2. completed' = [completed EXCEPT ![m] = completed[m] \/ won]
        BY <2>1 DEF SaveRounds
    <2>3. (completed[m] \/ won) \in BOOLEAN
        OBVIOUS
    <2> QED BY <2>1, <2>2, <2>3 DEF SaveRounds, ScoreEdit
<1>3. CASE SubmitResults(c, m)
    BY <1>3 DEF SubmitResults, ScoreEdit
<1>4. CASE ClearResults(c, m)
    BY <1>4 DEF ClearResults, ScoreEdit
<1>5. CASE SubstituteChange(c, m)
    BY <1>5 DEF SubstituteChange, ScoreEdit
<1> QED BY <1>1, <1>2, <1>3, <1>4, <1>5 DEF ScoreEntry

\* A team action changes one side and nothing else.
LEMMA TeamActionFrame ==
    ASSUME TypeOK, NEW c \in Clients, NEW m \in Matches, TeamAction(c, m)
    PROVE  UNCHANGED <<scoreRevision, completed, gameWon, verdictVars, processed,
                       weekVars, seasonVars>>
BY TeamActionForm DEF SetSide

\* Acceptance and processing leave scores, weeks and season alone.
LEMMA AdministrationFrame ==
    ASSUME NEW c \in Clients, Administration(c)
    PROVE  /\ UNCHANGED <<scoreVars, weekVars, seasonVars>>
           /\ UNCHANGED verdictVars \/ AdminAccept(c) \/ UnapproveMatch(c)
BY DEF Administration, ReadForAccept, ReadForVerdict, CheckSeasonOpen, CheckWeekOpen,
       AdminAccept, ProcessMatch, UnapproveMatch, UnprocessMatch

\* Weeks are closed without touching scores, statements or verdicts.
LEMMA WeekActionFrame ==
    ASSUME NEW c \in Clients, WeekAction(c)
    PROVE  /\ UNCHANGED <<scoreVars, verdictVars, seasonVars>>
           /\ UNCHANGED weekVars \/ CloseWeek(c) \/ ReopenWeek(c)
BY DEF WeekAction, BeginCloseWeek, ValidateWeek, CloseWeek, BeginReopenWeek,
       CheckWeekStatus, ReopenWeek

\* The season is closed without touching any match.
LEMMA SeasonActionFrame ==
    ASSUME NEW c \in Clients, SeasonAction(c)
    PROVE  UNCHANGED <<scoreVars, verdictVars, processed, weekVars>>
BY DEF SeasonAction, ListWeeks, GetStandings, CheckSeasonCloseable, CloseSeason,
       BeginReopenSeason, ReopenSeason

-----------------------------------------------------------------------------
(* The inductive invariant.  Given the types, each part is preserved by     *)
(* itself, except that the page of RevisionNamesScores is read in two       *)
(* requests: the revision read first must not be ahead of the match.        *)

OpeningIsBehind ==
    \A c \in Clients : request[c].op = "opening" =>
        request[c].revision =< scoreRevision[request[c].match]
PagesInv == OpeningIsBehind /\ RevisionNamesScores
SafetyInv == SideNamesCurrentScores /\ AcceptanceMatchesRecord
               /\ WeekFlagsAgree /\ PagesInv
IInv == TypeOK /\ SafetyInv

\* A pending side has neither revision nor note.
LEMMA PendingIsBlank ==
    \A st \in SideState : st.state = "pending" => st = Pending
BY DEF SideState

\* An edit leaves both sides pending.
LEMMA EditClears ==
    ASSUME TypeOK, NEW m \in Matches, ScoreEdit(m)
    PROVE  /\ scoreRevision' = [scoreRevision EXCEPT ![m] = @ + 1]
           /\ side' = [side EXCEPT ![m] = [s \in Sides |-> Pending]]
<1>1. \A s \in Sides : side[m][s].state = "pending" => side[m][s] = Pending
    BY PendingIsBlank DEF TypeOK
<1> DEFINE cleared ==
        [s \in Sides |-> IF side[m][s].state = "pending" THEN side[m][s] ELSE Pending]
<1>2. cleared = [s \in Sides |-> Pending]
    BY <1>1
<1>3. /\ scoreRevision' = [scoreRevision EXCEPT ![m] = @ + 1]
      /\ side' = [side EXCEPT ![m] = cleared]
    BY DEF ScoreEdit, AdvanceScoreRevision
<1> HIDE DEF cleared
<1> QED BY <1>2, <1>3

\* The same, match by match.
LEMMA EditEffect ==
    ASSUME TypeOK, NEW m \in Matches, ScoreEdit(m)
    PROVE  /\ scoreRevision'[m] = scoreRevision[m] + 1
           /\ \A s \in Sides : side'[m][s] = Pending
           /\ \A k \in Matches \ {m} :
                 /\ scoreRevision'[k] = scoreRevision[k]
                 /\ side'[k] = side[k]
                 /\ completed'[k] = completed[k]
                 /\ gameWon'[k] = gameWon[k]
           /\ Editable(m)
           /\ UNCHANGED <<verdictVars, processed, weekVars, seasonVars>>
<1>1. /\ scoreRevision' = [scoreRevision EXCEPT ![m] = @ + 1]
      /\ side' = [side EXCEPT ![m] = [s \in Sides |-> Pending]]
    BY EditClears
<1>2. PICK b \in BOOLEAN : completed' = [completed EXCEPT ![m] = b]
    BY DEF ScoreEdit
<1>3. PICK won \in BOOLEAN : gameWon' = [gameWon EXCEPT ![m] = won]
    BY DEF ScoreEdit
<1>4. Editable(m) /\ UNCHANGED <<verdictVars, processed, weekVars, seasonVars>>
    BY DEF ScoreEdit, AdvanceScoreRevision
<1> QED BY <1>1, <1>2, <1>3, <1>4 DEF TypeOK

\* The safety invariants hold at the start.
LEMMA InitSafety == Init => SafetyInv
<1> SUFFICES ASSUME Init PROVE SafetyInv
    OBVIOUS
<1>1. SideNamesCurrentScores
    BY DEF Init, SideNamesCurrentScores
<1>2. AcceptanceMatchesRecord
    BY DEF Init, AcceptanceMatchesRecord
<1>3. WeekFlagsAgree
    BY WeekOfAssumption DEF Init, WeekFlagsAgree
<1>4. PagesInv
    BY DEF Init, PagesInv, OpeningIsBehind, RevisionNamesScores, Idle
<1> QED BY <1>1, <1>2, <1>3, <1>4 DEF SafetyInv

\* An edit clears both sides; a team action writes the current revision.
LEMMA SidesNext ==
    ASSUME TypeOK, SideNamesCurrentScores, NEW c \in Clients,
           \/ \E m \in Matches : ScoreEntry(c, m) \/ TeamAction(c, m)
           \/ UNCHANGED scoreVars
    PROVE  SideNamesCurrentScores'
<1>1. CASE UNCHANGED scoreVars
    BY <1>1 DEF SideNamesCurrentScores, scoreVars
<1>2. ASSUME NEW m \in Matches, ScoreEntry(c, m)
      PROVE  SideNamesCurrentScores'
    <2>1. CASE StateKept
        BY <2>1 DEF StateKept, SideNamesCurrentScores, scoreVars
    <2>2. CASE ScoreEdit(m)
        BY <2>2, EditEffect DEF SideNamesCurrentScores
    <2> QED BY <1>2, <2>1, <2>2, ScoreEntryForm
<1>3. ASSUME NEW m \in Matches, TeamAction(c, m)
      PROVE  SideNamesCurrentScores'
    <2>1. PICK s \in Sides, st \in SideState :
              /\ side' = [side EXCEPT ![m][s] = st]
              /\ st # Pending => completed[m] /\ st.revision = scoreRevision[m]
        BY <1>3, TeamActionForm DEF SetSide, Approval, Correction
    <2>2. UNCHANGED <<scoreRevision, completed>>
        BY <1>3, TeamActionFrame
    <2> QED BY <2>1, <2>2 DEF SideNamesCurrentScores, TypeOK
<1> QED BY <1>1, <1>2, <1>3

\* Nothing that an acceptance describes changes while it stands.
LEMMA AcceptanceKept ==
    ASSUME TypeOK, AcceptanceMatchesRecord, UNCHANGED verdictVars,
           \A m \in Matches : approved[m] =>
               /\ scoreRevision'[m] = scoreRevision[m]
               /\ side'[m] = side[m]
               /\ completed'[m] = completed[m]
    PROVE  AcceptanceMatchesRecord'
BY DEF AcceptanceMatchesRecord, BothApproved, verdictVars

\* The guarded write finds the sides and the revision the verdict was made on.
LEMMA AdminAcceptRecords ==
    ASSUME TypeOK, AcceptanceMatchesRecord, NEW c \in Clients, AdminAccept(c)
    PROVE  AcceptanceMatchesRecord'
<1> DEFINE r == request[c]
           m == r.match
           event == [type |-> IF BothApproved(r.sides, r.revision)
                              THEN "admin_accepted" ELSE "admin_override",
                     revision |-> r.revision,
                     sides |-> [s \in Sides |-> Snapshot(r.sides[s])]]
<1>1. m \in Matches
    BY RequestKinds DEF AdminAccept, At, TypeOK, AcceptRequest
<1>2. /\ scoreRevision[m] = r.revision
      /\ side[m] = r.sides
      /\ completed[m]
    BY DEF AdminAccept, StillAsRead
<1>3. /\ approved' = [approved EXCEPT ![m] = TRUE]
      /\ acceptance' = [acceptance EXCEPT ![m] = event]
      /\ UNCHANGED <<scoreRevision, side, completed>>
    BY DEF AdminAccept, scoreVars
<1>4. /\ event # NoAcceptance
      /\ event.revision = scoreRevision[m]
      /\ \A s \in Sides : event.sides[s] = Snapshot(side[m][s])
      /\ event.type = "admin_accepted" <=> BothApproved(side[m], scoreRevision[m])
    BY <1>2 DEF NoAcceptance
<1>5. approved'[m] /\ acceptance'[m] = event
    BY <1>1, <1>3 DEF TypeOK
<1>6. \A k \in Matches \ {m} : approved'[k] = approved[k] /\ acceptance'[k] = acceptance[k]
    BY <1>1, <1>3 DEF TypeOK
<1> HIDE DEF event, m
<1> QED BY <1>1, <1>2, <1>3, <1>4, <1>5, <1>6 DEF AcceptanceMatchesRecord, BothApproved

\* The event of an acceptance goes on describing its match.
LEMMA AcceptanceNext ==
    ASSUME TypeOK, AcceptanceMatchesRecord, NEW c \in Clients,
           \/ \E m \in Matches : ScoreEntry(c, m) \/ TeamAction(c, m)
           \/ Administration(c)
           \/ UNCHANGED <<scoreVars, verdictVars>>
    PROVE  AcceptanceMatchesRecord'
<1>1. CASE UNCHANGED <<scoreVars, verdictVars>>
    BY <1>1, AcceptanceKept DEF scoreVars
<1>2. ASSUME NEW m \in Matches, ScoreEntry(c, m)
      PROVE  AcceptanceMatchesRecord'
    <2>1. CASE StateKept
        BY <2>1, AcceptanceKept DEF StateKept, scoreVars
    <2>2. CASE ScoreEdit(m)
        <3>1. ~approved[m] /\ UNCHANGED verdictVars
            BY <2>2, EditEffect DEF Editable
        <3>2. \A k \in Matches \ {m} : /\ scoreRevision'[k] = scoreRevision[k]
                                       /\ side'[k] = side[k]
                                       /\ completed'[k] = completed[k]
            BY <2>2, EditEffect
        <3> QED BY <3>1, <3>2, AcceptanceKept
    <2> QED BY <1>2, <2>1, <2>2, ScoreEntryForm
<1>3. ASSUME NEW m \in Matches, TeamAction(c, m)
      PROVE  AcceptanceMatchesRecord'
    <2>1. ~approved[m]
        BY <1>3, TeamActionForm DEF Editable
    <2>2. \A k \in Matches \ {m} : side'[k] = side[k]
        BY <1>3, TeamActionForm DEF SetSide, TypeOK
    <2>3. UNCHANGED <<scoreRevision, completed, verdictVars>>
        BY <1>3, TeamActionFrame
    <2> QED BY <2>1, <2>2, <2>3, AcceptanceKept
<1>4. CASE Administration(c)
    <2>1. UNCHANGED scoreVars
        BY <1>4, AdministrationFrame
    <2>2. CASE UNCHANGED verdictVars
        BY <2>1, <2>2, AcceptanceKept DEF scoreVars
    <2>3. CASE AdminAccept(c)
        BY <2>3, AdminAcceptRecords
    <2>4. CASE UnapproveMatch(c)
        <3> DEFINE k == request[c].match
        <3>1. /\ approved' = [approved EXCEPT ![k] = FALSE]
              /\ acceptance' = [acceptance EXCEPT ![k] = NoAcceptance]
            BY <2>4 DEF UnapproveMatch
        <3> HIDE DEF k
        <3> QED BY <2>1, <3>1
                DEF AcceptanceMatchesRecord, BothApproved, TypeOK, scoreVars
    <2> QED BY <1>4, <2>2, <2>3, <2>4, AdministrationFrame
<1> QED BY <1>1, <1>2, <1>3, <1>4

\* The two records of a closed week are written together.
LEMMA WeekFlagsNext ==
    ASSUME TypeOK, WeekFlagsAgree, NEW c \in Clients,
           WeekAction(c) \/ UNCHANGED weekVars
    PROVE  WeekFlagsAgree'
<1> DEFINE w == request[c].week
<1>1. CASE UNCHANGED weekVars
    BY <1>1 DEF weekVars, WeekFlagsAgree
<1>2. CASE CloseWeek(c)
    <2>1. w \in Weeks
        BY <1>2, RequestKinds DEF CloseWeek, At, TypeOK, WeekRequest
    <2>2. /\ weekStatus' = [weekStatus EXCEPT ![w] = "closed"]
          /\ weekClosed' = [m \in Matches |-> weekClosed[m] \/ m \in MatchesOf(w)]
        BY <1>2 DEF CloseWeek
    <2> HIDE DEF w
    <2> QED BY <2>1, <2>2, WeekOfAssumption DEF WeekFlagsAgree, MatchesOf, TypeOK
<1>3. CASE ReopenWeek(c)
    <2>1. w \in Weeks
        BY <1>3, RequestKinds DEF ReopenWeek, At, TypeOK, WeekRequest
    <2>2. /\ weekStatus' = [weekStatus EXCEPT ![w] = "open"]
          /\ weekClosed' = [m \in Matches |-> weekClosed[m] /\ m \notin MatchesOf(w)]
        BY <1>3 DEF ReopenWeek, OpenedMatches
    <2> HIDE DEF w
    <2> QED BY <2>1, <2>2, WeekOfAssumption DEF WeekFlagsAgree, MatchesOf, TypeOK
<1> QED BY <1>1, <1>2, <1>3, WeekActionFrame

\* Only OpenPage and LoadRounds lead to a page as it was loaded.
PagesKept == \A d \in Clients :
    request'[d].op \in {"opening", "page"} => request'[d] = request[d]

\* A request that goes on leaves the pages of others alone.
LEMMA ContinueKeepsPages ==
    ASSUME TypeOK, NEW c \in Clients, NEW r, Continue(c, r),
           r.op \notin {"opening", "page"}
    PROVE  PagesKept
BY DEF PagesKept, Continue, TypeOK

\* So does one that ends.
LEMMA FinishKeepsPages ==
    ASSUME TypeOK, NEW c \in Clients, Finish(c)
    PROVE  PagesKept
BY ContinueKeepsPages DEF Finish, Idle

\* So does each further call of an administrative request.
LEMMA NextStepKeepsPages ==
    ASSUME TypeOK, NEW c \in Clients, NEW step, NextStep(c, step),
           request[c].op \notin {"opening", "page"}, request[c] \in Request,
           request[c] # Idle
    PROVE  PagesKept
<1> DEFINE r == [request[c] EXCEPT !.step = step]
<1>1. r.op = request[c].op
    BY DEF Request, Idle, OpeningRequest, PageRequest, SpokenRequest, AcceptRequest,
           MatchRequest, WeekRequest, SeasonRequest, ReopenRequest
<1>2. Continue(c, r)
    BY DEF NextStep
<1> HIDE DEF r
<1> QED BY <1>1, <1>2, ContinueKeepsPages

\* Score entry leaves the pages of others alone.
LEMMA ScoreEntryPages ==
    ASSUME TypeOK, NEW c \in Clients, NEW m \in Matches, ScoreEntry(c, m)
    PROVE  PagesKept \/ OpenPage(c, m)
BY FinishKeepsPages
DEF ScoreEntry, SaveRounds, SubmitResults, ClearResults, SubstituteChange, PagesKept

\* So does everything else, but for the page being loaded.
LEMMA OtherPages ==
    ASSUME TypeOK, NEW c \in Clients,
           \/ \E m \in Matches : TeamAction(c, m)
           \/ Administration(c) \/ WeekAction(c) \/ SeasonAction(c) \/ Abort(c)
    PROVE  PagesKept
<1>0. request[c] \in Request /\ Idle.op = "idle"
    BY DEF TypeOK, Idle
<1>1. ASSUME NEW m \in Matches, TeamAction(c, m)
      PROVE  PagesKept
    <2>1. PICK s \in Sides, st \in SideState : SetSide(c, m, s, st)
        BY <1>1, TeamActionForm
    <2> QED BY <2>1, ContinueKeepsPages DEF SetSide, AwaitSnapshot
<1>2. CASE Administration(c)
    <2>1. ASSUME NEW m \in Matches, ReadForAccept(c, m)
          PROVE  PagesKept
        BY <2>1, ContinueKeepsPages DEF ReadForAccept
    <2>2. ASSUME NEW m \in Matches, NEW op \in {"process", "unapprove", "unprocess"},
                 ReadForVerdict(c, m, op)
          PROVE  PagesKept
        BY <2>2, ContinueKeepsPages DEF ReadForVerdict
    <2>3. CASE CheckSeasonOpen(c)
        BY <1>0, <2>3, NextStepKeepsPages DEF CheckSeasonOpen, At
    <2>4. CASE CheckWeekOpen(c)
        BY <1>0, <2>4, NextStepKeepsPages DEF CheckWeekOpen, At
    <2>5. CASE AdminAccept(c) \/ ProcessMatch(c) \/ UnapproveMatch(c) \/ UnprocessMatch(c)
        BY <2>5, FinishKeepsPages
        DEF AdminAccept, ProcessMatch, UnapproveMatch, UnprocessMatch
    <2> QED BY <1>2, <2>1, <2>2, <2>3, <2>4, <2>5 DEF Administration
<1>3. CASE WeekAction(c)
    <2>1. ASSUME NEW w \in Weeks, BeginCloseWeek(c, w) \/ BeginReopenWeek(c, w)
          PROVE  PagesKept
        BY <2>1, ContinueKeepsPages DEF BeginCloseWeek, BeginReopenWeek
    <2>2. CASE ValidateWeek(c)
        BY <1>0, <2>2, NextStepKeepsPages DEF ValidateWeek, At
    <2>3. CASE CheckWeekStatus(c)
        BY <1>0, <2>3, NextStepKeepsPages DEF CheckWeekStatus, At
    <2>4. CASE CloseWeek(c) \/ ReopenWeek(c)
        BY <2>4, FinishKeepsPages DEF CloseWeek, ReopenWeek
    <2> QED BY <1>3, <2>1, <2>2, <2>3, <2>4 DEF WeekAction
<1>4. CASE SeasonAction(c)
    <2>1. CASE ListWeeks(c) \/ GetStandings(c) \/ BeginReopenSeason(c)
        BY <2>1, ContinueKeepsPages DEF ListWeeks, GetStandings, BeginReopenSeason
    <2>2. CASE CheckSeasonCloseable(c)
        BY <1>0, <2>2, NextStepKeepsPages DEF CheckSeasonCloseable, At
    <2>3. CASE CloseSeason(c) \/ ReopenSeason(c)
        BY <2>3, FinishKeepsPages DEF CloseSeason, ReopenSeason
    <2> QED BY <1>4, <2>1, <2>2, <2>3 DEF SeasonAction
<1>5. CASE Abort(c)
    BY <1>5, FinishKeepsPages DEF Abort
<1> QED BY <1>1, <1>2, <1>3, <1>4, <1>5

\* An old page falls behind with the edit that makes it wrong.
LEMMA PagesNext ==
    ASSUME TypeOK, PagesInv, NEW c \in Clients,
           \/ \E m \in Matches : ScoreEntry(c, m)
           \/ Browsing(c)
           \/ PagesKept /\ UNCHANGED <<scoreRevision, gameWon>>
    PROVE  PagesInv'
<1> USE DEF PagesInv
<1>1. CASE PagesKept /\ UNCHANGED <<scoreRevision, gameWon>>
    BY <1>1 DEF PagesKept, OpeningIsBehind, RevisionNamesScores, ShowsItsRevision
<1>2. CASE Browsing(c)
    <2>1. UNCHANGED <<scoreRevision, gameWon>>
        BY <1>2, BrowsingFrame DEF StateKept, scoreVars
    <2>2. CASE LoadRounds(c)
        <3> DEFINE k == request[c].match
                   r == [op |-> "page", match |-> k, revision |-> request[c].revision,
                         won |-> gameWon[k]]
        <3>1. request' = [request EXCEPT ![c] = r]
            BY <2>2 DEF LoadRounds, Continue
        <3>2. r.revision =< scoreRevision[r.match] /\ r.won = gameWon[r.match]
            BY <2>2 DEF LoadRounds, OpeningIsBehind
        <3>3. r.op = "page"
            OBVIOUS
        <3> HIDE DEF r
        <3> QED BY <2>1, <3>1, <3>2, <3>3
                DEF OpeningIsBehind, RevisionNamesScores, ShowsItsRevision, TypeOK
    <2>3. CASE RefreshPanel(c)
        <3>1. PagesKept
            BY <2>3, ContinueKeepsPages DEF RefreshPanel
        <3> QED BY <1>1, <2>1, <3>1
    <2> QED BY <1>2, <2>2, <2>3 DEF Browsing
<1>3. ASSUME NEW m \in Matches, ScoreEntry(c, m)
      PROVE  PagesInv'
    <2>1. CASE OpenPage(c, m)
        <3>1. scoreRevision[m] =< scoreRevision[m]
            BY DEF TypeOK
        <3> QED BY <2>1, <3>1
                DEF OpenPage, Continue, OpeningIsBehind, RevisionNamesScores,
                    ShowsItsRevision, TypeOK, scoreVars
    <2>2. CASE PagesKept /\ StateKept
        BY <1>1, <2>2 DEF StateKept, scoreVars
    <2>3. CASE PagesKept /\ ScoreEdit(m)
        <3> SUFFICES
                ASSUME NEW d \in Clients, request'[d].op \in {"opening", "page"}, NEW k,
                       k = request'[d].match
                PROVE  /\ request'[d].revision =< scoreRevision'[k]
                       /\ request'[d].op = "page"
                            /\ request'[d].revision = scoreRevision'[k] =>
                                 request'[d].won = gameWon'[k]
            BY DEF OpeningIsBehind, RevisionNamesScores, ShowsItsRevision
        <3>1. request'[d] = request[d] /\ k = request[d].match
            BY <2>3 DEF PagesKept
        <3>2. /\ k \in Matches
              /\ request[d].revision \in Nat
              /\ scoreRevision[k] \in Nat
            BY <3>1, RequestKinds DEF TypeOK, OpeningRequest, PageRequest
        <3>3. /\ request[d].revision =< scoreRevision[k]
              /\ request[d].op = "page" /\ request[d].revision = scoreRevision[k] =>
                   request[d].won = gameWon[k]
            BY <3>1 DEF OpeningIsBehind, RevisionNamesScores, ShowsItsRevision
        <3>4. CASE k = m
            <4>1. scoreRevision'[k] = scoreRevision[k] + 1
                BY <2>3, <3>4, EditEffect
            <4> QED BY <3>1, <3>2, <3>3, <4>1
        <3>5. CASE k # m
            <4>1. /\ scoreRevision'[k] = scoreRevision[k]
                  /\ gameWon'[k] = gameWon[k]
                BY <2>3, <3>2, <3>5, EditEffect
            <4> QED BY <3>1, <3>3, <4>1
        <3> QED BY <3>4, <3>5
    <2> QED BY <1>3, <2>1, <2>2, <2>3, ScoreEntryForm, ScoreEntryPages
<1> QED BY <1>1, <1>2, <1>3

\* The safety invariants are inductive once types are known.
LEMMA SafetyNext == IInv /\ [Next]_vars => SafetyInv'
<1> SUFFICES ASSUME IInv, [Next]_vars PROVE SafetyInv'
    OBVIOUS
<1> USE DEF IInv, SafetyInv
<1>1. CASE UNCHANGED vars
    BY <1>1
    DEF vars, scoreVars, verdictVars, weekVars, seasonVars, SideNamesCurrentScores,
        AcceptanceMatchesRecord, BothApproved, WeekFlagsAgree, PagesInv, OpeningIsBehind,
        RevisionNamesScores, ShowsItsRevision
<1>2. ASSUME NEW c \in Clients, NEW m \in Matches, ScoreEntry(c, m)
      PROVE  SafetyInv'
    <2>1. UNCHANGED weekVars
        BY <1>2, ScoreEntryForm DEF StateKept, ScoreEdit
    <2> QED BY <1>2, <2>1, SidesNext, AcceptanceNext, WeekFlagsNext, PagesNext
<1>3. ASSUME NEW c \in Clients, NEW m \in Matches, TeamAction(c, m)
      PROVE  SafetyInv'
    BY <1>3, TeamActionFrame, SidesNext, AcceptanceNext, WeekFlagsNext, OtherPages,
       PagesNext
<1>4. ASSUME NEW c \in Clients, Administration(c)
      PROVE  SafetyInv'
    BY <1>4, AdministrationFrame, SidesNext, AcceptanceNext, WeekFlagsNext, OtherPages,
       PagesNext DEF scoreVars
<1>5. ASSUME NEW c \in Clients, WeekAction(c)
      PROVE  SafetyInv'
    BY <1>5, WeekActionFrame, SidesNext, AcceptanceNext, WeekFlagsNext, OtherPages,
       PagesNext DEF scoreVars
<1>6. ASSUME NEW c \in Clients, SeasonAction(c) \/ Abort(c)
      PROVE  SafetyInv'
    <2>1. UNCHANGED <<scoreVars, verdictVars, weekVars>>
        BY <1>6, SeasonActionFrame DEF Abort
    <2> QED BY <1>6, <2>1, SidesNext, AcceptanceNext, WeekFlagsNext, OtherPages,
               PagesNext DEF scoreVars
<1>7. ASSUME NEW c \in Clients, Browsing(c)
      PROVE  SafetyInv'
    <2>1. UNCHANGED <<scoreVars, verdictVars, weekVars>>
        BY <1>7, BrowsingFrame DEF StateKept
    <2> QED BY <1>7, <2>1, SidesNext, AcceptanceNext, WeekFlagsNext, PagesNext DEF scoreVars
<1> QED BY <1>1, <1>2, <1>3, <1>4, <1>5, <1>6, <1>7 DEF Next

\* The inductive invariant holds throughout.
LEMMA Inductive == Spec => []IInv
<1>1. Init => IInv
    BY TypeInit, InitSafety DEF IInv
<1>2. IInv /\ [Next]_vars => IInv'
    BY TypeNext, SafetyNext DEF IInv
<1> QED BY <1>1, <1>2, PTL DEF Spec

\* An approval or a correction is always about the scores the match has now.
THEOREM SidesCorrect == Spec => []SideNamesCurrentScores
<1>1. IInv => SideNamesCurrentScores
    BY DEF IInv, SafetyInv
<1> QED BY <1>1, Inductive, PTL

\* The recorded acceptance describes the match as long as it stands.
THEOREM AcceptanceCorrect == Spec => []AcceptanceMatchesRecord
<1>1. IInv => AcceptanceMatchesRecord
    BY DEF IInv, SafetyInv
<1> QED BY <1>1, Inductive, PTL

\* The two records of a closed week agree.
THEOREM WeekFlagsCorrect == Spec => []WeekFlagsAgree
<1>1. IInv => WeekFlagsAgree
    BY DEF IInv, SafetyInv
<1> QED BY <1>1, Inductive, PTL

\* A page as loaded whose revision is current shows the current scores.
THEOREM RevisionsCorrect == Spec => []RevisionNamesScores
<1>1. IInv => RevisionNamesScores
    BY DEF IInv, SafetyInv, PagesInv
<1> QED BY <1>1, Inductive, PTL

-----------------------------------------------------------------------------
(* A locked match is frozen: every step that touches the scores or the sides *)
(* of a match is guarded, in the write itself, by Editable.                  *)

\* Only a step that finds the match editable touches its scores.
LEMMA TouchedIsEditable ==
    ASSUME TypeOK, [Next]_vars, NEW k \in Matches, ~Editable(k)
    PROVE  /\ scoreRevision'[k] = scoreRevision[k]
           /\ completed'[k] = completed[k]
           /\ gameWon'[k] = gameWon[k]
           /\ side'[k] = side[k]
<1>1. CASE UNCHANGED scoreVars
    BY <1>1 DEF scoreVars
<1>2. ASSUME NEW c \in Clients, NEW m \in Matches, ScoreEntry(c, m), ~UNCHANGED scoreVars
      PROVE  /\ scoreRevision'[k] = scoreRevision[k]
             /\ completed'[k] = completed[k]
             /\ gameWon'[k] = gameWon[k]
             /\ side'[k] = side[k]
    <2>1. ScoreEdit(m)
        BY <1>2, ScoreEntryForm DEF StateKept
    <2>2. k # m
        BY <2>1, EditEffect
    <2> QED BY <2>1, <2>2, EditEffect
<1>3. ASSUME NEW c \in Clients, NEW m \in Matches, TeamAction(c, m)
      PROVE  /\ scoreRevision'[k] = scoreRevision[k]
             /\ completed'[k] = completed[k]
             /\ gameWon'[k] = gameWon[k]
             /\ side'[k] = side[k]
    <2>1. k # m
        BY <1>3, TeamActionForm
    <2>2. side'[k] = side[k]
        BY <1>3, <2>1, TeamActionForm DEF SetSide, TypeOK
    <2> QED BY <1>3, <2>2, TeamActionFrame
<1>4. ASSUME NEW c \in Clients, \/ Browsing(c) \/ Administration(c) \/ WeekAction(c)
                                \/ SeasonAction(c) \/ Abort(c)
      PROVE  UNCHANGED scoreVars
    BY <1>4, BrowsingFrame, AdministrationFrame, WeekActionFrame, SeasonActionFrame
    DEF Abort, StateKept
<1> QED BY <1>1, <1>2, <1>3, <1>4 DEF Next, vars

\* Accepted, processed, week closed or season closed: nothing scored changes.
THEOREM LockedFrozen == Spec => LockedMatchFrozen
<1>1. TypeOK /\ [Next]_vars =>
        [\A m \in Matches : Locked(m) =>
            /\ scoreRevision'[m] = scoreRevision[m]
            /\ completed'[m] = completed[m] /\ gameWon'[m] = gameWon[m]
            /\ side'[m] = side[m]]_vars
    <2> SUFFICES ASSUME TypeOK, [Next]_vars, NEW m \in Matches, Locked(m)
                 PROVE  /\ scoreRevision'[m] = scoreRevision[m]
                        /\ completed'[m] = completed[m] /\ gameWon'[m] = gameWon[m]
                        /\ side'[m] = side[m]
        OBVIOUS
    <2>1. ~Editable(m)
        BY DEF Locked, Editable
    <2> QED BY <2>1, TouchedIsEditable
<1> QED BY <1>1, TypeCorrect, PTL DEF Spec, LockedMatchFrozen

-----------------------------------------------------------------------------
(* The approval of matches implements ScoreLedger. *)

\* Initial states are initial states of the ledger.
LEMMA LedgerInit == Init => Ledger!Init
BY DEF Init, Ledger!Init, Ledger!Teams, Ledger!Silent, Ledger!NoRev, Sides, Pending,
       NoRev, NoAcceptance

Verdict == [m \in Matches |-> acceptance[m].type]

\* A step that leaves revision, sides and verdicts alone is no step of the ledger.
LEMMA LedgerStutters ==
    ASSUME UNCHANGED <<scoreRevision, side, acceptance>>
    PROVE  UNCHANGED Ledger!vars
BY DEF Ledger!vars

\* No verdict stands for a match that may be edited.
LEMMA EditableIsUndecided ==
    ASSUME IInv, NEW m \in Matches, Editable(m)
    PROVE  Ledger!Undecided(m)
BY DEF IInv, SafetyInv, AcceptanceMatchesRecord, Editable, Ledger!Undecided, NoAcceptance

\* An edit is an edit of the ledger.
LEMMA EditRefines ==
    ASSUME IInv, NEW m \in Matches, ScoreEdit(m)
    PROVE  Ledger!Next
<1>1. Ledger!Undecided(m)
    BY EditEffect, EditableIsUndecided DEF IInv
<1>2. /\ scoreRevision' = [scoreRevision EXCEPT ![m] = @ + 1]
      /\ side' = [side EXCEPT ![m] = [s \in Sides |-> Pending]]
      /\ UNCHANGED acceptance
    BY EditClears, EditEffect DEF IInv, verdictVars
<1>3. Ledger!Edit(m)
    BY <1>1, <1>2
    DEF Ledger!Edit, Ledger!Teams, Ledger!Silent, Ledger!NoRev, Sides, Pending, NoRev
<1> QED BY <1>3 DEF Ledger!Next

\* A team action is a statement in the ledger.
LEMMA SpeakRefines ==
    ASSUME IInv, NEW c \in Clients, NEW m \in Matches, TeamAction(c, m)
    PROVE  Ledger!Next
<1>1. Ledger!Undecided(m)
    BY TeamActionForm, EditableIsUndecided DEF IInv
<1>2. UNCHANGED <<scoreRevision, acceptance>>
    BY TeamActionFrame DEF IInv, verdictVars
<1>3. PICK s \in Sides, st \in SideState :
          /\ side' = [side EXCEPT ![m][s] = st]
          /\ \/ st = Pending
             \/ st = Approval(scoreRevision[m])
             \/ \E note \in Notes : st = Correction(scoreRevision[m], note)
    BY TeamActionForm DEF IInv, SetSide
<1>4. Ledger!Speak(m, s, st)
    BY <1>1, <1>2, <1>3 DEF Ledger!Speak
<1>5. s \in Ledger!Teams
    BY DEF Ledger!Teams, Sides
<1>6. Pending = Ledger!Silent
    BY DEF Pending, Ledger!Silent, NoRev, Ledger!NoRev
<1>7. Approval(scoreRevision[m]) = Ledger!Approval(scoreRevision[m])
    BY DEF Approval, Ledger!Approval
<1>8. \A note \in Notes : Correction(scoreRevision[m], note)
                            = Ledger!Correction(scoreRevision[m], note)
    BY DEF Correction, Ledger!Correction
<1> QED BY <1>3, <1>4, <1>5, <1>6, <1>7, <1>8 DEF Ledger!Next

\* The guarded write is the instant at which the verdict is given.
LEMMA AcceptRefines ==
    ASSUME IInv, NEW c \in Clients, AdminAccept(c)
    PROVE  Ledger!Next
<1>1. PICK m \in Matches : m = request[c].match
    BY RequestKinds DEF AdminAccept, At, IInv, TypeOK, AcceptRequest
<1> DEFINE r == request[c]
           event == [type |-> IF BothApproved(r.sides, r.revision)
                              THEN "admin_accepted" ELSE "admin_override",
                     revision |-> r.revision,
                     sides |-> [s \in Sides |-> Snapshot(r.sides[s])]]
<1>2. Editable(m) /\ scoreRevision[m] = r.revision /\ side[m] = r.sides
    BY <1>1 DEF AdminAccept, StillAsRead
<1>3. /\ acceptance' = [acceptance EXCEPT ![m] = event]
      /\ UNCHANGED <<scoreRevision, side>>
    BY <1>1 DEF AdminAccept, scoreVars
<1>4. Ledger!Undecided(m)
    BY <1>1, <1>2, EditableIsUndecided
<1>5. BothApproved(r.sides, r.revision) <=> Ledger!Agreed(m)
    <2>1. \A st \in SideState : st.state = "approved" =>
              st = [state |-> "approved", revision |-> st.revision, note |-> NoNote]
        BY DEF SideState, Pending
    <2>2. \A s \in Sides : side[m][s] \in SideState
        BY <1>1 DEF IInv, TypeOK
    <2>3. \A s \in Sides :
              side[m][s].state = "approved" /\ side[m][s].revision = scoreRevision[m]
              <=> side[m][s] = Ledger!Approval(scoreRevision[m])
        BY <2>1, <2>2 DEF Ledger!Approval
    <2> QED BY <1>2, <2>3 DEF BothApproved, Ledger!Agreed, Ledger!Teams, Sides
<1>6. event.type = IF Ledger!Agreed(m) THEN "admin_accepted" ELSE "admin_override"
    BY <1>5
<1> HIDE DEF event
<1>7. Verdict' = [Verdict EXCEPT ![m] = event.type]
    BY <1>1, <1>3 DEF Verdict, IInv, TypeOK
<1>8. Ledger!Decide(m)
    BY <1>3, <1>4, <1>6, <1>7 DEF Ledger!Decide, Verdict
<1> QED BY <1>8 DEF Ledger!Next

\* Unapproving takes the verdict back.
LEMMA RetractRefines ==
    ASSUME IInv, NEW c \in Clients, UnapproveMatch(c)
    PROVE  Ledger!Next
<1>1. PICK m \in Matches : m = request[c].match
    BY RequestKinds DEF UnapproveMatch, At, IInv, TypeOK, MatchRequest
<1>2. /\ acceptance' = [acceptance EXCEPT ![m] = NoAcceptance]
      /\ UNCHANGED <<scoreRevision, side>>
    BY <1>1 DEF UnapproveMatch, scoreVars
<1>3. Verdict' = [Verdict EXCEPT ![m] = "none"]
    BY <1>1, <1>2 DEF Verdict, NoAcceptance, IInv, TypeOK
<1>4. Ledger!Retract(m)
    BY <1>2, <1>3 DEF Ledger!Retract, Verdict
<1> QED BY <1>4 DEF Ledger!Next

\* Every step is a step of the ledger or leaves it alone.
LEMMA LedgerNext == IInv /\ [Next]_vars => [Ledger!Next]_(Ledger!vars)
<1> SUFFICES ASSUME IInv, [Next]_vars PROVE Ledger!Next \/ UNCHANGED Ledger!vars
    OBVIOUS
<1>1. CASE UNCHANGED <<scoreVars, verdictVars>>
    BY <1>1, LedgerStutters DEF scoreVars, verdictVars
<1>2. ASSUME NEW c \in Clients, NEW m \in Matches, ScoreEntry(c, m)
      PROVE  Ledger!Next \/ UNCHANGED <<scoreVars, verdictVars>>
    BY <1>2, ScoreEntryForm, EditRefines DEF IInv, StateKept
<1>3. ASSUME NEW c \in Clients, NEW m \in Matches, TeamAction(c, m)
      PROVE  Ledger!Next
    BY <1>3, SpeakRefines
<1>4. ASSUME NEW c \in Clients, Administration(c)
      PROVE  Ledger!Next \/ UNCHANGED <<scoreVars, verdictVars>>
    BY <1>4, AdministrationFrame, AcceptRefines, RetractRefines
<1>5. ASSUME NEW c \in Clients, Browsing(c) \/ WeekAction(c) \/ SeasonAction(c) \/ Abort(c)
      PROVE  UNCHANGED <<scoreVars, verdictVars>>
    BY <1>5, BrowsingFrame, WeekActionFrame, SeasonActionFrame DEF Abort, StateKept
<1>6. UNCHANGED vars => UNCHANGED <<scoreVars, verdictVars>>
    BY DEF vars
<1> QED BY <1>1, <1>2, <1>3, <1>4, <1>5, <1>6 DEF Next

\* A verdict that takes four database calls is a verdict given at one instant.
THEOREM ImplementsLedger == Spec => LedgerSpec
BY LedgerInit, LedgerNext, Inductive, PTL DEF Spec, LedgerSpec, Ledger!Spec

-----------------------------------------------------------------------------
(***************************************************************************)
(* What the order of the stages, from scores to the closed season, ensures *)
(* when the requests of a season run one after another: for any number of  *)
(* matches, weeks, notes and edits, and a single client.  With two clients *)
(* none of the four theorems holds.                                        *)
(***************************************************************************)
Alone == \A c, d \in Clients : c = d

\* What a request in flight has checked, and relies on when it writes.
RelyOn(r) ==
    /\ r.op = "process" => approved[r.match]
    /\ r.op = "unapprove" => ~processed[r.match]
    /\ r.op = "unprocess" /\ r.step = "write" => ~weekClosed[r.match]
    /\ r.op \in {"closeWeek", "reopenWeek"} => ~seasonClosed
    /\ r.op = "closeWeek" /\ r.step = "write" => \A m \in MatchesOf(r.week) : gameWon[m]
    /\ r.op = "closeSeason" => AllWeeksClosed
    /\ r.op = "closeSeason" /\ r.step # "read" => r.standings = OfficialResults
ChecksHold == \A c \in Clients : RelyOn(request[c])

StagesInv ==
    /\ ProcessedIsAccepted
    /\ ClosedWeekIsFinal
    /\ ClosedSeasonWeeksClosed
    /\ ClosedSeasonIsFinal

\* Given what holds for any number of clients, this is inductive for one.
SerialInv == StagesInv /\ ChecksHold

Relying == {"process", "unapprove", "unprocess", "closeWeek", "reopenWeek", "closeSeason"}

-----------------------------------------------------------------------------
(* Requests. *)

\* A request that has checked nothing, or is over, relies on nothing.
LEMMA RelaxedHolds ==
    ASSUME Alone, NEW c \in Clients, request'[c].op \notin Relying
    PROVE  ChecksHold'
BY DEF Alone, ChecksHold, RelyOn, Relying

LEMMA FinishedHolds ==
    ASSUME Alone, TypeOK, NEW c \in Clients, Finish(c)
    PROVE  ChecksHold'
<1>1. request'[c] = Idle
    BY DEF Finish, Continue, TypeOK
<1> QED BY <1>1, RelaxedHolds DEF Idle, Relying

\* A read leaves the stages as they are; what it checks is so when it is made.
LEMMA ReadHolds ==
    ASSUME Alone, TypeOK, StagesInv, NEW c \in Clients, NEW r, Continue(c, r), StateKept,
           RelyOn(r)
    PROVE  SerialInv'
<1>1. request'[c] = r
    BY DEF Continue, TypeOK
<1>2. /\ scoreRevision' = scoreRevision /\ completed' = completed /\ gameWon' = gameWon
      /\ approved' = approved /\ processed' = processed /\ weekClosed' = weekClosed
      /\ weekStatus' = weekStatus /\ seasonClosed' = seasonClosed
      /\ finalStandings' = finalStandings
    BY DEF StateKept, scoreVars, verdictVars, weekVars, seasonVars
<1>3. OfficialResults' = OfficialResults /\ (AllWeeksClosed' <=> AllWeeksClosed)
    BY <1>2 DEF OfficialResults, AllWeeksClosed
<1>4. ChecksHold'
    BY <1>1, <1>2, <1>3 DEF Alone, ChecksHold, RelyOn
<1>5. StagesInv'
    BY <1>2, <1>3 DEF StagesInv, ProcessedIsAccepted, ClosedWeekIsFinal,
       ClosedSeasonWeeksClosed, ClosedSeasonIsFinal
<1> QED BY <1>4, <1>5 DEF SerialInv

\* A request of these kinds goes on to its next check with what it has.
LEMMA OnwardHolds ==
    ASSUME Alone, TypeOK, SerialInv, NEW c \in Clients, NEW step, NextStep(c, step), StateKept,
           request[c] \in AcceptRequest \cup MatchRequest \cup WeekRequest \cup SeasonRequest,
           request[c].op = "unprocess" /\ step = "write" => ~weekClosed[request[c].match],
           request[c].op = "closeWeek" /\ step = "write" =>
               \A m \in MatchesOf(request[c].week) : gameWon[m],
           request[c].op = "closeSeason" => request[c].step # "read"
    PROVE  SerialInv'
<1> DEFINE r == [request[c] EXCEPT !.step = step]
<1>1. /\ r.op = request[c].op /\ r.step = step
      /\ r.op \in {"process", "unapprove", "unprocess"} => r.match = request[c].match
      /\ r.op \in {"closeWeek", "reopenWeek"} => r.week = request[c].week
      /\ r.op = "closeSeason" => r.standings = request[c].standings
    BY DEF AcceptRequest, MatchRequest, WeekRequest, SeasonRequest
<1>2. Continue(c, r)
    BY DEF NextStep
<1> HIDE DEF r
<1>3. RelyOn(request[c])
    BY DEF SerialInv, ChecksHold
<1>4. RelyOn(r)
    BY <1>1, <1>3 DEF RelyOn
<1> QED BY <1>2, <1>4, ReadHolds DEF SerialInv

-----------------------------------------------------------------------------
(* Scores and statements. *)

\* An edit is made before any stage, so the stages do not see it.
LEMMA EditStages ==
    ASSUME TypeOK, StagesInv, NEW m \in Matches, ScoreEdit(m)
    PROVE  StagesInv'
<1>1. /\ ~approved[m] /\ ~processed[m] /\ ~weekClosed[m] /\ ~seasonClosed
      /\ scoreRevision' = [scoreRevision EXCEPT ![m] = @ + 1]
      /\ UNCHANGED <<approved, processed, weekClosed, weekStatus, seasonClosed>>
    BY DEF ScoreEdit, AdvanceScoreRevision, Editable, verdictVars, weekVars, seasonVars
<1>2. \A n \in Matches : n # m => gameWon'[n] = gameWon[n]
    BY DEF ScoreEdit, TypeOK
<1>3. ClosedWeekIsFinal'
    BY <1>1, <1>2 DEF ClosedWeekIsFinal, StagesInv
<1> QED BY <1>1, <1>3 DEF StagesInv, ProcessedIsAccepted, ClosedSeasonWeeksClosed,
           ClosedSeasonIsFinal

LEMMA ScoreEntryHolds ==
    ASSUME Alone, TypeOK, SerialInv, NEW c \in Clients, NEW m \in Matches, ScoreEntry(c, m)
    PROVE  SerialInv'
<1>1. CASE OpenPage(c, m)
    <2> DEFINE r == [op |-> "opening", match |-> m, revision |-> scoreRevision[m]]
    <2>1. Continue(c, r) /\ StateKept
        BY <1>1 DEF OpenPage, StateKept
    <2>2. RelyOn(r)
        BY DEF RelyOn
    <2> HIDE DEF r
    <2> QED BY <2>1, <2>2, ReadHolds DEF SerialInv
<1>2. CASE ScoreEdit(m)
    <2>1. Finish(c) \/ (request[c] = Idle /\ request' = request) \/ OpenPage(c, m)
        BY DEF ScoreEntry, SaveRounds, SubmitResults, ClearResults, SubstituteChange
    <2>2. ChecksHold'
        <3>1. CASE request[c] = Idle /\ request' = request
            BY <3>1, RelaxedHolds DEF Idle, Relying
        <3> QED BY <1>1, <2>1, <3>1, FinishedHolds DEF SerialInv
    <2> QED BY <1>1, <1>2, <2>2, EditStages DEF SerialInv
<1>3. CASE AdvanceScoreRevision(m)
    <2>1. scoreRevision'[m] = scoreRevision[m] + 1 /\ scoreRevision[m] \in Nat
        BY <1>3 DEF AdvanceScoreRevision, TypeOK
    <2>2. ~StateKept
        BY <2>1 DEF StateKept, scoreVars
    <2> QED BY <1>2, <2>2, ScoreEntryForm
<1> QED BY <1>1, <1>3 DEF ScoreEntry, SaveRounds, SubmitResults, ClearResults, SubstituteChange

\* A statement of a team touches no stage.
LEMMA TeamActionHolds ==
    ASSUME Alone, TypeOK, SerialInv, NEW c \in Clients, NEW m \in Matches, TeamAction(c, m)
    PROVE  SerialInv'
<1>1. PICK s \in Sides, st \in SideState : SetSide(c, m, s, st)
    BY TeamActionForm
<1>2. request'[c].op = "spoken"
    BY <1>1 DEF SetSide, AwaitSnapshot, Continue, TypeOK
<1>3. ChecksHold'
    BY <1>2, RelaxedHolds DEF Relying
<1>4. /\ scoreRevision' = scoreRevision /\ completed' = completed /\ gameWon' = gameWon
      /\ approved' = approved /\ processed' = processed /\ weekClosed' = weekClosed
      /\ weekStatus' = weekStatus /\ seasonClosed' = seasonClosed
      /\ finalStandings' = finalStandings
    BY <1>1 DEF SetSide, verdictVars, weekVars, seasonVars
<1>5. StagesInv'
    BY <1>4 DEF SerialInv, StagesInv, ProcessedIsAccepted, ClosedWeekIsFinal,
       ClosedSeasonWeeksClosed, ClosedSeasonIsFinal, OfficialResults
<1> QED BY <1>3, <1>5 DEF SerialInv

LEMMA BrowsingHolds ==
    ASSUME Alone, TypeOK, SerialInv, NEW c \in Clients, Browsing(c)
    PROVE  SerialInv'
<1>1. CASE LoadRounds(c)
    <2> DEFINE r == [op |-> "page", match |-> request[c].match,
                     revision |-> request[c].revision, won |-> gameWon[request[c].match]]
    <2>1. Continue(c, r) /\ StateKept
        BY <1>1 DEF LoadRounds, StateKept
    <2>2. RelyOn(r)
        BY DEF RelyOn
    <2> HIDE DEF r
    <2> QED BY <2>1, <2>2, ReadHolds DEF SerialInv
<1>2. CASE RefreshPanel(c)
    <2> DEFINE r == [op |-> "panel", match |-> request[c].match,
                     revision |-> scoreRevision[request[c].match], won |-> request[c].won]
    <2>1. Continue(c, r) /\ StateKept
        BY <1>2 DEF RefreshPanel, StateKept
    <2>2. RelyOn(r)
        BY DEF RelyOn
    <2> HIDE DEF r
    <2> QED BY <2>1, <2>2, ReadHolds DEF SerialInv
<1> QED BY <1>1, <1>2 DEF Browsing

-----------------------------------------------------------------------------
(* Verdicts. *)

LEMMA VerdictReads ==
    ASSUME Alone, TypeOK, SerialInv, NEW c \in Clients,
           \/ \E m \in Matches : ReadForAccept(c, m)
           \/ \E m \in Matches, op \in {"process", "unapprove", "unprocess"} :
                 ReadForVerdict(c, m, op)
           \/ CheckSeasonOpen(c) \/ CheckWeekOpen(c)
    PROVE  SerialInv'
<1>0. request[c] \in Request
    BY DEF TypeOK
<1>1. ASSUME NEW m \in Matches, ReadForAccept(c, m)
      PROVE  SerialInv'
    <2> DEFINE r == [op |-> "accept", step |-> "season", match |-> m,
                     revision |-> scoreRevision[m], sides |-> side[m]]
    <2>1. Continue(c, r) /\ StateKept
        BY <1>1 DEF ReadForAccept, StateKept
    <2>2. RelyOn(r)
        BY DEF RelyOn
    <2> HIDE DEF r
    <2> QED BY <2>1, <2>2, ReadHolds DEF SerialInv
<1>2. ASSUME NEW m \in Matches, NEW op \in {"process", "unapprove", "unprocess"},
             ReadForVerdict(c, m, op)
      PROVE  SerialInv'
    <2> DEFINE r == [op |-> op, step |-> "season", match |-> m]
    <2>1. Continue(c, r) /\ StateKept
        BY <1>2 DEF ReadForVerdict, StateKept
    <2>2. RelyOn(r)
        BY <1>2 DEF RelyOn, ReadForVerdict
    <2> HIDE DEF r
    <2> QED BY <2>1, <2>2, ReadHolds DEF SerialInv
<1>3. CASE CheckSeasonOpen(c)
    <2>1. request[c] \in AcceptRequest \cup MatchRequest
        BY <1>0, <1>3, RequestKinds DEF CheckSeasonOpen, At
    <2>2. request[c].op \notin {"closeWeek", "closeSeason"}
        BY <1>3 DEF CheckSeasonOpen, At
    <2>3. NextStep(c, "week") /\ StateKept
        BY <1>3 DEF CheckSeasonOpen, StateKept
    <2> QED BY <2>1, <2>2, <2>3, OnwardHolds
<1>4. CASE CheckWeekOpen(c)
    <2>1. request[c] \in AcceptRequest \cup MatchRequest
        BY <1>0, <1>4, RequestKinds DEF CheckWeekOpen, At
    <2>2. /\ request[c].op \notin {"closeWeek", "closeSeason"}
          /\ ~weekClosed[request[c].match]
        BY <1>4 DEF CheckWeekOpen, At
    <2>3. NextStep(c, "write") /\ StateKept
        BY <1>4 DEF CheckWeekOpen, StateKept
    <2> QED BY <2>1, <2>2, <2>3, OnwardHolds
<1> QED BY <1>1, <1>2, <1>3, <1>4

\* Processing has an accepted match, taking acceptance back one that is not
\* processed, taking processing back one whose week is open.
LEMMA VerdictWrites ==
    ASSUME Alone, TypeOK, SerialInv, NEW c \in Clients,
           AdminAccept(c) \/ ProcessMatch(c) \/ UnapproveMatch(c) \/ UnprocessMatch(c)
    PROVE  SerialInv'
<1> DEFINE m == request[c].match
<1>0. request[c] \in AcceptRequest \cup MatchRequest /\ RelyOn(request[c])
    BY RequestKinds DEF AdminAccept, ProcessMatch, UnapproveMatch, UnprocessMatch, At, TypeOK,
       SerialInv, ChecksHold
<1>1. m \in Matches
    BY <1>0 DEF AcceptRequest, MatchRequest
<1>2. UNCHANGED <<scoreVars, weekVars, seasonVars>> /\ Finish(c)
    BY DEF AdminAccept, ProcessMatch, UnapproveMatch, UnprocessMatch
<1>3. ProcessedIsAccepted' /\ ClosedWeekIsFinal'
    <2>1. CASE AdminAccept(c)
        <3>1. /\ approved' = [approved EXCEPT ![m] = TRUE] /\ processed' = processed
              /\ ~weekClosed[m] /\ weekClosed' = weekClosed /\ gameWon' = gameWon
            BY <2>1 DEF AdminAccept, StillAsRead, Editable, weekVars, scoreVars
        <3> QED BY <1>1, <3>1 DEF SerialInv, StagesInv, ProcessedIsAccepted, ClosedWeekIsFinal,
                   TypeOK
    <2>2. CASE ProcessMatch(c)
        <3>1. /\ processed' = [processed EXCEPT ![m] = TRUE] /\ approved' = approved
              /\ approved[m] /\ weekClosed' = weekClosed /\ gameWon' = gameWon
            BY <1>0, <2>2 DEF ProcessMatch, At, RelyOn, verdictVars, weekVars, scoreVars
        <3> QED BY <1>1, <3>1 DEF SerialInv, StagesInv, ProcessedIsAccepted, ClosedWeekIsFinal,
                   TypeOK
    <2>3. CASE UnapproveMatch(c)
        <3>1. /\ approved' = [approved EXCEPT ![m] = FALSE] /\ processed' = processed
              /\ ~processed[m] /\ weekClosed' = weekClosed /\ gameWon' = gameWon
            BY <1>0, <2>3 DEF UnapproveMatch, At, RelyOn, weekVars, scoreVars
        <3> QED BY <1>1, <3>1 DEF SerialInv, StagesInv, ProcessedIsAccepted, ClosedWeekIsFinal,
                   TypeOK
    <2>4. CASE UnprocessMatch(c)
        <3>1. /\ processed' = [processed EXCEPT ![m] = FALSE] /\ approved' = approved
              /\ ~weekClosed[m] /\ weekClosed' = weekClosed /\ gameWon' = gameWon
            BY <1>0, <2>4 DEF UnprocessMatch, At, RelyOn, verdictVars, weekVars, scoreVars
        <3> QED BY <1>1, <3>1 DEF SerialInv, StagesInv, ProcessedIsAccepted, ClosedWeekIsFinal,
                   TypeOK
    <2> QED BY <2>1, <2>2, <2>3, <2>4
<1>4. ClosedSeasonWeeksClosed' /\ ClosedSeasonIsFinal'
    BY <1>2 DEF SerialInv, StagesInv, ClosedSeasonWeeksClosed, ClosedSeasonIsFinal,
       OfficialResults, scoreVars, weekVars, seasonVars
<1> QED BY <1>2, <1>3, <1>4, FinishedHolds DEF SerialInv, StagesInv

-----------------------------------------------------------------------------
(* Weeks and the season. *)

LEMMA WeekActionHolds ==
    ASSUME Alone, IInv, SerialInv, NEW c \in Clients, WeekAction(c)
    PROVE  SerialInv'
<1>0. TypeOK /\ request[c] \in Request /\ RelyOn(request[c])
    BY DEF IInv, TypeOK, SerialInv, ChecksHold
<1>1. ASSUME NEW w \in Weeks, BeginCloseWeek(c, w)
      PROVE  SerialInv'
    <2> DEFINE r == [op |-> "closeWeek", step |-> "check", week |-> w]
    <2>1. Continue(c, r) /\ StateKept /\ RelyOn(r)
        BY <1>1 DEF BeginCloseWeek, StateKept, RelyOn
    <2> HIDE DEF r
    <2> QED BY <1>0, <2>1, ReadHolds DEF SerialInv
<1>2. ASSUME NEW w \in Weeks, BeginReopenWeek(c, w)
      PROVE  SerialInv'
    <2> DEFINE r == [op |-> "reopenWeek", step |-> "check", week |-> w]
    <2>1. Continue(c, r) /\ StateKept /\ RelyOn(r)
        BY <1>2 DEF BeginReopenWeek, StateKept, RelyOn
    <2> HIDE DEF r
    <2> QED BY <1>0, <2>1, ReadHolds DEF SerialInv
<1>3. CASE ValidateWeek(c)
    <2>1. request[c] \in WeekRequest /\ request[c].op = "closeWeek"
        BY <1>0, <1>3, RequestKinds DEF ValidateWeek, At
    <2>2. \A m \in MatchesOf(request[c].week) : gameWon[m]
        BY <1>3 DEF ValidateWeek
    <2>3. NextStep(c, "write") /\ StateKept
        BY <1>3 DEF ValidateWeek, StateKept
    <2> QED BY <1>0, <2>1, <2>2, <2>3, OnwardHolds
<1>4. CASE CheckWeekStatus(c)
    <2>1. request[c] \in WeekRequest /\ request[c].op = "reopenWeek"
        BY <1>0, <1>4, RequestKinds DEF CheckWeekStatus, At
    <2>2. NextStep(c, "write") /\ StateKept
        BY <1>4 DEF CheckWeekStatus, StateKept
    <2> QED BY <1>0, <2>1, <2>2, OnwardHolds
<1>5. CASE CloseWeek(c)
    <2>1. request[c].op = "closeWeek" /\ request[c].step = "write"
        BY <1>5 DEF CloseWeek, At
    <2>2. ~seasonClosed /\ \A m \in MatchesOf(request[c].week) : gameWon[m]
        BY <1>0, <2>1 DEF RelyOn
    <2>3. \A m \in Matches : approved[m] => completed[m]
        BY DEF IInv, SafetyInv, AcceptanceMatchesRecord
    <2>4. /\ weekClosed' = [m \in Matches |-> weekClosed[m] \/ m \in MatchesOf(request[c].week)]
          /\ processed' = ProcessedByClose(request[c].week)
          /\ gameWon' = gameWon /\ approved' = approved /\ seasonClosed' = seasonClosed
        BY <1>5 DEF CloseWeek, scoreVars, verdictVars, seasonVars
    <2>5. ProcessedIsAccepted'
        BY <2>4 DEF SerialInv, StagesInv, ProcessedIsAccepted, ProcessedByClose
    <2>6. ClosedWeekIsFinal'
        BY <2>2, <2>3, <2>4 DEF SerialInv, StagesInv, ClosedWeekIsFinal, ProcessedByClose
    <2>7. ChecksHold'
        BY <1>0, <1>5, FinishedHolds DEF CloseWeek
    <2> QED BY <2>2, <2>4, <2>5, <2>6, <2>7 DEF SerialInv, StagesInv, ClosedSeasonWeeksClosed,
               ClosedSeasonIsFinal
<1>6. CASE ReopenWeek(c)
    <2>1. ~seasonClosed
        BY <1>0, <1>6 DEF ReopenWeek, At, RelyOn
    <2>2. /\ weekClosed' = OpenedMatches(request[c].week)
          /\ gameWon' = gameWon /\ approved' = approved /\ processed' = processed
          /\ seasonClosed' = seasonClosed
        BY <1>6 DEF ReopenWeek, scoreVars, verdictVars, seasonVars
    <2>3. ProcessedIsAccepted'
        BY <2>2 DEF SerialInv, StagesInv, ProcessedIsAccepted
    <2>4. ClosedWeekIsFinal'
        BY <2>2 DEF SerialInv, StagesInv, ClosedWeekIsFinal, OpenedMatches
    <2>5. ChecksHold'
        BY <1>0, <1>6, FinishedHolds DEF ReopenWeek
    <2> QED BY <2>1, <2>2, <2>3, <2>4, <2>5 DEF SerialInv, StagesInv, ClosedSeasonWeeksClosed,
               ClosedSeasonIsFinal
<1> QED BY <1>1, <1>2, <1>3, <1>4, <1>5, <1>6 DEF WeekAction

LEMMA SeasonActionHolds ==
    ASSUME Alone, TypeOK, SerialInv, NEW c \in Clients, SeasonAction(c)
    PROVE  SerialInv'
<1>0. request[c] \in Request /\ RelyOn(request[c])
    BY DEF TypeOK, SerialInv, ChecksHold
<1>1. CASE ListWeeks(c)
    <2> DEFINE r == [op |-> "closeSeason", step |-> "read",
                     standings |-> [m \in Matches |-> NoRev]]
    <2>1. Continue(c, r) /\ StateKept /\ RelyOn(r)
        BY <1>1 DEF ListWeeks, StateKept, RelyOn
    <2> HIDE DEF r
    <2> QED BY <2>1, ReadHolds DEF SerialInv
<1>2. CASE GetStandings(c)
    <2> DEFINE r == [op |-> "closeSeason", step |-> "check", standings |-> OfficialResults]
    <2>1. Continue(c, r) /\ StateKept
        BY <1>2 DEF GetStandings, StateKept
    <2>2. AllWeeksClosed
        BY <1>0, <1>2 DEF GetStandings, At, RelyOn
    <2>3. RelyOn(r)
        BY <2>2 DEF RelyOn
    <2> HIDE DEF r
    <2> QED BY <2>1, <2>3, ReadHolds DEF SerialInv
<1>3. CASE CheckSeasonCloseable(c)
    <2>1. /\ request[c] \in SeasonRequest
          /\ request[c].op = "closeSeason" /\ request[c].step # "read"
        BY <1>0, <1>3, RequestKinds DEF CheckSeasonCloseable, At
    <2>2. NextStep(c, "write") /\ StateKept
        BY <1>3 DEF CheckSeasonCloseable, StateKept
    <2> QED BY <2>1, <2>2, OnwardHolds
<1>4. CASE CloseSeason(c)
    <2>1. AllWeeksClosed /\ request[c].standings = OfficialResults
        BY <1>0, <1>4 DEF CloseSeason, At, RelyOn
    <2>2. /\ finalStandings' = request[c].standings
          /\ UNCHANGED <<scoreRevision, completed, gameWon, approved, processed, weekClosed,
                         weekStatus>>
        BY <1>4 DEF CloseSeason, scoreVars, verdictVars, weekVars
    <2>3. StagesInv'
        BY <2>1, <2>2 DEF SerialInv, StagesInv, ProcessedIsAccepted, ClosedWeekIsFinal,
           ClosedSeasonWeeksClosed, ClosedSeasonIsFinal, OfficialResults, AllWeeksClosed
    <2>4. ChecksHold'
        BY <1>4, FinishedHolds DEF CloseSeason
    <2> QED BY <2>3, <2>4 DEF SerialInv
<1>5. CASE BeginReopenSeason(c)
    <2> DEFINE r == [op |-> "reopenSeason"]
    <2>1. Continue(c, r) /\ StateKept /\ RelyOn(r)
        BY <1>5 DEF BeginReopenSeason, StateKept, RelyOn
    <2> HIDE DEF r
    <2> QED BY <2>1, ReadHolds DEF SerialInv
<1>6. CASE ReopenSeason(c)
    <2>1. ~seasonClosed' /\ UNCHANGED <<gameWon, approved, processed, weekClosed>>
        BY <1>6 DEF ReopenSeason, scoreVars, verdictVars, weekVars
    <2>2. ChecksHold'
        BY <1>6, FinishedHolds DEF ReopenSeason
    <2> QED BY <2>1, <2>2 DEF SerialInv, StagesInv, ProcessedIsAccepted, ClosedWeekIsFinal,
               ClosedSeasonWeeksClosed, ClosedSeasonIsFinal
<1> QED BY <1>1, <1>2, <1>3, <1>4, <1>5, <1>6 DEF SeasonAction

LEMMA AbortHolds ==
    ASSUME Alone, TypeOK, SerialInv, NEW c \in Clients, Abort(c)
    PROVE  SerialInv'
<1>1. Continue(c, Idle) /\ StateKept
    BY DEF Abort, Finish, StateKept
<1>2. RelyOn(Idle)
    BY DEF RelyOn, Idle
<1> QED BY <1>1, <1>2, ReadHolds DEF SerialInv

-----------------------------------------------------------------------------
LEMMA SerialInit == Init => SerialInv
BY DEF Init, SerialInv, StagesInv, ProcessedIsAccepted, ClosedWeekIsFinal,
       ClosedSeasonWeeksClosed, ClosedSeasonIsFinal, ChecksHold, RelyOn, Idle

LEMMA SerialNext ==
    ASSUME Alone, IInv, SerialInv, [Next]_vars
    PROVE  SerialInv'
<1>0. TypeOK
    BY DEF IInv
<1>1. CASE UNCHANGED vars
    BY <1>1 DEF vars, scoreVars, verdictVars, weekVars, seasonVars, SerialInv, StagesInv,
       ProcessedIsAccepted, ClosedWeekIsFinal, ClosedSeasonWeeksClosed, ClosedSeasonIsFinal,
       OfficialResults, ChecksHold, RelyOn, AllWeeksClosed
<1>2. ASSUME NEW c \in Clients, NEW m \in Matches, ScoreEntry(c, m) \/ TeamAction(c, m)
      PROVE  SerialInv'
    BY <1>0, <1>2, ScoreEntryHolds, TeamActionHolds
<1>3. ASSUME NEW c \in Clients, Browsing(c) \/ SeasonAction(c) \/ Abort(c)
      PROVE  SerialInv'
    BY <1>0, <1>3, BrowsingHolds, SeasonActionHolds, AbortHolds
<1>4. ASSUME NEW c \in Clients, Administration(c)
      PROVE  SerialInv'
    BY <1>0, <1>4, VerdictReads, VerdictWrites DEF Administration
<1>5. ASSUME NEW c \in Clients, WeekAction(c)
      PROVE  SerialInv'
    BY <1>5, WeekActionHolds
<1> QED BY <1>1, <1>2, <1>3, <1>4, <1>5 DEF Next

LEMMA SerialAlways ==
    ASSUME Alone
    PROVE  Spec => []SerialInv
<1>1. IInv /\ SerialInv /\ [Next]_vars => SerialInv'
    BY SerialNext
<1> QED BY <1>1, SerialInit, Inductive, PTL DEF Spec

\* With a single client, a processed match is an accepted one (ProcessMatch,
\* UnapproveMatch, closeWeekTx).
THEOREM ProcessedCorrect ==
    ASSUME Alone
    PROVE  Spec => []ProcessedIsAccepted
<1>1. SerialInv => ProcessedIsAccepted
    BY DEF SerialInv, StagesInv
<1> QED BY <1>1, SerialAlways, PTL

\* With a single client, every match of a closed week has a won game on record,
\* and the accepted ones are processed (CloseWeek, UnprocessMatch).
THEOREM ClosedWeekCorrect ==
    ASSUME Alone
    PROVE  Spec => []ClosedWeekIsFinal
<1>1. SerialInv => ClosedWeekIsFinal
    BY DEF SerialInv, StagesInv
<1> QED BY <1>1, SerialAlways, PTL

\* With a single client, the scheduled weeks of a closed season are closed
\* (CloseSeason, ReopenWeek).
THEOREM ClosedSeasonCorrect ==
    ASSUME Alone
    PROVE  Spec => []ClosedSeasonWeeksClosed
<1>1. SerialInv => ClosedSeasonWeeksClosed
    BY DEF SerialInv, StagesInv
<1> QED BY <1>1, SerialAlways, PTL

\* With a single client, the standings stored with a closed season are those of
\* its matches (GetStandings, CloseSeason and the guard of every score edit).
THEOREM StandingsCorrect ==
    ASSUME Alone
    PROVE  Spec => []ClosedSeasonIsFinal
<1>1. SerialInv => ClosedSeasonIsFinal
    BY DEF SerialInv, StagesInv
<1> QED BY <1>1, SerialAlways, PTL

=============================================================================
