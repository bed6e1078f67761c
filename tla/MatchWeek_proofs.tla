--------------------------- MODULE MatchWeek_proofs ---------------------------
(***************************************************************************)
(* Types; matches with results stay; a request that no write of another    *)
(* crosses keeps closed weeks and line-ups as its checks found them: for   *)
(* all teams, players, weeks, schedules and clients.                       *)
(***************************************************************************)
EXTENDS MatchWeek, TLAPS

\* What is typed of the schedule, and what of the lineups.
MatchesOK ==
    /\ matches \subseteq Match
    /\ \A m, n \in matches : m.id = n.id => m = n
    /\ \A m \in matches : m.id.schedule <= generated
    /\ generated \in 0..MaxSchedules
SeatsOK ==
    /\ seats \subseteq Seat
    /\ \A s, t \in seats : s.id = t.id => s = t
    /\ \A s, t \in seats :
         s.id.team = t.id.team /\ s.id.week = t.id.week /\ s.player = t.player => s = t
    /\ \A s \in seats : s.id.save <= saves
    /\ saves \in 0..MaxSaves
FlagsOK ==
    /\ closedWeeks \subseteq Weeks
    /\ seasonClosed \in BOOLEAN /\ active \in BOOLEAN
RequestsOK == request \in [Clients -> Request] /\ alone \subseteq Clients

\* The inductive invariant: ids come from inserts that have been made, which is
\* why those of the next insert are new.
IInv == MatchesOK /\ SeatsOK /\ FlagsOK /\ RequestsOK

LEMMA Types == IInv => TypeOK
  BY DEF IInv, MatchesOK, SeatsOK, FlagsOK, RequestsOK, TypeOK

(***************************************************************************)
(* Requests by kind.                                                       *)
(***************************************************************************)
LEMMA Kinds ==
    ASSUME RequestsOK, NEW c \in Clients
    PROVE  /\ Op(c, "pushback") => request[c] \in
                [op : {"pushback"}, step : {"weeks", "read"}, cutoff : Weeks, weeks : Shifts]
           /\ Op(c, "shift") => request[c] \in [op : {"shift"}, ids : SUBSET MatchId, weeks : Shifts]
           /\ Op(c, "generate") => request[c] \in
                [op : {"generate"}, step : {"weeks", "results", "save"}, plan : Schedules]
           /\ Op(c, "assign") => request[c] \in
                [op : {"assign"}, step : {"read", "write"}, match : MatchId, teams : Assignments]
  <1>1. request[c] \in Request
    BY DEF RequestsOK
  <1> QED
    BY <1>1 DEF Request, Op, Idle

LEMMA LineupKinds ==
    ASSUME RequestsOK, NEW c \in Clients
    PROVE  /\ At(c, "substitute", "find") \/ At(c, "substitute", "write") => request[c] \in
                [op : {"substitute"}, step : {"find", "write"}, seat : SeatId,
                 player : Players, was : Players]
           /\ At(c, "substitute", "locks") \/ At(c, "substitute", "lineups") => request[c] \in
                [op : {"substitute"}, step : {"locks", "lineups"}, seat : SeatId,
                 player : Players, was : Players, match : MatchId]
           /\ At(c, "clear", "find") \/ At(c, "clear", "read") => request[c] \in
                [op : {"clear"}, step : {"find", "read"}, seat : SeatId]
           /\ At(c, "clear", "locks") => request[c] \in
                [op : {"clear"}, step : {"locks"}, seat : SeatId, match : MatchId]
           /\ At(c, "clear", "write") => request[c] \in
                [op : {"clear"}, step : {"write"}, seat : SeatId, player : Players]
  <1>1. request[c] \in Request
    BY DEF RequestsOK
  <1> QED
    BY <1>1 DEF Request, At, Idle

LEMMA Going ==
    ASSUME RequestsOK, NEW c, NEW r \in Request,
           request' = [request EXCEPT ![c] = r], alone' \subseteq alone \cup {c}, c \in Clients
    PROVE  RequestsOK'
  BY DEF RequestsOK

-----------------------------------------------------------------------------
\* A step that only reads, begins or rejects leaves the tables alone.
Quiet == RequestsOK' /\ UNCHANGED <<scheduleVars, lineupVars>>

LEMMA QuietKeeps == IInv /\ Quiet => IInv'
  BY DEF IInv, MatchesOK, SeatsOK, FlagsOK, Quiet, scheduleVars, lineupVars

LEMMA BeginQuiet ==
    ASSUME RequestsOK, NEW c \in Clients, NEW r \in Request, Begin(c, r)
    PROVE  Quiet
  BY Going DEF Begin, Quiet

LEMMA ReadQuiet ==
    ASSUME RequestsOK, NEW c \in Clients, NEW r \in Request, Read(c, r)
    PROVE  Quiet
  BY Going DEF Read, Quiet

LEMMA RejectQuiet ==
    ASSUME RequestsOK, NEW c \in Clients, Reject(c)
    PROVE  Quiet
  <1>1. Idle \in Request
    BY DEF Request
  <1> QED
    BY <1>1, Going DEF Reject, Quiet

LEMMA FinishTyped ==
    ASSUME RequestsOK, NEW c \in Clients, Finish(c)
    PROVE  RequestsOK'
  <1>1. Idle \in Request
    BY DEF Request
  <1> QED
    BY <1>1, Going DEF Finish

\* The requests that edit the schedule, up to their writes.
LEMMA ScheduleReads ==
    ASSUME IInv, NEW c \in Clients,
           \/ \E cutoff \in Weeks, n \in Shifts : Pushback(c, cutoff, n)
           \/ CheckOpenWeeks(c) \/ GetPushbackMatches(c)
           \/ \E plan \in Schedules : GenerateSchedule(c, plan)
           \/ CheckNoClosedWeek(c) \/ CheckNoResults(c)
           \/ \E m \in matches, teams \in Assignments : AssignMatchTeams(c, m.id, teams)
           \/ GetMatch(c)
    PROVE  Quiet
  <1> USE DEF IInv
  <1>1. ASSUME NEW cutoff \in Weeks, NEW n \in Shifts, Pushback(c, cutoff, n) PROVE Quiet
    <2>1. [op |-> "pushback", step |-> "weeks", cutoff |-> cutoff, weeks |-> n] \in Request
      BY DEF Request
    <2> QED
      BY <1>1, <2>1, BeginQuiet DEF Pushback
  <1>2. CASE CheckOpenWeeks(c)
    <2>1. [request[c] EXCEPT !.step = "read"] \in Request
      BY <1>2, Kinds DEF CheckOpenWeeks, At, Op, Request
    <2> QED
      BY <1>2, <2>1, ReadQuiet DEF CheckOpenWeeks, Pass
  <1>3. CASE GetPushbackMatches(c)
    <2> DEFINE ids == {m.id : m \in {n \in matches : n.week >= request[c].cutoff /\ ~n.completed}}
    <2>1. ids \in SUBSET MatchId
      BY DEF MatchesOK, Match
    <2>2. request[c].weeks \in Shifts
      BY <1>3, Kinds DEF GetPushbackMatches, At, Op
    <2>3. [op |-> "shift", weeks |-> request[c].weeks, ids |-> ids] \in Request
      <3> HIDE DEF ids
      <3> QED
        BY <2>1, <2>2 DEF Request
    <2> QED
      BY <1>3, <2>3, ReadQuiet DEF GetPushbackMatches
  <1>4. ASSUME NEW plan \in Schedules, GenerateSchedule(c, plan) PROVE Quiet
    <2>1. [op |-> "generate", step |-> "weeks", plan |-> plan] \in Request
      BY DEF Request
    <2> QED
      BY <1>4, <2>1, BeginQuiet DEF GenerateSchedule
  <1>5. CASE CheckNoClosedWeek(c)
    <2>1. [request[c] EXCEPT !.step = "results"] \in Request
      BY <1>5, Kinds DEF CheckNoClosedWeek, At, Op, Request
    <2> QED
      BY <1>5, <2>1, ReadQuiet DEF CheckNoClosedWeek, Pass
  <1>6. CASE CheckNoResults(c)
    <2>1. [request[c] EXCEPT !.step = "save"] \in Request
      BY <1>6, Kinds DEF CheckNoResults, At, Op, Request
    <2> QED
      BY <1>6, <2>1, ReadQuiet DEF CheckNoResults, Pass
  <1>7. ASSUME NEW m \in matches, NEW teams \in Assignments, AssignMatchTeams(c, m.id, teams)
        PROVE Quiet
    <2>1. m.id \in MatchId
      BY DEF MatchesOK, Match
    <2>2. [op |-> "assign", step |-> "read", match |-> m.id, teams |-> teams] \in Request
      BY <2>1 DEF Request
    <2> QED
      BY <1>7, <2>2, BeginQuiet DEF AssignMatchTeams
  <1>8. CASE GetMatch(c)
    <2>1. [request[c] EXCEPT !.step = "write"] \in Request
      BY <1>8, Kinds DEF GetMatch, At, Op, Request
    <2> QED
      BY <1>8, <2>1, ReadQuiet DEF GetMatch, Pass
  <1> QED
    BY <1>1, <1>2, <1>3, <1>4, <1>5, <1>6, <1>7, <1>8

\* The requests that change a seat, up to their writes.
LEMMA LineupReads ==
    ASSUME IInv, NEW c \in Clients,
           \/ \E s \in seats, p \in Players : SetSubstitute(c, s, p)
           \/ \E s \in seats : ClearSubstitute(c, s)
           \/ FindMatchID(c) \/ FindNoMatch(c) \/ CheckEditable(c)
           \/ RejectIfPlayerAlreadyInMatch(c) \/ GetSubstitutedPlan(c)
    PROVE  Quiet
  <1> USE DEF IInv
  <1>a. \A s \in seats : s.id \in SeatId /\ s.player \in Players
    BY DEF SeatsOK, Seat
  <1>b. \A m \in matches : m.id \in MatchId
    BY DEF MatchesOK, Match
  <1>1. ASSUME NEW s \in seats, NEW p \in Players, SetSubstitute(c, s, p) PROVE Quiet
    <2>1. [op |-> "substitute", step |-> "find", seat |-> s.id,
           player |-> p, was |-> s.player] \in Request
      BY <1>a DEF Request
    <2> QED
      BY <1>1, <2>1, BeginQuiet DEF SetSubstitute
  <1>2. ASSUME NEW s \in seats, ClearSubstitute(c, s) PROVE Quiet
    <2>1. [op |-> "clear", step |-> "find", seat |-> s.id] \in Request
      BY <1>a DEF Request
    <2> QED
      BY <1>2, <2>1, BeginQuiet DEF ClearSubstitute
  <1>3. CASE FindMatchID(c)
    <2>1. CASE At(c, "substitute", "find")
      <3>1. PICK m \in matches :
              Read(c, [op |-> request[c].op, step |-> "locks", seat |-> request[c].seat,
                       player |-> request[c].player, was |-> request[c].was, match |-> m.id])
        BY <1>3, <2>1 DEF FindMatchID, PlayedBy, At
      <3>2. [op |-> request[c].op, step |-> "locks", seat |-> request[c].seat,
             player |-> request[c].player, was |-> request[c].was, match |-> m.id] \in Request
        BY <2>1, <1>b, LineupKinds DEF Request
      <3> QED
        BY <3>1, <3>2, ReadQuiet
    <2>2. CASE At(c, "clear", "find")
      <3>1. PICK m \in matches :
              Read(c, [op |-> request[c].op, step |-> "locks", seat |-> request[c].seat, match |-> m.id])
        BY <1>3, <2>2 DEF FindMatchID, PlayedBy, At
      <3>2. [op |-> request[c].op, step |-> "locks", seat |-> request[c].seat, match |-> m.id] \in Request
        BY <2>2, <1>b, LineupKinds DEF Request
      <3> QED
        BY <3>1, <3>2, ReadQuiet
    <2> QED
      BY <1>3, <2>1, <2>2 DEF FindMatchID
  <1>4. CASE FindNoMatch(c)
    <2>1. CASE At(c, "substitute", "find")
      <3>1. [request[c] EXCEPT !.step = "write"] \in Request
        BY <2>1, LineupKinds DEF Request
      <3> QED
        BY <1>4, <2>1, <3>1, ReadQuiet DEF FindNoMatch, Pass, Op, At
    <2>2. CASE At(c, "clear", "find")
      <3>1. [request[c] EXCEPT !.step = "read"] \in Request
        BY <2>2, LineupKinds DEF Request
      <3> QED
        BY <1>4, <2>2, <3>1, ReadQuiet DEF FindNoMatch, Pass, Op, At
    <2> QED
      BY <1>4, <2>1, <2>2 DEF FindNoMatch
  <1>5. CASE CheckEditable(c)
    <2>1. CASE At(c, "substitute", "locks")
      <3>1. [request[c] EXCEPT !.step = "lineups"] \in Request
        BY <2>1, LineupKinds DEF Request
      <3> QED
        BY <1>5, <2>1, <3>1, ReadQuiet DEF CheckEditable, Pass, At
    <2>2. CASE At(c, "clear", "locks")
      <3>1. [op |-> "clear", step |-> "read", seat |-> request[c].seat] \in Request
        BY <2>2, LineupKinds DEF Request
      <3> QED
        BY <1>5, <2>2, <3>1, ReadQuiet DEF CheckEditable, At
    <2> QED
      BY <1>5, <2>1, <2>2 DEF CheckEditable
  <1>6. CASE RejectIfPlayerAlreadyInMatch(c)
    <2>1. [op |-> "substitute", step |-> "write", seat |-> request[c].seat,
           player |-> request[c].player, was |-> request[c].was] \in Request
      BY <1>6, LineupKinds DEF RejectIfPlayerAlreadyInMatch, Request
    <2>2. Read(c, [op |-> "substitute", step |-> "write", seat |-> request[c].seat,
                   player |-> request[c].player, was |-> request[c].was])
      BY <1>6 DEF RejectIfPlayerAlreadyInMatch
    <2> QED
      BY <2>1, <2>2, ReadQuiet
  <1>7. CASE GetSubstitutedPlan(c)
    <2>1. PICK s \in seats :
            /\ s.subFor # NoPlayer
            /\ Read(c, [op |-> "clear", step |-> "write", seat |-> s.id, player |-> s.subFor])
      BY <1>7 DEF GetSubstitutedPlan
    <2>2. s.subFor \in Players
      BY <2>1 DEF SeatsOK, Seat
    <2>3. [op |-> "clear", step |-> "write", seat |-> s.id, player |-> s.subFor] \in Request
      BY <1>a, <2>2 DEF Request
    <2> QED
      BY <2>1, <2>3, ReadQuiet
  <1> QED
    BY <1>1, <1>2, <1>3, <1>4, <1>5, <1>6, <1>7

-----------------------------------------------------------------------------
(* The writes to matches.                                                   *)

\* A step that writes matches keeps completed ones in their week.
Kept == \A m \in matches : m.completed => \E n \in matches' : n.id = m.id /\ n.week = m.week

\* Rows that are each changed in place keep their ids.
LEMMA InPlace ==
    ASSUME MatchesOK, NEW row,
           \A m \in matches : row[m] \in Match /\ row[m].id = m.id,
           \A m \in matches : m.completed => row[m].week = m.week,
           matches' = {row[m] : m \in matches}, UNCHANGED generated
    PROVE  MatchesOK' /\ Kept
  <1>1. matches' \subseteq Match
    OBVIOUS
  <1>2. \A m, n \in matches' : m.id = n.id => m = n
    BY DEF MatchesOK
  <1>3. \A m \in matches' : m.id.schedule <= generated'
    BY DEF MatchesOK
  <1> QED
    BY <1>1, <1>2, <1>3 DEF MatchesOK, Kept

LEMMA PushbackKeeps ==
    ASSUME IInv, NEW c \in Clients, ApplyPushback(c)
    PROVE  IInv' /\ Kept
  <1> DEFINE r == request[c]
             F(m) == IF Moves(m, r.ids) THEN [m EXCEPT !.week = @ + r.weeks] ELSE m
  <1>1. MatchesOK' /\ Kept
    <2>1. \A m \in matches : F(m) \in Match /\ F(m).id = m.id
      <3> TAKE m \in matches
      <3>1. m \in Match
        BY DEF IInv, MatchesOK
      <3>2. Moves(m, r.ids) => m.week + r.weeks \in Weeks
        BY DEF ApplyPushback
      <3> QED
        BY <3>1, <3>2 DEF Match
    <2>2. \A m \in matches : m.completed => F(m).week = m.week
      BY DEF Moves
    <2>3. matches' = {F(m) : m \in matches} /\ UNCHANGED generated
      BY DEF ApplyPushback
    <2> DEFINE row == [m \in matches |-> F(m)]
    <2> HIDE DEF F
    <2>a. \A m \in matches : row[m] = F(m)
      OBVIOUS
    <2>b. matches' = {row[m] : m \in matches}
      BY <2>1, <2>2, <2>3, <2>a
    <2> HIDE DEF row
    <2> QED
      BY <2>1, <2>2, <2>3, <2>a, <2>b, InPlace DEF IInv
  <1>2. SeatsOK' /\ FlagsOK'
    BY DEF ApplyPushback, lineupVars, IInv, SeatsOK, FlagsOK
  <1> QED
    BY <1>1, <1>2, FinishTyped DEF IInv, ApplyPushback

LEMMA AssignKeeps ==
    ASSUME IInv, NEW c \in Clients, WriteTeams(c)
    PROVE  IInv' /\ Kept
  <1> DEFINE r == request[c]
             F(m) == IF m.id = r.match THEN [m EXCEPT !.home = r.teams[1], !.away = r.teams[2]]
                     ELSE m
  <1>1. MatchesOK' /\ Kept
    <2>1. r.teams[1] \in Side /\ r.teams[2] \in Side
      <3>1. r.teams \in Assignments
        BY Kinds DEF IInv, WriteTeams, At, Op
      <3> QED
        BY <3>1, AssignmentAssumption
    <2>2. \A m \in matches : F(m) \in Match /\ F(m).id = m.id /\ F(m).week = m.week
      <3> TAKE m \in matches
      <3>1. m \in Match
        BY DEF IInv, MatchesOK
      <3> QED
        BY <2>1, <3>1 DEF Match
    <2>3. matches' = {F(m) : m \in matches} /\ UNCHANGED generated
      BY DEF WriteTeams
    <2> DEFINE row == [m \in matches |-> F(m)]
    <2> HIDE DEF F
    <2>a. \A m \in matches : row[m] = F(m)
      OBVIOUS
    <2>b. matches' = {row[m] : m \in matches}
      BY <2>2, <2>3, <2>a
    <2> HIDE DEF row
    <2> QED
      BY <2>2, <2>3, <2>a, <2>b, InPlace DEF IInv
  <1>2. SeatsOK' /\ FlagsOK'
    BY DEF WriteTeams, lineupVars, IInv, SeatsOK, FlagsOK
  <1> QED
    BY <1>1, <1>2, FinishTyped DEF IInv, WriteTeams

\* The rows a schedule becomes have types, and ids of their own.
LEMMA NewRows ==
    ASSUME NEW number \in 0..MaxSchedules,
           NEW plan \in Schedules \cup {o.plan : o \in Openings}
    PROVE  /\ NewMatches(number, plan) \subseteq Match
           /\ \A m \in NewMatches(number, plan) : m.id.schedule = number
           /\ \A m, n \in NewMatches(number, plan) : m.id = n.id => m = n
  <1> DEFINE Row(e) == [id |-> [schedule |-> number, slot |-> e.slot], week |-> e.week,
                        home |-> e.home, away |-> e.away, completed |-> FALSE,
                        scored |-> FALSE, closed |-> FALSE, accepted |-> FALSE]
  <1>1. \A e \in plan : e \in Entry
    BY ScheduleAssumption
  <1>2. \A e, f \in plan : e.slot = f.slot => e = f
    BY ScheduleAssumption
  <1>3. NewMatches(number, plan) = {Row(e) : e \in plan}
    BY DEF NewMatches
  <1>4. \A e \in plan : Row(e) \in Match /\ Row(e).id.schedule = number /\ Row(e).id.slot = e.slot
    <2> TAKE e \in plan
    <2>1. [schedule |-> number, slot |-> e.slot] \in MatchId
      BY <1>1 DEF Entry, MatchId
    <2> QED
      BY <1>1, <2>1 DEF Entry, Match
  <1> HIDE DEF Row
  <1> QED
    BY <1>2, <1>3, <1>4

LEMMA GenerateKeeps ==
    ASSUME IInv, NEW c \in Clients, SaveGeneratedSchedule(c)
    PROVE  IInv' /\ Kept
  <1> DEFINE old == {m \in matches : m.completed}
             new == NewMatches(generated', request[c].plan)
  <1>1. /\ generated' \in 0..MaxSchedules /\ generated' = generated + 1
        /\ generated \in Nat
    BY BoundAssumption DEF IInv, MatchesOK, SaveGeneratedSchedule
  <1>2. request[c].plan \in Schedules
    BY Kinds DEF IInv, SaveGeneratedSchedule, At, Op
  <1>3. /\ new \subseteq Match
        /\ \A m \in new : m.id.schedule = generated'
        /\ \A m, n \in new : m.id = n.id => m = n
    BY <1>1, <1>2, NewRows
  <1>4. /\ old \subseteq Match
        /\ \A m \in old : m.id.schedule \in Nat /\ m.id.schedule <= generated
        /\ \A m, n \in old : m.id = n.id => m = n
    BY DEF IInv, MatchesOK, Match, MatchId
  <1>5. matches' = old \cup new
    BY DEF SaveGeneratedSchedule
  <1>6. Kept
    BY <1>5 DEF Kept
  <1> HIDE DEF old, new
  <1>7. MatchesOK'
    BY <1>1, <1>3, <1>4, <1>5 DEF MatchesOK
  <1>8. SeatsOK' /\ FlagsOK'
    BY DEF SaveGeneratedSchedule, lineupVars, IInv, SeatsOK, FlagsOK
  <1> QED
    BY <1>6, <1>7, <1>8, FinishTyped DEF IInv, SaveGeneratedSchedule

\* Scores, acceptances, weeks and the season's close.
LEMMA DecideKeeps ==
    ASSUME IInv, NEW m \in matches, NEW n \in Match, n.id = m.id, n.week = m.week, Decide(m, n)
    PROVE  IInv' /\ Kept
  <1>1. matches' \subseteq Match
    BY DEF Decide, IInv, MatchesOK
  <1>2. \A k, l \in matches' : k.id = l.id => k = l
    BY DEF Decide, IInv, MatchesOK
  <1>3. \A k \in matches' : k.id.schedule <= generated
    BY DEF Decide, IInv, MatchesOK
  <1>4. Kept
    BY DEF Decide, Kept
  <1>5. MatchesOK'
    BY <1>1, <1>2, <1>3 DEF MatchesOK, Decide, IInv
  <1> QED
    BY <1>4, <1>5 DEF Decide, lineupVars, IInv, SeatsOK, FlagsOK, RequestsOK

LEMMA PlayKeeps ==
    ASSUME IInv, Play
    PROVE  IInv' /\ Kept
  <1>1. ASSUME NEW m \in matches, SaveRounds(m) \/ ClearResults(m) \/ Accept(m) \/ Unaccept(m)
        PROVE  IInv' /\ Kept
    <2>0. m \in Match
      BY DEF IInv, MatchesOK
    <2>1. PICK n \in {[m EXCEPT !.completed = TRUE, !.scored = TRUE], [m EXCEPT !.completed = FALSE],
                      [m EXCEPT !.accepted = TRUE], [m EXCEPT !.accepted = FALSE]} : Decide(m, n)
      BY <1>1 DEF SaveRounds, ClearResults, Accept, Unaccept
    <2>2. n \in Match /\ n.id = m.id /\ n.week = m.week
      BY <2>0, <2>1 DEF Match
    <2> QED
      BY <2>1, <2>2, DecideKeeps
  <1>2. ASSUME NEW w \in Weeks, CloseWeek(w) \/ ReopenWeek(w)
        PROVE  IInv' /\ Kept
    <2>1. PICK closed \in BOOLEAN : MarkWeek(w, closed)
      BY <1>2 DEF CloseWeek, ReopenWeek
    <2> DEFINE F(m) == IF m.week = w THEN [m EXCEPT !.closed = closed] ELSE m
    <2>2. \A m \in matches : F(m) \in Match /\ F(m).id = m.id /\ F(m).week = m.week
      <3> TAKE m \in matches
      <3>1. m \in Match
        BY DEF IInv, MatchesOK
      <3> QED
        BY <2>1, <3>1 DEF Match
    <2>3. matches' = {F(m) : m \in matches} /\ UNCHANGED generated
      BY <2>1 DEF MarkWeek
    <2>4. MatchesOK' /\ Kept
      <3> DEFINE row == [m \in matches |-> F(m)]
      <3> HIDE DEF F
      <3>a. \A m \in matches : row[m] = F(m)
        OBVIOUS
      <3>b. matches' = {row[m] : m \in matches}
        BY <2>2, <2>3, <3>a
      <3> HIDE DEF row
      <3> QED
        BY <2>2, <2>3, <3>a, <3>b, InPlace DEF IInv
    <2>5. closedWeeks' \subseteq Weeks
      BY <1>2 DEF CloseWeek, ReopenWeek, IInv, FlagsOK
    <2> QED
      BY <2>1, <2>4, <2>5 DEF MarkWeek, lineupVars, IInv, SeatsOK, FlagsOK, RequestsOK
  <1>3. CASE CloseSeason \/ ReopenSeason
    <2>1. PICK closed \in BOOLEAN : SetSeasonClosed(closed)
      BY <1>3 DEF CloseSeason, ReopenSeason
    <2> QED
      BY <2>1 DEF SetSeasonClosed, lineupVars, IInv, MatchesOK, SeatsOK, FlagsOK, RequestsOK, Kept
  <1> QED
    BY <1>1, <1>2, <1>3 DEF Play

-----------------------------------------------------------------------------
(* The writes to lineups.                                                   *)

LEMMA SaveLineupTyped ==
    ASSUME IInv, NEW team \in Teams, NEW week \in LineupWeeks, NEW players \in Lineups,
           SaveTeamLineup(team, week, players)
    PROVE  SeatsOK'
  <1> DEFINE New(p) == [id |-> [save |-> saves', team |-> team, week |-> week, player |-> p],
                        player |-> p, subFor |-> NoPlayer]
             kept == {s \in seats : s.id.team # team \/ s.id.week # week}
  <1>1. saves' = saves + 1 /\ saves \in Nat /\ saves' \in 1..MaxSaves
    BY BoundAssumption DEF SaveTeamLineup, IInv, SeatsOK
  <1>2. seats' = kept \cup {New(p) : p \in players}
    BY DEF SaveTeamLineup
  <1>3. \A p \in players : /\ New(p) \in Seat
                           /\ New(p).id.save = saves'
                           /\ New(p).id.team = team /\ New(p).id.week = week
                           /\ New(p).id.player = p /\ New(p).player = p
    <2> TAKE p \in players
    <2>1. p \in Players
      BY LineupAssumption
    <2>2. [save |-> saves', team |-> team, week |-> week, player |-> p] \in SeatId
      BY <1>1, <2>1 DEF SeatId
    <2> QED
      BY <2>1, <2>2 DEF Seat
  <1>4. /\ kept \subseteq Seat
        /\ \A s \in kept : s.id.save \in Nat /\ s.id.save <= saves
        /\ \A s \in kept : s.id.team # team \/ s.id.week # week
        /\ \A s, t \in kept : s.id = t.id => s = t
        /\ \A s, t \in kept :
             s.id.team = t.id.team /\ s.id.week = t.id.week /\ s.player = t.player => s = t
    BY DEF IInv, SeatsOK, Seat, SeatId
  <1> HIDE DEF New, kept
  <1>5. seats' \subseteq Seat
    BY <1>2, <1>3, <1>4
  <1>6. \A s, t \in seats' : s.id = t.id => s = t
    BY <1>1, <1>2, <1>3, <1>4
  <1>7. \A s, t \in seats' :
          s.id.team = t.id.team /\ s.id.week = t.id.week /\ s.player = t.player => s = t
    BY <1>2, <1>3, <1>4
  <1>8. \A s \in seats' : s.id.save <= saves'
    BY <1>1, <1>2, <1>3, <1>4
  <1>9. saves' \in 0..MaxSaves
    BY <1>1
  <1> QED
    BY <1>5, <1>6, <1>7, <1>8, <1>9 DEF SeatsOK

\* Unique is the index that keeps a player from two seats of a team.
LEMMA ChangeSeatTyped ==
    ASSUME IInv, NEW seat, NEW p \in Players, NEW was \in Players \cup {NoPlayer},
           ChangeSeat(seat, p, was)
    PROVE  SeatsOK'
  <1> DEFINE F(s) == IF s.id = seat THEN [s EXCEPT !.player = p, !.subFor = was] ELSE s
  <1>1. seats' = {F(s) : s \in seats} /\ saves' = saves
    BY DEF ChangeSeat
  <1>2. \A s \in seats : /\ F(s) \in Seat /\ F(s).id = s.id
                         /\ s.id # seat => F(s).player = s.player
                         /\ s.id = seat => F(s).player = p
    <2> TAKE s \in seats
    <2>1. s \in Seat
      BY DEF IInv, SeatsOK
    <2> QED
      BY <2>1 DEF Seat
  <1>3. \A s \in seats : s.id # seat /\ s.id.week = seat.week /\ s.id.team = seat.team =>
                           s.player # p
    BY DEF ChangeSeat, Unique, InLineup
  <1> HIDE DEF F
  <1>4. \A s, t \in seats : s.id = t.id => s = t
    BY DEF IInv, SeatsOK
  <1>5. \A s, t \in seats :
          s.id.team = t.id.team /\ s.id.week = t.id.week /\ F(s).player = F(t).player => s = t
    <2> SUFFICES ASSUME NEW s \in seats, NEW t \in seats, s.id.team = t.id.team,
                        s.id.week = t.id.week, F(s).player = F(t).player
                 PROVE  s = t
      OBVIOUS
    <2>1. CASE s.id = seat /\ t.id = seat
      BY <1>4, <2>1
    <2>2. CASE s.id = seat /\ t.id # seat
      BY <1>2, <1>3, <2>2
    <2>3. CASE s.id # seat /\ t.id = seat
      BY <1>2, <1>3, <2>3
    <2>4. CASE s.id # seat /\ t.id # seat
      BY <1>2, <2>4 DEF IInv, SeatsOK
    <2> QED
      BY <2>1, <2>2, <2>3, <2>4
  <1>6. seats' \subseteq Seat
    BY <1>1, <1>2
  <1>7. \A s, t \in seats' : s.id = t.id => s = t
    BY <1>1, <1>2, <1>4
  <1>8. \A s, t \in seats' :
          s.id.team = t.id.team /\ s.id.week = t.id.week /\ s.player = t.player => s = t
    BY <1>1, <1>2, <1>5
  <1>9. \A s \in seats' : s.id.save <= saves'
    BY <1>1, <1>2 DEF IInv, SeatsOK
  <1> QED
    BY <1>1, <1>6, <1>7, <1>8, <1>9 DEF IInv, SeatsOK

LEMMA LineupWritesKeep ==
    ASSUME IInv,
           \/ Lineup
           \/ \E c \in Clients : WriteSubstitute(c) \/ WriteCleared(c)
    PROVE  IInv' /\ Kept
  <1>1. ASSUME UNCHANGED scheduleVars, SeatsOK', RequestsOK'
        PROVE  IInv' /\ Kept
    BY <1>1 DEF scheduleVars, IInv, MatchesOK, FlagsOK, Kept
  <1>2. ASSUME NEW t \in Teams, NEW w \in LineupWeeks, NEW ps \in Lineups, SaveTeamLineup(t, w, ps)
        PROVE  IInv' /\ Kept
    <2>1. UNCHANGED scheduleVars /\ RequestsOK'
      BY <1>2 DEF SaveTeamLineup, IInv, RequestsOK
    <2> QED
      BY <1>1, <1>2, <2>1, SaveLineupTyped
  <1>3. ASSUME NEW s \in seats, DeleteLineupPlan(s)
        PROVE  IInv' /\ Kept
    <2>1. UNCHANGED scheduleVars /\ RequestsOK'
      BY <1>3 DEF DeleteLineupPlan, IInv, RequestsOK
    <2>2. SeatsOK'
      BY <1>3 DEF DeleteLineupPlan, IInv, SeatsOK
    <2> QED
      BY <1>1, <2>1, <2>2
  <1>4. ASSUME NEW c \in Clients, WriteSubstitute(c)
        PROVE  IInv' /\ Kept
    <2>1. request[c].player \in Players /\ request[c].was \in Players
      BY <1>4, LineupKinds DEF WriteSubstitute, IInv
    <2>2. SeatsOK'
      BY <1>4, <2>1, ChangeSeatTyped DEF WriteSubstitute
    <2>3. UNCHANGED scheduleVars /\ RequestsOK'
      BY <1>4, FinishTyped DEF WriteSubstitute, ChangeSeat, IInv
    <2> QED
      BY <1>1, <2>2, <2>3
  <1>5. ASSUME NEW c \in Clients, WriteCleared(c)
        PROVE  IInv' /\ Kept
    <2>1. request[c].player \in Players
      BY <1>5, LineupKinds DEF WriteCleared, IInv
    <2>2. SeatsOK'
      BY <1>5, <2>1, ChangeSeatTyped DEF WriteCleared
    <2>3. UNCHANGED scheduleVars /\ RequestsOK'
      BY <1>5, FinishTyped DEF WriteCleared, ChangeSeat, IInv
    <2> QED
      BY <1>1, <2>2, <2>3
  <1> QED
    BY <1>2, <1>3, <1>4, <1>5 DEF Lineup

-----------------------------------------------------------------------------
LEMMA InitInv == Init => IInv
  <1> SUFFICES ASSUME Init PROVE IInv
    OBVIOUS
  <1>1. PICK o \in Openings : matches = NewMatches(0, o.plan)
    BY DEF Init
  <1>2. 0 \in 0..MaxSchedules /\ 0 \in 0..MaxSaves
    BY BoundAssumption
  <1>3. MatchesOK
    <2>1. /\ NewMatches(0, o.plan) \subseteq Match
          /\ \A m \in NewMatches(0, o.plan) : m.id.schedule = 0
          /\ \A m, n \in NewMatches(0, o.plan) : m.id = n.id => m = n
      BY <1>2, NewRows
    <2> QED
      BY <1>1, <1>2, <2>1 DEF Init, MatchesOK
  <1>4. SeatsOK /\ FlagsOK
    BY <1>2 DEF Init, SeatsOK, FlagsOK
  <1>5. RequestsOK
    <2>1. Idle \in Request
      BY DEF Request
    <2> QED
      BY <2>1 DEF Init, RequestsOK
  <1> QED
    BY <1>3, <1>4, <1>5 DEF IInv

LEMMA NextInv == IInv /\ Next => IInv' /\ Kept
  <1> SUFFICES ASSUME IInv, Next PROVE IInv' /\ Kept
    OBVIOUS
  <1>1. ASSUME Quiet PROVE IInv' /\ Kept
    BY <1>1, QuietKeeps DEF Quiet, scheduleVars, Kept
  <1>2. ASSUME NEW c \in Clients, ScheduleWork(c) PROVE IInv' /\ Kept
    BY <1>1, <1>2, ScheduleReads, PushbackKeeps, GenerateKeeps, AssignKeeps DEF ScheduleWork
  <1>3. ASSUME NEW c \in Clients, LineupWork(c) PROVE IInv' /\ Kept
    BY <1>1, <1>3, LineupReads, LineupWritesKeep DEF LineupWork
  <1>4. ASSUME NEW c \in Clients, Reject(c) PROVE IInv' /\ Kept
    BY <1>1, <1>4, RejectQuiet DEF IInv
  <1> QED
    BY <1>2, <1>3, <1>4, PlayKeeps, LineupWritesKeep DEF Next

LEMMA StutterInv == IInv /\ UNCHANGED vars => IInv' /\ Kept
  BY DEF vars, scheduleVars, lineupVars, requestVars, IInv, MatchesOK, SeatsOK, FlagsOK,
         RequestsOK, Kept

LEMMA Invariance == Spec => []IInv
  <1>1. IInv /\ [Next]_vars => IInv'
    BY NextInv, StutterInv
  <1> QED
    BY <1>1, InitInv, PTL DEF Spec

\* Every value has its type, a row its own id, and no team a player twice in a week
\* (lineup_plans, league_weeks and matches under ScheduleService, PushbackService,
\* MatchService and LineupService).
THEOREM TypeCorrect == Spec => []TypeOK
  BY Types, Invariance, PTL

\* A match with a result is neither deleted nor moved to another week, however the
\* requests of any number of clients interleave (SaveGeneratedSchedule, ApplyPushback).
THEOREM CompletedCorrect == Spec => CompletedMatchesStay
  <1>1. IInv /\ [Next]_vars => Kept
    BY NextInv, StutterInv
  <1>2. IInv /\ [Next]_vars => [\A m \in matches : m.completed =>
          \E n \in matches' : n.id = m.id /\ n.week = m.week]_vars
    BY <1>1 DEF Kept
  <1> QED
    BY <1>2, Invariance, PTL DEF Spec, CompletedMatchesStay

(***************************************************************************)
(* What a request has checked is still so while nobody else has written.   *)
(***************************************************************************)
\* Neither played yet by the other seats of the match, nor a match at all.
Free(r) ==
    LET played == PlayedBy(r.seat.team, r.seat.week) IN
    \/ played = {}
    \/ \E m \in played : ~InLineup(r.player, {m.home, m.away}, r.seat.week, r.seat)
Found(r) == \E m \in PlayedBy(r.seat.team, r.seat.week) : m.id = r.match
\* The matches of a pushback are of weeks from one on, and none of those is closed.
FromOpenWeek(ids) ==
    \E cutoff \in Weeks : /\ ClosedAtOrAfter(cutoff) = {}
                          /\ \A m \in matches : m.id \in ids => m.week >= cutoff
Fit(r) ==
    /\ r.op = "pushback" /\ r.step = "read" => ClosedAtOrAfter(r.cutoff) = {}
    /\ r.op = "shift" => FromOpenWeek(r.ids)
    /\ r.op = "generate" /\ r.step \in {"results", "save"} => closedWeeks = {}
    /\ r.op = "substitute" /\ r.step \in {"locks", "lineups"} => Found(r)
    /\ r.op = "substitute" /\ r.step = "write" => Free(r)
AloneFits == \A c \in alone : Fit(request[c])

\* A step that leaves the tables alone, after which c's request is r.
LEMMA FitGoes ==
    ASSUME IInv, AloneFits, NEW c \in Clients, NEW r,
           request' = [request EXCEPT ![c] = r], alone' \subseteq alone \cup {c},
           c \in alone' => Fit(r), UNCHANGED <<scheduleVars, lineupVars>>
    PROVE  AloneFits'
  <1> SUFFICES ASSUME NEW d \in alone' PROVE Fit(request[d])'
    BY DEF AloneFits
  <1>1. d \in Clients
    BY DEF IInv, RequestsOK
  <1>2. PICK q : q = request'[d]
    OBVIOUS
  <1>3. Fit(q)
    <2>1. CASE d = c
      BY <1>2, <2>1 DEF IInv, RequestsOK
    <2>2. CASE d # c
      BY <1>1, <1>2, <2>2 DEF AloneFits, IInv, RequestsOK
    <2> QED
      BY <2>1, <2>2
  <1>4. Fit(q)'
    BY <1>3 DEF Fit, Free, Found, FromOpenWeek, PlayedBy, InLineup, ClosedAtOrAfter,
                scheduleVars, lineupVars
  <1> QED
    BY <1>2, <1>4 DEF Fit, Free, Found, FromOpenWeek

LEMMA FitBegins ==
    ASSUME IInv, AloneFits, NEW c \in Clients, NEW r, Fit(r), Begin(c, r)
    PROVE  AloneFits'
  BY FitGoes DEF Begin

LEMMA FitReads ==
    ASSUME IInv, AloneFits, NEW c \in Clients, NEW r, c \in alone => Fit(r), Read(c, r)
    PROVE  AloneFits'
  BY FitGoes DEF Read

LEMMA ScheduleFits ==
    ASSUME IInv, AloneFits, NEW c \in Clients,
           \/ \E cutoff \in Weeks, n \in Shifts : Pushback(c, cutoff, n)
           \/ CheckOpenWeeks(c) \/ GetPushbackMatches(c)
           \/ \E plan \in Schedules : GenerateSchedule(c, plan)
           \/ CheckNoClosedWeek(c) \/ CheckNoResults(c)
           \/ \E m \in matches, teams \in Assignments : AssignMatchTeams(c, m.id, teams)
           \/ GetMatch(c)
    PROVE  AloneFits'
  <1>0. RequestsOK
    BY DEF IInv
  <1>1. ASSUME NEW cutoff \in Weeks, NEW n \in Shifts, Pushback(c, cutoff, n) PROVE AloneFits'
    BY <1>1, FitBegins DEF Pushback, Fit
  <1>2. CASE CheckOpenWeeks(c)
    <2>1. Fit([request[c] EXCEPT !.step = "read"])
      BY <1>0, <1>2, Kinds DEF CheckOpenWeeks, At, Op, Fit
    <2> QED
      BY <1>2, <2>1, FitReads DEF CheckOpenWeeks, Pass
  <1>3. CASE GetPushbackMatches(c)
    <2> DEFINE ids == {m.id : m \in {n \in matches : n.week >= request[c].cutoff /\ ~n.completed}}
               r == [op |-> "shift", weeks |-> request[c].weeks, ids |-> ids]
    <2>1. ASSUME c \in alone PROVE FromOpenWeek(ids)
      <3>1. ClosedAtOrAfter(request[c].cutoff) = {}
        BY <1>3, <2>1 DEF AloneFits, Fit, GetPushbackMatches, At
      <3>2. request[c].cutoff \in Weeks
        BY <1>0, <1>3, Kinds DEF GetPushbackMatches, At, Op
      <3>3. \A m \in matches : m.id \in ids => m.week >= request[c].cutoff
        BY DEF IInv, MatchesOK
      <3> QED
        BY <3>1, <3>2, <3>3 DEF FromOpenWeek
    <2> HIDE DEF ids
    <2>2. r.op = "shift" /\ r.ids = ids
      OBVIOUS
    <2>3. c \in alone => Fit(r)
      BY <2>1, <2>2 DEF Fit
    <2>4. Read(c, r)
      BY <1>3 DEF GetPushbackMatches, ids
    <2> HIDE DEF r
    <2> QED
      BY <2>3, <2>4, FitReads
  <1>4. ASSUME NEW plan \in Schedules, GenerateSchedule(c, plan) PROVE AloneFits'
    BY <1>4, FitBegins DEF GenerateSchedule, Fit
  <1>5. CASE CheckNoClosedWeek(c)
    <2>1. Fit([request[c] EXCEPT !.step = "results"])
      BY <1>0, <1>5, Kinds DEF CheckNoClosedWeek, At, Op, Fit
    <2> QED
      BY <1>5, <2>1, FitReads DEF CheckNoClosedWeek, Pass
  <1>6. CASE CheckNoResults(c)
    <2>1. c \in alone => closedWeeks = {}
      BY <1>6 DEF AloneFits, Fit, CheckNoResults, At
    <2>2. c \in alone => Fit([request[c] EXCEPT !.step = "save"])
      BY <1>0, <1>6, <2>1, Kinds DEF CheckNoResults, At, Op, Fit
    <2> QED
      BY <1>6, <2>2, FitReads DEF CheckNoResults, Pass
  <1>7. ASSUME NEW m \in matches, NEW teams \in Assignments, AssignMatchTeams(c, m.id, teams)
        PROVE AloneFits'
    BY <1>7, FitBegins DEF AssignMatchTeams, Fit
  <1>8. CASE GetMatch(c)
    <2>1. Fit([request[c] EXCEPT !.step = "write"])
      BY <1>0, <1>8, Kinds DEF GetMatch, At, Op, Fit
    <2> QED
      BY <1>8, <2>1, FitReads DEF GetMatch, Pass
  <1> QED
    BY <1>1, <1>2, <1>3, <1>4, <1>5, <1>6, <1>7, <1>8

LEMMA LineupFits ==
    ASSUME IInv, AloneFits, NEW c \in Clients,
           \/ \E s \in seats, p \in Players : SetSubstitute(c, s, p)
           \/ \E s \in seats : ClearSubstitute(c, s)
           \/ FindMatchID(c) \/ FindNoMatch(c) \/ CheckEditable(c)
           \/ RejectIfPlayerAlreadyInMatch(c) \/ GetSubstitutedPlan(c)
    PROVE  AloneFits'
  <1>0. RequestsOK
    BY DEF IInv
  <1>1. ASSUME NEW s \in seats, NEW p \in Players, SetSubstitute(c, s, p) PROVE AloneFits'
    BY <1>1, FitBegins DEF SetSubstitute, Fit
  <1>2. ASSUME NEW s \in seats, ClearSubstitute(c, s) PROVE AloneFits'
    BY <1>2, FitBegins DEF ClearSubstitute, Fit
  <1>3. CASE FindMatchID(c)
    <2>1. ASSUME At(c, "substitute", "find"),
                 NEW m \in PlayedBy(request[c].seat.team, request[c].seat.week),
                 Read(c, [op |-> request[c].op, step |-> "locks", seat |-> request[c].seat,
                          player |-> request[c].player, was |-> request[c].was, match |-> m.id])
          PROVE  AloneFits'
      <3> DEFINE r == [op |-> request[c].op, step |-> "locks", seat |-> request[c].seat,
                       player |-> request[c].player, was |-> request[c].was, match |-> m.id]
      <3>1. r.op = "substitute" /\ r.step = "locks" /\ r.seat = request[c].seat /\ r.match = m.id
        BY <2>1 DEF At
      <3> HIDE DEF r
      <3>2. Fit(r)
        BY <3>1 DEF Fit, Found
      <3> QED
        BY <2>1, <3>2, FitReads DEF r
    <2>2. ASSUME At(c, "clear", "find"),
                 NEW m \in PlayedBy(request[c].seat.team, request[c].seat.week),
                 Read(c, [op |-> request[c].op, step |-> "locks", seat |-> request[c].seat,
                          match |-> m.id])
          PROVE  AloneFits'
      <3> DEFINE r == [op |-> request[c].op, step |-> "locks", seat |-> request[c].seat,
                       match |-> m.id]
      <3>1. r.op = "clear"
        BY <2>2 DEF At
      <3> HIDE DEF r
      <3>2. Fit(r)
        BY <3>1 DEF Fit
      <3> QED
        BY <2>2, <3>2, FitReads DEF r
    <2> QED
      BY <1>3, <2>1, <2>2 DEF FindMatchID
  <1>4. CASE FindNoMatch(c)
    <2> DEFINE step == IF Op(c, "substitute") THEN "write" ELSE "read"
               r == [request[c] EXCEPT !.step = step]
    <2>1. /\ r.op = request[c].op /\ r.seat = request[c].seat
          /\ r.op = "substitute" => r.step = "write"
          /\ r.op \in {"substitute", "clear"}
      BY <1>0, <1>4, LineupKinds DEF FindNoMatch, At, Op
    <2>2. PlayedBy(r.seat.team, r.seat.week) = {} /\ Read(c, r)
      BY <1>4, <2>1 DEF FindNoMatch, Pass
    <2> HIDE DEF r
    <2>3. Fit(r)
      BY <2>1, <2>2 DEF Fit, Free
    <2> QED
      BY <2>2, <2>3, FitReads
  <1>5. CASE CheckEditable(c)
    <2>1. CASE At(c, "substitute", "locks") /\ Pass(c, "lineups")
      <3> DEFINE r == [request[c] EXCEPT !.step = "lineups"]
      <3>1. r.op = "substitute" /\ r.step = "lineups" /\ r.seat = request[c].seat
              /\ r.match = request[c].match
        BY <1>0, <2>1, LineupKinds DEF At
      <3>2. c \in alone => Found(request[c])
        BY <2>1 DEF AloneFits, Fit, At
      <3> HIDE DEF r
      <3>3. c \in alone => Fit(r)
        BY <3>1, <3>2 DEF Fit, Found
      <3> QED
        BY <2>1, <3>3, FitReads DEF r, Pass
    <2>2. CASE Read(c, [op |-> "clear", step |-> "read", seat |-> request[c].seat])
      BY <2>2, FitReads DEF Fit
    <2> QED
      BY <1>5, <2>1, <2>2 DEF CheckEditable
  <1>6. CASE RejectIfPlayerAlreadyInMatch(c)
    <2> DEFINE r == [op |-> "substitute", step |-> "write", seat |-> request[c].seat,
                     player |-> request[c].player, was |-> request[c].was]
    <2>1. r.op = "substitute" /\ r.step = "write" /\ r.seat = request[c].seat
            /\ r.player = request[c].player
      OBVIOUS
    <2>2. Read(c, r)
      BY <1>6 DEF RejectIfPlayerAlreadyInMatch
    <2>3. PICK m \in matches :
            /\ m.id = request[c].match
            /\ ~InLineup(request[c].player, {m.home, m.away}, request[c].seat.week, request[c].seat)
      BY <1>6 DEF RejectIfPlayerAlreadyInMatch, BothTeams
    <2>4. c \in alone => m \in PlayedBy(request[c].seat.team, request[c].seat.week)
      <3> SUFFICES ASSUME c \in alone
                   PROVE  m \in PlayedBy(request[c].seat.team, request[c].seat.week)
        OBVIOUS
      <3>1. Found(request[c])
        BY <1>6 DEF AloneFits, Fit, RejectIfPlayerAlreadyInMatch, At
      <3>2. PICK n \in PlayedBy(request[c].seat.team, request[c].seat.week) :
                   n.id = request[c].match
        BY <3>1 DEF Found
      <3>3. n \in matches
        BY DEF PlayedBy
      <3> QED
        BY <2>3, <3>2, <3>3 DEF IInv, MatchesOK
    <2> HIDE DEF r
    <2>5. c \in alone => Free(r)
      BY <2>1, <2>3, <2>4 DEF Free
    <2>6. c \in alone => Fit(r)
      BY <2>1, <2>5 DEF Fit
    <2> QED
      BY <2>2, <2>6, FitReads
  <1>7. CASE GetSubstitutedPlan(c)
    <2>1. PICK s \in seats :
            Read(c, [op |-> "clear", step |-> "write", seat |-> s.id, player |-> s.subFor])
      BY <1>7 DEF GetSubstitutedPlan
    <2> QED
      BY <2>1, FitReads DEF Fit
  <1> QED
    BY <1>1, <1>2, <1>3, <1>4, <1>5, <1>6, <1>7

LEMMA RejectFits ==
    ASSUME IInv, AloneFits, NEW c \in Clients, Reject(c)
    PROVE  AloneFits'
  <1>1. Fit(Idle)
    BY DEF Fit, Idle
  <1> QED
    BY <1>1, FitGoes DEF Reject

LEMMA AloneFitsNext == IInv /\ AloneFits /\ [Next]_vars => AloneFits'
  <1> SUFFICES ASSUME IInv, AloneFits, [Next]_vars PROVE AloneFits'
    OBVIOUS
  <1>1. ASSUME alone' = {} PROVE AloneFits'
    BY <1>1 DEF AloneFits
  <1>2. ASSUME NEW c \in Clients, ScheduleWork(c) PROVE AloneFits'
    BY <1>1, <1>2, ScheduleFits
       DEF ScheduleWork, ApplyPushback, SaveGeneratedSchedule, WriteTeams, Finish
  <1>3. ASSUME NEW c \in Clients, LineupWork(c) PROVE AloneFits'
    BY <1>1, <1>3, LineupFits DEF LineupWork, WriteSubstitute, WriteCleared, Finish
  <1>4. CASE Lineup
    BY <1>1, <1>4 DEF Lineup, SaveTeamLineup, DeleteLineupPlan
  <1>5. CASE Play
    BY <1>1, <1>5 DEF Play, SaveRounds, ClearResults, Accept, Unaccept, Decide, CloseWeek,
                      ReopenWeek, MarkWeek, CloseSeason, ReopenSeason, SetSeasonClosed
  <1>6. CASE UNCHANGED vars
    BY <1>6 DEF vars, scheduleVars, lineupVars, requestVars, AloneFits, Fit, Free, Found,
                FromOpenWeek, PlayedBy, InLineup, ClosedAtOrAfter
  <1> QED
    BY <1>2, <1>3, <1>4, <1>5, <1>6, RejectFits DEF Next

LEMMA AlwaysFit == Spec => [](IInv /\ AloneFits)
  <1>1. Init => AloneFits
    BY DEF Init, AloneFits
  <1>2. IInv /\ [Next]_vars => IInv'
    BY NextInv, StutterInv
  <1> QED
    BY <1>1, <1>2, InitInv, AloneFitsNext, PTL DEF Spec

-----------------------------------------------------------------------------
\* The writes of requests; each is the end of the request that makes it.
Writes(c) ==
    \/ ApplyPushback(c) \/ SaveGeneratedSchedule(c) \/ WriteTeams(c)
    \/ WriteSubstitute(c) \/ WriteCleared(c)

\* A request ends with its own write, or the step leaves matches and seats alone.
LEMMA Ending ==
    ASSUME IInv, [Next]_vars, NEW c \in Clients, request[c] # Idle, request'[c] = Idle
    PROVE  Writes(c) \/ UNCHANGED <<matches, seats>>
  <1>1. Quiet => UNCHANGED <<matches, seats>>
    BY DEF Quiet, scheduleVars, lineupVars
  <1>2. ASSUME NEW d \in Clients, Writes(d) PROVE Writes(c)
    <2>1. request' = [request EXCEPT ![d] = Idle]
      BY <1>2 DEF Writes, ApplyPushback, SaveGeneratedSchedule, WriteTeams, WriteSubstitute,
                  WriteCleared, Finish
    <2>2. d = c
      BY <2>1 DEF IInv, RequestsOK
    <2> QED
      BY <1>2, <2>2
  <1>3. ASSUME NEW d \in Clients, ScheduleWork(d) PROVE Quiet \/ Writes(d)
    BY <1>3, ScheduleReads DEF ScheduleWork, Writes
  <1>4. ASSUME NEW d \in Clients, LineupWork(d) PROVE Quiet \/ Writes(d)
    BY <1>4, LineupReads DEF LineupWork, Writes
  <1>5. ASSUME NEW d \in Clients, Reject(d) PROVE Quiet
    BY <1>5, RejectQuiet DEF IInv
  <1>6. ~Lineup /\ ~Play
    <2>1. Lineup \/ Play => UNCHANGED request
      BY DEF Lineup, SaveTeamLineup, DeleteLineupPlan, Play, SaveRounds, ClearResults, Accept,
             Unaccept, Decide, CloseWeek, ReopenWeek, MarkWeek, CloseSeason, ReopenSeason,
             SetSeasonClosed
    <2> QED
      BY <2>1
  <1>7. CASE UNCHANGED vars
    BY <1>7 DEF vars, scheduleVars, lineupVars
  <1> QED
    BY <1>1, <1>2, <1>3, <1>4, <1>5, <1>6, <1>7 DEF Next

WeekIds(w) == {m.id : m \in {n \in matches : n.week = w}}

LEMMA PushbackKeepsWeek ==
    ASSUME IInv, AloneFits, NEW c \in alone, ApplyPushback(c), NEW w \in closedWeeks
    PROVE  WeekIds(w)' = WeekIds(w)
  <1>0. RequestsOK /\ c \in Clients
    BY DEF IInv, RequestsOK
  <1> DEFINE r == request[c]
             F(m) == IF Moves(m, r.ids) THEN [m EXCEPT !.week = @ + r.weeks] ELSE m
  <1>1. matches' = {F(m) : m \in matches}
    BY DEF ApplyPushback
  <1>2. r.weeks \in Nat \ {0}
    BY <1>0, Kinds, ShiftAssumption DEF ApplyPushback
  <1>3. PICK cutoff \in Weeks : /\ ClosedAtOrAfter(cutoff) = {}
                                /\ \A m \in matches : m.id \in r.ids => m.week >= cutoff
    BY DEF AloneFits, Fit, ApplyPushback, Op, FromOpenWeek
  <1>4. ~(w >= cutoff)
    BY <1>3 DEF ClosedAtOrAfter
  <1>5. cutoff \in Int /\ w \in Int
    BY DEF Weeks, IInv, FlagsOK
  <1>6. \A m \in matches : F(m).id = m.id /\ (F(m).week = w <=> m.week = w)
    <2> TAKE m \in matches
    <2>1. m \in Match /\ m.week \in Int
      BY DEF IInv, MatchesOK, Match, Weeks
    <2>2. CASE Moves(m, r.ids)
      <3>1. F(m).id = m.id /\ F(m).week = m.week + r.weeks
        BY <2>1, <2>2 DEF Match
      <3>2. m.week >= cutoff
        BY <1>3, <2>2 DEF Moves
      <3> HIDE DEF F, r
      <3> QED
        BY <1>2, <1>4, <1>5, <2>1, <3>1, <3>2
    <2>3. CASE ~Moves(m, r.ids)
      BY <2>3
    <2> QED
      BY <2>2, <2>3
  <1> HIDE DEF F
  <1> QED
    BY <1>1, <1>6 DEF WeekIds

LEMMA TeamsKeepWeek ==
    ASSUME IInv, NEW c \in Clients, WriteTeams(c), NEW w
    PROVE  WeekIds(w)' = WeekIds(w)
  <1> DEFINE r == request[c]
             F(m) == IF m.id = r.match THEN [m EXCEPT !.home = r.teams[1], !.away = r.teams[2]]
                     ELSE m
  <1>1. matches' = {F(m) : m \in matches}
    BY DEF WriteTeams
  <1>2. \A m \in matches : F(m).id = m.id /\ F(m).week = m.week
    BY DEF IInv, MatchesOK, Match
  <1> HIDE DEF F
  <1> QED
    BY <1>1, <1>2 DEF WeekIds

LEMMA ClosedStep ==
    ASSUME IInv, AloneFits, [Next]_vars, NEW c \in alone, request[c] # Idle, request'[c] = Idle,
           NEW w \in closedWeeks
    PROVE  WeekIds(w)' = WeekIds(w)
  <1>1. c \in Clients
    BY DEF IInv, RequestsOK
  <1>2. CASE UNCHANGED <<matches, seats>>
    BY <1>2 DEF WeekIds
  <1>3. SaveGeneratedSchedule(c) => closedWeeks = {}
    BY DEF AloneFits, Fit, SaveGeneratedSchedule, At
  <1>4. CASE WriteSubstitute(c) \/ WriteCleared(c)
    BY <1>4 DEF WriteSubstitute, WriteCleared, ChangeSeat, scheduleVars, WeekIds
  <1> QED
    BY <1>1, <1>2, <1>3, <1>4, Ending, PushbackKeepsWeek, TeamsKeepWeek DEF Writes

\* A request that no other write has crossed leaves each closed week the matches it
\* was closed with: what Pushback and GenerateSchedule check in statements of their
\* own is enough, for any number of clients, weeks and schedules.
THEOREM ClosedWeeksCorrect == Spec => ClosedWeeksKeepMatches
  <1>1. IInv /\ AloneFits /\ [Next]_vars =>
          \A c \in alone : (request[c] # Idle /\ request'[c] = Idle) =>
            \A w \in closedWeeks : WeekIds(w)' = WeekIds(w)
    BY ClosedStep
  <1>2. IInv /\ AloneFits /\ [Next]_vars =>
          [\A c \in alone : (request[c] # Idle /\ request'[c] = Idle) =>
            \A w \in closedWeeks :
              {m.id : m \in MatchesOf(w)} = {m.id : m \in {n \in matches' : n.week = w}}]_vars
    BY <1>1 DEF WeekIds, MatchesOf
  <1> QED
    BY <1>2, AlwaysFit, PTL DEF Spec, ClosedWeeksKeepMatches

-----------------------------------------------------------------------------
\* A seat given to a player whom no other seat of the match has: nobody is made to
\* play twice.
LEMMA FreeSeat ==
    ASSUME IInv, NEW seat, NEW p, NEW was, NEW m, ChangeSeat(seat, p, was),
           m.week = seat.week, ~InLineup(p, {m.home, m.away}, seat.week, seat)
    PROVE  ~MakesTwice(m)
  <1> DEFINE F(s) == IF s.id = seat THEN [s EXCEPT !.player = p, !.subFor = was] ELSE s
  <1>1. seats' = {F(s) : s \in seats}
    BY DEF ChangeSeat
  <1>2. \A s \in seats : /\ F(s).id = s.id
                         /\ s.id = seat => F(s).player = p
                         /\ s.id # seat => F(s) = s
    <2> TAKE s \in seats
    <2>1. s \in Seat
      BY DEF IInv, SeatsOK
    <2> QED
      BY <2>1 DEF Seat
  <1> HIDE DEF F
  <1> SUFFICES ASSUME NEW q \in Players, Twice(q, m, seats') PROVE Twice(q, m, seats)
    BY DEF MakesTwice
  <1>3. PICK x \in Plays(q, m, seats'), y \in Plays(q, m, seats') : x # y
    BY DEF Twice
  <1>4. PICK s \in seats, t \in seats : x = F(s) /\ y = F(t)
    BY <1>1, <1>3 DEF Plays
  <1>5. /\ s.id.week = m.week /\ s.id.team \in {m.home, m.away} /\ F(s).player = q
        /\ t.id.week = m.week /\ t.id.team \in {m.home, m.away} /\ F(t).player = q
    BY <1>2, <1>3, <1>4 DEF Plays
  <1>6. s.id # t.id
    BY <1>3, <1>4 DEF IInv, SeatsOK
  <1>7. CASE q = p
    <2>1. \A z \in seats : z.id # seat /\ z.id.week = m.week /\ z.id.team \in {m.home, m.away} =>
                             z.player # p
      BY DEF InLineup
    <2> QED
      BY <1>2, <1>5, <1>6, <1>7, <2>1
  <1>8. CASE q # p
    <2>1. F(s) = s /\ F(t) = t
      BY <1>2, <1>5, <1>8
    <2> QED
      BY <1>3, <1>4, <1>5, <2>1 DEF Twice, Plays
  <1> QED
    BY <1>7, <1>8

LEMMA SubstituteStep ==
    ASSUME IInv, AloneFits, [Next]_vars, NEW c \in alone, At(c, "substitute", "write"),
           request'[c] = Idle, NEW m \in matches,
           PlayedBy(request[c].seat.team, request[c].seat.week) = {m}
    PROVE  ~MakesTwice(m)
  <1>1. c \in Clients /\ request[c] # Idle
    BY DEF IInv, RequestsOK, At, Idle
  <1>2. CASE UNCHANGED seats
    BY <1>2 DEF MakesTwice
  <1>3. CASE WriteSubstitute(c)
    <2>1. Free(request[c])
      BY DEF AloneFits, Fit, At
    <2>2. /\ m.week = request[c].seat.week
          /\ ~InLineup(request[c].player, {m.home, m.away}, request[c].seat.week, request[c].seat)
      <3>1. m \in PlayedBy(request[c].seat.team, request[c].seat.week)
        OBVIOUS
      <3> QED
        BY <2>1, <3>1 DEF Free, PlayedBy
    <2>3. ChangeSeat(request[c].seat, request[c].player, request[c].was)
      BY <1>3 DEF WriteSubstitute
    <2> QED
      BY <2>2, <2>3, FreeSeat
  <1>4. ~ApplyPushback(c) /\ ~SaveGeneratedSchedule(c) /\ ~WriteTeams(c) /\ ~WriteCleared(c)
    BY DEF At, Op, ApplyPushback, SaveGeneratedSchedule, WriteTeams, WriteCleared
  <1> QED
    BY <1>1, <1>2, <1>3, <1>4, Ending DEF Writes

\* A substitution that no other write has crossed makes no player play twice in a
\* match: SetSubstitute's check of the two line-ups holds until its write
\* (rejectIfPlayerAlreadyInMatch), where the team has one match in the week.
THEOREM SubstitutesCorrect == Spec => SubstitutesAreNew
  <1> DEFINE New == \A c \in alone : At(c, "substitute", "write") /\ request'[c] = Idle =>
                      LET played == PlayedBy(request[c].seat.team, request[c].seat.week) IN
                      \A m \in matches : played = {m} => ~MakesTwice(m)
  <1>1. IInv /\ AloneFits /\ [Next]_vars => New
    BY SubstituteStep
  <1>2. IInv /\ AloneFits /\ [Next]_vars => [New]_vars
    BY <1>1
  <1> QED
    BY <1>2, AlwaysFit, PTL DEF Spec, SubstitutesAreNew

\* A line-up write of which the checks are out of date does not reach a match that
\* is accepted, processed or in a closed week by then: the transaction looks again
\* (guardScoredLineupChange).
THEOREM LineupsCorrect == Spec => LockedLineupsStand
  <1> DEFINE Stand == \A c \in Clients :
                (At(c, "substitute", "write") \/ At(c, "clear", "write")) /\ seats' # seats
                  /\ request'[c] = Idle =>
                LET played == PlayedBy(request[c].seat.team, request[c].seat.week) IN
                \A m \in matches : played = {m} /\ m.completed => Editable(m)
  <1>1. ASSUME IInv, [Next]_vars, NEW c \in Clients,
               At(c, "substitute", "write") \/ At(c, "clear", "write"), seats' # seats,
               request'[c] = Idle, NEW m \in matches,
               PlayedBy(request[c].seat.team, request[c].seat.week) = {m}, m.completed
        PROVE  Editable(m)
    <2>1. request[c] # Idle
      BY <1>1 DEF At, Idle
    <2>2. Writes(c)
      BY <1>1, <2>1, Ending
    <2>3. GuardScoredLineupChange(request[c].seat)
      BY <1>1, <2>2 DEF Writes, At, Op, ApplyPushback, SaveGeneratedSchedule, WriteTeams,
                        WriteSubstitute, WriteCleared, ChangeSeat
    <2> QED
      BY <1>1, <2>3 DEF GuardScoredLineupChange
  <1>2. IInv /\ [Next]_vars => Stand
    BY <1>1
  <1>3. IInv /\ [Next]_vars => [Stand]_vars
    BY <1>2
  <1> QED
    BY <1>3, Invariance, PTL DEF Spec, LockedLineupsStand

=============================================================================
