-------------------------- MODULE ScheduleGeneration ---------------------------
(***************************************************************************)
(* How one schedule is computed: the circle method of roundRobinBase, the  *)
(* cycles built from it, the permutation of weeks that honours approved    *)
(* bye requests, and the calendar dates of the weeks.  The code runs this  *)
(* to the end inside one request; here one step is one pass of one of its  *)
(* loops, so that what holds between two passes can be stated.             *)
(*                                                                         *)
(* Teams are numbered as the code receives them, and the entries of a week *)
(* are the set of its <<home, away>> pairs.                                *)
(***************************************************************************)
EXTENDS Integers, Sequences, FiniteSets, FiniteSetsExt

CONSTANTS
    TeamCounts,   \* numbers of teams that may register
    Lengths,      \* num_weeks of custom and blanket schedules
    ByeWeeks,     \* week numbers a bye may be requested for
    MaxByes,      \* bound of the model: approved requests in one season
    SkipSets      \* sets of no-play dates, in weeks after the start date

ASSUME TeamCountsAssumption == TeamCounts \subseteq Nat \ {0, 1}
ASSUME LengthsAssumption == Lengths \subseteq Nat \ {0}
ASSUME ByeWeeksAssumption == ByeWeeks \subseteq Nat \ {0}
ASSUME SkipSetsAssumption == \A skip \in SkipSets : skip \subseteq Nat
\* Requests and dates not played on are rows of the database.
ASSUME FiniteAssumption ==
    IsFiniteSet(ByeWeeks) /\ \A skip \in SkipSets : IsFiniteSet(skip)

VARIABLES
    options,      \* the request and what was read for it; never changes
    phase,        \* the loop that is running
    seats,        \* roundRobinBase's teams slice
    games,        \* games[w]: the pairings generated for week w
    naturalBye,   \* naturalByeWeek, for the teams that made a request:
                  \* a week the team sits out, or NoWeek
    pendingByes,  \* weeks of the requests not processed yet
    newWeek,      \* srcToNew: where the games of each week go, or NoWeek
    usedAsNew,    \* requested weeks already claimed
    sources,      \* remainingSrc: weeks with nowhere to go yet
    targets,      \* remainingNew: weeks nothing goes to yet
    dates,        \* dates[w]: the date of week w
    current       \* the next candidate date
vars == <<options, phase, seats, games, naturalBye, pendingByes, newWeek,
          usedAsNew, sources, targets, dates, current>>

Bye == 0
NoWeek == 0
Types == {"single_rr", "double_rr", "split", "custom", "blanket"}
Phases == {"rounds", "byes", "claim", "pair", "dates", "done", "panicked"}

Teams == 1..options.teams
Weeks == 1..Len(games)
Requesters == {options.byeByWeek[v] : v \in DOMAIN options.byeByWeek}

\* An odd number of teams gets a bye slot at the end of the circle.
SlotCount(n) == IF n % 2 = 0 THEN n ELSE n + 1
Slots == 0..(SlotCount(options.teams) - 1)
Rounds == SlotCount(options.teams) - 1
Opposite(i) == SlotCount(options.teams) - 1 - i

InitialSeats(n) == [i \in 0..(SlotCount(n) - 1) |-> IF i < n THEN i + 1 ELSE Bye]

\* Approved requests: week number -> team, at most one team to a week.  A team
\* removed from the season keeps its requests.
ByeMaps(n) ==
    UNION {[W -> 1..(n + 1)] : W \in {S \in SUBSET ByeWeeks : Cardinality(S) <= MaxByes}}

\* The other types take their length from the number of teams.
LengthsOf(type) == IF type \in {"custom", "blanket"} THEN Lengths ELSE {NoWeek}

Init ==
    /\ \E n \in TeamCounts, type \in Types, skip \in SkipSets :
         \E byes \in ByeMaps(n), length \in LengthsOf(type) :
            options = [teams |-> n, type |-> type, length |-> length,
                       byeByWeek |-> byes, skip |-> skip]
    /\ phase = "rounds"
    /\ seats = InitialSeats(options.teams)
    /\ games = <<>>
    /\ naturalBye = [t \in Requesters |-> NoWeek]
    /\ pendingByes = DOMAIN options.byeByWeek
    /\ newWeek = <<>>
    /\ usedAsNew = {}
    /\ sources = {}
    /\ targets = {}
    /\ dates = <<>>
    /\ current = 0

-----------------------------------------------------------------------------
(* roundRobinBase: every round pairs opposite seats and turns the circle. *)

\* Seeded fault: the last pair of seats is forgotten.
PairedSlotsButLast == {j \in Slots : j < Opposite(j) - 1}
PairedSlots == {j \in Slots : j < Opposite(j)}
RoundGames ==
    {<<seats[i], seats[Opposite(i)]>> :
       i \in {j \in PairedSlots : seats[j] # Bye /\ seats[Opposite(j)] # Bye}}

\* Seeded fault: the slice is rotated with its first seat.
RotatedWithFirst == [i \in Slots |-> IF i = 0 THEN seats[Opposite(0)] ELSE seats[i - 1]]
\* teams[0] stays, the last seat moves to position 1, the others up by one.
Rotated ==
    [i \in Slots |-> IF i = 0 THEN seats[0]
                     ELSE IF i = 1 THEN seats[Opposite(0)]
                     ELSE seats[i - 1]]

PlayRound ==
    /\ phase = "rounds"
    /\ options.type # "blanket"
    /\ Len(games) < Rounds
    /\ games' = Append(games, RoundGames)
    /\ seats' = Rotated
    /\ UNCHANGED <<options, phase, naturalBye, pendingByes, newWeek, usedAsNew,
                   sources, targets, dates, current>>

Reversed(pairs) == {<<p[2], p[1]>> : p \in pairs}
DoubledGames == games \o [w \in Weeks |-> Reversed(games[w])]

\* Custom schedules repeat the double round robin and stop after some week.
CycledGames ==
    [w \in 1..options.length |-> DoubledGames[((w - 1) % (2 * Len(games))) + 1]]

\* The schedule type decides what the rounds become; a blanket schedule has
\* slots without teams only.
Entries ==
    CASE options.type = "single_rr" -> games
      [] options.type \in {"double_rr", "split"} -> DoubledGames
      [] options.type = "custom" -> CycledGames
      [] options.type = "blanket" -> [w \in 1..options.length |-> {}]

BuildEntries ==
    /\ phase = "rounds"
    /\ options.type = "blanket" \/ Len(games) = Rounds
    /\ games' = Entries
    /\ newWeek' = [w \in 1..Len(Entries) |-> NoWeek]
    /\ phase' = IF pendingByes = {} THEN "dates" ELSE "byes"
    /\ UNCHANGED <<options, seats, naturalBye, pendingByes, usedAsNew, sources,
                   targets, dates, current>>

-----------------------------------------------------------------------------
(* applyByeRequests. *)

Players(w) == UNION {{p[1], p[2]} : p \in games[w]}
AllTeams == UNION {Players(w) : w \in Weeks}
SitsOut(t, w) == t \in AllTeams \ Players(w)

\* One week per team, even if it sits out several: the last one that a range
\* over a map, in any order, comes to.
FindNaturalByes ==
    /\ phase = "byes"
    /\ naturalBye' \in
         {f \in [Requesters -> Weeks \cup {NoWeek}] : \A t \in Requesters :
            IF \E w \in Weeks : SitsOut(t, w)
            THEN f[t] # NoWeek /\ SitsOut(t, f[t])
            ELSE f[t] = NoWeek}
    /\ phase' = "claim"
    /\ UNCHANGED <<options, seats, games, pendingByes, newWeek, usedAsNew,
                   sources, targets, dates, current>>

\* Seeded fault: source and destination are swapped.
ClaimedBackwards(t, w) == [newWeek EXCEPT ![w] = naturalBye[t]]
\* The games of the week the team sits out go to the requested week.
Claimed(t, w) == [newWeek EXCEPT ![naturalBye[t]] = w]
HasNaturalBye(t) == naturalBye[t] # NoWeek

\* Seeded fault: an honoured request is processed again.
StillPendingAll(w) == pendingByes
StillPending(w) == pendingByes \ {w}

\* Requests are processed in the order of their weeks.
HonourRequest ==
    /\ phase = "claim" /\ pendingByes # {}
    /\ LET w == Min(pendingByes)
           t == options.byeByWeek[w] IN
       /\ HasNaturalBye(t)
       /\ newWeek' = Claimed(t, w)
       /\ usedAsNew' = usedAsNew \cup {w}
       /\ pendingByes' = StillPending(w)
    /\ UNCHANGED <<options, phase, seats, games, naturalBye, sources, targets,
                   dates, current>>

SkipRequest ==
    /\ phase = "claim" /\ pendingByes # {}
    /\ LET w == Min(pendingByes) IN
       /\ ~HasNaturalBye(options.byeByWeek[w])
       /\ pendingByes' = StillPending(w)
    /\ UNCHANGED <<options, phase, seats, games, naturalBye, newWeek, usedAsNew,
                   sources, targets, dates, current>>

\* Seeded faults: what the requests have claimed is paired once more.
EverySource == Weeks
EveryTarget == Weeks
RemainingSources == {w \in Weeks : newWeek[w] = NoWeek}
RemainingTargets == Weeks \ usedAsNew

BeginPairing ==
    /\ phase = "claim" /\ pendingByes = {}
    /\ sources' = RemainingSources
    /\ targets' = RemainingTargets
    /\ phase' = "pair"
    /\ UNCHANGED <<options, seats, games, naturalBye, pendingByes, newWeek,
                   usedAsNew, dates, current>>

\* The i-th remaining source goes to the i-th remaining target.
PairWeeks ==
    /\ phase = "pair" /\ targets # {} /\ sources # {}
    /\ newWeek' = [newWeek EXCEPT ![Min(sources)] = Min(targets)]
    /\ sources' = sources \ {Min(sources)}
    /\ targets' = targets \ {Min(targets)}
    /\ UNCHANGED <<options, phase, seats, games, naturalBye, pendingByes,
                   usedAsNew, dates, current>>

\* The loop runs over the targets and indexes the sources.
IndexOutOfRange ==
    /\ phase = "pair" /\ targets # {} /\ sources = {}
    /\ phase' = "panicked"
    /\ UNCHANGED <<options, seats, games, naturalBye, pendingByes, newWeek,
                   usedAsNew, sources, targets, dates, current>>

EndPairing ==
    /\ phase = "pair" /\ targets = {}
    /\ phase' = "dates"
    /\ UNCHANGED <<options, seats, games, naturalBye, pendingByes, newWeek,
                   usedAsNew, sources, targets, dates, current>>

\* The week whose number the games of w carry in the end.
Destination(w) == IF newWeek[w] = NoWeek THEN w ELSE newWeek[w]

-----------------------------------------------------------------------------
(* assignDates: one date a week, passing over the dates not played on. *)

TotalWeeks == Max({Destination(w) : w \in Weeks})

\* Seeded faults: a date not played on is used; it is looked at for ever.
DatesWithSkipped == Append(dates, current)
NextDateAfterUse == IF current \in options.skip THEN current ELSE current + 1
NextDate == current + 1
DatesAfter == IF current \in options.skip THEN dates ELSE Append(dates, current)

AssignDate ==
    /\ phase = "dates"
    /\ Len(dates) < TotalWeeks
    /\ dates' = DatesAfter
    /\ current' = NextDate
    /\ UNCHANGED <<options, phase, seats, games, naturalBye, pendingByes,
                   newWeek, usedAsNew, sources, targets>>

Finish ==
    /\ phase = "dates"
    /\ Len(dates) = TotalWeeks
    /\ phase' = "done"
    /\ UNCHANGED <<options, seats, games, naturalBye, pendingByes, newWeek,
                   usedAsNew, sources, targets, dates, current>>

Next ==
    \/ PlayRound
    \/ BuildEntries
    \/ FindNaturalByes
    \/ HonourRequest
    \/ SkipRequest
    \/ BeginPairing
    \/ PairWeeks
    \/ IndexOutOfRange
    \/ EndPairing
    \/ AssignDate
    \/ Finish

\* The loops run inside one request: a generation that has begun goes on.
Spec == Init /\ [][Next]_vars /\ WF_vars(Next)

-----------------------------------------------------------------------------
(* Properties. *)

\* The type invariant: the games are between registered teams only, and
\* every index the loops use is a week of the schedule.
TypeOK ==
    /\ phase \in Phases
    /\ seats \in [Slots -> Teams \cup {Bye}]
    /\ games \in Seq(SUBSET (Teams \X Teams))
    /\ naturalBye \in [Requesters -> Weeks \cup {NoWeek}]
    /\ pendingByes \subseteq DOMAIN options.byeByWeek
    /\ newWeek \in [DOMAIN newWeek -> Nat]
    /\ phase # "rounds" => DOMAIN newWeek = Weeks
    /\ usedAsNew \subseteq DOMAIN options.byeByWeek
    /\ sources \subseteq Weeks /\ targets \subseteq Weeks
    /\ dates \in Seq(Nat) /\ current \in Nat

\* In every generated round each team plays exactly once, but for a single
\* team that sits out when their number is odd; nobody plays itself.
RoundsSeatEveryTeam ==
    options.type # "blanket" =>
    \A w \in Weeks :
        /\ \A p \in games[w] : p[1] # p[2]
        /\ \A p, q \in games[w] : p # q => {p[1], p[2]} \cap {q[1], q[2]} = {}
        /\ Cardinality(Teams \ Players(w)) = options.teams % 2

\* Everybody meets everybody: once in a single round robin, once at either
\* venue in a double one, and in a custom schedule, which stops anywhere, no
\* fixture is played twice more than another.
Meetings(a, b) == Cardinality({w \in Weeks : <<a, b>> \in games[w]})
EveryPairMeets ==
    phase = "done" =>
    \A a, b \in Teams : a # b =>
        CASE options.type = "single_rr" -> Meetings(a, b) + Meetings(b, a) = 1
          [] options.type \in {"double_rr", "split"} -> Meetings(a, b) = 1
          [] options.type = "custom" ->
                \A c, d \in Teams : c # d => Meetings(a, b) <= Meetings(c, d) + 1
          [] options.type = "blanket" -> Meetings(a, b) = 0

\* Approved requests of different teams for weeks the schedule has.
Compatible ==
    /\ DOMAIN options.byeByWeek \subseteq Weeks
    /\ IsInjective(options.byeByWeek)

\* Compatible requests only permute the weeks, whichever natural bye the
\* iteration order of the maps picks: nobody is moved into a second game of a
\* week, and no week is left empty.
CompatibleByesPermute ==
    phase \in {"dates", "done"} /\ Compatible =>
        {Destination(w) : w \in Weeks} = Weeks

\* And each of them is honoured: a team that sits out some week sits out the
\* week it asked for.
CompatibleByesHonoured ==
    phase \in {"dates", "done"} /\ Compatible =>
    \A v \in DOMAIN options.byeByWeek :
        LET t == options.byeByWeek[v] IN
        HasNaturalBye(t) => \A w \in Weeks : Destination(w) = v => t \notin Players(w)

\* Generation breaks off with an index out of range only over a request for a
\* week beyond the schedule, which nothing in CreateByeRequest rules out.
PanicsOnlyBeyondSchedule ==
    phase = "panicked" => \E w \in DOMAIN options.byeByWeek : w \notin Weeks

\* The weeks get the earliest dates there are: week w has the w-th date from
\* the start on that is played on.
EarliestDates ==
    \A w \in DOMAIN dates :
        /\ dates[w] \notin options.skip
        /\ Cardinality((0..dates[w]) \ options.skip) = w

\* The loops in the order of the code, and how many passes the running one can
\* still make: it may look at every date left that is not played on.
Loop(p) ==
    CASE p = "rounds" -> 0
      [] p = "byes" -> 1
      [] p = "claim" -> 2
      [] p = "pair" -> 3
      [] p = "dates" -> 4
      [] p \in {"done", "panicked"} -> 5
PassesLeft ==
    CASE phase = "rounds" -> Rounds - Len(games)
      [] phase = "claim" -> Cardinality(pendingByes)
      [] phase = "pair" -> Cardinality(targets)
      [] phase = "dates" -> (TotalWeeks - Len(dates))
                            + Cardinality({d \in options.skip : d >= current})
      [] OTHER -> 0

\* No pass of a loop is in vain: it brings the end of the loop nearer, which
\* cannot go on for ever, or the next loop begins, and none begins twice.  The
\* loop over the calendar adds no week on a date passed over, and still ends.
EveryPassCounts ==
    [][\/ Loop(phase') > Loop(phase)
       \/ /\ phase' = phase
          /\ PassesLeft \in Nat /\ PassesLeft' \in Nat
          /\ PassesLeft' < PassesLeft]_vars

\* Every generation ends, also when it passes over dates.
GenerationEnds == <>(phase \in {"done", "panicked"})

=============================================================================
