----------------------- MODULE ScheduleGeneration_proofs ------------------------
(***************************************************************************)
(* Theorems about ScheduleGeneration, for every number of teams, length,   *)
(* set of bye requests and calendar.                                       *)
(***************************************************************************)
EXTENDS ScheduleGeneration, FiniteSetTheorems, SequenceTheorems, TLAPS

-----------------------------------------------------------------------------
(* Facts about numbers and sets. *)

\* A set of weeks that is not empty has a first one.
LEMMA MinIsLeast ==
    ASSUME NEW S \in SUBSET Nat, S # {}
    PROVE  Min(S) \in S /\ \A y \in S : Min(S) <= y
<1> DEFINE Less == {ss \in Nat \X Nat : ss[1] < ss[2]}
<1>1. OpToRel(<, Nat) = Less
    BY DEF OpToRel
<1>2. IsWellFoundedOn(Less, Nat)
    BY <1>1, NatLessThanWellFounded, Zenon
<1>3. \A x, y \in Nat : <<y, x>> \notin Less => x <= y
    OBVIOUS
<1> HIDE DEF Less
<1>4. \E x \in S : \A y \in S : ~(<<y, x>> \in Less)
    BY <1>2, WFMin, Zenon
<1>5. \E x \in S : \A y \in S : x <= y
    BY <1>3, <1>4
<1> QED BY <1>5 DEF Min

\* What is left of a finite set, counted.
LEMMA RestSize ==
    ASSUME NEW S, IsFiniteSet(S), NEW T \in SUBSET S
    PROVE  /\ IsFiniteSet(T) /\ Cardinality(T) \in Nat /\ Cardinality(S) \in Nat
           /\ Cardinality(S \ T) = Cardinality(S) - Cardinality(T)
<1>1. IsFiniteSet(T) /\ Cardinality(T) \in Nat /\ Cardinality(S) \in Nat
    BY FS_Subset, FS_CardinalityType
<1>2. S \cap T = T
    OBVIOUS
<1>3. Cardinality(S \ T) = Cardinality(S) - Cardinality(S \cap T)
    BY FS_Difference, Zenon
<1>4. Cardinality(S \ T) = Cardinality(S) - Cardinality(T)
    BY <1>2, <1>3, Zenon
<1> QED BY <1>1, <1>4

\* The size of the circle is even and leaves at most one seat to the bye.
LEMMA SlotCountFacts ==
    ASSUME NEW n \in Nat, n >= 2
    PROVE  /\ SlotCount(n) \in Nat /\ SlotCount(n) >= 2
           /\ SlotCount(n) = n + (n % 2)
           /\ n % 2 \in {0, 1}
           /\ \E k \in Nat : SlotCount(n) = 2 * k
<1>1. n % 2 \in {0, 1}
    OBVIOUS
<1>2. SlotCount(n) = n + (n % 2) /\ SlotCount(n) \in Nat /\ SlotCount(n) >= 2
    BY <1>1 DEF SlotCount
<1>3. SlotCount(n) % 2 = 0
    BY <1>1 DEF SlotCount
<1>4. SlotCount(n) = 2 * (SlotCount(n) \div 2) /\ SlotCount(n) \div 2 \in Nat
    BY <1>2, <1>3
<1> QED BY <1>1, <1>2, <1>4

-----------------------------------------------------------------------------
(* The request and the circle. *)

\* What the request is; it never changes.
OptionsOK ==
    /\ options.teams \in Nat /\ options.teams >= 2
    /\ options.type \in Types
    /\ options.length \in Nat
    /\ options.type \in {"custom", "blanket"} => options.length >= 1
    /\ DOMAIN options.byeByWeek \subseteq Nat \ {0}
    /\ \A v \in DOMAIN options.byeByWeek : options.byeByWeek[v] \in Nat \ {0}
    /\ options.skip \subseteq Nat

\* Everybody has one seat, and the bye slot has one if the number is odd.
SeatsInv ==
    /\ seats \in [Slots -> Teams \cup {Bye}]
    /\ \A i, j \in Slots : seats[i] = seats[j] => i = j
    /\ \A t \in Teams : \E i \in Slots : seats[i] = t
    /\ (\E i \in Slots : seats[i] = Bye) <=> options.teams % 2 = 1

PlayersOf(pairs) == UNION {{p[1], p[2]} : p \in pairs}

\* A round in which everybody plays once, but for one team if there is a bye.
GoodRound(pairs) ==
    /\ pairs \subseteq Teams \X Teams
    /\ \A p \in pairs : p[1] # p[2]
    /\ \A p, q \in pairs : p # q => {p[1], p[2]} \cap {q[1], q[2]} = {}
    /\ Cardinality(Teams \ PlayersOf(pairs)) = options.teams % 2
    /\ \A t, u \in Teams \ PlayersOf(pairs) : t = u

\* The request as it is read.
LEMMA OptionsInit == Init => OptionsOK
<1> SUFFICES ASSUME Init PROVE OptionsOK
    OBVIOUS
<1>0. PICK n \in TeamCounts, type \in Types, skip \in SkipSets :
        \E byes \in ByeMaps(n), length \in LengthsOf(type) :
            options = [teams |-> n, type |-> type, length |-> length,
                       byeByWeek |-> byes, skip |-> skip]
    BY DEF Init
<1>1. PICK byes \in ByeMaps(n), length \in LengthsOf(type) :
        options = [teams |-> n, type |-> type, length |-> length,
                   byeByWeek |-> byes, skip |-> skip]
    BY <1>0
<1>2. n \in Nat /\ n >= 2
    BY TeamCountsAssumption
<1>3. length \in Nat /\ (type \in {"custom", "blanket"} => length >= 1)
    BY LengthsAssumption DEF LengthsOf, NoWeek
<1>4. PICK W \in SUBSET ByeWeeks : byes \in [W -> 1..(n + 1)]
    BY DEF ByeMaps
<1>5. /\ DOMAIN byes \subseteq Nat \ {0}
      /\ \A v \in DOMAIN byes : byes[v] \in Nat \ {0}
    BY <1>2, <1>4, ByeWeeksAssumption
<1>6. skip \subseteq Nat
    BY SkipSetsAssumption
<1> QED BY <1>1, <1>2, <1>3, <1>5, <1>6 DEF OptionsOK

\* The circle has an even number of seats, at least two.
LEMMA CircleSize ==
    ASSUME OptionsOK
    PROVE  /\ Rounds \in Nat /\ Rounds >= 1
           /\ Slots = 0..Rounds
           /\ Rounds + 1 = options.teams + (options.teams % 2)
           /\ options.teams % 2 \in {0, 1}
           /\ \A i \in Slots : Opposite(i) \in Slots /\ Opposite(Opposite(i)) = i
           /\ \A i \in Slots : i # Opposite(i) /\ i \in Nat /\ Opposite(i) = Rounds - i
<1> DEFINE n == options.teams
<1>1. n \in Nat /\ n >= 2
    BY DEF OptionsOK
<1>2. PICK k \in Nat : SlotCount(n) = 2 * k
    BY <1>1, SlotCountFacts
<1>3. SlotCount(n) \in Nat /\ SlotCount(n) >= 2
      /\ SlotCount(n) = n + (n % 2) /\ n % 2 \in {0, 1}
    BY <1>1, SlotCountFacts
<1> HIDE DEF n
<1>4. Rounds = SlotCount(n) - 1 /\ Slots = 0..(SlotCount(n) - 1)
      /\ \A i : Opposite(i) = SlotCount(n) - 1 - i
    BY DEF Rounds, Slots, Opposite, n
<1>5. \A i \in 0..(SlotCount(n) - 1) : i # SlotCount(n) - 1 - i
    BY <1>2, <1>3
<1>6. \A i \in Slots : Opposite(i) \in Slots /\ Opposite(Opposite(i)) = i
    BY <1>3, <1>4
<1>7. \A i \in Slots : i # Opposite(i) /\ i \in Nat /\ Opposite(i) = Rounds - i
    BY <1>3, <1>4, <1>5
<1>8. Rounds + 1 = n + (n % 2) /\ Rounds \in Nat /\ Rounds >= 1 /\ Slots = 0..Rounds
    BY <1>3, <1>4
<1> QED BY <1>3, <1>6, <1>7, <1>8 DEF n

\* Teams sit down in the order they are received.
LEMMA SeatsInit ==
    ASSUME OptionsOK, seats = InitialSeats(options.teams)
    PROVE  SeatsInv
<1> DEFINE n == options.teams
<1>1. n \in Nat /\ n >= 2 /\ Teams = 1..n
    BY DEF OptionsOK, Teams
<1>2. Slots = 0..Rounds /\ Rounds + 1 = n + (n % 2) /\ n % 2 \in {0, 1} /\ Rounds \in Nat
    BY CircleSize
<1>3. seats = [i \in Slots |-> IF i < n THEN i + 1 ELSE Bye]
    BY DEF InitialSeats, Slots
<1> HIDE DEF n
<1>4. \A i \in Slots : seats[i] = IF i < n THEN i + 1 ELSE 0
    BY <1>3 DEF Bye
<1>5. seats \in [Slots -> Teams \cup {Bye}]
    BY <1>1, <1>2, <1>3 DEF Bye
<1>6. \A i, j \in Slots : seats[i] = seats[j] => i = j
    BY <1>1, <1>2, <1>4
<1>7. \A t \in Teams : \E i \in Slots : seats[i] = t
    <2> TAKE t \in Teams
    <2>1. t - 1 \in Slots /\ seats[t - 1] = t
        BY <1>1, <1>2, <1>4
    <2> QED BY <2>1
<1>8. (\E i \in Slots : seats[i] = Bye) <=> n % 2 = 1
    <2>1. CASE n % 2 = 1
        <3>1. n \in Slots /\ seats[n] = 0
            BY <1>1, <1>2, <1>4, <2>1
        <3> QED BY <2>1, <3>1 DEF Bye
    <2>2. CASE n % 2 = 0
        BY <1>1, <1>2, <1>4, <2>2 DEF Bye
    <2> QED BY <1>2, <2>1, <2>2
<1> QED BY <1>5, <1>6, <1>7, <1>8 DEF SeatsInv, n

\* Turning the circle moves everybody to another seat.
LEMMA SeatsTurn ==
    ASSUME OptionsOK, SeatsInv, seats' = Rotated, UNCHANGED options
    PROVE  SeatsInv'
<1>1. Slots = 0..Rounds /\ Rounds \in Nat /\ Rounds >= 1
    BY CircleSize
<1>0. Slots' = Slots /\ Teams' = Teams
    BY DEF Slots, Teams
<1>2. Slots' = Slots /\ Teams' = Teams /\ Opposite(0) = Rounds
    <2>1. 0 \in Slots
        BY <1>1
    <2>2. Opposite(0) = Rounds - 0
        BY <2>1, CircleSize
    <2> QED BY <1>0, <1>1, <2>2
<1> DEFINE From(i) == IF i = 0 THEN 0 ELSE IF i = 1 THEN Rounds ELSE i - 1
<1>3. \A i \in Slots : From(i) \in Slots /\ seats'[i] = seats[From(i)]
    BY <1>1, <1>2 DEF Rotated
<1>4. \A i, j \in Slots : From(i) = From(j) => i = j
    BY <1>1
<1>5. \A j \in Slots : \E i \in Slots : From(i) = j
    <2> TAKE j \in Slots
    <2>1. CASE j = 0
        BY <1>1, <2>1
    <2>2. CASE j = Rounds
        <3>1. 1 \in Slots /\ From(1) = j
            BY <1>1, <2>2
        <3> QED BY <3>1
    <2>3. CASE j # 0 /\ j # Rounds
        <3>1. j + 1 \in Slots /\ From(j + 1) = j
            BY <1>1, <2>3
        <3> QED BY <3>1
    <2> QED BY <2>1, <2>2, <2>3
<1>6. DOMAIN seats' = Slots /\ seats' = [i \in Slots |-> seats'[i]]
    BY DEF Rotated
<1> HIDE DEF From
<1>7. seats' \in [Slots -> Teams \cup {Bye}]
    BY <1>3, <1>6 DEF SeatsInv
<1>8. \A i, j \in Slots : seats'[i] = seats'[j] => i = j
    BY <1>3, <1>4 DEF SeatsInv
<1>9. \A t \in Teams : \E i \in Slots : seats'[i] = t
    BY <1>3, <1>5 DEF SeatsInv
<1>10. (\E i \in Slots : seats'[i] = Bye) <=> (\E i \in Slots : seats[i] = Bye)
    BY <1>3, <1>5
<1> QED BY <1>2, <1>7, <1>8, <1>9, <1>10 DEF SeatsInv

\* The two at opposite seats, from the lower seat's point of view.
LEMMA GamesBySeat ==
    ASSUME OptionsOK, SeatsInv
    PROVE  /\ \A i \in Slots : i < Opposite(i) /\ seats[i] # Bye /\ seats[Opposite(i)] # Bye
                 => <<seats[i], seats[Opposite(i)]>> \in RoundGames
           /\ \A p \in RoundGames : \E i \in Slots :
                 /\ p = <<seats[i], seats[Opposite(i)]>> /\ i < Opposite(i)
                 /\ seats[i] \in Teams /\ seats[Opposite(i)] \in Teams
<1>1. \A i \in Slots : seats[i] # Bye => seats[i] \in Teams
    BY DEF SeatsInv
<1>2. \A i \in Slots : Opposite(i) \in Slots
    BY CircleSize
<1> QED BY <1>1, <1>2 DEF RoundGames, PairedSlots

\* One pass of the circle method is a round in which nobody plays twice.
LEMMA RoundIsGood ==
    ASSUME OptionsOK, SeatsInv
    PROVE  GoodRound(RoundGames)
<1> DEFINE opp(i) == Opposite(i)
<1>1. \A i \in Slots : opp(i) \in Slots /\ opp(opp(i)) = i /\ i # opp(i)
    BY CircleSize
<1>2. \A i \in Slots : i < opp(i) \/ opp(i) < opp(opp(i))
    <2>1. \A i \in Slots : i \in Nat /\ opp(i) \in Nat
        BY CircleSize, <1>1
    <2> QED BY <1>1, <2>1
<1>3. \A i, j \in Slots : seats[i] = seats[j] => i = j
    BY DEF SeatsInv
<1>4. \A i \in Slots : i < opp(i) /\ seats[i] # Bye /\ seats[opp(i)] # Bye
            => <<seats[i], seats[opp(i)]>> \in RoundGames
    BY GamesBySeat
<1>5. \A p \in RoundGames : \E i \in Slots :
            /\ p = <<seats[i], seats[opp(i)]>> /\ i < opp(i)
            /\ seats[i] \in Teams /\ seats[opp(i)] \in Teams
    BY GamesBySeat
<1>6. \A i \in Slots : i < opp(i) => ~(opp(i) < opp(opp(i)))
    <2>1. \A i \in Slots : i \in Nat /\ opp(i) \in Nat
        BY CircleSize, <1>1
    <2> QED BY <1>1, <2>1
<1> HIDE DEF opp
<1>7. RoundGames \subseteq Teams \X Teams
    BY <1>5
<1>8. \A p \in RoundGames : p[1] # p[2]
    BY <1>1, <1>3, <1>5
<1>9. ASSUME NEW p \in RoundGames, NEW q \in RoundGames,
             {p[1], p[2]} \cap {q[1], q[2]} # {}
      PROVE  p = q
    <2>1. PICK i \in Slots : p = <<seats[i], seats[opp(i)]>> /\ i < opp(i)
        BY <1>5
    <2>2. PICK j \in Slots : q = <<seats[j], seats[opp(j)]>> /\ j < opp(j)
        BY <1>5
    <2>3. i = j \/ i = opp(j) \/ opp(i) = j \/ opp(i) = opp(j)
        BY <1>1, <1>3, <1>9, <2>1, <2>2
    <2>4. i = j
        BY <1>1, <1>6, <2>1, <2>2, <2>3
    <2> QED BY <2>1, <2>2, <2>4
<1>10. \A i \in Slots : seats[i] # Bye /\ seats[opp(i)] # Bye
            => seats[i] \in PlayersOf(RoundGames)
    <2> SUFFICES ASSUME NEW i \in Slots, seats[i] # Bye, seats[opp(i)] # Bye
                 PROVE  seats[i] \in PlayersOf(RoundGames)
        OBVIOUS
    <2>1. CASE i < opp(i)
        <3> DEFINE p == <<seats[i], seats[opp(i)]>>
        <3>1. p \in RoundGames /\ p[1] = seats[i]
            BY <1>4, <2>1
        <3> QED BY <3>1 DEF PlayersOf
    <2>2. CASE opp(i) < opp(opp(i))
        <3> DEFINE p == <<seats[opp(i)], seats[i]>>
        <3>1. p \in RoundGames /\ p[2] = seats[i]
            BY <1>1, <1>4, <2>2
        <3> QED BY <3>1 DEF PlayersOf
    <2> QED BY <1>2, <2>1, <2>2
<1>11. \A t \in PlayersOf(RoundGames) : \E i \in Slots :
            t = seats[i] /\ seats[opp(i)] \in Teams
    <2> SUFFICES ASSUME NEW t \in PlayersOf(RoundGames)
                 PROVE  \E i \in Slots : t = seats[i] /\ seats[opp(i)] \in Teams
        OBVIOUS
    <2>1. PICK p \in RoundGames : t = p[1] \/ t = p[2]
        BY DEF PlayersOf
    <2>2. PICK i \in Slots : /\ p = <<seats[i], seats[opp(i)]>>
                             /\ seats[i] \in Teams /\ seats[opp(i)] \in Teams
        BY <1>5
    <2> QED BY <1>1, <2>1, <2>2
<1>12. Bye \notin Teams
    BY DEF OptionsOK, Teams, Bye
<1>13. /\ Cardinality(Teams \ PlayersOf(RoundGames)) = options.teams % 2
       /\ \A t, u \in Teams \ PlayersOf(RoundGames) : t = u
    <2>1. CASE \E i \in Slots : seats[i] = Bye
        <3>1. PICK b \in Slots : seats[b] = Bye
            BY <2>1
        <3>2. seats[opp(b)] \in Teams
            BY <1>1, <1>3, <3>1 DEF SeatsInv
        <3>3. seats[opp(b)] \notin PlayersOf(RoundGames)
            BY <1>1, <1>3, <1>11, <1>12, <3>1
        <3>4. \A t \in Teams : t # seats[opp(b)] => t \in PlayersOf(RoundGames)
            <4> SUFFICES ASSUME NEW t \in Teams, t # seats[opp(b)]
                         PROVE  t \in PlayersOf(RoundGames)
                OBVIOUS
            <4>1. PICK i \in Slots : seats[i] = t
                BY DEF SeatsInv
            <4>2. seats[opp(i)] # Bye
                BY <1>1, <1>3, <3>1, <4>1
            <4> QED BY <1>10, <1>12, <4>1, <4>2
        <3>5. Teams \ PlayersOf(RoundGames) = {seats[opp(b)]}
            BY <3>2, <3>3, <3>4
        <3>6. options.teams % 2 = 1
            BY <2>1 DEF SeatsInv
        <3> QED BY <3>5, <3>6, FS_Singleton
    <2>2. CASE ~\E i \in Slots : seats[i] = Bye
        <3>1. Teams \subseteq PlayersOf(RoundGames)
            BY <1>1, <1>10, <2>2 DEF SeatsInv
        <3>2. options.teams % 2 = 0
            BY <2>2, CircleSize DEF SeatsInv
        <3>3. Teams \ PlayersOf(RoundGames) = {}
            BY <3>1
        <3> QED BY <3>2, <3>3, FS_EmptySet
    <2> QED BY <2>1, <2>2
<1> QED BY <1>7, <1>8, <1>9, <1>13 DEF GoodRound

\* Who plays in a round does not change when home and away are swapped.
LEMMA ReversedIsGood ==
    ASSUME NEW pairs, GoodRound(pairs)
    PROVE  GoodRound(Reversed(pairs))
<1> DEFINE rev == Reversed(pairs)
<1>1. \A q \in rev : \E p \in pairs : q = <<p[2], p[1]>>
    BY DEF Reversed
<1>2. \A p \in pairs : <<p[2], p[1]>> \in rev
    BY DEF Reversed
<1>3. pairs \subseteq Teams \X Teams /\ \A p \in pairs : p[1] # p[2]
    BY DEF GoodRound
<1> HIDE DEF rev
<1>4. PlayersOf(rev) = PlayersOf(pairs)
    <2>1. \A t \in PlayersOf(rev) : t \in PlayersOf(pairs)
        <3> TAKE t \in PlayersOf(rev)
        <3>1. PICK q \in rev : t = q[1] \/ t = q[2]
            BY DEF PlayersOf
        <3>2. PICK p \in pairs : q = <<p[2], p[1]>>
            BY <1>1
        <3>3. t \in {p[1], p[2]}
            BY <3>1, <3>2
        <3> QED BY <3>3 DEF PlayersOf
    <2>2. \A t \in PlayersOf(pairs) : t \in PlayersOf(rev)
        <3> TAKE t \in PlayersOf(pairs)
        <3>1. PICK p \in pairs : t = p[1] \/ t = p[2]
            BY DEF PlayersOf
        <3> DEFINE q == <<p[2], p[1]>>
        <3>2. q \in rev /\ t \in {q[1], q[2]}
            BY <1>2, <3>1
        <3> QED BY <3>2 DEF PlayersOf
    <2> QED BY <2>1, <2>2
<1>5. rev \subseteq Teams \X Teams /\ \A q \in rev : q[1] # q[2]
    BY <1>1, <1>3
<1>6. \A q, r \in rev : q # r => {q[1], q[2]} \cap {r[1], r[2]} = {}
    <2> SUFFICES ASSUME NEW q \in rev, NEW r \in rev, q # r
                 PROVE  {q[1], q[2]} \cap {r[1], r[2]} = {}
        OBVIOUS
    <2>1. PICK p \in pairs : q = <<p[2], p[1]>>
        BY <1>1
    <2>2. PICK s \in pairs : r = <<s[2], s[1]>>
        BY <1>1
    <2>3. {p[1], p[2]} \cap {s[1], s[2]} = {}
        BY <2>1, <2>2 DEF GoodRound
    <2> QED BY <2>1, <2>2, <2>3
<1> QED BY <1>4, <1>5, <1>6 DEF GoodRound, rev

-----------------------------------------------------------------------------
(* Types, and what the games of a week are. *)

GoodWeek(pairs) == IF options.type = "blanket" THEN pairs = {} ELSE GoodRound(pairs)

GamesInv ==
    /\ phase = "rounds" => /\ Len(games) <= Rounds
                           /\ options.type = "blanket" => games = <<>>
    /\ \A w \in Weeks : GoodWeek(games[w])

\* What a stage finds untouched.
StageInv ==
    /\ phase \in {"rounds", "byes"} =>
          /\ naturalBye = [t \in Requesters |-> NoWeek]
          /\ pendingByes = DOMAIN options.byeByWeek
          /\ usedAsNew = {}
    /\ phase = "rounds" => newWeek = <<>>
    /\ phase = "byes" => \A w \in Weeks : newWeek[w] = NoWeek
    /\ phase \in {"rounds", "byes", "claim"} => sources = {} /\ targets = {}

Basic == OptionsOK /\ TypeOK /\ SeatsInv /\ GamesInv /\ StageInv

\* The weeks a schedule type makes of the rounds are rounds again.
LEMMA EntriesAreGood ==
    ASSUME Basic, phase = "rounds", options.type = "blanket" \/ Len(games) = Rounds
    PROVE  /\ Entries \in Seq(SUBSET (Teams \X Teams))
           /\ \A w \in 1..Len(Entries) : GoodWeek(Entries[w])
<1> DEFINE Pairs == SUBSET (Teams \X Teams)
           n == Len(games)
<1>1. games \in Seq(Pairs) /\ n \in Nat /\ \A w \in 1..n : GoodWeek(games[w])
    BY DEF Basic, TypeOK, GamesInv, Weeks
<1>2. options.length \in Nat /\ options.type \in Types
    BY DEF Basic, OptionsOK
<1>3. CASE options.type = "blanket"
    <2>1. Entries = [w \in 1..options.length |-> {}]
        BY <1>3 DEF Entries
    <2>2. \A w \in 1..options.length : {} \in Pairs
        OBVIOUS
    <2> QED BY <1>2, <1>3, <2>1, <2>2 DEF GoodWeek
<1>4. CASE options.type # "blanket"
    <2>1. n >= 1
        BY <1>4, CircleSize DEF Basic
    <2>2. \A w \in 1..n : GoodRound(games[w])
        BY <1>1, <1>4 DEF GoodWeek
    <2>3. \A w \in 1..n : GoodRound(Reversed(games[w]))
        BY <2>2, ReversedIsGood
    <2>4. \A pairs : GoodRound(pairs) => pairs \in Pairs
        BY DEF GoodRound
    <2> DEFINE back == [w \in 1..n |-> Reversed(games[w])]
               doubled == games \o back
    <2>5. back \in Seq(Pairs) /\ Len(back) = n /\ \A w \in 1..n : GoodRound(back[w])
        BY <1>1, <2>3, <2>4
    <2> HIDE DEF back
    <2>6. /\ doubled \in Seq(Pairs) /\ Len(doubled) = 2 * n
          /\ \A w \in 1..(2 * n) : doubled[w] = IF w <= n THEN games[w] ELSE back[w - n]
        <3> HIDE DEF Pairs
        <3>1. games \in Seq(Pairs) /\ back \in Seq(Pairs)
            BY <1>1, <2>5
        <3>2. /\ doubled \in Seq(Pairs)
              /\ Len(doubled) = Len(games) + Len(back)
              /\ \A w \in 1..(Len(games) + Len(back)) :
                    doubled[w] = IF w <= Len(games) THEN games[w] ELSE back[w - Len(games)]
            BY <3>1, ConcatProperties
        <3>3. Len(back) = n /\ n + n = 2 * n
            BY <1>1, <2>5
        <3> QED BY <3>2, <3>3
    <2>7. \A w \in 1..(2 * n) : GoodRound(doubled[w])
        <3> TAKE w \in 1..(2 * n)
        <3>1. CASE w <= n
            BY <1>1, <2>2, <2>6, <3>1
        <3>2. CASE ~(w <= n)
            <4>1. w - n \in 1..n /\ doubled[w] = back[w - n]
                BY <1>1, <2>6, <3>2
            <4> QED BY <2>5, <4>1
        <3> QED BY <3>1, <3>2
    <2>8. DoubledGames = doubled
        BY DEF DoubledGames, Weeks, back
    <2> HIDE DEF doubled
    <2>9. CASE options.type = "single_rr"
        <3>1. Entries = games
            BY <2>9 DEF Entries
        <3> QED BY <1>1, <3>1
    <2>10. CASE options.type \in {"double_rr", "split"}
        <3>1. Entries = doubled
            BY <2>8, <2>10 DEF Entries
        <3> QED BY <1>4, <2>6, <2>7, <3>1 DEF GoodWeek
    <2>11. CASE options.type = "custom"
        <3> DEFINE at(w) == ((w - 1) % (2 * n)) + 1
        <3>1. Entries = [w \in 1..options.length |-> doubled[at(w)]]
            BY <2>8, <2>11 DEF Entries, CycledGames
        <3>2. \A w \in 1..options.length : at(w) \in 1..(2 * n)
            BY <1>1, <1>2, <2>1
        <3> HIDE DEF at
        <3>3. \A w \in 1..options.length : GoodRound(doubled[at(w)])
            BY <2>7, <3>2
        <3>4. \A w \in 1..options.length : doubled[at(w)] \in Pairs
            BY <2>4, <3>3
        <3>5. Entries \in Seq(Pairs) /\ Len(Entries) = options.length
            BY <1>2, <3>1, <3>4
        <3> QED BY <1>4, <3>1, <3>3, <3>5 DEF GoodWeek
    <2> QED BY <1>2, <1>4, <2>9, <2>10, <2>11 DEF Types
<1> QED BY <1>3, <1>4

\* A generation starts well formed.
LEMMA BasicInit == Init => Basic
<1> SUFFICES ASSUME Init PROVE Basic
    OBVIOUS
<1>1. OptionsOK
    BY OptionsInit
<1>2. SeatsInv
    BY <1>1, SeatsInit DEF Init
<1>3. games = <<>> /\ Weeks = {} /\ Len(games) = 0
    BY DEF Init, Weeks
<1>4. TypeOK
    BY <1>2, <1>3 DEF Init, TypeOK, SeatsInv, Phases, NoWeek
<1>5. GamesInv
    BY <1>1, <1>3, CircleSize DEF GamesInv
<1>6. StageInv
    BY DEF Init, StageInv
<1> QED BY <1>1, <1>2, <1>4, <1>5, <1>6 DEF Basic

\* A schedule has finitely many weeks.
LEMMA FiniteWeeks ==
    ASSUME Basic
    PROVE  IsFiniteSet(Weeks)
<1>1. Len(games) \in Nat
    BY DEF Basic, TypeOK
<1> QED BY <1>1, FS_Interval DEF Weeks

\* Only the rounds stage changes games.
LEMMA GamesKept ==
    ASSUME Basic, UNCHANGED <<options, seats, games>>, phase' # "rounds"
    PROVE  /\ OptionsOK' /\ SeatsInv' /\ GamesInv'
           /\ Weeks' = Weeks /\ Teams' = Teams /\ Requesters' = Requesters
           /\ Slots' = Slots
<1>1. Weeks' = Weeks /\ Teams' = Teams /\ Requesters' = Requesters /\ Slots' = Slots
    BY DEF Weeks, Teams, Requesters, Slots
<1>2. OptionsOK' /\ SeatsInv'
    BY <1>1 DEF Basic, OptionsOK, SeatsInv
<1>3. \A w \in Weeks : GoodWeek(games[w])'
    BY <1>1 DEF Basic, GamesInv, GoodWeek, GoodRound
<1> QED BY <1>1, <1>2, <1>3 DEF GamesInv

\* A pass of the circle method adds a round and turns the circle.
LEMMA PlayRoundBasic == Basic /\ PlayRound => Basic'
<1> SUFFICES ASSUME Basic, PlayRound PROVE Basic'
    OBVIOUS
<1> DEFINE Pairs == SUBSET (Teams \X Teams)
<1>1. /\ phase = "rounds" /\ phase' = "rounds" /\ options.type # "blanket"
      /\ UNCHANGED <<options, naturalBye, pendingByes, newWeek, usedAsNew,
                     sources, targets, dates, current>>
      /\ games' = Append(games, RoundGames) /\ seats' = Rotated
      /\ Len(games) < Rounds
    BY DEF PlayRound
<1>2. /\ Teams' = Teams /\ Requesters' = Requesters /\ Slots' = Slots
      /\ Rounds' = Rounds
    BY <1>1 DEF Teams, Requesters, Slots, Rounds
<1>3. GoodRound(RoundGames) /\ RoundGames \in Pairs
    BY RoundIsGood DEF Basic, GoodRound
<1>4. games \in Seq(Pairs) /\ Len(games) \in Nat
    BY DEF Basic, TypeOK
<1>5. /\ games' \in Seq(Pairs) /\ Len(games') = Len(games) + 1
      /\ \A w \in 1..Len(games) : games'[w] = games[w]
      /\ games'[Len(games) + 1] = RoundGames
    <2> HIDE DEF Pairs
    <2> QED BY <1>1, <1>3, <1>4, AppendProperties
<1>6. OptionsOK'
    BY <1>1 DEF Basic, OptionsOK
<1>7. SeatsInv'
    BY <1>1, SeatsTurn DEF Basic
<1>8. Weeks' = 1..(Len(games) + 1) /\ Weeks = 1..Len(games)
    BY <1>5 DEF Weeks
<1>9. \A w \in Weeks' : GoodRound(games'[w])
    BY <1>1, <1>3, <1>4, <1>5, <1>8 DEF Basic, GamesInv, GoodWeek
<1>10. GamesInv'
    <2>1. \A w \in Weeks' : GoodWeek(games[w])'
        BY <1>1, <1>2, <1>9 DEF GoodWeek, GoodRound
    <2>2. Len(games') <= Rounds'
        BY <1>1, <1>2, <1>4, <1>5, CircleSize DEF Basic
    <2> QED BY <1>1, <2>1, <2>2 DEF GamesInv
<1>11. newWeek' = <<>> /\ naturalBye' = [t \in Requesters' |-> NoWeek]
       /\ sources' = {} /\ targets' = {}
    BY <1>1, <1>2 DEF Basic, StageInv
<1>12. TypeOK'
    BY <1>1, <1>2, <1>5, <1>7, <1>11 DEF Basic, TypeOK, SeatsInv, NoWeek
<1>13. StageInv'
    BY <1>1, <1>2, <1>11 DEF Basic, StageInv
<1> QED BY <1>6, <1>7, <1>10, <1>12, <1>13 DEF Basic

\* The schedule type turns the rounds into the weeks.
LEMMA BuildEntriesBasic == Basic /\ BuildEntries => Basic'
<1> SUFFICES ASSUME Basic, BuildEntries PROVE Basic'
    OBVIOUS
<1> DEFINE Pairs == SUBSET (Teams \X Teams)
<1>1. /\ phase = "rounds" /\ phase' \in {"dates", "byes"}
      /\ options.type = "blanket" \/ Len(games) = Rounds
      /\ games' = Entries
      /\ newWeek' = [w \in 1..Len(Entries) |-> NoWeek]
      /\ UNCHANGED <<options, seats, naturalBye, pendingByes, usedAsNew,
                     sources, targets, dates, current>>
    BY DEF BuildEntries
<1>2. /\ Teams' = Teams /\ Requesters' = Requesters /\ Slots' = Slots
      /\ Weeks' = 1..Len(Entries)
    BY <1>1 DEF Teams, Requesters, Slots, Weeks
<1>3. games' \in Seq(Pairs) /\ \A w \in Weeks' : GoodWeek(games'[w])
    BY <1>1, <1>2, EntriesAreGood
<1>4. OptionsOK' /\ SeatsInv'
    BY <1>1, <1>2 DEF Basic, OptionsOK, SeatsInv
<1>5. GamesInv'
    <2>1. \A w \in Weeks' : GoodWeek(games[w])'
        BY <1>1, <1>2, <1>3 DEF GoodWeek, GoodRound
    <2> QED BY <1>1, <2>1 DEF GamesInv
<1>6. /\ naturalBye' = [t \in Requesters' |-> NoWeek]
      /\ sources' = {} /\ targets' = {} /\ usedAsNew' = {}
      /\ pendingByes' = DOMAIN options'.byeByWeek
      /\ newWeek' = [w \in Weeks' |-> NoWeek]
    BY <1>1, <1>2 DEF Basic, StageInv
<1>7. TypeOK'
    <2>1. newWeek' \in [DOMAIN newWeek' -> Nat] /\ DOMAIN newWeek' = Weeks'
        BY <1>6 DEF NoWeek
    <2>2. phase' \in Phases
        BY <1>1 DEF Phases
    <2>3. naturalBye' \in [Requesters' -> Weeks' \cup {NoWeek}]
        BY <1>6
    <2>4. seats' \in [Slots' -> Teams' \cup {Bye}]
        BY <1>4 DEF SeatsInv
    <2>5. games' \in Seq(SUBSET (Teams' \X Teams'))
        BY <1>2, <1>3
    <2>6. dates' \in Seq(Nat) /\ current' \in Nat
        BY <1>1 DEF Basic, TypeOK
    <2> QED BY <1>6, <2>1, <2>2, <2>3, <2>4, <2>5, <2>6 DEF TypeOK
<1>8. StageInv'
    BY <1>1, <1>6 DEF StageInv
<1> QED BY <1>4, <1>5, <1>7, <1>8 DEF Basic

\* Processing requests keeps everything well formed.
LEMMA RequestsBasic ==
    ASSUME Basic, FindNaturalByes \/ HonourRequest \/ SkipRequest \/ BeginPairing
    PROVE  Basic'
<1>1. UNCHANGED <<options, seats, games, dates, current>> /\ phase' # "rounds"
    BY DEF FindNaturalByes, HonourRequest, SkipRequest, BeginPairing
<1>2. /\ OptionsOK' /\ SeatsInv' /\ GamesInv'
      /\ Weeks' = Weeks /\ Teams' = Teams /\ Requesters' = Requesters
      /\ Slots' = Slots
    BY <1>1, GamesKept
<1>3. pendingByes \in SUBSET Nat
    BY DEF Basic, TypeOK, OptionsOK
<1>4. ASSUME FindNaturalByes PROVE TypeOK' /\ StageInv'
    <2>1. naturalBye' \in [Requesters -> Weeks \cup {NoWeek}]
        BY <1>4 DEF FindNaturalByes
    <2>2. phase = "byes" /\ phase' = "claim"
          /\ UNCHANGED <<pendingByes, newWeek, usedAsNew, sources, targets>>
        BY <1>4 DEF FindNaturalByes
    <2> QED BY <1>1, <1>2, <2>1, <2>2 DEF Basic, TypeOK, StageInv, Phases
<1>5. ASSUME HonourRequest PROVE TypeOK' /\ StageInv'
    <2>1. PICK w : w = Min(pendingByes)
        OBVIOUS
    <2>2. PICK t : t = options.byeByWeek[w]
        OBVIOUS
    <2>3. /\ phase = "claim" /\ phase' = "claim" /\ pendingByes # {}
          /\ HasNaturalBye(t) /\ newWeek' = Claimed(t, w)
          /\ usedAsNew' = usedAsNew \cup {w} /\ pendingByes' = pendingByes \ {w}
          /\ UNCHANGED <<naturalBye, sources, targets>>
        BY <1>5, <2>1, <2>2 DEF HonourRequest, StillPending
    <2>4. w \in pendingByes /\ w \in DOMAIN options.byeByWeek /\ w \in Nat
        BY <1>3, <2>1, <2>3, MinIsLeast DEF Basic, TypeOK
    <2>5. newWeek' \in [DOMAIN newWeek -> Nat]
        BY <2>3, <2>4 DEF Claimed, Basic, TypeOK
    <2> QED BY <1>1, <1>2, <2>3, <2>4, <2>5 DEF Basic, TypeOK, StageInv, Phases
<1>6. ASSUME SkipRequest PROVE TypeOK' /\ StageInv'
    <2>1. /\ phase = "claim" /\ phase' = "claim" /\ pendingByes' \subseteq pendingByes
          /\ UNCHANGED <<naturalBye, newWeek, usedAsNew, sources, targets>>
        BY <1>6 DEF SkipRequest, StillPending
    <2> QED BY <1>1, <1>2, <2>1 DEF Basic, TypeOK, StageInv, Phases
<1>7. ASSUME BeginPairing PROVE TypeOK' /\ StageInv'
    <2>1. /\ phase = "claim" /\ phase' = "pair"
          /\ sources' \subseteq Weeks /\ targets' \subseteq Weeks
          /\ UNCHANGED <<naturalBye, pendingByes, newWeek, usedAsNew>>
        BY <1>7 DEF BeginPairing, RemainingSources, RemainingTargets
    <2> QED BY <1>1, <1>2, <2>1 DEF Basic, TypeOK, StageInv, Phases
<1> QED BY <1>2, <1>4, <1>5, <1>6, <1>7 DEF Basic

\* So do the pairing of the other weeks and the calendar.
LEMMA PairingBasic ==
    ASSUME Basic, \/ PairWeeks \/ IndexOutOfRange \/ EndPairing
                  \/ AssignDate \/ Finish
    PROVE  Basic'
<1>1. /\ UNCHANGED <<options, seats, games, naturalBye, pendingByes, usedAsNew>>
      /\ phase \in {"pair", "dates"} /\ phase' \in {"pair", "dates", "panicked", "done"}
    BY DEF PairWeeks, IndexOutOfRange, EndPairing, AssignDate, Finish
<1>2. /\ OptionsOK' /\ SeatsInv' /\ GamesInv'
      /\ Weeks' = Weeks /\ Teams' = Teams /\ Requesters' = Requesters
      /\ Slots' = Slots
    BY <1>1, GamesKept
<1>3. StageInv'
    BY <1>1 DEF StageInv
<1>4. /\ sources' \subseteq sources /\ targets' \subseteq targets
      /\ newWeek' \in [DOMAIN newWeek -> Nat]
    <2>1. CASE PairWeeks
        <3>1. targets \in SUBSET Nat /\ targets # {}
            BY <2>1 DEF PairWeeks, Basic, TypeOK, Weeks
        <3>2. Min(targets) \in Nat
            BY <3>1, MinIsLeast
        <3> QED BY <2>1, <3>2 DEF PairWeeks, Basic, TypeOK
    <2>2. CASE UNCHANGED <<sources, targets, newWeek>>
        BY <2>2 DEF Basic, TypeOK
    <2> QED BY <2>1, <2>2 DEF IndexOutOfRange, EndPairing, AssignDate, Finish
<1>5. dates' \in Seq(Nat) /\ current' \in Nat
    <2>1. dates \in Seq(Nat) /\ current \in Nat
        BY DEF Basic, TypeOK
    <2>2. Append(dates, current) \in Seq(Nat) /\ current + 1 \in Nat
        BY <2>1
    <2>3. dates' \in {dates, Append(dates, current)} /\ current' \in {current, current + 1}
        BY DEF PairWeeks, IndexOutOfRange, EndPairing, AssignDate, Finish, DatesAfter,
               NextDate
    <2> QED BY <2>1, <2>2, <2>3
<1>6. TypeOK'
    BY <1>1, <1>2, <1>4, <1>5 DEF Basic, TypeOK, Phases
<1> QED BY <1>2, <1>3, <1>6 DEF Basic

\* The basic invariant is inductive.
LEMMA BasicNext == Basic /\ [Next]_vars => Basic'
<1>1. ASSUME Basic, UNCHANGED vars PROVE Basic'
    <2>1. Weeks' = Weeks /\ Teams' = Teams /\ Requesters' = Requesters /\ Slots' = Slots
          /\ Rounds' = Rounds
        BY <1>1 DEF vars, Weeks, Teams, Requesters, Slots, Rounds
    <2>2. GamesInv'
        BY <1>1, <2>1 DEF Basic, vars, GamesInv, GoodWeek, GoodRound
    <2> QED BY <1>1, <2>1, <2>2 DEF Basic, vars, OptionsOK, SeatsInv, TypeOK, StageInv
<1> QED BY <1>1, PlayRoundBasic, BuildEntriesBasic, RequestsBasic, PairingBasic DEF Next

\* Every reachable state is well typed: games are between registered teams and
\* the loops index the weeks of the schedule.
THEOREM TypeCorrect == Spec => []TypeOK
<1>1. Spec => []Basic
    BY BasicInit, BasicNext, PTL DEF Spec
<1>2. Basic => TypeOK
    BY DEF Basic
<1> QED BY <1>1, <1>2, PTL

\* In every week that is played, everybody plays once.
THEOREM RoundsCorrect == Spec => []RoundsSeatEveryTeam
<1>1. Basic => RoundsSeatEveryTeam
    BY DEF Basic, GamesInv, GoodWeek, GoodRound, RoundsSeatEveryTeam, Players, PlayersOf
<1>2. Spec => []Basic
    BY BasicInit, BasicNext, PTL DEF Spec
<1> QED BY <1>1, <1>2, PTL

-----------------------------------------------------------------------------
(* Requests: what is claimed for whom. *)

\* A team sits alone out.
LEMMA OneSitsOut ==
    ASSUME Basic, NEW w \in Weeks, NEW t, NEW u, SitsOut(t, w), SitsOut(u, w)
    PROVE  t = u
<1>1. t \in AllTeams \ Players(w) /\ u \in AllTeams \ Players(w)
    BY DEF SitsOut
<1>2. CASE options.type = "blanket"
    <2>1. \A x \in Weeks : games[x] = {}
        BY <1>2 DEF Basic, GamesInv, GoodWeek
    <2>2. AllTeams = {}
        BY <2>1 DEF AllTeams, Players
    <2> QED BY <1>1, <2>2
<1>3. CASE options.type # "blanket"
    <2>1. \A x \in Weeks : GoodRound(games[x])
        BY <1>3 DEF Basic, GamesInv, GoodWeek
    <2>2. \A r \in AllTeams : r \in Teams
        <3> TAKE r \in AllTeams
        <3>1. PICK x \in Weeks : r \in Players(x)
            BY DEF AllTeams
        <3>2. PICK p \in games[x] : r = p[1] \/ r = p[2]
            BY <3>1 DEF Players
        <3>3. p \in Teams \X Teams
            BY <2>1 DEF GoodRound
        <3> QED BY <3>2, <3>3
    <2>3. Players(w) = PlayersOf(games[w])
        BY DEF Players, PlayersOf
    <2>4. t \in Teams \ PlayersOf(games[w]) /\ u \in Teams \ PlayersOf(games[w])
        BY <1>1, <2>2, <2>3
    <2>5. GoodRound(games[w])
        BY <2>1
    <2> QED BY <2>4, <2>5 DEF GoodRound
<1> QED BY <1>2, <1>3

Wanting(v) == options.byeByWeek[v]

\* A natural bye is one: the team sits out that week.
ByesInv ==
    \A t \in Requesters : HasNaturalBye(t) =>
        naturalBye[t] \in Weeks /\ SitsOut(t, naturalBye[t])

\* Every week that has somewhere to go was claimed by the request for that
\* week; if requests are compatible, no claim was overwritten.
ClaimInv ==
    phase = "claim" =>
    /\ \A w \in Weeks : newWeek[w] # NoWeek =>
          /\ newWeek[w] \in usedAsNew
          /\ naturalBye[Wanting(newWeek[w])] = w
    /\ \A v \in DOMAIN options.byeByWeek :
          v \in pendingByes \/ v \in usedAsNew \/ ~HasNaturalBye(Wanting(v))
    /\ \A v \in usedAsNew : HasNaturalBye(Wanting(v))
    /\ Compatible => \A v \in usedAsNew : newWeek[naturalBye[Wanting(v)]] = v

\* The weeks left to pair: with compatible requests what is claimed is a
\* partial permutation, and what is left the rest of it.
PairInv ==
    phase = "pair" =>
    /\ DOMAIN options.byeByWeek \subseteq Weeks
          => Cardinality(targets) <= Cardinality(sources)
    /\ Compatible =>
          /\ sources = {w \in Weeks : newWeek[w] = NoWeek}
          /\ \A w \in Weeks : newWeek[w] # NoWeek => newWeek[w] \in Weeks
          /\ targets = {v \in Weeks : \A w \in Weeks : newWeek[w] # v}
          /\ \A w, x \in Weeks : newWeek[w] = newWeek[x] /\ newWeek[w] # NoWeek => w = x
          /\ Cardinality(sources) <= Cardinality(targets)
          /\ \A v \in DOMAIN options.byeByWeek :
                HasNaturalBye(Wanting(v)) => newWeek[naturalBye[Wanting(v)]] = v

ByeInv ==
    /\ ByesInv /\ ClaimInv /\ PairInv
    /\ CompatibleByesPermute /\ CompatibleByesHonoured /\ PanicsOnlyBeyondSchedule

\* Before the requests there is nothing to say about them.
LEMMA ByeInit == Init => ByeInv
<1> SUFFICES ASSUME Init PROVE ByeInv
    OBVIOUS
<1>1. phase = "rounds" /\ \A t \in Requesters : naturalBye[t] = NoWeek
    BY DEF Init
<1> QED BY <1>1 DEF ByeInv, ByesInv, ClaimInv, PairInv, HasNaturalBye,
        CompatibleByesPermute, CompatibleByesHonoured, PanicsOnlyBeyondSchedule

\* What only depends on the games and the request.
LEMMA WeeksKept ==
    ASSUME UNCHANGED <<options, games>>
    PROVE  /\ Weeks' = Weeks /\ Requesters' = Requesters
           /\ Compatible' = Compatible
           /\ AllTeams' = AllTeams
           /\ \A w : Players(w)' = Players(w)
           /\ \A t, w : SitsOut(t, w)' = SitsOut(t, w)
           /\ \A v : Wanting(v)' = Wanting(v)
<1>1. Weeks' = Weeks /\ Requesters' = Requesters
    BY DEF Weeks, Requesters
<1>2. \A w : Players(w)' = Players(w)
    BY DEF Players
<1>3. AllTeams' = AllTeams
    BY <1>1, <1>2 DEF AllTeams
<1> QED BY <1>1, <1>2, <1>3 DEF Compatible, SitsOut, Wanting

\* A schedule without requests is not permuted.
LEMMA BuildEntriesByes == Basic /\ BuildEntries => ByeInv'
<1> SUFFICES ASSUME Basic, BuildEntries PROVE ByeInv'
    OBVIOUS
<1>1. Basic'
    BY BuildEntriesBasic
<1>2. /\ phase' = IF pendingByes = {} THEN "dates" ELSE "byes"
      /\ phase = "rounds" /\ newWeek' = [w \in 1..Len(Entries) |-> NoWeek]
      /\ games' = Entries /\ options' = options /\ naturalBye' = naturalBye
    BY DEF BuildEntries
<1>3. \A t \in Requesters' : ~HasNaturalBye(t)'
    BY <1>2 DEF Basic, StageInv, HasNaturalBye, Requesters
<1>4. \A w \in Weeks' : Destination(w)' = w
    BY <1>2 DEF Weeks, Destination
<1>5. CompatibleByesPermute'
    BY <1>4 DEF CompatibleByesPermute
<1>6. CompatibleByesHonoured'
    BY <1>3 DEF CompatibleByesHonoured, Requesters
<1> QED BY <1>2, <1>3, <1>5, <1>6
    DEF ByeInv, ByesInv, ClaimInv, PairInv, PanicsOnlyBeyondSchedule

\* Whichever natural byes are found, nothing is claimed yet.
LEMMA FindNaturalByesByes == Basic /\ ByeInv /\ FindNaturalByes => ByeInv'
<1> SUFFICES ASSUME Basic, ByeInv, FindNaturalByes PROVE ByeInv'
    OBVIOUS
<1>1. /\ phase = "byes" /\ phase' = "claim"
      /\ UNCHANGED <<options, games, pendingByes, newWeek, usedAsNew>>
      /\ naturalBye' \in [Requesters -> Weeks \cup {NoWeek}]
      /\ \A t \in Requesters : IF \E w \in Weeks : SitsOut(t, w)
                               THEN naturalBye'[t] # NoWeek /\ SitsOut(t, naturalBye'[t])
                               ELSE naturalBye'[t] = NoWeek
    BY DEF FindNaturalByes
<1>2. /\ Weeks' = Weeks /\ Requesters' = Requesters
      /\ \A t, w : SitsOut(t, w)' = SitsOut(t, w)
    BY <1>1, WeeksKept
<1>3. ByesInv'
    BY <1>1, <1>2 DEF ByesInv, HasNaturalBye
<1>4. /\ \A w \in Weeks : newWeek[w] = NoWeek
      /\ pendingByes = DOMAIN options.byeByWeek /\ usedAsNew = {}
    BY <1>1 DEF Basic, StageInv
<1>5. ClaimInv'
    BY <1>1, <1>2, <1>4 DEF ClaimInv
<1> QED BY <1>1, <1>3, <1>5 DEF ByeInv, PairInv, CompatibleByesPermute,
        CompatibleByesHonoured, PanicsOnlyBeyondSchedule

\* A claim: the games of the week the team sits out go to the week it wants.
LEMMA HonourRequestByes == Basic /\ ByeInv /\ HonourRequest => ByeInv'
<1> SUFFICES ASSUME Basic, ByeInv, HonourRequest PROVE ByeInv'
    OBVIOUS
<1>1. PICK w : w = Min(pendingByes)
    OBVIOUS
<1>2. PICK t : t = Wanting(w)
    OBVIOUS
<1>3. PICK x : x = naturalBye[t]
    OBVIOUS
<1>4. /\ phase = "claim" /\ phase' = "claim" /\ pendingByes # {}
      /\ HasNaturalBye(t) /\ newWeek' = [newWeek EXCEPT ![x] = w]
      /\ usedAsNew' = usedAsNew \cup {w} /\ pendingByes' = pendingByes \ {w}
      /\ UNCHANGED <<options, games, naturalBye>>
    BY <1>1, <1>2, <1>3 DEF HonourRequest, StillPending, Claimed, Wanting
<1>5. /\ w \in pendingByes /\ w \in DOMAIN options.byeByWeek /\ w # NoWeek
      /\ usedAsNew \subseteq DOMAIN options.byeByWeek
    <2>1. pendingByes \in SUBSET Nat /\ pendingByes \subseteq DOMAIN options.byeByWeek
        BY DEF Basic, TypeOK, OptionsOK
    <2>2. w \in pendingByes
        BY <1>1, <1>4, <2>1, MinIsLeast
    <2> QED BY <2>1, <2>2 DEF Basic, TypeOK, OptionsOK, NoWeek
<1>6. t \in Requesters /\ x # NoWeek /\ x \in Weeks /\ SitsOut(t, x)
    <2>1. t \in Requesters
        BY <1>2, <1>5 DEF Requesters, Wanting
    <2> QED BY <1>3, <1>4, <2>1 DEF ByeInv, ByesInv, HasNaturalBye
<1>7. /\ DOMAIN newWeek = Weeks /\ newWeek'[x] = w
      /\ \A y \in Weeks : y # x => newWeek'[y] = newWeek[y]
    <2>1. DOMAIN newWeek = Weeks
        BY <1>4 DEF Basic, TypeOK
    <2> QED BY <1>4, <1>6, <2>1 DEF Basic, TypeOK
<1>8. /\ Weeks' = Weeks /\ Requesters' = Requesters /\ Compatible' = Compatible
      /\ \A u, y : SitsOut(u, y)' = SitsOut(u, y)
      /\ \A v : Wanting(v)' = Wanting(v)
      /\ \A u : HasNaturalBye(u)' = HasNaturalBye(u)
    BY <1>4, WeeksKept DEF HasNaturalBye
<1>9. ByesInv'
    BY <1>4, <1>8 DEF ByeInv, ByesInv
<1>10. ASSUME NEW y \in Weeks, newWeek'[y] # NoWeek
       PROVE  newWeek'[y] \in usedAsNew' /\ naturalBye[Wanting(newWeek'[y])] = y
    <2>1. CASE y = x
        BY <1>2, <1>3, <1>4, <1>7, <2>1
    <2>2. CASE y # x
        BY <1>4, <1>7, <1>10, <2>2 DEF ByeInv, ClaimInv
    <2> QED BY <2>1, <2>2
<1>11. \A v \in DOMAIN options.byeByWeek :
          v \in pendingByes' \/ v \in usedAsNew' \/ ~HasNaturalBye(Wanting(v))
    BY <1>4 DEF ByeInv, ClaimInv
<1>12. \A v \in usedAsNew' : HasNaturalBye(Wanting(v))
    BY <1>2, <1>4 DEF ByeInv, ClaimInv
<1>13. ASSUME Compatible, NEW v \in usedAsNew'
       PROVE  newWeek'[naturalBye[Wanting(v)]] = v
    <2>1. CASE v = w
        BY <1>2, <1>3, <1>7, <2>1
    <2>2. CASE v # w
        <3>1. v \in usedAsNew /\ v \in DOMAIN options.byeByWeek
            BY <1>4, <1>5, <2>2
        <3>2. Wanting(v) # t
            BY <1>2, <1>5, <1>13, <2>2, <3>1 DEF Compatible, IsInjective, Wanting
        <3>3. Wanting(v) \in Requesters /\ HasNaturalBye(Wanting(v))
            BY <1>12, <1>13, <3>1 DEF Requesters, Wanting
        <3>4. naturalBye[Wanting(v)] \in Weeks /\ SitsOut(Wanting(v), naturalBye[Wanting(v)])
            BY <3>3 DEF ByeInv, ByesInv
        <3>5. naturalBye[Wanting(v)] # x
            BY <1>6, <3>2, <3>4, OneSitsOut
        <3>6. newWeek[naturalBye[Wanting(v)]] = v
            BY <1>4, <1>13, <3>1 DEF ByeInv, ClaimInv
        <3> QED BY <1>7, <3>4, <3>5, <3>6
    <2> QED BY <2>1, <2>2
<1>14. ClaimInv'
    BY <1>4, <1>8, <1>10, <1>11, <1>12, <1>13 DEF ClaimInv
<1> QED BY <1>4, <1>9, <1>14 DEF ByeInv, PairInv, CompatibleByesPermute,
        CompatibleByesHonoured, PanicsOnlyBeyondSchedule

\* A request of a team that always plays is passed over.
LEMMA SkipRequestByes == Basic /\ ByeInv /\ SkipRequest => ByeInv'
<1> SUFFICES ASSUME Basic, ByeInv, SkipRequest PROVE ByeInv'
    OBVIOUS
<1>1. PICK w : w = Min(pendingByes)
    OBVIOUS
<1>2. /\ phase = "claim" /\ phase' = "claim"
      /\ ~HasNaturalBye(Wanting(w)) /\ pendingByes' = pendingByes \ {w}
      /\ UNCHANGED <<options, games, naturalBye, newWeek, usedAsNew>>
    BY <1>1 DEF SkipRequest, StillPending, Wanting
<1>3. /\ Weeks' = Weeks /\ Requesters' = Requesters /\ Compatible' = Compatible
      /\ \A u, y : SitsOut(u, y)' = SitsOut(u, y)
      /\ \A v : Wanting(v)' = Wanting(v)
      /\ \A u : HasNaturalBye(u)' = HasNaturalBye(u)
    BY <1>2, WeeksKept DEF HasNaturalBye
<1>4. ByesInv'
    BY <1>2, <1>3 DEF ByeInv, ByesInv
<1>5. ClaimInv'
    BY <1>2, <1>3 DEF ByeInv, ClaimInv
<1> QED BY <1>2, <1>4, <1>5 DEF ByeInv, PairInv, CompatibleByesPermute,
        CompatibleByesHonoured, PanicsOnlyBeyondSchedule

\* The weeks that are left: counted, there are enough of them to go to.
LEMMA BeginPairingByes == Basic /\ ByeInv /\ BeginPairing => ByeInv'
<1> SUFFICES ASSUME Basic, ByeInv, BeginPairing PROVE ByeInv'
    OBVIOUS
<1> DEFINE C == {w \in Weeks : newWeek[w] # NoWeek}
<1>1. /\ phase = "claim" /\ phase' = "pair" /\ pendingByes = {}
      /\ sources' = {w \in Weeks : newWeek[w] = NoWeek}
      /\ targets' = Weeks \ usedAsNew
      /\ UNCHANGED <<options, games, naturalBye, newWeek>>
    BY DEF BeginPairing, RemainingSources, RemainingTargets
<1>2. /\ Weeks' = Weeks /\ Requesters' = Requesters /\ Compatible' = Compatible
      /\ \A u, y : SitsOut(u, y)' = SitsOut(u, y)
      /\ \A v : Wanting(v)' = Wanting(v)
      /\ \A u : HasNaturalBye(u)' = HasNaturalBye(u)
    BY <1>1, WeeksKept DEF HasNaturalBye
<1>3. IsFiniteSet(Weeks)
    BY FiniteWeeks
<1>4. /\ \A w \in C : newWeek[w] \in usedAsNew /\ naturalBye[Wanting(newWeek[w])] = w
      /\ \A v \in usedAsNew : HasNaturalBye(Wanting(v))
      /\ \A v \in DOMAIN options.byeByWeek : v \in usedAsNew \/ ~HasNaturalBye(Wanting(v))
      /\ Compatible => \A v \in usedAsNew : newWeek[naturalBye[Wanting(v)]] = v
    BY <1>1 DEF ByeInv, ClaimInv
<1>5. usedAsNew \subseteq DOMAIN options.byeByWeek
    BY DEF Basic, TypeOK
<1>6. IsFiniteSet(C) /\ C \subseteq Weeks /\ sources' = Weeks \ C
    BY <1>1, <1>3, FS_Subset
<1>7. Cardinality(sources') = Cardinality(Weeks) - Cardinality(C)
      /\ Cardinality(Weeks) \in Nat /\ Cardinality(C) \in Nat
    <2>1. C \in SUBSET Weeks
        BY <1>6
    <2> HIDE DEF C
    <2> QED BY <1>3, <1>6, <2>1, RestSize
<1>8. ASSUME DOMAIN options.byeByWeek \subseteq Weeks
      PROVE  /\ IsFiniteSet(usedAsNew) /\ Cardinality(usedAsNew) \in Nat
             /\ Cardinality(targets') = Cardinality(Weeks) - Cardinality(usedAsNew)
             /\ Cardinality(C) <= Cardinality(usedAsNew)
    <2>1. usedAsNew \subseteq Weeks
        BY <1>5, <1>8
    <2>2. IsFiniteSet(usedAsNew) /\ Cardinality(usedAsNew) \in Nat
        BY <1>3, <2>1, FS_Subset, FS_CardinalityType
    <2>3. Cardinality(Weeks \ usedAsNew) = Cardinality(Weeks) - Cardinality(usedAsNew)
        BY <1>3, <2>1, RestSize
    <2>4. Cardinality(targets') = Cardinality(Weeks) - Cardinality(usedAsNew)
        BY <1>1, <2>3
    <2> DEFINE f == [w \in C |-> newWeek[w]]
    <2>5. f \in Injection(C, usedAsNew)
        <3>1. f \in [C -> usedAsNew]
            BY <1>4
        <3>2. \A w, x \in C : f[w] = f[x] => w = x
            BY <1>4
        <3> QED BY <3>1, <3>2 DEF Injection, IsInjective
    <2>6. Cardinality(C) <= Cardinality(usedAsNew)
        BY <2>2, <2>5, FS_Injection
    <2> QED BY <2>2, <2>4, <2>6
<1>9. ASSUME Compatible
      PROVE  /\ Cardinality(usedAsNew) <= Cardinality(C)
             /\ usedAsNew = {newWeek[w] : w \in C}
    <2> DEFINE g == [v \in usedAsNew |-> naturalBye[Wanting(v)]]
    <2>1. \A v \in usedAsNew : g[v] \in C /\ newWeek[g[v]] = v
        <3> TAKE v \in usedAsNew
        <3>1. Wanting(v) \in Requesters /\ HasNaturalBye(Wanting(v))
            BY <1>4, <1>5 DEF Requesters, Wanting
        <3>2. g[v] \in Weeks
            BY <3>1 DEF ByeInv, ByesInv
        <3>3. newWeek[g[v]] = v
            BY <1>4, <1>9
        <3>4. v # NoWeek
            BY <1>5 DEF Basic, OptionsOK, NoWeek
        <3> QED BY <3>2, <3>3, <3>4
    <2>2. g \in Injection(usedAsNew, C)
        <3>1. g \in [usedAsNew -> C]
            BY <2>1
        <3>2. \A v, u \in usedAsNew : g[v] = g[u] => v = u
            BY <2>1
        <3> QED BY <3>1, <3>2 DEF Injection, IsInjective
    <2>3. Cardinality(usedAsNew) <= Cardinality(C)
        BY <1>6, <2>2, FS_Injection
    <2>4. usedAsNew \subseteq {newWeek[w] : w \in C}
        BY <2>1
    <2> QED BY <1>4, <2>3, <2>4
<1> HIDE DEF C
<1>10. DOMAIN options.byeByWeek \subseteq Weeks
          => Cardinality(targets') <= Cardinality(sources')
    BY <1>7, <1>8
<1>11. ASSUME Compatible
       PROVE  /\ \A w \in Weeks : newWeek[w] # NoWeek => newWeek[w] \in Weeks
              /\ targets' = {v \in Weeks : \A w \in Weeks : newWeek[w] # v}
              /\ \A w, x \in Weeks : newWeek[w] = newWeek[x] /\ newWeek[w] # NoWeek => w = x
              /\ Cardinality(sources') <= Cardinality(targets')
              /\ \A v \in DOMAIN options.byeByWeek :
                    HasNaturalBye(Wanting(v)) => newWeek[naturalBye[Wanting(v)]] = v
    <2>1. DOMAIN options.byeByWeek \subseteq Weeks
        BY <1>11 DEF Compatible
    <2>2. \A w \in Weeks : newWeek[w] # NoWeek => w \in C
        BY DEF C
    <2>3. \A v \in Weeks : v # NoWeek
        BY DEF Weeks, NoWeek
    <2>4. \A w \in C : w \in Weeks
        BY DEF C
    <2>5. \A v \in Weeks : v \in usedAsNew <=> \E w \in Weeks : newWeek[w] = v
        BY <1>9, <1>11, <2>2, <2>3, <2>4
    <2>6. targets' = {v \in Weeks : \A w \in Weeks : newWeek[w] # v}
        BY <1>1, <2>5
    <2>7. Cardinality(sources') <= Cardinality(targets')
        BY <1>7, <1>8, <1>9, <1>11, <2>1
    <2>8. \A w \in Weeks : newWeek[w] # NoWeek => newWeek[w] \in Weeks
        BY <1>4, <1>5, <2>1, <2>2
    <2>9. \A w, x \in Weeks : newWeek[w] = newWeek[x] /\ newWeek[w] # NoWeek => w = x
        BY <1>4, <2>2
    <2>10. \A v \in DOMAIN options.byeByWeek :
              HasNaturalBye(Wanting(v)) => newWeek[naturalBye[Wanting(v)]] = v
        BY <1>4, <1>11
    <2> QED BY <2>6, <2>7, <2>8, <2>9, <2>10
<1>12. PairInv'
    BY <1>1, <1>2, <1>10, <1>11 DEF PairInv
<1>13. ByesInv'
    BY <1>1, <1>2 DEF ByeInv, ByesInv
<1> QED BY <1>1, <1>12, <1>13 DEF ByeInv, ClaimInv, CompatibleByesPermute,
        CompatibleByesHonoured, PanicsOnlyBeyondSchedule

\* One more week is paired: what is paired stays a partial permutation.
LEMMA PairWeeksByes == Basic /\ ByeInv /\ PairWeeks => ByeInv'
<1> SUFFICES ASSUME Basic, ByeInv, PairWeeks PROVE ByeInv'
    OBVIOUS
<1>1. PICK x : x = Min(sources)
    OBVIOUS
<1>2. PICK v : v = Min(targets)
    OBVIOUS
<1>3. /\ phase = "pair" /\ phase' = "pair" /\ targets # {} /\ sources # {}
      /\ newWeek' = [newWeek EXCEPT ![x] = v]
      /\ sources' = sources \ {x} /\ targets' = targets \ {v}
      /\ UNCHANGED <<options, games, naturalBye>>
    BY <1>1, <1>2 DEF PairWeeks
<1>4. sources \in SUBSET Weeks /\ targets \in SUBSET Weeks /\ DOMAIN newWeek = Weeks
    BY <1>3 DEF Basic, TypeOK
<1>5. x \in sources /\ v \in targets /\ x \in Weeks /\ v \in Weeks /\ v # NoWeek
    <2>1. sources \in SUBSET Nat /\ targets \in SUBSET Nat
        BY <1>4 DEF Weeks
    <2>2. x \in sources /\ v \in targets
        BY <1>1, <1>2, <1>3, <2>1, MinIsLeast
    <2> QED BY <1>4, <2>2 DEF Weeks, NoWeek
<1>6. /\ newWeek'[x] = v
      /\ \A y \in Weeks : y # x => newWeek'[y] = newWeek[y]
    BY <1>3, <1>4, <1>5 DEF Basic, TypeOK
<1>7. /\ Weeks' = Weeks /\ Requesters' = Requesters /\ Compatible' = Compatible
      /\ \A u, y : SitsOut(u, y)' = SitsOut(u, y)
      /\ \A u : Wanting(u)' = Wanting(u)
      /\ \A u : HasNaturalBye(u)' = HasNaturalBye(u)
    BY <1>3, WeeksKept DEF HasNaturalBye
<1>8. IsFiniteSet(sources) /\ IsFiniteSet(targets)
    BY <1>4, FiniteWeeks, FS_Subset
<1>9. /\ Cardinality(sources) \in Nat /\ Cardinality(targets) \in Nat
      /\ Cardinality(sources') = Cardinality(sources) - 1
      /\ Cardinality(targets') = Cardinality(targets) - 1
    <2>1. Cardinality(sources \ {x}) = Cardinality(sources) - 1
        BY <1>5, <1>8, FS_RemoveElement
    <2>2. Cardinality(targets \ {v}) = Cardinality(targets) - 1
        BY <1>5, <1>8, FS_RemoveElement
    <2> QED BY <1>3, <1>8, <2>1, <2>2, FS_CardinalityType
<1>10. DOMAIN options.byeByWeek \subseteq Weeks
          => Cardinality(targets') <= Cardinality(sources')
    BY <1>3, <1>9 DEF ByeInv, PairInv
<1>11. ASSUME Compatible
       PROVE  /\ sources' = {w \in Weeks : newWeek'[w] = NoWeek}
              /\ \A w \in Weeks : newWeek'[w] # NoWeek => newWeek'[w] \in Weeks
              /\ targets' = {u \in Weeks : \A w \in Weeks : newWeek'[w] # u}
              /\ \A w, y \in Weeks : newWeek'[w] = newWeek'[y] /\ newWeek'[w] # NoWeek => w = y
              /\ Cardinality(sources') <= Cardinality(targets')
              /\ \A u \in DOMAIN options.byeByWeek :
                    HasNaturalBye(Wanting(u)) => newWeek'[naturalBye[Wanting(u)]] = u
    <2>1. /\ sources = {w \in Weeks : newWeek[w] = NoWeek}
          /\ \A w \in Weeks : newWeek[w] # NoWeek => newWeek[w] \in Weeks
          /\ targets = {u \in Weeks : \A w \in Weeks : newWeek[w] # u}
          /\ \A w, y \in Weeks : newWeek[w] = newWeek[y] /\ newWeek[w] # NoWeek => w = y
          /\ Cardinality(sources) <= Cardinality(targets)
          /\ \A u \in DOMAIN options.byeByWeek :
                HasNaturalBye(Wanting(u)) => newWeek[naturalBye[Wanting(u)]] = u
        BY <1>3, <1>11 DEF ByeInv, PairInv
    <2>2. newWeek[x] = NoWeek /\ \A w \in Weeks : newWeek[w] # v
        BY <1>5, <2>1
    <2>3. sources' = {w \in Weeks : newWeek'[w] = NoWeek}
        BY <1>3, <1>5, <1>6, <2>1
    <2>4. \A w \in Weeks : newWeek'[w] # NoWeek => newWeek'[w] \in Weeks
        BY <1>5, <1>6, <2>1
    <2>5. targets' = {u \in Weeks : \A w \in Weeks : newWeek'[w] # u}
        <3>1. ASSUME NEW u \in targets'
              PROVE  u \in Weeks /\ \A w \in Weeks : newWeek'[w] # u
            BY <1>3, <1>6, <2>1, <3>1
        <3>2. ASSUME NEW u \in Weeks, \A w \in Weeks : newWeek'[w] # u
              PROVE  u \in targets'
            <4>1. u # v
                BY <1>5, <1>6, <3>2
            <4>2. \A w \in Weeks : newWeek[w] # u
                <5> TAKE w \in Weeks
                <5>1. CASE w = x
                    BY <2>2, <3>2, <5>1 DEF Weeks, NoWeek
                <5>2. CASE w # x
                    BY <1>6, <3>2, <5>2
                <5> QED BY <5>1, <5>2
            <4> QED BY <1>3, <2>1, <3>2, <4>1, <4>2
        <3> QED BY <3>1, <3>2
    <2>6. \A w, y \in Weeks : newWeek'[w] = newWeek'[y] /\ newWeek'[w] # NoWeek => w = y
        BY <1>5, <1>6, <2>1, <2>2
    <2>7. Cardinality(sources') <= Cardinality(targets')
        BY <1>9, <2>1
    <2>8. ASSUME NEW u \in DOMAIN options.byeByWeek, HasNaturalBye(Wanting(u))
          PROVE  newWeek'[naturalBye[Wanting(u)]] = u
        <3>1. newWeek[naturalBye[Wanting(u)]] = u
            BY <2>1, <2>8
        <3>2. Wanting(u) \in Requesters
            BY DEF Requesters, Wanting
        <3>3. naturalBye[Wanting(u)] \in Weeks
            BY <2>8, <3>2 DEF ByeInv, ByesInv
        <3>4. u # NoWeek
            BY DEF Basic, OptionsOK, NoWeek
        <3>5. naturalBye[Wanting(u)] # x
            BY <2>2, <3>1, <3>4
        <3> QED BY <1>6, <3>1, <3>3, <3>5
    <2> QED BY <2>3, <2>4, <2>5, <2>6, <2>7, <2>8
<1>12. PairInv'
    BY <1>3, <1>7, <1>10, <1>11 DEF PairInv
<1>13. ByesInv'
    BY <1>3, <1>7 DEF ByeInv, ByesInv
<1> QED BY <1>3, <1>12, <1>13 DEF ByeInv, ClaimInv, CompatibleByesPermute,
        CompatibleByesHonoured, PanicsOnlyBeyondSchedule

\* With no target left there is no source left, and the permutation is whole.
LEMMA EndPairingByes == Basic /\ ByeInv /\ EndPairing => ByeInv'
<1> SUFFICES ASSUME Basic, ByeInv, EndPairing PROVE ByeInv'
    OBVIOUS
<1>1. /\ phase = "pair" /\ phase' = "dates" /\ targets = {}
      /\ UNCHANGED <<options, games, naturalBye, newWeek>>
    BY DEF EndPairing
<1>2. /\ Weeks' = Weeks /\ Requesters' = Requesters /\ Compatible' = Compatible
      /\ \A u, y : SitsOut(u, y)' = SitsOut(u, y)
      /\ \A u : Wanting(u)' = Wanting(u)
      /\ \A u : HasNaturalBye(u)' = HasNaturalBye(u)
      /\ \A w : Players(w)' = Players(w)
      /\ \A w : Destination(w)' = Destination(w)
    BY <1>1, WeeksKept DEF HasNaturalBye, Destination
<1>3. ASSUME Compatible
      PROVE  /\ {Destination(w) : w \in Weeks} = Weeks
             /\ \A w, y \in Weeks : Destination(w) = Destination(y) => w = y
             /\ \A u \in DOMAIN options.byeByWeek :
                   HasNaturalBye(Wanting(u)) => Destination(naturalBye[Wanting(u)]) = u
    <2>1. /\ sources = {w \in Weeks : newWeek[w] = NoWeek}
          /\ \A w \in Weeks : newWeek[w] # NoWeek => newWeek[w] \in Weeks
          /\ targets = {u \in Weeks : \A w \in Weeks : newWeek[w] # u}
          /\ \A w, y \in Weeks : newWeek[w] = newWeek[y] /\ newWeek[w] # NoWeek => w = y
          /\ Cardinality(sources) <= Cardinality(targets)
          /\ \A u \in DOMAIN options.byeByWeek :
                HasNaturalBye(Wanting(u)) => newWeek[naturalBye[Wanting(u)]] = u
        BY <1>1, <1>3 DEF ByeInv, PairInv
    <2>2. sources = {}
        <3>1. sources \in SUBSET Weeks
            BY DEF Basic, TypeOK
        <3>2. IsFiniteSet(sources)
            BY <3>1, FiniteWeeks, FS_Subset
        <3>3. Cardinality(sources) \in Nat /\ Cardinality(targets) = 0
            BY <1>1, <3>2, FS_CardinalityType, FS_EmptySet
        <3>4. Cardinality(sources) = 0
            BY <2>1, <3>3
        <3> QED BY <3>2, <3>4, FS_EmptySet
    <2>3. \A w \in Weeks : newWeek[w] # NoWeek /\ Destination(w) = newWeek[w]
        BY <2>1, <2>2 DEF Destination
    <2>4. {Destination(w) : w \in Weeks} = Weeks
        BY <1>1, <2>1, <2>3
    <2>5. \A w, y \in Weeks : Destination(w) = Destination(y) => w = y
        BY <2>1, <2>3
    <2>6. ASSUME NEW u \in DOMAIN options.byeByWeek, HasNaturalBye(Wanting(u))
          PROVE  Destination(naturalBye[Wanting(u)]) = u
        <3>1. Wanting(u) \in Requesters
            BY DEF Requesters, Wanting
        <3>2. naturalBye[Wanting(u)] \in Weeks
            BY <2>6, <3>1 DEF ByeInv, ByesInv
        <3> QED BY <2>1, <2>3, <2>6, <3>2
    <2> QED BY <2>4, <2>5, <2>6
<1>4. CompatibleByesPermute'
    BY <1>2, <1>3 DEF CompatibleByesPermute
<1>5. ASSUME Compatible, NEW u \in DOMAIN options.byeByWeek, HasNaturalBye(Wanting(u)),
             NEW w \in Weeks, Destination(w) = u
      PROVE  Wanting(u) \notin Players(w)
    <2>1. Wanting(u) \in Requesters
        BY DEF Requesters, Wanting
    <2>2. naturalBye[Wanting(u)] \in Weeks /\ SitsOut(Wanting(u), naturalBye[Wanting(u)])
        BY <1>5, <2>1 DEF ByeInv, ByesInv
    <2>3. w = naturalBye[Wanting(u)]
        BY <1>3, <1>5, <2>2
    <2> QED BY <2>2, <2>3 DEF SitsOut
<1>6. CompatibleByesHonoured'
    BY <1>1, <1>2, <1>5 DEF CompatibleByesHonoured, Wanting
<1>7. ByesInv'
    BY <1>1, <1>2 DEF ByeInv, ByesInv
<1> QED BY <1>1, <1>4, <1>6, <1>7 DEF ByeInv, ClaimInv, PairInv, PanicsOnlyBeyondSchedule

\* The loop runs out of sources only if a request was for no week of the
\* schedule.
LEMMA IndexOutOfRangeByes == Basic /\ ByeInv /\ IndexOutOfRange => ByeInv'
<1> SUFFICES ASSUME Basic, ByeInv, IndexOutOfRange PROVE ByeInv'
    OBVIOUS
<1>1. /\ phase = "pair" /\ phase' = "panicked" /\ targets # {} /\ sources = {}
      /\ UNCHANGED <<options, games, naturalBye>>
    BY DEF IndexOutOfRange
<1>2. /\ Weeks' = Weeks /\ Requesters' = Requesters
      /\ \A u, y : SitsOut(u, y)' = SitsOut(u, y)
      /\ \A u : HasNaturalBye(u)' = HasNaturalBye(u)
    BY <1>1, WeeksKept DEF HasNaturalBye
<1>3. ~(DOMAIN options.byeByWeek \subseteq Weeks)
    <2>1. targets \in SUBSET Weeks
        BY DEF Basic, TypeOK
    <2>2. IsFiniteSet(targets)
        BY <2>1, FiniteWeeks, FS_Subset
    <2>3. Cardinality(targets) \in Nat /\ Cardinality(targets) # 0 /\ Cardinality(sources) = 0
        BY <1>1, <2>2, FS_CardinalityType, FS_EmptySet
    <2>4. ~(Cardinality(targets) <= Cardinality(sources))
        BY <2>3
    <2> QED BY <1>1, <2>4 DEF ByeInv, PairInv
<1>4. PanicsOnlyBeyondSchedule'
    BY <1>1, <1>2, <1>3 DEF PanicsOnlyBeyondSchedule
<1>5. ByesInv'
    BY <1>1, <1>2 DEF ByeInv, ByesInv
<1> QED BY <1>1, <1>4, <1>5 DEF ByeInv, ClaimInv, PairInv, CompatibleByesPermute,
        CompatibleByesHonoured

\* The rounds come before the requests and the dates after them.
LEMMA OtherByes ==
    ASSUME Basic, ByeInv, PlayRound \/ AssignDate \/ Finish \/ UNCHANGED vars
    PROVE  ByeInv'
<1>1. CASE PlayRound
    <2>1. phase = "rounds" /\ phase' = "rounds" /\ UNCHANGED <<options, naturalBye>>
        BY <1>1 DEF PlayRound
    <2>2. \A t \in Requesters' : ~HasNaturalBye(t)'
        BY <2>1 DEF Basic, StageInv, HasNaturalBye, Requesters
    <2> QED BY <2>1, <2>2 DEF ByeInv, ByesInv, ClaimInv, PairInv, CompatibleByesPermute,
                CompatibleByesHonoured, PanicsOnlyBeyondSchedule
<1>2. CASE AssignDate \/ Finish \/ UNCHANGED vars
    <2>1. /\ UNCHANGED <<options, games, naturalBye, pendingByes, newWeek, usedAsNew,
                         sources, targets>>
          /\ \/ phase' = phase
             \/ phase = "dates" /\ phase' = "done"
        BY <1>2 DEF AssignDate, Finish, vars
    <2>2. /\ Weeks' = Weeks /\ Requesters' = Requesters /\ Compatible' = Compatible
          /\ \A u, y : SitsOut(u, y)' = SitsOut(u, y)
          /\ \A u : Wanting(u)' = Wanting(u)
          /\ \A u : HasNaturalBye(u)' = HasNaturalBye(u)
          /\ \A w : Players(w)' = Players(w)
          /\ \A w : Destination(w)' = Destination(w)
        BY <2>1, WeeksKept DEF HasNaturalBye, Destination
    <2>3. ByesInv' /\ ClaimInv' /\ PairInv'
        BY <2>1, <2>2 DEF ByeInv, ByesInv, ClaimInv, PairInv
    <2>4. CompatibleByesPermute' /\ CompatibleByesHonoured' /\ PanicsOnlyBeyondSchedule'
        BY <2>1, <2>2 DEF ByeInv, CompatibleByesPermute, CompatibleByesHonoured,
           PanicsOnlyBeyondSchedule
    <2> QED BY <2>3, <2>4 DEF ByeInv
<1> QED BY <1>1, <1>2

\* The invariant about requests holds throughout.
LEMMA ByesInductive == Spec => [](Basic /\ ByeInv)
<1>1. Init => Basic /\ ByeInv
    BY BasicInit, ByeInit
<1>2. Basic /\ ByeInv /\ [Next]_vars => (Basic /\ ByeInv)'
    BY BasicNext, BuildEntriesByes, FindNaturalByesByes, HonourRequestByes, SkipRequestByes,
       BeginPairingByes, PairWeeksByes, EndPairingByes, IndexOutOfRangeByes, OtherByes
    DEF Next
<1> QED BY <1>1, <1>2, PTL DEF Spec

\* Compatible requests only permute the weeks.
THEOREM PermuteCorrect == Spec => []CompatibleByesPermute
<1>1. Basic /\ ByeInv => CompatibleByesPermute
    BY DEF ByeInv
<1> QED BY <1>1, ByesInductive, PTL

\* And each of them is honoured.
THEOREM HonouredCorrect == Spec => []CompatibleByesHonoured
<1>1. Basic /\ ByeInv => CompatibleByesHonoured
    BY DEF ByeInv
<1> QED BY <1>1, ByesInductive, PTL

\* Generation breaks off only over a request for a week beyond the schedule.
THEOREM PanicsCorrect == Spec => []PanicsOnlyBeyondSchedule
<1>1. Basic /\ ByeInv => PanicsOnlyBeyondSchedule
    BY DEF ByeInv
<1> QED BY <1>1, ByesInductive, PTL

-----------------------------------------------------------------------------
(* The calendar. *)

Played(d) == (0..(d - 1)) \ options.skip

\* As many dates as there are days played on so far, in order.
DatesInv ==
    /\ Len(dates) = Cardinality(Played(current))
    /\ EarliestDates

\* One more day is played on or passed over.
LEMMA PlayedGrows ==
    ASSUME NEW d \in Nat
    PROVE  /\ Cardinality(Played(d)) \in Nat
           /\ Cardinality(Played(d + 1)) =
                IF d \in options.skip THEN Cardinality(Played(d)) ELSE Cardinality(Played(d)) + 1
<1>1. IsFiniteSet(0..(d - 1))
    BY FS_Interval
<1>2. IsFiniteSet(Played(d)) /\ Cardinality(Played(d)) \in Nat
    BY <1>1, FS_Subset, FS_CardinalityType DEF Played
<1>3. 0..((d + 1) - 1) = (0..(d - 1)) \cup {d} /\ d \notin 0..(d - 1)
    OBVIOUS
<1>4. CASE d \in options.skip
    <2>1. Played(d + 1) = Played(d)
        BY <1>3, <1>4 DEF Played
    <2> QED BY <1>2, <1>4, <2>1
<1>5. CASE d \notin options.skip
    <2>1. Played(d + 1) = Played(d) \cup {d} /\ d \notin Played(d)
        BY <1>3, <1>5 DEF Played
    <2> QED BY <1>2, <1>5, <2>1, FS_AddElement
<1> QED BY <1>4, <1>5

\* No dates, no days.
LEMMA DatesInit == Init => DatesInv
<1> SUFFICES ASSUME Init PROVE DatesInv
    OBVIOUS
<1>1. dates = <<>> /\ current = 0
    BY DEF Init
<1>2. Played(0) = {}
    BY DEF Played
<1>3. Cardinality(Played(current)) = 0
    BY <1>1, <1>2, FS_EmptySet
<1> QED BY <1>1, <1>3 DEF DatesInv, EarliestDates

\* Every day looked at is counted, and becomes a date if it is played on.
LEMMA DatesNext == Basic /\ DatesInv /\ [Next]_vars => DatesInv'
<1> SUFFICES ASSUME Basic, DatesInv, [Next]_vars PROVE DatesInv'
    OBVIOUS
<1>1. CASE UNCHANGED <<options, dates, current>>
    BY <1>1 DEF DatesInv, EarliestDates, Played
<1>2. CASE AssignDate
    <2>1. /\ UNCHANGED options /\ current' = current + 1
          /\ dates' = IF current \in options.skip THEN dates ELSE Append(dates, current)
        BY <1>2 DEF AssignDate, DatesAfter, NextDate
    <2>2. dates \in Seq(Nat) /\ current \in Nat /\ Len(dates) \in Nat
        BY DEF Basic, TypeOK
    <2>3. PICK d \in Nat : d = current
        BY <2>2
    <2>4. /\ Cardinality(Played(d)) = Len(dates)
          /\ Cardinality(Played(d + 1)) =
                IF d \in options.skip THEN Len(dates) ELSE Len(dates) + 1
        BY <2>3, PlayedGrows DEF DatesInv
    <2>5. Played(current)' = Played(d + 1)
        BY <2>1, <2>3 DEF Played
    <2>6. CASE current \in options.skip
        BY <2>1, <2>3, <2>4, <2>5, <2>6 DEF DatesInv, EarliestDates
    <2>7. CASE current \notin options.skip
        <3>1. /\ Len(dates') = Len(dates) + 1
              /\ \A w \in 1..Len(dates) : dates'[w] = dates[w]
              /\ dates'[Len(dates) + 1] = d
            BY <2>1, <2>2, <2>3, <2>7
        <3>2. DOMAIN dates = 1..Len(dates) /\ DOMAIN dates' = 1..(Len(dates) + 1)
            BY <2>1, <2>2, <2>7
        <3>3. Cardinality((0..d) \ options.skip) = Len(dates) + 1
            <4>1. (d + 1) - 1 = d
                OBVIOUS
            <4> QED BY <2>3, <2>4, <2>7, <4>1 DEF Played
        <3>4. \A w \in DOMAIN dates' :
                 /\ dates'[w] \notin options.skip
                 /\ Cardinality((0..dates'[w]) \ options.skip) = w
            <4> TAKE w \in DOMAIN dates'
            <4>1. CASE w \in 1..Len(dates)
                BY <3>1, <3>2, <4>1 DEF DatesInv, EarliestDates
            <4>2. CASE w = Len(dates) + 1
                BY <2>3, <2>7, <3>1, <3>3, <4>2
            <4> QED BY <2>2, <3>2, <4>1, <4>2
        <3> QED BY <2>1, <2>3, <2>4, <2>5, <2>7, <3>1, <3>4 DEF DatesInv, EarliestDates
    <2> QED BY <2>6, <2>7
<1>3. [Next]_vars => AssignDate \/ UNCHANGED <<options, dates, current>>
    BY DEF Next, vars, PlayRound, BuildEntries, FindNaturalByes, HonourRequest, SkipRequest,
           BeginPairing, PairWeeks, IndexOutOfRange, EndPairing, Finish
<1> QED BY <1>1, <1>2, <1>3

\* Week w has the w-th date that is played on.
THEOREM DatesCorrect == Spec => []EarliestDates
<1>1. Init => Basic /\ DatesInv
    BY BasicInit, DatesInit
<1>2. Basic /\ DatesInv /\ [Next]_vars => (Basic /\ DatesInv)'
    BY BasicNext, DatesNext
<1>3. Basic /\ DatesInv => EarliestDates
    BY DEF DatesInv
<1> QED BY <1>1, <1>2, <1>3, PTL DEF Spec
-----------------------------------------------------------------------------
(* Who meets whom.  Seat 0 of the circle stays and seats 1..r turn: after k     *)
(* rounds whoever began at seat x sits at Place(r, k, x), and at seat i sits    *)
(* whoever began at Back(r, k, i).                                              *)
Back(r, k, i) == IF i = 0 THEN 0 ELSE IF i > k THEN i - k ELSE i - k + r
Place(r, k, x) == IF x = 0 THEN 0 ELSE IF x + k <= r THEN x + k ELSE x + k - r
Circle(k) == [i \in Slots |-> InitialSeats(options.teams)[Back(Rounds, k, i)]]

LEMMA BackPlace ==
    ASSUME NEW r \in Nat, NEW k \in 0..(r - 1), NEW x \in 0..r
    PROVE  /\ Place(r, k, x) \in 0..r
           /\ \A i \in 0..r : Back(r, k, i) = x <=> i = Place(r, k, x)
<1> QED BY DEF Back, Place

\* Of an odd number of rounds, two that begin at different seats are opposite each
\* other in one and only one: twice the round is what their seats lack to a
\* multiple of r, and r is odd.
LEMMA OppositeOnce ==
    ASSUME NEW h \in Nat, NEW r \in Nat, r = 2 * h + 1,
           NEW x \in 0..r, NEW y \in 0..r, x # y
    PROVE  \E k \in 0..(r - 1) : \A j \in 0..(r - 1) :
              Place(r, j, x) + Place(r, j, y) = r <=> j = k
<1>1. CASE x = 0
    <2>1. r - y \in 0..(r - 1)
        BY <1>1
    <2>2. \A j \in 0..(r - 1) : Place(r, j, x) + Place(r, j, y) = r <=> j = r - y
        BY <1>1 DEF Place
    <2> QED BY <2>1, <2>2
<1>2. CASE y = 0
    <2>1. r - x \in 0..(r - 1)
        BY <1>2
    <2>2. \A j \in 0..(r - 1) : Place(r, j, x) + Place(r, j, y) = r <=> j = r - x
        BY <1>2 DEF Place
    <2> QED BY <2>1, <2>2
<1>3. CASE x # 0 /\ y # 0
    <2>1. PICK t \in Nat : x + y = 2 * t \/ x + y = 2 * t + 1
        <3>1. (x + y) \div 2 \in Nat
              /\ \/ x + y = 2 * ((x + y) \div 2)
                 \/ x + y = 2 * ((x + y) \div 2) + 1
            OBVIOUS
        <3> QED BY <3>1
    <2>2. CASE x + y = 2 * t
        <3>1. r - t \in 0..(r - 1)
            BY <1>3, <2>2
        <3>2. \A j \in 0..(r - 1) : Place(r, j, x) + Place(r, j, y) = r <=> j = r - t
            BY <1>3, <2>2 DEF Place
        <3> QED BY <3>1, <3>2
    <2>3. CASE x + y = 2 * t + 1 /\ t <= h
        <3>1. h - t \in 0..(r - 1)
            BY <2>3
        <3>2. \A j \in 0..(r - 1) : Place(r, j, x) + Place(r, j, y) = r <=> j = h - t
            BY <1>3, <2>3 DEF Place
        <3> QED BY <3>1, <3>2
    <2>4. CASE x + y = 2 * t + 1 /\ t > h
        <3>1. r + h - t \in 0..(r - 1)
            BY <2>4
        <3>2. \A j \in 0..(r - 1) : Place(r, j, x) + Place(r, j, y) = r <=> j = r + h - t
            BY <1>3, <2>4 DEF Place
        <3> QED BY <3>1, <3>2
    <2> QED BY <2>1, <2>2, <2>3, <2>4
<1> QED BY <1>1, <1>2, <1>3

\* One turn of the circle.
LEMMA CircleTurns ==
    ASSUME OptionsOK, NEW k \in 0..(Rounds - 1), seats = Circle(k)
    PROVE  Rotated = Circle(k + 1)
<1>1. Slots = 0..Rounds /\ Rounds \in Nat /\ Rounds >= 1
    BY CircleSize
<1>2. Opposite(0) = Rounds
    <2>1. 0 \in Slots
        BY <1>1
    <2> QED BY <1>1, <2>1, CircleSize
<1>3. \A i \in Slots : Back(Rounds, k + 1, i) =
          Back(Rounds, k, IF i = 0 THEN 0 ELSE IF i = 1 THEN Rounds ELSE i - 1)
    BY <1>1 DEF Back
<1>4. \A i \in Slots : (IF i = 0 THEN 0 ELSE IF i = 1 THEN Rounds ELSE i - 1) \in Slots
    BY <1>1
<1>5. \A i \in Slots : Rotated[i] = Circle(k + 1)[i]
    BY <1>1, <1>2, <1>3, <1>4 DEF Rotated, Circle
<1> QED BY <1>5 DEF Rotated, Circle

\* Who sits where after k rounds.
LEMMA CircleSeats ==
    ASSUME OptionsOK, NEW k \in 0..(Rounds - 1), seats = Circle(k), NEW a \in Teams
    PROVE  /\ a - 1 \in Slots /\ Place(Rounds, k, a - 1) \in Slots
           /\ \A i \in Slots : seats[i] = a <=> i = Place(Rounds, k, a - 1)
<1>1. /\ Slots = 0..Rounds /\ Rounds \in Nat /\ Rounds + 1 >= options.teams
      /\ options.teams \in Nat
    BY CircleSize DEF OptionsOK
<1>2. a - 1 \in 0..Rounds /\ a \in Nat \ {0} /\ a <= options.teams
    BY <1>1 DEF Teams
<1>3. \A j \in Slots : InitialSeats(options.teams)[j] = IF j < options.teams THEN j + 1 ELSE 0
    BY DEF InitialSeats, Slots, Bye
<1>4. \A j \in Slots : InitialSeats(options.teams)[j] = a <=> j = a - 1
    BY <1>1, <1>2, <1>3
<1>5. \A i \in 0..Rounds : Back(Rounds, k, i) \in 0..Rounds
    BY <1>1 DEF Back
<1>6. \A i \in Slots : seats[i] = a <=> Back(Rounds, k, i) = a - 1
    BY <1>1, <1>4, <1>5 DEF Circle
<1>7. /\ Place(Rounds, k, a - 1) \in 0..Rounds
      /\ \A i \in 0..Rounds : Back(Rounds, k, i) = a - 1 <=> i = Place(Rounds, k, a - 1)
    BY <1>1, <1>2, BackPlace
<1> QED BY <1>1, <1>2, <1>6, <1>7

Meet(pairs, a, b) == <<a, b>> \in pairs \/ <<b, a>> \in pairs

\* Two teams meet in a round if and only if they sit opposite each other.
LEMMA RoundMeets ==
    ASSUME OptionsOK, SeatsInv, NEW k \in 0..(Rounds - 1), seats = Circle(k),
           NEW a \in Teams, NEW b \in Teams
    PROVE  Meet(RoundGames, a, b) <=>
              Place(Rounds, k, a - 1) + Place(Rounds, k, b - 1) = Rounds
<1> DEFINE p == Place(Rounds, k, a - 1)
           q == Place(Rounds, k, b - 1)
<1>1. p \in Slots /\ \A i \in Slots : seats[i] = a <=> i = p
    BY CircleSeats
<1>2. q \in Slots /\ \A i \in Slots : seats[i] = b <=> i = q
    BY CircleSeats
<1>3. Slots = 0..Rounds /\ Rounds \in Nat
      /\ \A i \in Slots : /\ Opposite(i) \in Slots /\ Opposite(i) = Rounds - i
                          /\ i # Opposite(i)
    BY CircleSize
<1>4. a # Bye /\ b # Bye
    BY DEF Teams, OptionsOK, Bye
<1> HIDE DEF p, q
<1>5. ASSUME p + q = Rounds PROVE Meet(RoundGames, a, b)
    <2>1. Opposite(p) = q /\ Opposite(q) = p /\ (p < q \/ q < p)
        BY <1>1, <1>2, <1>3, <1>5
    <2>2. seats[p] = a /\ seats[q] = b
        BY <1>1, <1>2
    <2> QED BY <1>1, <1>2, <1>4, <2>1, <2>2, GamesBySeat DEF Meet
<1>6. ASSUME Meet(RoundGames, a, b) PROVE p + q = Rounds
    <2>1. \A r \in RoundGames : \E i \in Slots : r = <<seats[i], seats[Opposite(i)]>>
        BY GamesBySeat
    <2>2. PICK i \in Slots : \/ seats[i] = a /\ seats[Opposite(i)] = b
                             \/ seats[i] = b /\ seats[Opposite(i)] = a
        BY <1>6, <2>1 DEF Meet
    <2> QED BY <1>1, <1>2, <1>3, <2>2
<1> QED BY <1>5, <1>6 DEF p, q

-----------------------------------------------------------------------------
(* Remainders: how often a fixture comes round in a schedule that repeats.     *)

LEMMA RemainderOf ==
    ASSUME NEW m \in Nat \ {0}, NEW q \in Nat, NEW r \in 0..(m - 1)
    PROVE  (m * q + r) % m = r
<1> DEFINE x == m * q + r
           p == x \div m
           s == x % m
<1>1. x \in Nat /\ x = m * q + r
    OBVIOUS
<1> HIDE DEF x
<1>2. p \in Nat /\ s \in 0..(m - 1) /\ x = m * p + s
    BY <1>1
<1> HIDE DEF p, s
<1>3. \A u \in Nat : u >= 1 => m * u >= m
    OBVIOUS
<1>4. ~(p > q)
    <2> SUFFICES ASSUME p > q PROVE FALSE
        OBVIOUS
    <2>1. p - q \in Nat /\ p - q >= 1
        BY <1>2
    <2>2. m * (p - q) >= m
        BY <1>3, <2>1
    <2>3. m * (p - q) = m * p - m * q
        BY <1>2
    <2>4. m * p \in Int /\ m * q \in Int
        BY <1>2
    <2> QED BY <1>1, <1>2, <2>2, <2>3, <2>4
<1>5. ~(q > p)
    <2> SUFFICES ASSUME q > p PROVE FALSE
        OBVIOUS
    <2>1. q - p \in Nat /\ q - p >= 1
        BY <1>2
    <2>2. m * (q - p) >= m
        BY <1>3, <2>1
    <2>3. m * (q - p) = m * q - m * p
        BY <1>2
    <2>4. m * p \in Int /\ m * q \in Int
        BY <1>2
    <2> QED BY <1>1, <1>2, <2>2, <2>3, <2>4
<1>6. p = q
    BY <1>2, <1>4, <1>5
<1>7. m * q \in Int
    OBVIOUS
<1>8. s = r
    BY <1>1, <1>2, <1>6, <1>7
<1> QED BY <1>8 DEF s, x

LEMMA RemainderMoves ==
    ASSUME NEW m \in Nat \ {0}, NEW x \in Nat, NEW s \in Int, (x % m) + s \in 0..(m - 1)
    PROVE  /\ x + s \in Nat /\ (x + s) % m = (x % m) + s
           /\ x >= m => x + s - m \in Nat /\ (x + s - m) % m = (x % m) + s
<1> DEFINE q == x \div m
           r == x % m
<1>1. q \in Nat /\ r \in 0..(m - 1) /\ x = m * q + r
    OBVIOUS
<1>2. r + s \in 0..(m - 1)
    OBVIOUS
<1> HIDE DEF q, r
<1>3. m * q \in Nat
    BY <1>1
<1>4. x + s = m * q + (r + s) /\ x + s \in Nat
    BY <1>1, <1>2, <1>3
<1>5. (m * q + (r + s)) % m = r + s
    BY <1>1, <1>2, RemainderOf
<1>6. ASSUME x >= m PROVE x + s - m \in Nat /\ (x + s - m) % m = r + s
    <2>1. q # 0
        <3> SUFFICES ASSUME q = 0 PROVE FALSE
            OBVIOUS
        <3>1. m * q = 0
            OBVIOUS
        <3> QED BY <1>1, <1>6, <3>1
    <2>2. q - 1 \in Nat /\ m * (q - 1) = m * q - m /\ m * (q - 1) \in Nat
        BY <1>1, <2>1
    <2>3. x + s - m = m * (q - 1) + (r + s) /\ x + s - m \in Nat
        BY <1>1, <1>2, <1>3, <2>2
    <2>4. (m * (q - 1) + (r + s)) % m = r + s
        BY <1>2, <2>2, RemainderOf
    <2> QED BY <2>3, <2>4
<1> QED BY <1>4, <1>5, <1>6 DEF r

\* Of the weeks 1, 2, ... that repeat with period m, those at place d of the period.
TurnsUp(len, m, d) == {w \in 1..len : ((w - 1) % m) + 1 = d}

\* No place of the period comes up twice more than another.
LEMMA TurnsEvenly ==
    ASSUME NEW len \in Nat, NEW m \in Nat \ {0}, NEW d \in 1..m, NEW e \in 1..m
    PROVE  Cardinality(TurnsUp(len, m, d)) <= Cardinality(TurnsUp(len, m, e)) + 1
<1> DEFINE A == TurnsUp(len, m, d)
           B == TurnsUp(len, m, e)
<1>1. IsFiniteSet(1..len) /\ A \subseteq 1..len /\ B \subseteq 1..len
    BY FS_Interval DEF TurnsUp
<1>2. IsFiniteSet(A) /\ IsFiniteSet(B)
    BY <1>1, FS_Subset
<1>3. Cardinality(A) \in Nat /\ Cardinality(B) \in Nat
    BY <1>2, FS_CardinalityType
<1>4. \A w \in 1..len : w - 1 \in Nat /\ (w - 1) % m \in 0..(m - 1)
    OBVIOUS
<1>5. CASE e <= d
    <2> DEFINE f == [w \in A |-> w + (e - d)]
    <2>1. \A w \in A : w + (e - d) \in B
        <3> TAKE w \in A
        <3>1. w \in 1..len /\ (w - 1) % m = d - 1 /\ w - 1 \in Nat
            BY <1>4 DEF TurnsUp
        <3>2. ((w - 1) % m) + (e - d) \in 0..(m - 1)
            BY <3>1
        <3>3. (w - 1) + (e - d) \in Nat /\ ((w - 1) + (e - d)) % m = e - 1
            <4>1. PICK x \in Nat, s \in Int : x = w - 1 /\ s = e - d
                BY <3>1
            <4>2. x + s \in Nat /\ (x + s) % m = (x % m) + s
                BY <3>2, <4>1, RemainderMoves
            <4>3. (x % m) + s = e - 1
                BY <3>1, <4>1
            <4> QED BY <4>1, <4>2, <4>3
        <3>4. (w - 1) + (e - d) = (w + (e - d)) - 1 /\ w + (e - d) \in 1..len
            BY <1>5, <3>1, <3>3
        <3> QED BY <3>3, <3>4 DEF TurnsUp
    <2> HIDE DEF B
    <2>2. f \in [A -> B]
        BY <2>1
    <2>3. \A v, w \in A : f[v] = f[w] => v = w
        BY <1>1
    <2>4. f \in Injection(A, B)
        BY <2>2, <2>3 DEF Injection, IsInjective
    <2>5. Cardinality(A) <= Cardinality(B)
        <3> HIDE DEF A, f
        <3> QED BY <1>2, <2>4, FS_Injection DEF ExistsInjection
    <2> HIDE DEF A
    <2>6. Cardinality(A) <= Cardinality(B) + 1
        BY <1>3, <2>5
    <2> QED BY <2>6 DEF A, B
<1>6. CASE e > d
    <2> DEFINE C == A \ {d}
               f == [w \in C |-> (w + (e - d)) - m]
    <2>1. \A w \in C : (w + (e - d)) - m \in B
        <3> TAKE w \in C
        <3>1. w \in 1..len /\ (w - 1) % m = d - 1 /\ w - 1 \in Nat /\ w # d
            BY <1>4 DEF TurnsUp
        <3>2. w - 1 >= m
            <4> SUFFICES ASSUME w - 1 < m PROVE FALSE
                BY <3>1
            <4>1. w - 1 \in 0..(m - 1)
                BY <3>1
            <4>2. (m * 0 + (w - 1)) % m = w - 1
                BY <4>1, RemainderOf
            <4> QED BY <3>1, <4>2
        <3>3. ((w - 1) % m) + (e - d) \in 0..(m - 1)
            BY <1>6, <3>1
        <3>4. (w - 1) + (e - d) - m \in Nat /\ ((w - 1) + (e - d) - m) % m = e - 1
            <4>1. PICK x \in Nat, s \in Int : x = w - 1 /\ s = e - d
                BY <3>1
            <4>2. x + s - m \in Nat /\ (x + s - m) % m = (x % m) + s
                BY <3>2, <3>3, <4>1, RemainderMoves
            <4>3. (x % m) + s = e - 1
                BY <3>1, <4>1
            <4> QED BY <4>1, <4>2, <4>3
        <3>5. (w - 1) + (e - d) - m = ((w + (e - d)) - m) - 1
              /\ (w + (e - d)) - m \in 1..len
            BY <1>6, <3>1, <3>4
        <3> QED BY <3>4, <3>5 DEF TurnsUp
    <2> HIDE DEF B
    <2>2. f \in [C -> B]
        BY <2>1
    <2>3. \A v, w \in C : f[v] = f[w] => v = w
        BY <1>1
    <2>4. f \in Injection(C, B)
        BY <2>2, <2>3 DEF Injection, IsInjective
    <2>5. Cardinality(C) <= Cardinality(B)
        <3> HIDE DEF C, f
        <3> QED BY <1>2, <2>4, FS_Injection DEF ExistsInjection
    <2>6. Cardinality(A) <= Cardinality(C) + 1 /\ Cardinality(C) \in Nat
        <3> HIDE DEF A
        <3>1. CASE d \in A
            <4>1. Cardinality(C) = Cardinality(A) - 1
                BY <1>2, <3>1, FS_RemoveElement
            <4>2. IsFiniteSet(C)
                BY <1>2, <3>1, FS_RemoveElement
            <4> HIDE DEF C
            <4>3. Cardinality(C) \in Nat
                BY <4>2, FS_CardinalityType
            <4> QED BY <1>3, <4>1, <4>3
        <3>2. CASE d \notin A
            <4>1. C = A
                BY <3>2
            <4> QED BY <1>3, <4>1
        <3> QED BY <3>1, <3>2
    <2> HIDE DEF A, C
    <2>7. Cardinality(A) <= Cardinality(B) + 1
        BY <1>3, <2>5, <2>6
    <2> QED BY <2>7 DEF A, B
<1>7. e <= d \/ e > d
    OBVIOUS
<1> QED BY <1>5, <1>6, <1>7

-----------------------------------------------------------------------------
(* The fixtures.  While rounds are played: the circle has turned once a round,  *)
(* and who met is known.  Then: the week of a pair in a single round robin, of  *)
(* a fixture in a double one, and its place in the period of a custom schedule. *)

RoundsTurned ==
    phase = "rounds" /\ options.type # "blanket" =>
    /\ seats = Circle(Len(games))
    /\ \A w \in Weeks, a, b \in Teams :
          Meet(games[w], a, b) <=>
             Place(Rounds, w - 1, a - 1) + Place(Rounds, w - 1, b - 1) = Rounds

Period == 2 * Rounds
Fixtures ==
    phase # "rounds" =>
    \A a, b \in Teams : a # b =>
        /\ options.type = "single_rr" =>
              \E k \in Weeks : \A w \in Weeks : Meet(games[w], a, b) <=> w = k
        /\ options.type \in {"double_rr", "split"} =>
              \E d \in Weeks : \A w \in Weeks : <<a, b>> \in games[w] <=> w = d
        /\ options.type = "custom" =>
              \E d \in 1..Period :
                 \A w \in Weeks : <<a, b>> \in games[w] <=> ((w - 1) % Period) + 1 = d

LEMMA RoundsTurnedInit == Init => RoundsTurned
<1> SUFFICES ASSUME Init PROVE RoundsTurned
    OBVIOUS
<1>1. OptionsOK /\ games = <<>> /\ Len(games) = 0 /\ Weeks = {}
    BY OptionsInit DEF Init, Weeks
<1>2. Slots = 0..Rounds /\ Rounds \in Nat /\ Rounds >= 1
    BY <1>1, CircleSize
<1>3. \A i \in Slots : Back(Rounds, 0, i) = i
    BY <1>2 DEF Back
<1>4. Circle(0) = InitialSeats(options.teams)
    BY <1>3 DEF Circle, InitialSeats, Slots
<1> QED BY <1>1, <1>4 DEF Init, RoundsTurned

LEMMA PlayRoundTurns == Basic /\ RoundsTurned /\ PlayRound => RoundsTurned'
<1> SUFFICES ASSUME Basic, RoundsTurned, PlayRound PROVE RoundsTurned'
    OBVIOUS
<1> DEFINE n == Len(games)
<1>1. /\ phase = "rounds" /\ options.type # "blanket" /\ n < Rounds
      /\ games' = Append(games, RoundGames) /\ seats' = Rotated /\ UNCHANGED options
    BY DEF PlayRound
<1>2. /\ games \in Seq(SUBSET (Teams \X Teams)) /\ n \in Nat /\ OptionsOK /\ SeatsInv
      /\ Rounds \in Nat
    BY CircleSize DEF Basic, TypeOK
<1>3. n \in 0..(Rounds - 1) /\ seats = Circle(n)
    BY <1>1, <1>2 DEF RoundsTurned
<1>4. RoundGames \in SUBSET (Teams \X Teams)
    BY <1>2, RoundIsGood DEF GoodRound
<1>5. /\ Len(games') = n + 1 /\ \A w \in 1..n : games'[w] = games[w]
      /\ games'[n + 1] = RoundGames
    BY <1>1, <1>2, <1>4, AppendProperties
<1>6. /\ Weeks' = 1..(n + 1) /\ Teams' = Teams /\ Rounds' = Rounds /\ Slots' = Slots
      /\ Weeks = 1..n
    BY <1>1, <1>5 DEF Weeks, Teams, Rounds, Slots
<1>7. seats' = Circle(n + 1)
    BY <1>1, <1>2, <1>3, CircleTurns
<1>8. Circle(Len(games))' = Circle(n + 1)
    BY <1>1, <1>5, <1>6 DEF Circle
<1>9. ASSUME NEW w \in 1..(n + 1), NEW a \in Teams, NEW b \in Teams
      PROVE  Meet(games'[w], a, b) <=>
                Place(Rounds, w - 1, a - 1) + Place(Rounds, w - 1, b - 1) = Rounds
    <2>1. CASE w \in 1..n
        BY <1>1, <1>5, <1>6, <2>1 DEF RoundsTurned
    <2>2. CASE w = n + 1
        <3>1. w - 1 = n /\ games'[w] = RoundGames
            BY <1>2, <1>5, <2>2
        <3> QED BY <1>2, <1>3, <3>1, RoundMeets
    <2> QED BY <1>2, <2>1, <2>2
<1> QED BY <1>6, <1>7, <1>8, <1>9 DEF RoundsTurned, Meet

\* After all rounds each pair has met in one of them.
LEMMA AllMet ==
    ASSUME Basic, RoundsTurned, phase = "rounds", options.type # "blanket",
           Len(games) = Rounds, NEW a \in Teams, NEW b \in Teams, a # b
    PROVE  \E k \in 1..Rounds : \A w \in 1..Rounds : Meet(games[w], a, b) <=> w = k
<1>1. OptionsOK /\ Weeks = 1..Rounds /\ Rounds \in Nat /\ Rounds >= 1 /\ Slots = 0..Rounds
      /\ Rounds + 1 >= options.teams /\ options.teams \in Nat
    BY CircleSize DEF Basic, Weeks, OptionsOK
<1>2. PICK h \in Nat : Rounds = 2 * h + 1
    <2>1. PICK k \in Nat : SlotCount(options.teams) = 2 * k
        BY <1>1, SlotCountFacts DEF OptionsOK
    <2>2. k - 1 \in Nat /\ Rounds = 2 * (k - 1) + 1
        BY <1>1, <2>1 DEF Rounds
    <2> QED BY <2>2
<1>3. a - 1 \in 0..Rounds /\ b - 1 \in 0..Rounds /\ a - 1 # b - 1
    BY <1>1 DEF Teams
<1>4. PICK k \in 0..(Rounds - 1) : \A j \in 0..(Rounds - 1) :
        Place(Rounds, j, a - 1) + Place(Rounds, j, b - 1) = Rounds <=> j = k
    BY <1>1, <1>2, <1>3, OppositeOnce
<1>5. \A w \in 1..Rounds : Meet(games[w], a, b) <=>
        Place(Rounds, w - 1, a - 1) + Place(Rounds, w - 1, b - 1) = Rounds
    BY <1>1 DEF RoundsTurned
<1>6. k + 1 \in 1..Rounds /\ \A w \in 1..Rounds : w - 1 \in 0..(Rounds - 1)
        /\ (w - 1 = k <=> w = k + 1)
    BY <1>1
<1> QED BY <1>4, <1>5, <1>6

\* A pair has one home side in a round.
LEMMA OneHome ==
    ASSUME NEW pairs, GoodRound(pairs), NEW a, NEW b, a # b
    PROVE  ~(<<a, b>> \in pairs /\ <<b, a>> \in pairs)
<1> SUFFICES ASSUME <<a, b>> \in pairs, <<b, a>> \in pairs PROVE FALSE
    OBVIOUS
<1> DEFINE p == <<a, b>>
           q == <<b, a>>
<1>1. p # q /\ p[1] = a /\ p[2] = b /\ q[1] = b /\ q[2] = a
    OBVIOUS
<1>2. p \in pairs /\ q \in pairs
    OBVIOUS
<1> HIDE DEF p, q
<1>3. {p[1], p[2]} \cap {q[1], q[2]} = {}
    BY <1>1, <1>2 DEF GoodRound
<1> QED BY <1>1, <1>3

LEMMA ReversedHas ==
    ASSUME NEW pairs, pairs \subseteq Teams \X Teams, NEW a, NEW b
    PROVE  <<a, b>> \in Reversed(pairs) <=> <<b, a>> \in pairs
<1>1. ASSUME <<a, b>> \in Reversed(pairs) PROVE <<b, a>> \in pairs
    <2>1. PICK p \in pairs : <<a, b>> = <<p[2], p[1]>>
        BY <1>1 DEF Reversed
    <2>2. p = <<p[1], p[2]>>
        OBVIOUS
    <2> QED BY <2>1, <2>2
<1>2. ASSUME <<b, a>> \in pairs PROVE <<a, b>> \in Reversed(pairs)
    <2> DEFINE p == <<b, a>>
    <2>1. p \in pairs /\ <<a, b>> = <<p[2], p[1]>>
        BY <1>2
    <2> QED BY <2>1 DEF Reversed
<1> QED BY <1>1, <1>2

\* The weeks of the double round robin: the rounds, and again with venues swapped.
LEMMA DoubledWeeks ==
    ASSUME Basic, phase = "rounds", options.type # "blanket"
    PROVE  /\ Len(DoubledGames) = 2 * Len(games)
           /\ \A w \in 1..Len(games) : DoubledGames[w] = games[w]
           /\ \A w \in (Len(games) + 1)..(2 * Len(games)) :
                 DoubledGames[w] = Reversed(games[w - Len(games)])
<1> DEFINE n == Len(games)
           back == [w \in 1..n |-> Reversed(games[w])]
<1>1. games \in Seq(SUBSET (Teams \X Teams)) /\ n \in Nat
    BY DEF Basic, TypeOK
<1>2. \A w \in 1..n : Reversed(games[w]) \in SUBSET (Teams \X Teams)
    <2> TAKE w \in 1..n
    <2>1. GoodRound(games[w])
        BY DEF Basic, GamesInv, GoodWeek, Weeks
    <2> QED BY <2>1, ReversedIsGood DEF GoodRound
<1>3. back \in Seq(SUBSET (Teams \X Teams)) /\ Len(back) = n
    BY <1>1, <1>2
<1>4. DoubledGames = games \o back
    BY DEF DoubledGames, Weeks
<1> HIDE DEF back
<1>5. /\ Len(games \o back) = Len(games) + Len(back)
      /\ \A w \in 1..(Len(games) + Len(back)) :
            (games \o back)[w] = IF w <= Len(games) THEN games[w] ELSE back[w - Len(games)]
    BY <1>1, <1>3, ConcatProperties
<1>6. /\ Len(DoubledGames) = 2 * n
      /\ \A w \in 1..(2 * n) : DoubledGames[w] = IF w <= n THEN games[w] ELSE back[w - n]
    BY <1>1, <1>3, <1>4, <1>5
<1>7. \A w \in 1..n : w \in 1..(2 * n) /\ w <= n
    BY <1>1
<1>8. \A w \in (n + 1)..(2 * n) : w \in 1..(2 * n) /\ ~(w <= n) /\ w - n \in 1..n
    BY <1>1
<1>9. \A w \in 1..n : back[w] = Reversed(games[w])
    BY DEF back
<1> QED BY <1>6, <1>7, <1>8, <1>9

\* In it each fixture has one week.
LEMMA FixtureOnce ==
    ASSUME Basic, RoundsTurned, phase = "rounds", options.type # "blanket",
           Len(games) = Rounds, NEW a \in Teams, NEW b \in Teams, a # b
    PROVE  \E d \in 1..Period : \A w \in 1..Period : <<a, b>> \in DoubledGames[w] <=> w = d
<1> DEFINE n == Rounds
<1>1. n \in Nat /\ Period = 2 * n
    BY CircleSize DEF Basic, Period
<1>2. PICK k \in 1..n : \A w \in 1..n : Meet(games[w], a, b) <=> w = k
    BY AllMet
<1>3. /\ \A w \in 1..n : DoubledGames[w] = games[w]
      /\ \A w \in (n + 1)..(2 * n) : DoubledGames[w] = Reversed(games[w - n])
    BY DoubledWeeks
<1>4. \A w \in 1..n : GoodRound(games[w])
    BY DEF Basic, GamesInv, GoodWeek, Weeks
<1>5. \A w \in 1..n : ~(<<a, b>> \in games[w] /\ <<b, a>> \in games[w])
    BY <1>4, OneHome
<1>6. \A w \in 1..n : <<a, b>> \in Reversed(games[w]) <=> <<b, a>> \in games[w]
    BY <1>4, ReversedHas DEF GoodRound
<1>7. \A w \in (n + 1)..(2 * n) : w - n \in 1..n
    BY <1>1
<1>8. \A w \in (n + 1)..(2 * n) : <<a, b>> \in DoubledGames[w] <=> <<b, a>> \in games[w - n]
    BY <1>3, <1>6, <1>7
<1>9. \A w \in 1..(2 * n) : w \in 1..n \/ w \in (n + 1)..(2 * n)
    BY <1>1
<1>10. \A w \in (n + 1)..(2 * n) : w - n = k <=> w = k + n
    BY <1>1
<1>11. \A w \in (n + 1)..(2 * n) : w # k /\ w \notin 1..n
    BY <1>1
<1>12. \A w \in 1..n : w # k + n
    BY <1>1
<1>13. k \in 1..(2 * n) /\ k + n \in 1..(2 * n)
    BY <1>1
<1> HIDE DEF n
<1>14. CASE <<a, b>> \in games[k]
    <2>1. \A w \in 1..(2 * n) : <<a, b>> \in DoubledGames[w] <=> w = k
        <3> TAKE w \in 1..(2 * n)
        <3>1. CASE w \in 1..n
            BY <1>2, <1>3, <1>14, <3>1 DEF Meet
        <3>2. CASE w \in (n + 1)..(2 * n)
            BY <1>2, <1>5, <1>7, <1>8, <1>11, <1>14, <3>2 DEF Meet
        <3> QED BY <1>9, <3>1, <3>2
    <2> QED BY <1>1, <1>13, <2>1
<1>15. CASE <<b, a>> \in games[k]
    <2>1. \A w \in 1..(2 * n) : <<a, b>> \in DoubledGames[w] <=> w = k + n
        <3> TAKE w \in 1..(2 * n)
        <3>1. CASE w \in 1..n
            BY <1>2, <1>3, <1>5, <1>12, <1>15, <3>1 DEF Meet
        <3>2. CASE w \in (n + 1)..(2 * n)
            BY <1>2, <1>7, <1>8, <1>10, <1>15, <3>2 DEF Meet
        <3> QED BY <1>9, <3>1, <3>2
    <2> QED BY <1>1, <1>13, <2>1
<1> QED BY <1>2, <1>14, <1>15 DEF Meet

\* What the schedule type makes of the rounds keeps the fixtures in their weeks.
LEMMA BuildEntriesFixtures == Basic /\ RoundsTurned /\ BuildEntries => Fixtures'
<1> SUFFICES ASSUME Basic, RoundsTurned, BuildEntries PROVE Fixtures'
    OBVIOUS
<1>1. /\ phase = "rounds"
      /\ options.type = "blanket" \/ Len(games) = Rounds
      /\ games' = Entries /\ UNCHANGED options
    BY DEF BuildEntries
<1>2. Teams' = Teams /\ Rounds' = Rounds /\ Period' = Period /\ Weeks' = 1..Len(Entries)
    BY <1>1 DEF Teams, Rounds, Period, Weeks
<1>3. Rounds \in Nat /\ Rounds >= 1 /\ Period = 2 * Rounds /\ options.length \in Nat
    BY CircleSize DEF Basic, Period, OptionsOK
<1> SUFFICES ASSUME NEW a \in Teams, NEW b \in Teams, a # b
             PROVE  /\ options.type = "single_rr" =>
                         \E k \in 1..Len(Entries) :
                            \A w \in 1..Len(Entries) : Meet(Entries[w], a, b) <=> w = k
                    /\ options.type \in {"double_rr", "split"} =>
                         \E d \in 1..Len(Entries) :
                            \A w \in 1..Len(Entries) : <<a, b>> \in Entries[w] <=> w = d
                    /\ options.type = "custom" =>
                         \E d \in 1..Period : \A w \in 1..Len(Entries) :
                            <<a, b>> \in Entries[w] <=> ((w - 1) % Period) + 1 = d
    BY <1>1, <1>2 DEF Fixtures, Meet
<1>4. CASE options.type = "single_rr"
    <2>1. Entries = games /\ Len(games) = Rounds
        BY <1>1, <1>4 DEF Entries
    <2>2. \E k \in 1..Rounds : \A w \in 1..Rounds : Meet(games[w], a, b) <=> w = k
        BY <1>1, <1>4, <2>1, AllMet
    <2> QED BY <1>4, <2>1, <2>2
<1>5. CASE options.type \in {"double_rr", "split"}
    <2>1. Entries = DoubledGames /\ Len(games) = Rounds
        BY <1>1, <1>5 DEF Entries
    <2>2. Len(DoubledGames) = Period
        BY <1>1, <1>3, <1>5, <2>1, DoubledWeeks
    <2>3. \E d \in 1..Period : \A w \in 1..Period : <<a, b>> \in DoubledGames[w] <=> w = d
        BY <1>1, <1>5, <2>1, FixtureOnce
    <2> QED BY <1>5, <2>1, <2>2, <2>3
<1>6. CASE options.type = "custom"
    <2> DEFINE at(w) == ((w - 1) % Period) + 1
    <2>1. Entries = [w \in 1..options.length |-> DoubledGames[at(w)]] /\ Len(games) = Rounds
        BY <1>1, <1>3, <1>6 DEF Entries, CycledGames
    <2>2. \A w \in 1..options.length : at(w) \in 1..Period
        BY <1>3
    <2>3. PICK d \in 1..Period : \A w \in 1..Period : <<a, b>> \in DoubledGames[w] <=> w = d
        BY <1>1, <1>6, <2>1, FixtureOnce
    <2> HIDE DEF at
    <2>4. Len(Entries) = options.length
        BY <1>3, <2>1
    <2>5. \A w \in 1..Len(Entries) : <<a, b>> \in Entries[w] <=> at(w) = d
        BY <2>1, <2>2, <2>3, <2>4
    <2> QED BY <1>6, <2>5 DEF at
<1> QED BY <1>4, <1>5, <1>6

LEMMA FixturesNext ==
    Basic /\ RoundsTurned /\ Fixtures /\ [Next]_vars => RoundsTurned' /\ Fixtures'
<1> SUFFICES ASSUME Basic, RoundsTurned, Fixtures, [Next]_vars
             PROVE  RoundsTurned' /\ Fixtures'
    OBVIOUS
<1>1. CASE PlayRound
    <2>1. phase' = "rounds"
        BY <1>1 DEF PlayRound
    <2> QED BY <1>1, <2>1, PlayRoundTurns DEF Fixtures
<1>2. CASE BuildEntries
    <2>1. phase' # "rounds"
        BY <1>2 DEF BuildEntries
    <2> QED BY <1>2, <2>1, BuildEntriesFixtures DEF RoundsTurned
<1>3. CASE /\ UNCHANGED <<options, seats, games>>
           /\ (phase # "rounds" /\ phase' # "rounds") \/ UNCHANGED phase
    <2>1. /\ Weeks' = Weeks /\ Teams' = Teams /\ Rounds' = Rounds /\ Period' = Period
          /\ Slots' = Slots
        BY <1>3 DEF Weeks, Teams, Rounds, Period, Slots
    <2>3. Circle(Len(games))' = Circle(Len(games))
        BY <1>3, <2>1 DEF Circle
    <2>4. RoundsTurned'
        BY <1>3, <2>1, <2>3 DEF RoundsTurned, Meet
    <2>5. Fixtures'
        BY <1>3, <2>1 DEF Fixtures, Meet
    <2> QED BY <2>4, <2>5
<1>4. /\ ~PlayRound /\ ~BuildEntries =>
         /\ UNCHANGED <<options, seats, games>>
         /\ (phase # "rounds" /\ phase' # "rounds") \/ UNCHANGED phase
    BY DEF Next, FindNaturalByes, HonourRequest, SkipRequest, BeginPairing, PairWeeks,
           IndexOutOfRange, EndPairing, AssignDate, Finish, vars
<1> QED BY <1>1, <1>2, <1>3, <1>4

\* Counted.
LEMMA PairsMeet == Basic /\ Fixtures => EveryPairMeets
<1> SUFFICES ASSUME Basic, Fixtures, phase = "done", NEW a \in Teams, NEW b \in Teams, a # b
             PROVE  /\ options.type = "single_rr" => Meetings(a, b) + Meetings(b, a) = 1
                    /\ options.type \in {"double_rr", "split"} => Meetings(a, b) = 1
                    /\ options.type = "custom" => \A c, d \in Teams :
                          c # d => Meetings(a, b) <= Meetings(c, d) + 1
                    /\ options.type = "blanket" => Meetings(a, b) = 0
    <2>1. Basic => options.type \in Types
        BY DEF Basic, OptionsOK
    <2> QED BY <2>1 DEF EveryPairMeets, Types
<1>1. \A w \in Weeks : GoodWeek(games[w])
    BY DEF Basic, GamesInv
<1>2. ASSUME options.type = "single_rr" PROVE Meetings(a, b) + Meetings(b, a) = 1
    <2>1. PICK k \in Weeks : \A w \in Weeks : Meet(games[w], a, b) <=> w = k
        BY <1>2 DEF Fixtures
    <2>2. \A w \in Weeks : ~(<<a, b>> \in games[w] /\ <<b, a>> \in games[w])
        BY <1>1, <1>2, OneHome DEF GoodWeek
    <2> DEFINE A == {w \in Weeks : <<a, b>> \in games[w]}
               B == {w \in Weeks : <<b, a>> \in games[w]}
    <2>3. (A = {k} /\ B = {}) \/ (A = {} /\ B = {k})
        BY <2>1, <2>2 DEF Meet
    <2> HIDE DEF A, B
    <2>4. \/ Cardinality(A) = 1 /\ Cardinality(B) = 0
          \/ Cardinality(A) = 0 /\ Cardinality(B) = 1
        BY <2>3, FS_EmptySet, FS_Singleton
    <2>5. Cardinality(A) + Cardinality(B) = 1
        BY <2>4
    <2> QED BY <2>5 DEF A, B, Meetings
<1>3. ASSUME options.type \in {"double_rr", "split"} PROVE Meetings(a, b) = 1
    <2>1. PICK d \in Weeks : \A w \in Weeks : <<a, b>> \in games[w] <=> w = d
        BY <1>3 DEF Fixtures
    <2>2. {w \in Weeks : <<a, b>> \in games[w]} = {d}
        BY <2>1
    <2> QED BY <2>2, FS_Singleton DEF Meetings
<1>4. ASSUME options.type = "custom", NEW c \in Teams, NEW e \in Teams, c # e
      PROVE  Meetings(a, b) <= Meetings(c, e) + 1
    <2>1. PICK x \in 1..Period :
            \A w \in Weeks : <<a, b>> \in games[w] <=> ((w - 1) % Period) + 1 = x
        BY <1>4 DEF Fixtures
    <2>2. PICK y \in 1..Period :
            \A w \in Weeks : <<c, e>> \in games[w] <=> ((w - 1) % Period) + 1 = y
        BY <1>4 DEF Fixtures
    <2>3. Len(games) \in Nat /\ Period \in Nat \ {0}
        BY CircleSize DEF Basic, TypeOK, Period
    <2>4. /\ {w \in Weeks : <<a, b>> \in games[w]} = TurnsUp(Len(games), Period, x)
          /\ {w \in Weeks : <<c, e>> \in games[w]} = TurnsUp(Len(games), Period, y)
        BY <2>1, <2>2 DEF Weeks, TurnsUp
    <2>5. Cardinality(TurnsUp(Len(games), Period, x))
            <= Cardinality(TurnsUp(Len(games), Period, y)) + 1
        BY <2>3, TurnsEvenly
    <2> QED BY <2>4, <2>5 DEF Meetings
<1>5. ASSUME options.type = "blanket" PROVE Meetings(a, b) = 0
    <2>1. {w \in Weeks : <<a, b>> \in games[w]} = {}
        BY <1>1, <1>5 DEF GoodWeek
    <2> QED BY <2>1, FS_EmptySet DEF Meetings
<1> QED BY <1>2, <1>3, <1>4, <1>5

\* For any number of teams: everybody meets everybody once in a single round robin
\* and once at either venue in a double one, and in a custom schedule of any length
\* no fixture is played twice more than another (roundRobinBase, DoubleRoundRobin,
\* CustomSchedule).
THEOREM PairsCorrect == Spec => []EveryPairMeets
<1>1. Init => Fixtures
    BY DEF Init, Fixtures
<1>2. Spec => [](Basic /\ RoundsTurned /\ Fixtures)
    BY <1>1, BasicInit, BasicNext, RoundsTurnedInit, FixturesNext, PTL DEF Spec
<1> QED BY <1>2, PairsMeet, PTL

-----------------------------------------------------------------------------
(* Why the loops end. *)

\* A finite set of weeks that is not empty has a last one: in a smallest set
\* without, what is left without one of its weeks would have a last one.
LEMMA MaxIsMost ==
    ASSUME NEW S \in SUBSET Nat, IsFiniteSet(S), S # {}
    PROVE  Max(S) \in S /\ \A y \in S : Max(S) >= y
<1> DEFINE Lastless(T) == T \in SUBSET Nat /\ IsFiniteSet(T) /\ T # {}
                          /\ ~\E x \in T : \A y \in T : x >= y
           Sizes == {k \in Nat : \E T : Lastless(T) /\ Cardinality(T) = k}
<1>1. ~\E T : Lastless(T)
    <2> SUFFICES ASSUME NEW T0, Lastless(T0) PROVE FALSE
        OBVIOUS
    <2>1. Cardinality(T0) \in Nat
        BY FS_CardinalityType
    <2>2. Sizes \in SUBSET Nat /\ Sizes # {}
        BY <2>1
    <2>3. Min(Sizes) \in Sizes /\ \A k \in Sizes : Min(Sizes) <= k
        <3> HIDE DEF Sizes
        <3> QED BY <2>2, MinIsLeast
    <2>4. PICK T : Lastless(T) /\ Cardinality(T) = Min(Sizes)
        BY <2>3, Zenon
    <2>5. PICK x \in T : x \in Nat
        BY <2>4
    <2> DEFINE R == T \ {x}
    <2>6. IsFiniteSet(R) /\ Cardinality(R) = Cardinality(T) - 1 /\ Cardinality(R) \in Nat
        <3>1. IsFiniteSet(T) /\ x \in T
            BY <2>4, <2>5
        <3>2. IsFiniteSet(R) /\ Cardinality(R) = Cardinality(T) - 1
            BY <3>1, FS_RemoveElement
        <3> QED BY <3>2, FS_CardinalityType
    <2>7. R # {}
        <3>1. ASSUME R = {} PROVE FALSE
            <4>1. \A y \in T : y = x
                BY <3>1
            <4>2. \A y \in T : x >= y
                BY <2>5, <4>1
            <4> QED BY <2>4, <2>5, <4>2
        <3> QED BY <3>1
    <2>8. ~Lastless(R)
        <3>1. ASSUME Lastless(R) PROVE FALSE
            <4>1. Cardinality(R) \in Sizes
                BY <2>6, <3>1
            <4>2. Min(Sizes) <= Cardinality(R) /\ Min(Sizes) \in Nat
                <5> HIDE DEF Sizes, R
                <5> QED BY <2>2, <2>3, <4>1
            <4> HIDE DEF Sizes, R
            <4> QED BY <2>4, <2>6, <4>2
        <3> QED BY <3>1
    <2>9. T \in SUBSET Nat
        BY <2>4
    <2>10. PICK z \in R : \A y \in R : z >= y
        BY <2>6, <2>7, <2>8, <2>9
    <2>11. \E m \in T : \A y \in T : m >= y
        <3>1. z \in T /\ z \in Nat
            BY <2>9, <2>10
        <3>2. CASE z >= x
            BY <2>5, <2>10, <3>1, <3>2
        <3>3. CASE x >= z
            <4>1. \A y \in T : y \in Nat /\ (y = x \/ z >= y)
                BY <2>9, <2>10
            <4>2. \A y \in T : x >= y
                BY <2>5, <3>1, <3>3, <4>1
            <4> QED BY <2>5, <4>2
        <3> QED BY <2>5, <3>1, <3>2, <3>3
    <2> QED BY <2>4, <2>11
<1>2. \E x \in S : \A y \in S : x >= y
    BY <1>1
<1> QED BY <1>2 DEF Max

\* One element fewer is one less.
LEMMA OneFewer ==
    ASSUME NEW S, IsFiniteSet(S), NEW x \in S
    PROVE  /\ Cardinality(S) \in Nat /\ Cardinality(S \ {x}) \in Nat
           /\ Cardinality(S \ {x}) < Cardinality(S)
<1>1. IsFiniteSet(S \ {x}) /\ Cardinality(S \ {x}) = Cardinality(S) - 1
    BY FS_RemoveElement
<1>2. Cardinality(S) \in Nat /\ Cardinality(S \ {x}) \in Nat
    BY <1>1, FS_CardinalityType
<1> QED BY <1>1, <1>2

\* What is counted is finite, a schedule has weeks once it is built, and no
\* date is assigned before, or beyond them.
CountInv ==
    /\ IsFiniteSet(DOMAIN options.byeByWeek) /\ IsFiniteSet(options.skip)
    /\ phase # "rounds" => Weeks # {}
    /\ phase \in {"rounds", "byes", "claim", "pair"} => dates = <<>>
    /\ phase = "dates" => Len(dates) <= TotalWeeks

\* The requests and the dates read are rows of the database.
LEMMA CountInit == Init => CountInv
<1> SUFFICES ASSUME Init PROVE CountInv
    OBVIOUS
<1>0. PICK n \in TeamCounts, type \in Types, skip \in SkipSets :
        \E byes \in ByeMaps(n), length \in LengthsOf(type) :
            options = [teams |-> n, type |-> type, length |-> length,
                       byeByWeek |-> byes, skip |-> skip]
    BY DEF Init
<1>1. PICK byes \in ByeMaps(n), length \in LengthsOf(type) :
        options = [teams |-> n, type |-> type, length |-> length,
                   byeByWeek |-> byes, skip |-> skip]
    BY <1>0
<1>2. PICK W \in SUBSET ByeWeeks : byes \in [W -> 1..(n + 1)]
    BY DEF ByeMaps
<1>3. IsFiniteSet(W)
    BY FiniteAssumption, FS_Subset
<1>4. DOMAIN options.byeByWeek = W /\ options.skip = skip
    BY <1>1, <1>2
<1>5. IsFiniteSet(DOMAIN options.byeByWeek) /\ IsFiniteSet(options.skip)
    BY <1>3, <1>4, FiniteAssumption
<1> QED BY <1>5 DEF CountInv, Init

\* The number of weeks is one: that of the last week games go to.
LEMMA TotalIsNumber ==
    ASSUME Basic, phase # "rounds", Weeks # {}
    PROVE  TotalWeeks \in Nat
<1> DEFINE All == {Destination(w) : w \in Weeks}
           to == [w \in Weeks |-> Destination(w)]
<1>1. IsFiniteSet(Weeks) /\ Weeks \subseteq Nat
    BY FiniteWeeks DEF Weeks
<1>2. \A w \in Weeks : Destination(w) \in Nat
    BY <1>1 DEF Basic, TypeOK, Destination
<1>3. to \in Surjection(Weeks, All)
    BY DEF Surjection
<1>4. IsFiniteSet(All)
    BY <1>1, <1>3, FS_Surjection
<1>5. All \in SUBSET Nat /\ All # {}
    BY <1>2
<1> HIDE DEF All
<1>6. Max(All) \in Nat
    BY <1>4, <1>5, MaxIsMost
<1> QED BY <1>6 DEF TotalWeeks, All

\* A built schedule has weeks.
LEMMA EntriesExist ==
    ASSUME Basic, BuildEntries
    PROVE  Weeks' # {}
<1>1. /\ Basic' /\ games' = Entries /\ phase = "rounds"
      /\ options.type = "blanket" \/ Len(games) = Rounds
    BY BuildEntriesBasic DEF BuildEntries
<1>2. Weeks' = 1..Len(Entries)
    BY <1>1 DEF Weeks
<1>3. options.type \in Types /\ options.length \in Nat
      /\ (options.type \in {"custom", "blanket"} => options.length >= 1)
    BY DEF Basic, OptionsOK
<1>4. Len(games) \in Nat /\ games \in Seq(SUBSET (Teams \X Teams))
    BY DEF Basic, TypeOK
<1>5. options.type # "blanket" => Len(games) >= 1
    BY <1>1, CircleSize DEF Basic
<1>6. Len(Entries) \in Nat /\ Len(Entries) >= 1
    <2>1. CASE options.type \in {"custom", "blanket"}
        <3>1. \E f : Entries = [w \in 1..options.length |-> f[w]]
            <4>1. CASE options.type = "custom"
                <5>1. Entries = CycledGames /\ CycledGames = [w \in 1..options.length |-> CycledGames[w]]
                    BY <4>1 DEF Entries, CycledGames
                <5> QED BY <5>1
            <4>2. CASE options.type = "blanket"
                <5> DEFINE none == [w \in 1..options.length |-> {}]
                <5>1. Entries = none /\ none = [w \in 1..options.length |-> none[w]]
                    BY <4>2 DEF Entries
                <5> QED BY <5>1
            <4> QED BY <2>1, <4>1, <4>2
        <3>2. Len(Entries) = options.length
            BY <1>3, <3>1
        <3> QED BY <1>3, <2>1, <3>2
    <2>2. CASE options.type = "single_rr"
        <3>1. Entries = games
            BY <2>2 DEF Entries
        <3> QED BY <1>4, <1>5, <2>2, <3>1
    <2>3. CASE options.type \in {"double_rr", "split"}
        <3> DEFINE back == [w \in Weeks |-> Reversed(games[w])]
        <3>1. Entries = games \o back
            BY <2>3 DEF Entries, DoubledGames
        <3>2. Len(back) = Len(games) /\ back \in Seq({Reversed(games[w]) : w \in Weeks})
            BY <1>4 DEF Weeks
        <3> HIDE DEF back
        <3>3. Len(games \o back) = Len(games) + Len(back)
            BY <1>4, <3>2
        <3> QED BY <1>4, <1>5, <2>3, <3>1, <3>2, <3>3
    <2> QED BY <1>3, <2>1, <2>2, <2>3 DEF Types
<1> QED BY <1>2, <1>6

\* Every step is progress, and what is counted stays so.
Progress ==
    \/ Loop(phase') > Loop(phase)
    \/ /\ phase' = phase
       /\ PassesLeft \in Nat /\ PassesLeft' \in Nat
       /\ PassesLeft' < PassesLeft

\* A round is added until there are enough.
LEMMA PlayRoundCounts == Basic /\ CountInv /\ PlayRound => CountInv' /\ Progress
<1> SUFFICES ASSUME Basic, CountInv, PlayRound PROVE CountInv' /\ Progress
    OBVIOUS
<1>1. /\ phase = "rounds" /\ phase' = "rounds" /\ Len(games) < Rounds
      /\ games' = Append(games, RoundGames) /\ UNCHANGED <<options, dates>>
    BY DEF PlayRound
<1>2. CountInv'
    BY <1>1 DEF CountInv
<1>3. Rounds \in Nat /\ Rounds' = Rounds
    BY <1>1, CircleSize DEF Basic, Rounds
<1>4. Len(games) \in Nat /\ Len(games') = Len(games) + 1
    BY <1>1 DEF Basic, TypeOK
<1>5. PassesLeft = Rounds - Len(games) /\ PassesLeft' = Rounds' - Len(games')
    BY <1>1 DEF PassesLeft
<1> QED BY <1>1, <1>2, <1>3, <1>4, <1>5 DEF Progress

\* Before a date is assigned there is room for all.
LEMMA NoDatesYet ==
    ASSUME Basic, phase # "rounds", Weeks # {}, dates = <<>>
    PROVE  Len(dates) <= TotalWeeks
BY TotalIsNumber

\* The loops over the requests and over the weeks are left, or shorten.
LEMMA RequestsCount ==
    ASSUME Basic, CountInv,
           BuildEntries \/ FindNaturalByes \/ HonourRequest \/ SkipRequest \/ BeginPairing
    PROVE  CountInv' /\ Progress
<1>1. UNCHANGED <<options, dates>> /\ Basic'
    BY BasicNext DEF BuildEntries, FindNaturalByes, HonourRequest, SkipRequest, BeginPairing,
                     Next
<1>2. /\ IsFiniteSet(DOMAIN options'.byeByWeek) /\ IsFiniteSet(options'.skip)
      /\ phase \in {"rounds", "byes", "claim"} => dates' = <<>>
    BY <1>1 DEF CountInv
<1>3. CASE BuildEntries
    <2>1. phase = "rounds" /\ phase' \in {"dates", "byes"}
        BY <1>3 DEF BuildEntries
    <2>2. Weeks' # {}
        BY <1>3, EntriesExist
    <2>3. phase' = "dates" => Len(dates') <= TotalWeeks'
        <3>1. (Basic /\ phase # "rounds" /\ Weeks # {} /\ dates = <<>>
                 => Len(dates) <= TotalWeeks)'
            BY NoDatesYet, PTL
        <3> QED BY <1>1, <1>2, <2>1, <2>2, <3>1
    <2> QED BY <1>2, <2>1, <2>2, <2>3 DEF CountInv, Progress, Loop
<1>4. CASE FindNaturalByes \/ BeginPairing
    <2>1. /\ phase \in {"byes", "claim"} /\ Weeks' = Weeks
          /\ phase' = IF phase = "byes" THEN "claim" ELSE "pair"
        BY <1>4 DEF FindNaturalByes, BeginPairing, Weeks
    <2> QED BY <1>2, <2>1 DEF CountInv, Progress, Loop
<1>5. CASE HonourRequest \/ SkipRequest
    <2>1. /\ phase = "claim" /\ phase' = "claim" /\ Weeks' = Weeks /\ pendingByes # {}
          /\ pendingByes' = pendingByes \ {Min(pendingByes)}
        BY <1>5 DEF HonourRequest, SkipRequest, StillPending, Weeks
    <2>2. CountInv'
        BY <1>2, <2>1 DEF CountInv
    <2>3. pendingByes \in SUBSET Nat /\ IsFiniteSet(pendingByes)
        BY FS_Subset DEF Basic, TypeOK, OptionsOK, CountInv
    <2>4. Min(pendingByes) \in pendingByes
        BY <2>1, <2>3, MinIsLeast
    <2>5. PassesLeft = Cardinality(pendingByes) /\ PassesLeft' = Cardinality(pendingByes')
        BY <2>1 DEF PassesLeft
    <2>6. /\ Cardinality(pendingByes) \in Nat /\ Cardinality(pendingByes') \in Nat
          /\ Cardinality(pendingByes') < Cardinality(pendingByes)
        BY <2>1, <2>3, <2>4, OneFewer
    <2> QED BY <2>1, <2>2, <2>5, <2>6 DEF Progress
<1> QED BY <1>3, <1>4, <1>5

\* Each pass of the pairing takes a target, or is the last.
LEMMA PairingCounts ==
    ASSUME Basic, CountInv, PairWeeks \/ IndexOutOfRange \/ EndPairing \/ Finish
    PROVE  CountInv' /\ Progress
<1>1. UNCHANGED <<options, games, dates>> /\ Weeks' = Weeks /\ Basic'
    BY BasicNext DEF PairWeeks, IndexOutOfRange, EndPairing, Finish, Weeks, Next
<1>2. /\ IsFiniteSet(DOMAIN options'.byeByWeek) /\ IsFiniteSet(options'.skip)
      /\ phase = "pair" => dates' = <<>>
      /\ phase # "rounds" => Weeks' # {}
    BY <1>1 DEF CountInv
<1>3. CASE PairWeeks
    <2>1. /\ phase = "pair" /\ phase' = "pair" /\ targets # {}
          /\ targets' = targets \ {Min(targets)}
        BY <1>3 DEF PairWeeks
    <2>2. CountInv'
        BY <1>2, <2>1 DEF CountInv
    <2>3. targets \in SUBSET Nat /\ IsFiniteSet(targets)
        <3>1. targets \subseteq Weeks /\ Weeks \subseteq Nat
            BY DEF Basic, TypeOK, Weeks
        <3> QED BY <3>1, FiniteWeeks, FS_Subset
    <2>4. Min(targets) \in targets
        BY <2>1, <2>3, MinIsLeast
    <2>5. PassesLeft = Cardinality(targets) /\ PassesLeft' = Cardinality(targets')
        BY <2>1 DEF PassesLeft
    <2>6. /\ Cardinality(targets) \in Nat /\ Cardinality(targets') \in Nat
          /\ Cardinality(targets') < Cardinality(targets)
        BY <2>1, <2>3, <2>4, OneFewer
    <2> QED BY <2>1, <2>2, <2>5, <2>6 DEF Progress
<1>4. CASE IndexOutOfRange \/ Finish
    <2>1. /\ phase \in {"pair", "dates"} /\ phase' \in {"panicked", "done"}
        BY <1>4 DEF IndexOutOfRange, Finish
    <2> QED BY <1>2, <2>1 DEF CountInv, Progress, Loop
<1>5. CASE EndPairing
    <2>1. phase = "pair" /\ phase' = "dates"
        BY <1>5 DEF EndPairing
    <2>2. (Basic /\ phase # "rounds" /\ Weeks # {} /\ dates = <<>>
             => Len(dates) <= TotalWeeks)'
        BY NoDatesYet, PTL
    <2>3. Len(dates') <= TotalWeeks'
        BY <1>1, <1>2, <2>1, <2>2
    <2> QED BY <1>2, <2>1, <2>3 DEF CountInv, Progress, Loop
<1> QED BY <1>3, <1>4, <1>5

\* A day looked at is a date assigned, or one date fewer to pass over.
LEMMA AssignDateCounts == Basic /\ CountInv /\ AssignDate => CountInv' /\ Progress
<1> SUFFICES ASSUME Basic, CountInv, AssignDate PROVE CountInv' /\ Progress
    OBVIOUS
<1> DEFINE Ahead(d) == {e \in options.skip : e >= d}
<1>1. /\ phase = "dates" /\ phase' = "dates" /\ UNCHANGED <<options, games, newWeek>>
      /\ Len(dates) < TotalWeeks /\ current' = current + 1
      /\ dates' = IF current \in options.skip THEN dates ELSE Append(dates, current)
    BY DEF AssignDate, DatesAfter, NextDate
<1>2. /\ dates \in Seq(Nat) /\ Len(dates) \in Nat /\ current \in Nat
      /\ options.skip \subseteq Nat /\ IsFiniteSet(options.skip) /\ Weeks # {}
    BY <1>1 DEF Basic, TypeOK, OptionsOK, CountInv
<1>3. TotalWeeks \in Nat
    BY <1>1, <1>2, TotalIsNumber
<1>4. TotalWeeks' = TotalWeeks /\ Weeks' = Weeks
    BY <1>1 DEF TotalWeeks, Weeks, Destination
<1>5. Len(dates') = IF current \in options.skip THEN Len(dates) ELSE Len(dates) + 1
    BY <1>1, <1>2
<1>6. /\ IsFiniteSet(Ahead(current)) /\ Cardinality(Ahead(current)) \in Nat
      /\ Ahead(current + 1) = Ahead(current) \ {current}
      /\ current \in Ahead(current) <=> current \in options.skip
    <2>1. IsFiniteSet(Ahead(current))
        BY <1>2, FS_Subset
    <2>2. Ahead(current + 1) = Ahead(current) \ {current}
        BY <1>2
    <2>3. current \in Ahead(current) <=> current \in options.skip
        BY <1>2
    <2> QED BY <2>1, <2>2, <2>3, FS_CardinalityType
<1>7. /\ PassesLeft = (TotalWeeks - Len(dates)) + Cardinality(Ahead(current))
      /\ PassesLeft' = (TotalWeeks' - Len(dates')) + Cardinality(Ahead(current + 1))
    <2>1. PassesLeft = (TotalWeeks - Len(dates)) + Cardinality(Ahead(current))
        BY <1>1 DEF PassesLeft
    <2>2. PassesLeft' = (TotalWeeks' - Len(dates'))
                        + Cardinality({d \in options'.skip : d >= current'})
        BY <1>1 DEF PassesLeft
    <2>3. {d \in options'.skip : d >= current'} = Ahead(current + 1)
        BY <1>1
    <2> QED BY <2>1, <2>2, <2>3
<1> HIDE DEF Ahead
<1>8. CountInv'
    BY <1>1, <1>2, <1>3, <1>4, <1>5 DEF CountInv
<1>9. CASE current \in options.skip
    <2>1. /\ Cardinality(Ahead(current + 1)) \in Nat
          /\ Cardinality(Ahead(current + 1)) < Cardinality(Ahead(current))
        BY <1>6, <1>9, OneFewer
    <2> QED BY <1>1, <1>2, <1>3, <1>4, <1>5, <1>6, <1>7, <1>8, <1>9, <2>1 DEF Progress
<1>10. CASE current \notin options.skip
    <2>1. Ahead(current + 1) = Ahead(current)
        BY <1>6, <1>10
    <2> QED BY <1>1, <1>2, <1>3, <1>4, <1>5, <1>6, <1>7, <1>8, <1>10, <2>1 DEF Progress
<1> QED BY <1>9, <1>10

\* No pass is in vain.
THEOREM ProgressCorrect == Spec => EveryPassCounts
<1>1. Init => Basic /\ CountInv
    BY BasicInit, CountInit
<1>2. Basic /\ CountInv /\ [Next]_vars => (Basic /\ CountInv)'
    <2>1. ASSUME CountInv, UNCHANGED vars PROVE CountInv'
        BY <2>1 DEF CountInv, vars, Weeks, TotalWeeks, Destination
    <2> QED BY <2>1, BasicNext, PlayRoundCounts, RequestsCount, PairingCounts,
               AssignDateCounts DEF Next
<1>3. Basic /\ CountInv /\ [Next]_vars => [Progress]_vars
    BY PlayRoundCounts, RequestsCount, PairingCounts, AssignDateCounts DEF Next
<1>4. Spec => []Basic /\ []CountInv /\ [][Progress]_vars
    BY <1>1, <1>2, <1>3, PTL DEF Spec
<1> QED BY <1>4, PTL DEF EveryPassCounts, Progress

=============================================================================
