---------------------------- MODULE Scoring_proofs -----------------------------
(***************************************************************************)
(* Types; a decided pairing stays decided; and the standings show what was *)
(* played: for all players, rounds, scores, handicaps, rules and other     *)
(* matches, and however often a sheet is saved.                            *)
(***************************************************************************)
EXTENDS Scoring, FiniteSetTheorems, WellFoundedInduction, TLAPS

\* What the argument needs of the state: the part of TypeOK about the sheet.
SheetInv ==
    /\ RulesTypeOK
    /\ handicap \in [Players -> Int]
    /\ sheet \subseteq Row
    /\ OnceAtHome(sheet)

(***************************************************************************)
(* Sums.  A sum of natural numbers counts a set of pairs, one for every    *)
(* unit of every summand.  The fold that computes it is defined by         *)
(* recursion over subsets: counting satisfies its equation, and a least    *)
(* subset shows that nothing else does.                                    *)
(***************************************************************************)
Units(f) == {u \in (DOMAIN f) \X Nat : 1 <= u[2] /\ u[2] <= f[u[1]]}
UnitsIn(f, s) == {u \in Units(f) : u[1] \in s}

\* The function that the fold evaluates.
Folds(g, f) ==
    g = [s \in SUBSET DOMAIN f |->
            IF s = {} THEN 0
            ELSE f[CHOOSE x \in s : TRUE] + g[s \ {CHOOSE x \in s : TRUE}]]

LEMMA TotalFolds ==
    ASSUME NEW f
    PROVE  Total(f) = (CHOOSE g : Folds(g, f))[DOMAIN f]
  BY DEF Total, FoldFunction, FoldFunctionOnSet, MapThenFoldSet, Folds

LEMMA SliceCounts ==
    ASSUME NEW x, NEW n \in Nat
    PROVE  IsFiniteSet({x} \X (1..n)) /\ Cardinality({x} \X (1..n)) = n
  <1>1. IsFiniteSet({x}) /\ Cardinality({x}) = 1
    BY FS_Singleton, Zenon
  <1>2. 1 \in Int /\ n \in Int
    OBVIOUS
  <1>3. IsFiniteSet(1..n) /\ Cardinality(1..n) = IF 1 > n THEN 0 ELSE n - 1 + 1
    BY <1>2, FS_Interval, Zenon
  <1>4. IsFiniteSet({x} \X (1..n)) /\ Cardinality({x} \X (1..n)) = 1 * Cardinality(1..n)
    BY <1>1, <1>3, FS_Product, Zenon
  <1> QED
    BY <1>3, <1>4

LEMMA UnitsFinite ==
    ASSUME NEW f, IsFiniteSet(DOMAIN f), \A x \in DOMAIN f : f[x] \in Nat
    PROVE  IsFiniteSet(Units(f))
  <1> DEFINE slice == [x \in DOMAIN f |-> {x} \X (1..f[x])]
             slices == {slice[x] : x \in DOMAIN f}
  <1>1. slice \in Surjection(DOMAIN f, slices)
    BY DEF Surjection
  <1>2. IsFiniteSet(slices)
    BY <1>1, FS_Surjection
  <1>3. \A s \in slices : IsFiniteSet(s)
    <2> SUFFICES ASSUME NEW x \in DOMAIN f
                 PROVE  IsFiniteSet({x} \X (1..f[x]))
      OBVIOUS
    <2> QED
      BY SliceCounts
  <1>4. IsFiniteSet(UNION slices)
    <2> HIDE DEF slices
    <2> QED
      BY <1>2, <1>3, FS_UNION
  <1>5. Units(f) \in SUBSET UNION slices
    <2> SUFFICES ASSUME NEW u \in Units(f)
                 PROVE  u \in UNION slices
      OBVIOUS
    <2>1. u[1] \in DOMAIN f /\ u \in {u[1]} \X (1..f[u[1]])
      BY DEF Units
    <2> QED
      BY <2>1
  <1> HIDE DEF slices
  <1> QED
    BY <1>4, <1>5, FS_Subset

LEMMA UnitsRemoved ==
    ASSUME NEW f, IsFiniteSet(DOMAIN f), \A x \in DOMAIN f : f[x] \in Nat,
           NEW s \in SUBSET DOMAIN f, NEW x \in s
    PROVE  /\ IsFiniteSet(UnitsIn(f, s)) /\ IsFiniteSet(UnitsIn(f, s \ {x}))
           /\ Cardinality(UnitsIn(f, s)) = f[x] + Cardinality(UnitsIn(f, s \ {x}))
  <1> DEFINE S == {x} \X (1..f[x])
             T == UnitsIn(f, s \ {x})
  <1>1. IsFiniteSet(UnitsIn(f, s)) /\ IsFiniteSet(T)
    <2>1. UnitsIn(f, s) \in SUBSET Units(f) /\ T \in SUBSET Units(f)
      BY DEF UnitsIn
    <2> QED
      BY <2>1, UnitsFinite, FS_Subset
  <1>2. IsFiniteSet(S) /\ Cardinality(S) = f[x]
    BY SliceCounts
  <1>3. UnitsIn(f, s) = S \cup T
    <2>1. \A u \in Units(f) : u[1] = x <=> u \in S
      BY DEF Units
    <2>2. S \subseteq Units(f)
      BY DEF Units
    <2> QED
      BY <2>1, <2>2 DEF UnitsIn
  <1>4. S \cap T = {}
    BY DEF UnitsIn
  <1>5. Cardinality(S \cup T) = Cardinality(S) + Cardinality(T) - Cardinality(S \cap T)
    <2> HIDE DEF S, T
    <2> QED
      BY <1>1, <1>2, FS_Union
  <1>6. Cardinality(S \cap T) = 0 /\ Cardinality(T) \in Nat
    BY <1>1, <1>4, FS_EmptySet, FS_CardinalityType
  <1> HIDE DEF S, T
  <1>7. Cardinality(UnitsIn(f, s)) = f[x] + Cardinality(T)
    BY <1>2, <1>3, <1>5, <1>6
  <1> QED
    BY <1>1, <1>7 DEF T

LEMMA CountingFolds ==
    ASSUME NEW f, IsFiniteSet(DOMAIN f), \A x \in DOMAIN f : f[x] \in Nat
    PROVE  Folds([s \in SUBSET DOMAIN f |-> Cardinality(UnitsIn(f, s))], f)
  <1> DEFINE count == [s \in SUBSET DOMAIN f |-> Cardinality(UnitsIn(f, s))]
  <1>1. ASSUME NEW s \in SUBSET DOMAIN f
        PROVE  count[s] = IF s = {} THEN 0
                          ELSE f[CHOOSE x \in s : TRUE] + count[s \ {CHOOSE x \in s : TRUE}]
    <2>1. CASE s = {}
      <3>1. UnitsIn(f, s) = {}
        BY <2>1 DEF UnitsIn
      <3> QED
        BY <2>1, <3>1, FS_EmptySet
    <2>2. CASE s # {}
      <3>1. PICK x : x = CHOOSE y \in s : TRUE
        OBVIOUS
      <3>2. x \in s
        BY <2>2, <3>1
      <3>3. Cardinality(UnitsIn(f, s)) = f[x] + Cardinality(UnitsIn(f, s \ {x}))
        BY <3>2, UnitsRemoved
      <3>4. count[s] = f[x] + count[s \ {x}]
        BY <3>3
      <3> QED
        BY <2>2, <3>1, <3>4
    <2> QED
      BY <2>1, <2>2
  <1> QED
    BY <1>1 DEF Folds

LEMMA OneFold ==
    ASSUME NEW f, IsFiniteSet(DOMAIN f), NEW g, NEW h, Folds(g, f), Folds(h, f)
    PROVE  g[DOMAIN f] = h[DOMAIN f]
  <1> DEFINE R == StrictSubsetOrdering(DOMAIN f)
             Differ == {s \in SUBSET DOMAIN f : g[s] # h[s]}
  <1>1. IsWellFoundedOn(R, SUBSET DOMAIN f)
    BY FS_StrictSubsetOrderingWellFounded, FS_FiniteSubsetsOfFinite
  <1>2. SUFFICES Differ = {}
    OBVIOUS
  <1>3. SUFFICES ASSUME Differ # {}
                 PROVE  FALSE
    OBVIOUS
  <1>4. PICK s \in Differ : \A t \in Differ : <<t, s>> \notin R
    <2>1. Differ \subseteq SUBSET DOMAIN f
      OBVIOUS
    <2> HIDE DEF R, Differ
    <2> QED
      BY <1>1, <1>3, <2>1, WFMin
  <1>5. /\ g[s] = IF s = {} THEN 0
                  ELSE f[CHOOSE x \in s : TRUE] + g[s \ {CHOOSE x \in s : TRUE}]
        /\ h[s] = IF s = {} THEN 0
                  ELSE f[CHOOSE x \in s : TRUE] + h[s \ {CHOOSE x \in s : TRUE}]
    BY Zenon DEF Folds
  <1>6. s # {}
    BY <1>5
  <1>7. PICK x : x = CHOOSE y \in s : TRUE
    OBVIOUS
  <1>8. x \in s
    BY <1>6, <1>7
  <1>9. s \ {x} \in SUBSET DOMAIN f /\ <<s \ {x}, s>> \in R
    BY <1>8 DEF StrictSubsetOrdering
  <1>10. g[s \ {x}] = h[s \ {x}]
    BY <1>4, <1>9
  <1> QED
    BY <1>5, <1>6, <1>7, <1>10

LEMMA TotalCounts ==
    ASSUME NEW f, IsFiniteSet(DOMAIN f), \A x \in DOMAIN f : f[x] \in Nat
    PROVE  IsFiniteSet(Units(f)) /\ Total(f) = Cardinality(Units(f)) /\ Total(f) \in Nat
  <1> DEFINE count == [s \in SUBSET DOMAIN f |-> Cardinality(UnitsIn(f, s))]
             fold == CHOOSE g : Folds(g, f)
  <1>1. Folds(count, f)
    BY CountingFolds
  <1> HIDE DEF count
  <1>2. Folds(fold, f)
    BY <1>1
  <1> HIDE DEF fold
  <1>3. fold[DOMAIN f] = count[DOMAIN f]
    BY <1>1, <1>2, OneFold
  <1>4. count[DOMAIN f] = Cardinality(UnitsIn(f, DOMAIN f)) /\ UnitsIn(f, DOMAIN f) = Units(f)
    BY DEF count, UnitsIn, Units
  <1>5. Total(f) = fold[DOMAIN f]
    BY TotalFolds DEF fold
  <1> QED
    BY <1>3, <1>4, <1>5, UnitsFinite, FS_CardinalityType

\* Summands of nothing do not count.
LEMMA TotalOfPart ==
    ASSUME NEW f, IsFiniteSet(DOMAIN f), \A x \in DOMAIN f : f[x] \in Nat,
           NEW s \in SUBSET DOMAIN f, \A x \in DOMAIN f : f[x] # 0 => x \in s
    PROVE  Total(f) = Total([x \in s |-> f[x]])
  <1> DEFINE g == [x \in s |-> f[x]]
  <1>1. DOMAIN g = s /\ IsFiniteSet(s) /\ \A x \in s : g[x] = f[x] /\ g[x] \in Nat
    BY FS_Subset
  <1> HIDE DEF g
  <1>2. Units(g) = Units(f)
    BY <1>1 DEF Units
  <1>3. Total(g) = Cardinality(Units(g))
    BY <1>1, TotalCounts
  <1>4. Total(f) = Cardinality(Units(f))
    BY TotalCounts
  <1>5. Total(f) = Total(g)
    BY <1>2, <1>3, <1>4
  <1> QED
    BY <1>5 DEF g

LEMMA TotalSplit ==
    ASSUME NEW f, IsFiniteSet(DOMAIN f), \A y \in DOMAIN f : f[y] \in Nat, NEW x \in DOMAIN f
    PROVE  Total(f) = f[x] + Total([y \in (DOMAIN f) \ {x} |-> f[y]])
  <1> DEFINE s == (DOMAIN f) \ {x}
             g == [y \in s |-> f[y]]
  <1>1. DOMAIN g = s /\ IsFiniteSet(s) /\ \A y \in s : g[y] = f[y] /\ g[y] \in Nat
    BY FS_Subset
  <1> HIDE DEF g
  <1>2. Units(g) = UnitsIn(f, s)
    BY <1>1 DEF Units, UnitsIn
  <1>3. Total(g) = Cardinality(UnitsIn(f, s))
    BY <1>1, <1>2, TotalCounts
  <1>4. Total(f) = Cardinality(UnitsIn(f, DOMAIN f))
    <2>1. UnitsIn(f, DOMAIN f) = Units(f)
      BY DEF Units, UnitsIn
    <2> QED
      BY <2>1, TotalCounts
  <1>5. Cardinality(UnitsIn(f, DOMAIN f)) = f[x] + Cardinality(UnitsIn(f, s))
    BY UnitsRemoved
  <1>6. Total(f) = f[x] + Total(g)
    BY <1>3, <1>4, <1>5
  <1> QED
    BY <1>6 DEF g

LEMMA TotalAtLeast ==
    ASSUME NEW f, IsFiniteSet(DOMAIN f), \A y \in DOMAIN f : f[y] \in Nat, NEW x \in DOMAIN f
    PROVE  f[x] <= Total(f)
  <1> DEFINE g == [y \in (DOMAIN f) \ {x} |-> f[y]]
  <1>1. IsFiniteSet(DOMAIN g) /\ \A y \in DOMAIN g : g[y] \in Nat
    BY FS_Subset
  <1>2. Total(f) = f[x] + Total(g)
    BY TotalSplit
  <1> HIDE DEF g
  <1>3. Total(g) \in Nat
    BY <1>1, TotalCounts
  <1> QED
    BY <1>2, <1>3

\* As many equal summands as a set has members.
LEMMA TotalOfEqual ==
    ASSUME NEW S, IsFiniteSet(S), NEW n \in Nat
    PROVE  Total([x \in S |-> n]) = n * Cardinality(S)
  <1> DEFINE f == [x \in S |-> n]
  <1>1. DOMAIN f = S /\ \A x \in S : f[x] = n
    OBVIOUS
  <1> HIDE DEF f
  <1>2. Units(f) = S \X (1..n)
    BY <1>1 DEF Units
  <1>3. IsFiniteSet(1..n) /\ Cardinality(1..n) = IF 1 > n THEN 0 ELSE n - 1 + 1
    <2>1. 1 \in Int /\ n \in Int
      OBVIOUS
    <2> QED
      BY <2>1, FS_Interval, Zenon
  <1>4. Cardinality(1..n) = n
    BY <1>3
  <1>5. Cardinality(S \X (1..n)) = Cardinality(S) * Cardinality(1..n)
    BY <1>3, FS_Product, Zenon
  <1>6. Cardinality(S) \in Nat
    BY FS_CardinalityType
  <1>7. Total(f) = Cardinality(Units(f))
    BY <1>1, TotalCounts
  <1>8. Total(f) = Cardinality(S) * n
    BY <1>2, <1>4, <1>5, <1>7
  <1>9. Total(f) = n * Cardinality(S)
    BY <1>6, <1>8
  <1> QED
    BY <1>9 DEF f

(***************************************************************************)
(* Summing group by group.  The members of A that count for anything are   *)
(* each in one group of S, and F is the sum of every group.                *)
(***************************************************************************)
LEMMA TotalByGroups ==
    ASSUME NEW A, IsFiniteSet(A), NEW f \in [A -> Nat], NEW key, DOMAIN key = A,
           NEW S, IsFiniteSet(S), NEW F \in [S -> Nat],
           \A a \in A : f[a] # 0 => key[a] \in S,
           \A t \in S : F[t] = Total([a \in {b \in A : key[b] = t} |-> f[a]])
    PROVE  Total(F) = Total(f)
  <1> DEFINE group(t) == [a \in {b \in A : key[b] = t} |-> f[a]]
             bij == [t \in S |-> CHOOSE b : b \in Bijection(1..F[t], Units(group(t)))]
             map == [u \in Units(F) |-> bij[u[1]][u[2]]]
  <1>1. ASSUME NEW t \in S
        PROVE  /\ bij[t] \in Bijection(1..F[t], Units(group(t)))
               /\ \A u : u \in Units(group(t)) <=> u \in Units(f) /\ key[u[1]] = t
    <2>1. DOMAIN group(t) = {b \in A : key[b] = t} /\ \A a \in DOMAIN group(t) : group(t)[a] = f[a]
      OBVIOUS
    <2>2. IsFiniteSet(DOMAIN group(t)) /\ \A a \in DOMAIN group(t) : group(t)[a] \in Nat
      <3>1. {b \in A : key[b] = t} \in SUBSET A
        OBVIOUS
      <3> QED
        BY <2>1, <3>1, FS_Subset
    <2>3. F[t] = Total(group(t))
      OBVIOUS
    <2>4. bij[t] = CHOOSE b : b \in Bijection(1..F[t], Units(group(t)))
      OBVIOUS
    <2> HIDE DEF group, bij
    <2>5. IsFiniteSet(Units(group(t))) /\ F[t] = Cardinality(Units(group(t)))
      BY <2>2, <2>3, TotalCounts
    <2>6. ExistsBijection(1..F[t], Units(group(t)))
      BY <2>5, FS_CardinalityType
    <2>7. bij[t] \in Bijection(1..F[t], Units(group(t)))
      BY <2>4, <2>6 DEF ExistsBijection
    <2>8. \A u : u \in Units(group(t)) <=> u \in Units(f) /\ key[u[1]] = t
      BY <2>1 DEF Units
    <2> QED
      BY <2>7, <2>8
  <1> HIDE DEF group, bij
  <1>2. \A u \in Units(F) : u[1] \in S /\ u[2] \in 1..F[u[1]] /\ u = <<u[1], u[2]>>
    BY DEF Units
  <1>3. \A t \in S : \A n \in 1..F[t] : bij[t][n] \in Units(group(t))
    BY <1>1 DEF Bijection, Injection, Surjection
  <1>4. \A u \in Units(F) : map[u] \in Units(f) /\ key[map[u][1]] = u[1]
    BY <1>1, <1>2, <1>3
  <1>5. \A u, v \in Units(F) : map[u] = map[v] => u = v
    <2> SUFFICES ASSUME NEW u \in Units(F), NEW v \in Units(F), map[u] = map[v]
                 PROVE  u = v
      OBVIOUS
    <2>1. u[1] = v[1]
      BY <1>4
    <2>2. bij[u[1]][u[2]] = bij[u[1]][v[2]]
      BY <2>1
    <2>3. u[2] = v[2]
      BY <1>1, <1>2, <2>1, <2>2 DEF Bijection, Injection, IsInjective
    <2> QED
      BY <1>2, <2>1, <2>3
  <1>6. \A w \in Units(f) : \E u \in Units(F) : map[u] = w
    <2> SUFFICES ASSUME NEW w \in Units(f)
                 PROVE  \E u \in Units(F) : map[u] = w
      OBVIOUS
    <2>1. w[1] \in A /\ f[w[1]] # 0
      BY DEF Units
    <2>2. PICK t \in S : t = key[w[1]]
      BY <2>1
    <2>3. w \in Units(group(t))
      BY <1>1, <2>2
    <2>4. PICK n \in 1..F[t] : bij[t][n] = w
      BY <1>1, <2>3 DEF Bijection, Surjection
    <2>5. <<t, n>> \in Units(F)
      BY DEF Units
    <2>6. map[<<t, n>>] = w
      BY <2>4, <2>5
    <2> QED
      BY <2>5, <2>6
  <1>7. map \in Bijection(Units(F), Units(f))
    <2>1. map \in [Units(F) -> Units(f)]
      BY <1>4
    <2> HIDE DEF map
    <2> QED
      BY <1>5, <1>6, <2>1 DEF Bijection, Injection, Surjection, IsInjective
  <1>8. IsFiniteSet(Units(F)) /\ Total(F) = Cardinality(Units(F))
    BY TotalCounts
  <1>9. Total(f) = Cardinality(Units(f))
    BY TotalCounts
  <1> HIDE DEF map
  <1>10. Cardinality(Units(F)) = Cardinality(Units(f))
    BY <1>7, <1>8, FS_Bijection DEF ExistsBijection
  <1> QED
    BY <1>8, <1>9, <1>10

(***************************************************************************)
(* One game.                                                               *)
(***************************************************************************)
\* A game that is no error gives a side at most ten points, and only if it is decided.
LEMMA GamePoints ==
    ASSUME NEW g \in Game, ~GameError(g)
    PROVE  LET w == One(GameWinner(g) = "home")
               l == One(GameWinner(g) = "away")
           IN  /\ w \in 0..1 /\ l \in 0..1 /\ w + l \in 0..1
               /\ Points(g, "home") \in Int /\ Points(g, "away") \in Int
               /\ 0 <= Points(g, "home") /\ Points(g, "home") <= 10 * (w + l)
               /\ 0 <= Points(g, "away") /\ Points(g, "away") <= 10 * (w + l)
  <1>1. g.home \in Int /\ g.away \in Int
    BY ScoringAssumption DEF Game
  <1>2. g.home \in 0..10 /\ g.away \in 0..10
    BY DEF GameError
  <1>3. /\ Points(g, "home") = IF GameWinner(g) = "none" THEN 0 ELSE g.home
        /\ Points(g, "away") = IF GameWinner(g) = "none" THEN 0 ELSE g.away
    BY DEF Points
  <1>4. GameWinner(g) \in {"home", "away", "none"}
    BY DEF GameWinner
  <1> QED
    BY <1>2, <1>3, <1>4 DEF One

LEMMA AnyGamePoints ==
    ASSUME NEW g \in Game
    PROVE  /\ Points(g, "home") \in Int /\ Points(g, "away") \in Int
           /\ One(GameWinner(g) = "home") \in Int /\ One(GameWinner(g) = "away") \in Int
           /\ GameWinner(g) \in {"home", "away", "none"}
           /\ GameWinner(g) = "none" =>
                 /\ Points(g, "home") = 0 /\ Points(g, "away") = 0
                 /\ One(GameWinner(g) = "home") = 0 /\ One(GameWinner(g) = "away") = 0
  <1>1. g.home \in Int /\ g.away \in Int
    BY ScoringAssumption DEF Game
  <1>2. /\ Points(g, "home") = IF GameWinner(g) = "none" THEN 0 ELSE g.home
        /\ Points(g, "away") = IF GameWinner(g) = "none" THEN 0 ELSE g.away
    BY DEF Points
  <1> QED
    BY <1>1, <1>2 DEF GameWinner, One

Decided(g) == One(GameWinner(g) = "home") + One(GameWinner(g) = "away")

\* A game that may be filled in, and is left alone once it is decided: what it can
\* still add to a side is what was left to play for.
LEMMA GameStep ==
    ASSUME NEW g \in Game, NEW k \in Game, ~GameError(k), GameWinner(g) # "none" => k = g
    PROVE  /\ Decided(g) \in 0..1 /\ Decided(k) \in 0..1 /\ Decided(g) <= Decided(k)
           /\ \A side \in {"home", "away"} :
                /\ Points(g, side) \in Int /\ Points(k, side) \in Int
                /\ Points(g, side) <= Points(k, side)
                /\ Points(k, side) + 10 * Decided(g) <= Points(g, side) + 10 * Decided(k)
  <1>1. Decided(k) \in 0..1
        /\ \A side \in {"home", "away"} :
              Points(k, side) \in Int /\ 0 <= Points(k, side) /\ Points(k, side) <= 10 * Decided(k)
    BY GamePoints DEF Decided
  <1>2. CASE GameWinner(g) = "none"
    <2>1. Decided(g) = 0 /\ Points(g, "home") = 0 /\ Points(g, "away") = 0
      BY <1>2, AnyGamePoints DEF Decided
    <2> QED
      BY <1>1, <2>1
  <1>3. CASE GameWinner(g) # "none"
    BY <1>1, <1>3
  <1> QED
    BY <1>2, <1>3

(***************************************************************************)
(* One pairing.                                                            *)
(***************************************************************************)
LEMMA RowGames ==
    ASSUME NEW r \in Row
    PROVE  /\ r.games[1] \in Game /\ r.games[2] \in Game /\ r.games[3] \in Game
           /\ r.homeHC \in Int /\ r.awayHC \in Int
           /\ DOMAIN r.games = 1..3 /\ r.games = [n \in 1..3 |-> r.games[n]]
  BY DEF Row

LEMMA MultiplierIsInt ==
    ASSUME RulesTypeOK
    PROVE  Multiplier \in Int /\ MinBall \in Int
  <1>1. \A t \in RuleTexts : t.value \in Int
    BY RuleAssumption DEF RuleText
  <1>2. /\ rules["handicap_multiplier"] \in RuleTexts \cup {NoRule}
        /\ rules["min_ball_handicap"] \in RuleTexts \cup {NoRule}
    BY DEF RulesTypeOK, RuleKeys
  <1> QED
    BY <1>1, <1>2 DEF Multiplier, MinBall, DefaultMultiplier

\* The spot comes from the handicaps on the row and the rules alone.
LEMMA SpotIsInt ==
    ASSUME RulesTypeOK, NEW r \in Row
    PROVE  SpotGiven(r) \in Int
  <1> DEFINE difference == IF r.homeHC < r.awayHC THEN r.awayHC - r.homeHC
                                                   ELSE r.homeHC - r.awayHC
  <1>1. difference \in Int
    <2>1. r.homeHC \in Int /\ r.awayHC \in Int
      BY RowGames
    <2> QED
      BY <2>1
  <1>2. Spot(r) = (difference * Multiplier + 5000) \div 10000
    BY DEF Spot
  <1> HIDE DEF difference
  <1>3. difference * Multiplier \in Int
    BY <1>1, MultiplierIsInt
  <1> DEFINE product == difference * Multiplier
  <1>4. Spot(r) = (product + 5000) \div 10000 /\ product \in Int
    BY <1>2, <1>3
  <1> HIDE DEF product
  <1>5. Spot(r) \in Int
    BY <1>4
  <1> QED
    BY <1>5 DEF SpotGiven

LEMMA SameSpot ==
    ASSUME NEW r, NEW s, r.homeHC = s.homeHC, r.awayHC = s.awayHC
    PROVE  SpotTo(r) = SpotTo(s) /\ SpotGiven(r) = SpotGiven(s)
  <1>1. Spot(r) = Spot(s)
    BY DEF Spot
  <1> QED
    BY <1>1 DEF SpotTo, SpotGiven

\* A decision is a lead that the games left cannot turn, and it stays one.
LEMMA DecisionKept ==
    ASSUME RulesTypeOK, NEW r \in Row, NEW s \in Row,
           r.homeHC = s.homeHC, r.awayHC = s.awayHC,
           \A n \in 1..3 : GameWinner(r.games[n]) # "none" => s.games[n] = r.games[n],
           \A n \in 1..3 : ~GameError(s.games[n]),
           PairingWinner(r) # "none"
    PROVE  PairingWinner(s) = PairingWinner(r)
  <1> DEFINE R == Remaining(r.games)  S == Remaining(s.games)
             x == IF SpotTo(r) = "home" THEN SpotGiven(r) ELSE 0
             y == IF SpotTo(r) = "away" THEN SpotGiven(r) ELSE 0
  <1>1. \A n \in 1..3 :
          /\ Decided(r.games[n]) \in 0..1 /\ Decided(s.games[n]) \in 0..1
          /\ Decided(r.games[n]) <= Decided(s.games[n])
          /\ \A side \in {"home", "away"} :
               /\ Points(r.games[n], side) \in Int /\ Points(s.games[n], side) \in Int
               /\ Points(r.games[n], side) <= Points(s.games[n], side)
               /\ Points(s.games[n], side) + 10 * Decided(r.games[n])
                    <= Points(r.games[n], side) + 10 * Decided(s.games[n])
    <2> TAKE n \in 1..3
    <2>1. r.games[n] \in Game /\ s.games[n] \in Game
      BY DEF Row
    <2> QED
      BY <2>1, GameStep
  <1>2. /\ R = 3 - (Decided(r.games[1]) + Decided(r.games[2]) + Decided(r.games[3]))
        /\ S = 3 - (Decided(s.games[1]) + Decided(s.games[2]) + Decided(s.games[3]))
    <2> DEFINE w(row, n) == One(GameWinner(row.games[n]) = "home")
               l(row, n) == One(GameWinner(row.games[n]) = "away")
    <2>1. \A row \in {r, s}, n \in 1..3 :
            /\ w(row, n) \in Int /\ l(row, n) \in Int
            /\ Decided(row.games[n]) = w(row, n) + l(row, n)
      <3>1. \A row \in {r, s}, n \in 1..3 : row.games[n] \in Game
        BY DEF Row
      <3> QED
        BY <3>1, AnyGamePoints DEF Decided
    <2>2. \A row \in {r, s} :
            Remaining(row.games) = 3 - (w(row, 1) + w(row, 2) + w(row, 3))
                                     - (l(row, 1) + l(row, 2) + l(row, 3))
      BY DEF Remaining, GamesWon
    <2> HIDE DEF w, l
    <2> QED
      BY <2>1, <2>2
  <1>3. R \in 0..3 /\ S \in 0..3 /\ S <= R
    BY <1>1, <1>2
  <1>4. \A side \in {"home", "away"} :
          /\ Raw(r.games, side) \in Int /\ Raw(s.games, side) \in Int
          /\ Raw(r.games, side) <= Raw(s.games, side)
          /\ Raw(s.games, side) + 10 * S <= Raw(r.games, side) + 10 * R
    BY <1>1, <1>2 DEF Raw
  <1>5. x \in Int /\ y \in Int
    BY SpotIsInt
  <1>6. /\ Adjusted(r, "home") = Raw(r.games, "home") + x
        /\ Adjusted(r, "away") = Raw(r.games, "away") + y
        /\ Adjusted(s, "home") = Raw(s.games, "home") + x
        /\ Adjusted(s, "away") = Raw(s.games, "away") + y
    BY SameSpot DEF Adjusted
  <1> HIDE DEF R, S, x, y
  <1>7. R # 3
    BY DEF PairingWinner, R
  <1>8. /\ OutOfReach(r, "home", "away") <=> Adjusted(r, "home") > Adjusted(r, "away") + R * 10
        /\ OutOfReach(r, "away", "home") <=> Adjusted(r, "away") > Adjusted(r, "home") + R * 10
        /\ OutOfReach(s, "home", "away") <=> Adjusted(s, "home") > Adjusted(s, "away") + S * 10
        /\ OutOfReach(s, "away", "home") <=> Adjusted(s, "away") > Adjusted(s, "home") + S * 10
    BY DEF OutOfReach, R, S
  <1>9. CASE OutOfReach(r, "home", "away")
    <2>1. OutOfReach(s, "home", "away")
      BY <1>9, <1>8, <1>6, <1>5, <1>4, <1>3
    <2> QED
      BY <1>9, <2>1, <1>3, <1>7 DEF PairingWinner, R, S
  <1>10. CASE ~OutOfReach(r, "home", "away") /\ OutOfReach(r, "away", "home")
    <2>1. OutOfReach(s, "away", "home") /\ ~OutOfReach(s, "home", "away")
      BY <1>10, <1>8, <1>6, <1>5, <1>4, <1>3
    <2> QED
      BY <1>10, <2>1, <1>3, <1>7 DEF PairingWinner, R, S
  <1>11. CASE ~OutOfReach(r, "home", "away") /\ ~OutOfReach(r, "away", "home")
    <2>1. R = 0
      BY <1>11 DEF PairingWinner, MoreGames, R
    <2>2. \A n \in 1..3 : s.games[n] = r.games[n]
      <3>1. Decided(r.games[1]) = 1 /\ Decided(r.games[2]) = 1 /\ Decided(r.games[3]) = 1
        BY <2>1, <1>1, <1>2
      <3>2. \A n \in 1..3 : GameWinner(r.games[n]) # "none"
        BY <3>1 DEF Decided, One
      <3> QED
        BY <3>2
    <2>3. s.games = r.games
      BY <2>2, RowGames
    <2>4. Adjusted(s, "home") = Adjusted(r, "home") /\ Adjusted(s, "away") = Adjusted(r, "away") /\ S = R
      BY <2>3, <1>6 DEF S, R
    <2>5. /\ ~OutOfReach(s, "home", "away") /\ ~OutOfReach(s, "away", "home")
          /\ MoreGames(s, "home", "away") <=> MoreGames(r, "home", "away")
          /\ MoreGames(s, "away", "home") <=> MoreGames(r, "away", "home")
      BY <1>11, <1>8, <2>3, <2>4 DEF MoreGames
    <2> QED
      BY <2>3, <2>5, <1>11 DEF PairingWinner
  <1> QED
    BY <1>9, <1>10, <1>11

(***************************************************************************)
(* The specification.                                                      *)
(***************************************************************************)
LEMMA RulesTyped ==
    ASSUME RulesTypeOK, RulesNext \/ UNCHANGED rules
    PROVE  RulesTypeOK'
  BY DEF RulesTypeOK, RulesNext, UpsertRule, UpdateRule, DeleteRule

\* What a save writes is well formed, and one row for a home player's round.
LEMMA ScoredRows ==
    ASSUME SheetInv, NEW entries, SaveRounds(entries)
    PROVE  /\ \A e \in entries : Scored(e) \in Row
           /\ OnceAtHome({Scored(e) : e \in entries})
  <1>1. ASSUME NEW e \in entries
        PROVE  Scored(e) \in Row
    <2>1. e \in Entry
      BY DEF SaveRounds
    <2>2. handicap[e.home] \in Int /\ handicap[e.away] \in Int
      BY <2>1 DEF SheetInv, Entry, Players
    <2>3. \A S : S \subseteq sheet /\ S # {} =>
            (CHOOSE r \in S : TRUE).homeHC \in Int /\ (CHOOSE r \in S : TRUE).awayHC \in Int
      <3> SUFFICES ASSUME NEW S, S \subseteq sheet, S # {}
                   PROVE  (CHOOSE r \in S : TRUE).homeHC \in Int /\ (CHOOSE r \in S : TRUE).awayHC \in Int
        OBVIOUS
      <3>1. (CHOOSE r \in S : TRUE) \in S
        OBVIOUS
      <3> QED
        BY <3>1, RowGames DEF SheetInv
    <2>4. SameHome(e) \subseteq sheet /\ SameAway(e) \subseteq sheet
      BY DEF SameHome, SameAway
    <2>5. HomeHC(e) \in Int
      BY <2>2, <2>3, <2>4 DEF HomeHC
    <2>6. AwayHC(e) \in Int
      <3> DEFINE kept == IF SameHome(e) = {} THEN SameAway(e) ELSE SameHome(e) \cap SameAway(e)
      <3>1. kept \subseteq sheet
        BY <2>4
      <3>2. AwayHC(e) = IF kept = {} THEN handicap[e.away] ELSE (CHOOSE r \in kept : TRUE).awayHC
        BY DEF AwayHC
      <3> HIDE DEF kept
      <3> QED
        BY <3>1, <3>2, <2>2, <2>3
    <2> QED
      BY <2>1, <2>5, <2>6 DEF Scored, Row, Entry
  <1>2. OnceAtHome({Scored(e) : e \in entries})
    <2>1. \A e, f \in entries : e.round = f.round /\ e.home = f.home => e = f
      BY DEF SaveRounds, Acceptable, OnceAtHome
    <2>2. \A e \in entries : Scored(e).round = e.round /\ Scored(e).home = e.home
      BY DEF Scored
    <2> QED
      BY <2>1, <2>2 DEF OnceAtHome
  <1> QED
    BY <1>1, <1>2

LEMMA SheetInvInit ==
    Init => SheetInv
  BY ScoringAssumption DEF Init, SheetInv, RulesInit, RulesTypeOK, OnceAtHome

\* Every action but SaveRounds leaves the sheet alone.
LEMMA OtherActions ==
    ASSUME [Next]_vars, ~\E entries : SaveRounds(entries)
    PROVE  sheet' = sheet
  BY DEF Next, vars, ChangeRules, SubmitResults, ClearResults, ChangeHandicap, CloseWeek, ReopenWeek

LEMMA SheetInvStep ==
    ASSUME SheetInv, [Next]_vars
    PROVE  SheetInv'
  <1>1. RulesTypeOK'
    <2>1. RulesNext \/ UNCHANGED rules
      BY DEF Next, vars, ChangeRules, SaveRounds, SubmitResults, ClearResults, ChangeHandicap,
             CloseWeek, ReopenWeek
    <2> QED
      BY <2>1, RulesTyped DEF SheetInv
  <1>2. (handicap \in [Players -> Int])'
    <2>1. CASE \E p \in Players : \E h \in HandicapsOf[p] : ChangeHandicap(p, h)
      <3>1. PICK p \in Players : \E h \in HandicapsOf[p] : ChangeHandicap(p, h)
        BY <2>1
      <3> PICK h \in HandicapsOf[p] : ChangeHandicap(p, h)
        BY <3>1
      <3>2. h \in Int
        BY ScoringAssumption
      <3> QED
        BY <3>2 DEF ChangeHandicap, SheetInv
    <2>2. CASE ~\E p \in Players : \E h \in HandicapsOf[p] : ChangeHandicap(p, h)
      <3>1. handicap' = handicap
        BY <2>2 DEF Next, vars, ChangeRules, SaveRounds, SubmitResults, ClearResults, CloseWeek, ReopenWeek
      <3> QED
        BY <3>1 DEF SheetInv
    <2> QED
      BY <2>1, <2>2
  <1>3. (sheet \subseteq Row /\ OnceAtHome(sheet))'
    <2>1. CASE \E entries : SaveRounds(entries)
      <3>1. PICK entries : SaveRounds(entries)
        BY <2>1
      <3>2. sheet' = {Scored(e) : e \in entries}
        BY <3>1 DEF SaveRounds
      <3> QED
        BY <3>1, <3>2, ScoredRows DEF OnceAtHome
    <2>2. CASE ~\E entries : SaveRounds(entries)
      BY <2>2, OtherActions DEF SheetInv, OnceAtHome
    <2> QED
      BY <2>1, <2>2
  <1> QED
    BY <1>1, <1>2, <1>3 DEF SheetInv

\* A pairing that was on the sheet is scored again with the handicaps it had.
LEMMA HandicapsKept ==
    ASSUME SheetInv, NEW r \in sheet, NEW e,
           e.round = r.round, e.home = r.home, e.away = r.away
    PROVE  HomeHC(e) = r.homeHC /\ AwayHC(e) = r.awayHC
  <1>1. SameHome(e) = {r}
    BY DEF SheetInv, OnceAtHome, SameHome
  <1>2. r \in SameAway(e)
    BY DEF SameAway
  <1>3. SameHome(e) \cap SameAway(e) = {r}
    BY <1>1, <1>2
  <1>4. (CHOOSE q \in {r} : TRUE) = r
    OBVIOUS
  <1>5. SameHome(e) # {} /\ SameHome(e) \cap SameAway(e) # {}
    BY <1>1, <1>3
  <1>6. HomeHC(e) = r.homeHC
    BY <1>1, <1>4, <1>5 DEF HomeHC
  <1>7. AwayHC(e) = r.awayHC
    BY <1>3, <1>4, <1>5 DEF AwayHC
  <1> QED
    BY <1>6, <1>7

LEMMA SaveDecides ==
    ASSUME SheetInv, NEW entries, SaveRounds(entries), NEW r \in sheet, NEW e \in entries,
           GamesAdded(r, Scored(e)), PairingWinner(r) # "none"
    PROVE  PairingWinner(Scored(e)) = PairingWinner(r)
  <1> DEFINE s == Scored(e)
  <1>1. s \in Row /\ r \in Row
    BY ScoredRows DEF SheetInv
  <1>2. /\ s.round = e.round /\ s.home = e.home /\ s.away = e.away /\ s.games = e.games
        /\ s.homeHC = HomeHC(e) /\ s.awayHC = AwayHC(e)
    BY DEF Scored
  <1>3. r.homeHC = s.homeHC /\ r.awayHC = s.awayHC
    BY <1>2, HandicapsKept DEF GamesAdded
  <1>4. \A n \in 1..3 : ~GameError(s.games[n])
    BY <1>2 DEF SaveRounds, Acceptable, HasError
  <1>5. \A n \in 1..3 : GameWinner(r.games[n]) # "none" => s.games[n] = r.games[n]
    BY DEF GamesAdded
  <1>6. RulesTypeOK
    BY DEF SheetInv
  <1> HIDE DEF s
  <1>7. PairingWinner(s) = PairingWinner(r)
    BY <1>1, <1>3, <1>4, <1>5, <1>6, DecisionKept
  <1> QED
    BY <1>7 DEF s

(***************************************************************************)
(* DecisionsStand for every instance of the model: the winner of a pairing *)
(* is not turned by the games still to play, nor by a player's new rating. *)
(***************************************************************************)
THEOREM DecidedPairingsStand == Spec => DecisionsStand
  <1>1. Init => SheetInv
    BY SheetInvInit
  <1>2. SheetInv /\ [Next]_vars => SheetInv'
    BY SheetInvStep
  <1>3. SheetInv /\ [Next]_vars =>
          [\A r \in sheet, s \in sheet' :
             GamesAdded(r, s) /\ rules' = rules /\ PairingWinner(r) # "none"
                 => PairingWinner(s) = PairingWinner(r)]_vars
    <2> SUFFICES ASSUME SheetInv, [Next]_vars, NEW r \in sheet, NEW s \in sheet',
                        GamesAdded(r, s), PairingWinner(r) # "none"
                 PROVE  PairingWinner(s) = PairingWinner(r)
      OBVIOUS
    <2>1. CASE \E entries : SaveRounds(entries)
      <3>1. PICK entries : SaveRounds(entries)
        BY <2>1
      <3>2. PICK e \in entries : s = Scored(e)
        BY <3>1 DEF SaveRounds
      <3> QED
        BY <3>1, <3>2, SaveDecides
    <2>2. CASE ~\E entries : SaveRounds(entries)
      <3>1. s \in sheet
        BY <2>2, OtherActions
      <3>2. s = r
        BY <3>1 DEF SheetInv, OnceAtHome, GamesAdded
      <3> QED
        BY <3>2
    <2> QED
      BY <2>1, <2>2
  <1> QED
    BY <1>1, <1>2, <1>3, PTL DEF Spec, DecisionsStand

(***************************************************************************)
(* Types.  A sheet has at most one row for a home player and a round, so   *)
(* what the tallies count of it are natural numbers.                       *)
(***************************************************************************)
LEMMA SheetsAreFinite ==
    ASSUME NEW rows, OnceAtHome(rows),
           \A r \in rows : r.round \in Rounds /\ r.home \in HomePlayers
    PROVE  IsFiniteSet(rows)
  <1> DEFINE key == [r \in rows |-> <<r.round, r.home>>]
  <1>1. key \in Injection(rows, Rounds \X HomePlayers)
    BY DEF OnceAtHome, Injection, IsInjective
  <1>2. IsFiniteSet(Rounds \X HomePlayers)
    BY FiniteAssumption, FS_Product
  <1> QED
    BY <1>1, <1>2, FS_Injection

LEMMA GamesWonIsNat ==
    ASSUME NEW games, NEW side
    PROVE  GamesWon(games, side) \in Nat
  BY DEF GamesWon, One

LEMMA TallyIsResult ==
    ASSUME NEW rows, IsFiniteSet(rows), NEW player \in Players, NEW side \in Sides
    PROVE  Tally(rows, player, side) \in Result
  <1> DEFINE mine == {r \in rows : r[side] = player}
             games(winner) == [r \in mine |-> GamesWon(r.games, winner)]
             rounds(winner) == {r \in mine : RoundWinner(rows, r.round) = winner}
  <1>1. IsFiniteSet(mine)
    BY FS_Subset
  <1>2. \A winner : Cardinality(rounds(winner)) \in Nat
    <2> TAKE winner
    <2>1. rounds(winner) \in SUBSET mine
      OBVIOUS
    <2> QED
      BY <1>1, <2>1, FS_Subset, FS_CardinalityType
  <1>3. \A winner : Total(games(winner)) \in Nat
    <2> TAKE winner
    <2>1. DOMAIN games(winner) = mine /\ \A r \in mine : games(winner)[r] \in Nat
      BY GamesWonIsNat
    <2> HIDE DEF games, mine
    <2> QED
      BY <1>1, <2>1, TotalCounts
  <1>4. Tally(rows, player, side) =
          [player |-> player, team |-> IF side = "home" THEN HomeTeam ELSE AwayTeam,
           won |-> Total(games(side)), lost |-> Total(games(Other(side))),
           sets |-> Cardinality(rounds(side)), setsLost |-> Cardinality(rounds(Other(side)))]
    BY DEF Tally
  <1> HIDE DEF games, rounds
  <1>5. (IF side = "home" THEN HomeTeam ELSE AwayTeam) \in Teams
    BY ScoringAssumption
  <1> QED
    BY <1>2, <1>3, <1>4, <1>5 DEF Result

\* What a save writes into match_results.
LEMMA TalliesAreResults ==
    ASSUME NEW rows, IsFiniteSet(rows)
    PROVE  Tallies(rows) \subseteq Result
  <1>1. \A p \in HomePlayers : Tally(rows, p, "home") \in Result
    BY TallyIsResult DEF Players, Sides
  <1>2. \A p \in AwayPlayers : Tally(rows, p, "away") \in Result
    BY TallyIsResult DEF Players, Sides
  <1> QED
    BY <1>1, <1>2 DEF Tallies

(***************************************************************************)
(* The tallies of a sheet give each side the games of the sheet.           *)
(***************************************************************************)
TeamOf(side) == IF side = "home" THEN HomeTeam ELSE AwayTeam
PlayersOf(side) == IF side = "home" THEN HomePlayers ELSE AwayPlayers

LEMMA TallyFields ==
    ASSUME NEW rows, IsFiniteSet(rows), NEW side \in Sides, NEW p \in PlayersOf(side)
    PROVE  LET t == Tally(rows, p, side)
               games(winner) == Total([r \in {q \in rows : q[side] = p} |-> GamesWon(r.games, winner)])
           IN  /\ t \in Result
               /\ t.player = p /\ t.team = TeamOf(side)
               /\ t.won = games(side) /\ t.lost = games(Other(side))
  <1>1. p \in Players
    BY DEF PlayersOf, Players
  <1>2. Tally(rows, p, side) \in Result
    BY <1>1, TallyIsResult
  <1> QED
    BY <1>2 DEF Tally, TeamOf

LEMMA TalliesOfSide ==
    ASSUME NEW rows, NEW side \in Sides
    PROVE  /\ \A t \in Tallies(rows) : t.team = TeamOf(side) =>
                  \E p \in PlayersOf(side) : t = Tally(rows, p, side)
           /\ \A p \in PlayersOf(side) :
                  LET t == Tally(rows, p, side)
                  IN  t.won + t.lost + t.sets + t.setsLost > 0 => t \in Tallies(rows)
           /\ \A t \in Tallies(rows) : t.team \in {HomeTeam, AwayTeam}
  <1>1. /\ \A p \in HomePlayers : Tally(rows, p, "home").team = HomeTeam
        /\ \A p \in AwayPlayers : Tally(rows, p, "away").team = AwayTeam
    BY DEF Tally
  <1>2. \A t \in Tallies(rows) :
            \/ \E p \in HomePlayers : t = Tally(rows, p, "home")
            \/ \E p \in AwayPlayers : t = Tally(rows, p, "away")
    BY DEF Tallies
  <1>3. HomeTeam # AwayTeam
    BY ScoringAssumption
  <1>4. side = "home" \/ side = "away"
    BY DEF Sides
  <1>5. \A t \in Tallies(rows) : t.team = TeamOf(side) =>
                  \E p \in PlayersOf(side) : t = Tally(rows, p, side)
    BY <1>1, <1>2, <1>3, <1>4 DEF TeamOf, PlayersOf
  <1>6. \A p \in PlayersOf(side) :
                  LET t == Tally(rows, p, side)
                  IN  t.won + t.lost + t.sets + t.setsLost > 0 => t \in Tallies(rows)
    BY <1>4 DEF Tallies, PlayersOf
  <1>7. \A t \in Tallies(rows) : t.team \in {HomeTeam, AwayTeam}
    BY <1>1, <1>2
  <1> QED
    BY <1>5, <1>6, <1>7

LEMMA TalliesFinite ==
    ASSUME NEW rows
    PROVE  IsFiniteSet(Tallies(rows))
  <1> DEFINE h == [p \in HomePlayers |-> Tally(rows, p, "home")]
             a == [p \in AwayPlayers |-> Tally(rows, p, "away")]
             H == {h[p] : p \in HomePlayers}
             V == {a[p] : p \in AwayPlayers}
  <1>1. h \in Surjection(HomePlayers, H) /\ a \in Surjection(AwayPlayers, V)
    BY DEF Surjection
  <1>2. Tallies(rows) \in SUBSET (H \cup V)
    BY DEF Tallies
  <1> HIDE DEF h, a, H, V
  <1>3. IsFiniteSet(H) /\ IsFiniteSet(V)
    BY <1>1, FiniteAssumption, FS_Surjection
  <1>4. IsFiniteSet(H \cup V)
    BY <1>3, FS_Union
  <1> QED
    BY <1>2, <1>4, FS_Subset

LEMMA TalliesShowSheet ==
    ASSUME NEW rows, IsFiniteSet(rows), rows \subseteq Row,
           NEW side \in Sides, NEW winner \in Sides
    PROVE  Total([t \in {q \in Tallies(rows) : q.team = TeamOf(side)} |->
                    IF winner = side THEN t.won ELSE t.lost])
             = Total([r \in rows |-> GamesWon(r.games, winner)])
  <1> DEFINE S == {q \in Tallies(rows) : q.team = TeamOf(side)}
             F == [t \in S |-> IF winner = side THEN t.won ELSE t.lost]
             f == [r \in rows |-> GamesWon(r.games, winner)]
             key == [r \in rows |-> Tally(rows, r[side], side)]
  <1>1. IsFiniteSet(S)
    <2>1. S \in SUBSET Tallies(rows)
      OBVIOUS
    <2> QED
      BY <2>1, TalliesFinite, FS_Subset
  <1>2. f \in [rows -> Nat]
    BY GamesWonIsNat
  <1>3. winner = side \/ winner = Other(side)
    BY DEF Sides, Other
  <1>4. winner = side <=> winner # Other(side)
    BY DEF Sides, Other
  <1>5. ASSUME NEW p \in PlayersOf(side)
        PROVE  /\ Tally(rows, p, side) \in Result
               /\ Tally(rows, p, side).player = p
               /\ Tally(rows, p, side).team = TeamOf(side)
               /\ (IF winner = side THEN Tally(rows, p, side).won ELSE Tally(rows, p, side).lost)
                    = Total([r \in {q \in rows : q[side] = p} |-> GamesWon(r.games, winner)])
    <2>1. LET t == Tally(rows, p, side)
              games(w) == Total([r \in {q \in rows : q[side] = p} |-> GamesWon(r.games, w)])
          IN  /\ t \in Result
              /\ t.player = p /\ t.team = TeamOf(side)
              /\ t.won = games(side) /\ t.lost = games(Other(side))
      BY TallyFields
    <2>2. CASE winner = side
      BY <2>1, <2>2
    <2>3. CASE winner # side
      <3>1. winner = Other(side)
        BY <2>3, <1>3
      <3> QED
        BY <2>1, <2>3, <3>1
    <2> QED
      BY <2>2, <2>3
  <1>6. \A r \in rows : r[side] \in PlayersOf(side)
    BY DEF Row, Sides, PlayersOf
  <1>7. \A r \in rows : key[r].player = r[side] /\ key[r].team = TeamOf(side)
    BY <1>5, <1>6
  <1>8. ASSUME NEW t \in S
        PROVE  \E p \in PlayersOf(side) :
                   t = Tally(rows, p, side) /\ {b \in rows : key[b] = t} = {q \in rows : q[side] = p}
    <2>1. PICK p \in PlayersOf(side) : t = Tally(rows, p, side)
      BY TalliesOfSide
    <2>2. \A b \in rows : key[b] = t <=> b[side] = p
      BY <1>5, <1>7, <2>1
    <2> QED
      BY <2>1, <2>2
  <1>9. \A t \in S : F[t] = Total([a \in {b \in rows : key[b] = t} |-> f[a]])
    <2> SUFFICES ASSUME NEW t \in S
                 PROVE  F[t] = Total([a \in {b \in rows : key[b] = t} |-> f[a]])
      OBVIOUS
    <2>1. PICK p \in PlayersOf(side) :
              t = Tally(rows, p, side) /\ {b \in rows : key[b] = t} = {q \in rows : q[side] = p}
      BY <1>8
    <2>2. F[t] = Total([r \in {q \in rows : q[side] = p} |-> GamesWon(r.games, winner)])
      BY <2>1, <1>5
    <2>3. [r \in {q \in rows : q[side] = p} |-> GamesWon(r.games, winner)]
            = [a \in {b \in rows : key[b] = t} |-> f[a]]
      BY <2>1
    <2> QED
      BY <2>2, <2>3
  <1>10. F \in [S -> Nat]
    <2> SUFFICES ASSUME NEW t \in S
                 PROVE  (IF winner = side THEN t.won ELSE t.lost) \in Nat
      OBVIOUS
    <2>1. t \in Result
      BY TalliesAreResults
    <2> QED
      BY <2>1 DEF Result
  <1>11. ASSUME NEW r \in rows, f[r] # 0
         PROVE  key[r] \in S
    <2> DEFINE p == r[side]
               t == Tally(rows, p, side)
               mine == [q \in {b \in rows : b[side] = p} |-> GamesWon(q.games, winner)]
    <2>1. p \in PlayersOf(side) /\ t \in Result /\ t.team = TeamOf(side)
      BY <1>5, <1>6
    <2>2. Total(mine) = IF winner = side THEN t.won ELSE t.lost
      BY <1>5, <2>1
    <2>3. IsFiniteSet(DOMAIN mine) /\ \A q \in DOMAIN mine : mine[q] \in Nat
      <3>1. {b \in rows : b[side] = p} \in SUBSET rows
        OBVIOUS
      <3> QED
        BY <3>1, FS_Subset, GamesWonIsNat
    <2>4. r \in DOMAIN mine /\ mine[r] = f[r]
      OBVIOUS
    <2> HIDE DEF mine
    <2>5. f[r] <= Total(mine) /\ Total(mine) \in Nat
      BY <2>3, <2>4, TotalAtLeast, TotalCounts
    <2>6. f[r] \in Nat /\ f[r] > 0
      BY <1>2, <1>11
    <2> HIDE DEF t, f
    <2>7. t.won \in Nat /\ t.lost \in Nat /\ t.sets \in Nat /\ t.setsLost \in Nat
      BY <2>1 DEF Result
    <2>8. t.won > 0 \/ t.lost > 0
      BY <2>2, <2>5, <2>6, <2>7
    <2>9. t.won + t.lost + t.sets + t.setsLost > 0
      BY <2>7, <2>8
    <2>10. t \in Tallies(rows)
      BY <2>1, <2>9, TalliesOfSide DEF t
    <2> QED
      BY <2>1, <2>10 DEF t
  <1> HIDE DEF S, F, f, key
  <1>12. DOMAIN key = rows
    BY DEF key
  <1>13. Total(F) = Total(f)
    BY <1>1, <1>2, <1>9, <1>10, <1>11, <1>12, TotalByGroups
  <1> QED
    BY <1>13 DEF S, F, f

LEMMA SavedRows ==
    ASSUME SheetInv, NEW entries, SaveRounds(entries)
    PROVE  ~HasError(sheet') /\ results' \subseteq Result
  <1>1. sheet' = {Scored(e) : e \in entries} /\ results' = Tallies(sheet')
    BY DEF SaveRounds
  <1>2. \A r \in sheet' : r \in Row
    BY <1>1, ScoredRows
  <1>3. OnceAtHome(sheet')
    BY <1>1, ScoredRows
  <1>4. ~HasError(sheet')
    <2>1. \A e \in entries, n \in 1..3 : ~GameError(e.games[n])
      BY DEF SaveRounds, Acceptable, HasError
    <2>2. \A e \in entries : Scored(e).games = e.games
      BY DEF Scored
    <2> QED
      BY <1>1, <2>1, <2>2 DEF HasError
  <1>5. IsFiniteSet(sheet')
    <2>1. \A r \in sheet' : r.round \in Rounds /\ r.home \in HomePlayers
      BY <1>2 DEF Row
    <2> QED
      BY <1>3, <2>1, SheetsAreFinite
  <1>6. results' \subseteq Result
    BY <1>1, <1>5, TalliesAreResults
  <1> QED
    BY <1>4, <1>6

LEMMA TypeStep ==
    ASSUME TypeOK, [Next]_vars
    PROVE  TypeOK'
  <1>1. SheetInv
    BY DEF TypeOK, SheetInv
  <1>2. SheetInv'
    BY <1>1, SheetInvStep
  <1>3. (~HasError(sheet) /\ results \subseteq Result)'
    <2>1. CASE \E entries : SaveRounds(entries)
      <3>1. PICK entries : SaveRounds(entries)
        BY <2>1
      <3>2. ~HasError(sheet') /\ results' \subseteq Result
        BY <1>1, <3>1, SavedRows
      <3> QED
        BY <3>2 DEF HasError
    <2>2. CASE ~\E entries : SaveRounds(entries)
      <3>1. sheet' = sheet
        BY <2>2, OtherActions
      <3>2. results' \subseteq Result
        BY <2>2, ScoringAssumption DEF TypeOK, Next, vars, ChangeRules, SubmitResults, ClearResults,
           ChangeHandicap, CloseWeek, ReopenWeek
      <3> QED
        BY <3>1, <3>2 DEF TypeOK, HasError
    <2> QED
      BY <2>1, <2>2
  <1>4. ({typed, completed, weekClosed} \subseteq BOOLEAN)'
    BY DEF TypeOK, Next, vars, ChangeRules, SaveRounds, SubmitResults, ClearResults, ChangeHandicap,
       CloseWeek, ReopenWeek
  <1> QED
    BY <1>2, <1>3, <1>4 DEF TypeOK, SheetInv

(***************************************************************************)
(* Types for every instance; with them, that a saved sheet has one row for *)
(* a home player's round and no impossible game, and that what the tallies *)
(* write are rows of match_results.                                        *)
(***************************************************************************)
THEOREM TypeCorrect == Spec => []TypeOK
  <1>1. Init => TypeOK
    BY SheetInvInit DEF Init, SheetInv, TypeOK, HasError
  <1>2. TypeOK /\ [Next]_vars => TypeOK'
    BY TypeStep
  <1> QED
    BY <1>1, <1>2, PTL DEF Spec
(***************************************************************************)
(* The results of a match that is completed, and was not submitted by      *)
(* hand, are those of its sheet; and a week is closed over a winner.       *)
(***************************************************************************)
RowsOf(side) == {r \in results : r.team = TeamOf(side)}

SheetCounted ==
    /\ \A r \in results : r.team \in {HomeTeam, AwayTeam}
    /\ \A side \in Sides :
          /\ Total([r \in RowsOf(side) |-> r.won]) = GamesOnSheet(side)
          /\ Total([r \in RowsOf(side) |-> r.lost]) = GamesOnSheet(Other(side))

PlayInv ==
    /\ IsFiniteSet(results)
    /\ completed /\ ~typed => SheetCounted
    /\ weekClosed => AnyWinner(sheet)

LEMMA SavedSheetCounts ==
    ASSUME SheetInv, NEW entries, SaveRounds(entries)
    PROVE  IsFiniteSet(results') /\ SheetCounted'
  <1>1. sheet' = {Scored(e) : e \in entries} /\ results' = Tallies(sheet')
    BY DEF SaveRounds
  <1>2. sheet' \subseteq Row /\ OnceAtHome(sheet')
    BY <1>1, ScoredRows
  <1>3. IsFiniteSet(sheet')
    <2>1. \A r \in sheet' : r.round \in Rounds /\ r.home \in HomePlayers
      BY <1>2 DEF Row
    <2> QED
      BY <1>2, <2>1, SheetsAreFinite
  <1>4. IsFiniteSet(results')
    BY <1>1, TalliesFinite
  <1>5. \A r \in results' : r.team \in {HomeTeam, AwayTeam}
    <2>1. "home" \in Sides
      BY DEF Sides
    <2> QED
      BY <1>1, <2>1, TalliesOfSide
  <1>6. ASSUME NEW side \in Sides
        PROVE  /\ Total([r \in {q \in results' : q.team = TeamOf(side)} |-> r.won])
                    = Total([r \in sheet' |-> GamesWon(r.games, side)])
               /\ Total([r \in {q \in results' : q.team = TeamOf(side)} |-> r.lost])
                    = Total([r \in sheet' |-> GamesWon(r.games, Other(side))])
    <2> DEFINE S == {q \in Tallies(sheet') : q.team = TeamOf(side)}
    <2>1. Other(side) \in Sides /\ Other(side) # side
      BY DEF Other, Sides
    <2>2. Total([t \in S |-> IF side = side THEN t.won ELSE t.lost])
             = Total([r \in sheet' |-> GamesWon(r.games, side)])
      BY <1>2, <1>3, TalliesShowSheet
    <2>3. Total([t \in S |-> IF Other(side) = side THEN t.won ELSE t.lost])
             = Total([r \in sheet' |-> GamesWon(r.games, Other(side))])
      BY <1>2, <1>3, <2>1, TalliesShowSheet
    <2>4. /\ [t \in S |-> IF side = side THEN t.won ELSE t.lost] = [r \in S |-> r.won]
          /\ [t \in S |-> IF Other(side) = side THEN t.won ELSE t.lost] = [r \in S |-> r.lost]
      BY <2>1
    <2> QED
      BY <1>1, <2>2, <2>3, <2>4
  <1>7. SheetCounted'
    BY <1>5, <1>6 DEF SheetCounted, RowsOf, GamesOnSheet
  <1> QED
    BY <1>4, <1>7

LEMMA PlayInvStep ==
    ASSUME TypeOK, PlayInv, [Next]_vars
    PROVE  PlayInv'
  <1>1. SheetInv
    BY DEF TypeOK, SheetInv
  <1>2. CASE \E entries : SaveRounds(entries)
    <2>1. PICK entries : SaveRounds(entries)
      BY <1>2
    <2>2. IsFiniteSet(results') /\ SheetCounted'
      BY <1>1, <2>1, SavedSheetCounts
    <2>3. ~weekClosed'
      BY <2>1 DEF SaveRounds
    <2> QED
      BY <2>2, <2>3 DEF PlayInv
  <1>3. CASE ~\E entries : SaveRounds(entries)
    <2>1. sheet' = sheet
      BY <1>3, OtherActions
    <2>2. CASE \E rs \in HandResults : SubmitResults(rs)
      <3>1. IsFiniteSet(results') /\ typed' /\ ~weekClosed'
        BY <2>2, FiniteAssumption DEF SubmitResults
      <3> QED
        BY <3>1 DEF PlayInv
    <2>3. CASE ClearResults
      <3>1. IsFiniteSet(results') /\ ~completed' /\ ~weekClosed'
        BY <2>3, FS_EmptySet DEF ClearResults
      <3> QED
        BY <3>1 DEF PlayInv
    <2>4. CASE ~(\E rs \in HandResults : SubmitResults(rs)) /\ ~ClearResults
      <3>1. results' = results /\ typed' = typed /\ completed' = completed
        BY <1>3, <2>4 DEF Next, vars, ChangeRules, ChangeHandicap, CloseWeek, ReopenWeek
      <3>2. weekClosed' => weekClosed \/ AnyWinner(sheet)
        BY <1>3, <2>4 DEF Next, vars, ChangeRules, ChangeHandicap, CloseWeek, WeekValid, ReopenWeek
      <3>3. SheetCounted => SheetCounted'
        BY <2>1, <3>1 DEF SheetCounted, RowsOf, GamesOnSheet
      <3>4. AnyWinner(sheet)' <=> AnyWinner(sheet)
        BY <2>1 DEF AnyWinner
      <3> QED
        BY <3>1, <3>2, <3>3, <3>4 DEF PlayInv
    <2> QED
      BY <2>2, <2>3, <2>4
  <1> QED
    BY <1>2, <1>3

(***************************************************************************)
(* The standings of any set of matches.                                    *)
(***************************************************************************)
AreMatches(ms) ==
    /\ IsFiniteSet(ms)
    /\ \A m \in ms : /\ m.home \in Teams /\ m.away \in Teams
                     /\ m.results \subseteq Result /\ IsFiniteSet(m.results)

LEMMA WonIsNat ==
    ASSUME NEW ms, AreMatches(ms), NEW m \in ms, NEW side
    PROVE  Won(m, side) \in Nat
  <1> DEFINE f == [r \in ResultsOf(m, side) |-> r.won]
  <1>1. ResultsOf(m, side) \in SUBSET m.results
    BY DEF ResultsOf
  <1>2. IsFiniteSet(DOMAIN f)
    BY <1>1, FS_Subset DEF AreMatches
  <1>3. \A r \in DOMAIN f : f[r] \in Nat
    BY <1>1 DEF AreMatches, Result
  <1>4. Won(m, side) = Total(f)
    BY DEF Won
  <1> HIDE DEF f
  <1> QED
    BY <1>2, <1>3, <1>4, TotalCounts

LEMMA GamesOfIsNat ==
    ASSUME NEW ms, AreMatches(ms), NEW m \in ms, NEW side, NEW field \in {"won", "lost"}
    PROVE  GamesOf(m, side, field) \in Nat
  <1> DEFINE S == {q \in m.results : q.team = m.home <=> side = "home"}
             f == [r \in S |-> r[field]]
  <1>1. S \in SUBSET m.results
    OBVIOUS
  <1>2. IsFiniteSet(DOMAIN f)
    BY <1>1, FS_Subset DEF AreMatches
  <1>3. \A r \in DOMAIN f : f[r] \in Nat
    BY <1>1 DEF AreMatches, Result
  <1>4. GamesOf(m, side, field) = Total(f)
    BY DEF GamesOf
  <1> HIDE DEF f
  <1> QED
    BY <1>2, <1>3, <1>4, TotalCounts

LEMMA OutcomesShareTwo ==
    ASSUME NEW ms, AreMatches(ms), NEW m \in ms
    PROVE  /\ \A side \in Sides : MatchOutcome(m, side) \in Nat
           /\ MatchOutcome(m, "home") + MatchOutcome(m, "away") = 2
           /\ \A side \in Sides : MatchOutcome(m, side) = 2 <=> MatchOutcome(m, Other(side)) = 0
  <1>1. Won(m, "home") \in Nat /\ Won(m, "away") \in Nat
    BY WonIsNat
  <1> QED
    BY <1>1 DEF MatchOutcome, Other, Sides

\* A team's points and games are sums over the seats it had.
LEMMA SeatsFinite ==
    ASSUME NEW ms, AreMatches(ms)
    PROVE  /\ IsFiniteSet(ms \X Sides)
           /\ \A t : IsFiniteSet(Played(ms, t)) /\ Played(ms, t) \subseteq ms \X Sides
           /\ \A x \in ms \X Sides : x[1] \in ms /\ x[2] \in Sides /\ x[1][x[2]] \in Teams
  <1>1. IsFiniteSet({"home"}) /\ IsFiniteSet({"away"})
    BY FS_Singleton
  <1>2. IsFiniteSet(Sides)
    <2>1. Sides = {"home"} \cup {"away"}
      BY DEF Sides
    <2> QED
      BY <1>1, <2>1, FS_Union
  <1>3. IsFiniteSet(ms \X Sides)
    BY <1>2, FS_Product DEF AreMatches
  <1>4. \A t : IsFiniteSet(Played(ms, t)) /\ Played(ms, t) \subseteq ms \X Sides
    <2> TAKE t
    <2>1. Played(ms, t) \in SUBSET (ms \X Sides)
      BY DEF Played
    <2> QED
      BY <1>3, <2>1, FS_Subset
  <1>5. \A x \in ms \X Sides : x[1] \in ms /\ x[2] \in Sides /\ x[1][x[2]] \in Teams
    BY DEF AreMatches, Sides
  <1> QED
    BY <1>3, <1>4, <1>5

LEMMA PointsOfMatches ==
    ASSUME NEW ms, AreMatches(ms)
    PROVE  Total([t \in Teams |-> Total([x \in Played(ms, t) |-> MatchOutcome(x[1], x[2])])])
             = 2 * Cardinality(ms)
  <1> DEFINE A == ms \X Sides
             f == [x \in A |-> MatchOutcome(x[1], x[2])]
             byTeam == [x \in A |-> x[1][x[2]]]
             byMatch == [x \in A |-> x[1]]
             F == [t \in Teams |-> Total([x \in Played(ms, t) |-> MatchOutcome(x[1], x[2])])]
             G == [m \in ms |-> 2]
  <1>1. IsFiniteSet(A) /\ IsFiniteSet(Teams) /\ IsFiniteSet(ms)
    BY SeatsFinite, FiniteAssumption DEF AreMatches
  <1>2. f \in [A -> Nat]
    <2> SUFFICES ASSUME NEW x \in A
                 PROVE  MatchOutcome(x[1], x[2]) \in Nat
      OBVIOUS
    <2> QED
      BY SeatsFinite, OutcomesShareTwo
  <1>3. DOMAIN byTeam = A /\ \A x \in A : byTeam[x] \in Teams
    BY SeatsFinite
  <1>4. \A t \in Teams : F[t] = Total([x \in {y \in A : byTeam[y] = t} |-> f[x]])
    <2> SUFFICES ASSUME NEW t \in Teams
                 PROVE  F[t] = Total([x \in {y \in A : byTeam[y] = t} |-> f[x]])
      OBVIOUS
    <2>1. Played(ms, t) = {y \in A : byTeam[y] = t}
      BY DEF Played
    <2>2. [x \in Played(ms, t) |-> MatchOutcome(x[1], x[2])] = [x \in {y \in A : byTeam[y] = t} |-> f[x]]
      BY <2>1
    <2> QED
      BY <2>2
  <1>5. F \in [Teams -> Nat]
    <2> SUFFICES ASSUME NEW t \in Teams
                 PROVE  F[t] \in Nat
      OBVIOUS
    <2> DEFINE g == [x \in {y \in A : byTeam[y] = t} |-> f[x]]
    <2>1. F[t] = Total(g)
      BY <1>4
    <2>2. IsFiniteSet(DOMAIN g) /\ \A x \in DOMAIN g : g[x] \in Nat
      <3>1. {y \in A : byTeam[y] = t} \in SUBSET A
        OBVIOUS
      <3> QED
        BY <1>1, <1>2, <3>1, FS_Subset
    <2> HIDE DEF g, F
    <2> QED
      BY <2>1, <2>2, TotalCounts
  <1>6. G \in [ms -> Nat] /\ DOMAIN byMatch = A /\ \A x \in A : byMatch[x] \in ms
    OBVIOUS
  <1>7. \A m \in ms : G[m] = Total([x \in {y \in A : byMatch[y] = m} |-> f[x]])
    <2> SUFFICES ASSUME NEW m \in ms
                 PROVE  2 = Total([x \in {y \in A : byMatch[y] = m} |-> f[x]])
      OBVIOUS
    <2> DEFINE B == {y \in A : byMatch[y] = m}
               g == [x \in B |-> f[x]]
               h == [x \in B \ {<<m, "home">>} |-> g[x]]
               k == [x \in {} |-> h[x]]
    <2>1. B = {<<m, "home">>, <<m, "away">>}
      BY DEF Sides
    <2>2. B \in SUBSET A
      OBVIOUS
    <2>3. IsFiniteSet(B) /\ IsFiniteSet(B \ {<<m, "home">>})
      BY <1>1, <2>2, FS_Subset
    <2>4. <<m, "home">> # <<m, "away">>
      OBVIOUS
    <2>5. g[<<m, "home">>] = MatchOutcome(m, "home") /\ g[<<m, "away">>] = MatchOutcome(m, "away")
      BY <2>1, <2>2
    <2>6. DOMAIN g = B /\ \A x \in B : g[x] \in Nat
      BY <1>2
    <2> HIDE DEF g, B
    <2>7. Total(g) = g[<<m, "home">>] + Total(h)
      BY <2>1, <2>3, <2>6, TotalSplit
    <2>8. DOMAIN h = {<<m, "away">>} /\ h[<<m, "away">>] = g[<<m, "away">>]
      BY <2>1, <2>4
    <2>9. IsFiniteSet(DOMAIN h) /\ \A x \in DOMAIN h : h[x] \in Nat
      BY <2>1, <2>3, <2>6, <2>8
    <2>10. (DOMAIN h) \ {<<m, "away">>} = {}
      BY <2>8
    <2> HIDE DEF h
    <2>11. Total(h) = h[<<m, "away">>] + Total(k)
      BY <2>8, <2>9, <2>10, TotalSplit
    <2>12. Total(k) = 0
      <3>1. DOMAIN k = {} /\ IsFiniteSet(DOMAIN k) /\ \A x \in DOMAIN k : k[x] \in Nat
        BY FS_EmptySet
      <3> HIDE DEF k
      <3>2. Units(k) = {}
        BY <3>1 DEF Units
      <3> QED
        BY <3>1, <3>2, TotalCounts, FS_EmptySet
    <2> HIDE DEF k
    <2>13. MatchOutcome(m, "home") + MatchOutcome(m, "away") = 2 /\ MatchOutcome(m, "home") \in Nat
           /\ MatchOutcome(m, "away") \in Nat
      BY OutcomesShareTwo DEF Sides
    <2>14. Total(g) = 2
      BY <2>5, <2>7, <2>8, <2>11, <2>12, <2>13
    <2> QED
      BY <2>14 DEF g, B
  <1>8. Total(G) = 2 * Cardinality(ms)
    BY <1>1, TotalOfEqual
  <1> HIDE DEF A, f, byTeam, byMatch, F, G
  <1>9. Total(F) = Total(f)
    BY <1>1, <1>2, <1>3, <1>4, <1>5, TotalByGroups
  <1>10. Total(G) = Total(f)
    BY <1>1, <1>2, <1>6, <1>7, TotalByGroups
  <1>11. Total(F) = 2 * Cardinality(ms)
    BY <1>8, <1>9, <1>10
  <1> QED
    BY <1>11 DEF F

LEMMA OutcomesOfMatches ==
    ASSUME NEW ms, AreMatches(ms), NEW n
    PROVE  Total([t \in Teams |-> Cardinality({x \in Played(ms, t) : MatchOutcome(x[1], x[2]) = n})])
             = Cardinality({x \in ms \X Sides : MatchOutcome(x[1], x[2]) = n})
  <1> DEFINE A == {x \in ms \X Sides : MatchOutcome(x[1], x[2]) = n}
             f == [x \in A |-> 1]
             team == [x \in A |-> x[1][x[2]]]
             F == [t \in Teams |-> Cardinality({x \in Played(ms, t) : MatchOutcome(x[1], x[2]) = n})]
  <1>1. IsFiniteSet(A) /\ IsFiniteSet(Teams)
    <2>1. A \in SUBSET (ms \X Sides)
      OBVIOUS
    <2> QED
      BY <2>1, SeatsFinite, FiniteAssumption, FS_Subset
  <1>2. f \in [A -> Nat] /\ DOMAIN team = A
    OBVIOUS
  <1>3. \A x \in A : team[x] \in Teams
    BY SeatsFinite
  <1>4. ASSUME NEW t \in Teams
        PROVE  F[t] \in Nat /\ F[t] = Total([x \in {y \in A : team[y] = t} |-> f[x]])
    <2> DEFINE B == {y \in A : team[y] = t}
    <2>1. B = {x \in Played(ms, t) : MatchOutcome(x[1], x[2]) = n}
      BY DEF Played
    <2>2. F[t] = Cardinality(B)
      BY <2>1
    <2>3. [x \in B |-> f[x]] = [x \in B |-> 1]
      OBVIOUS
    <2>4. B \in SUBSET A
      OBVIOUS
    <2> HIDE DEF A, B, F
    <2>5. IsFiniteSet(B)
      BY <1>1, <2>4, FS_Subset
    <2>6. Cardinality(B) \in Nat
      BY <2>5, FS_CardinalityType
    <2>7. Total([x \in B |-> 1]) = 1 * Cardinality(B)
      BY <2>5, TotalOfEqual
    <2>8. F[t] \in Nat /\ F[t] = Total([x \in B |-> f[x]])
      BY <2>2, <2>3, <2>6, <2>7
    <2> QED
      BY <2>8 DEF B
  <1>5. F \in [Teams -> Nat]
    <2>1. DOMAIN F = Teams /\ F = [t \in Teams |-> F[t]]
      OBVIOUS
    <2> HIDE DEF F
    <2> QED
      BY <1>4, <2>1
  <1>6. Total(f) = 1 * Cardinality(A) /\ Cardinality(A) \in Nat
    <2> HIDE DEF A
    <2> QED
      BY <1>1, TotalOfEqual, FS_CardinalityType
  <1> HIDE DEF A, f, team, F
  <1>7. Total(F) = Total(f)
    BY <1>1, <1>2, <1>3, <1>4, <1>5, TotalByGroups
  <1>8. Total(F) = Cardinality(A)
    BY <1>6, <1>7
  <1> QED
    BY <1>8 DEF F, A

\* For every side that won a match, the other one lost it.
LEMMA WinsAreLosses ==
    ASSUME NEW ms, AreMatches(ms)
    PROVE  Cardinality({x \in ms \X Sides : MatchOutcome(x[1], x[2]) = 2})
             = Cardinality({x \in ms \X Sides : MatchOutcome(x[1], x[2]) = 0})
  <1> DEFINE W == {x \in ms \X Sides : MatchOutcome(x[1], x[2]) = 2}
             L == {x \in ms \X Sides : MatchOutcome(x[1], x[2]) = 0}
             turn == [x \in W |-> <<x[1], Other(x[2])>>]
  <1>1. IsFiniteSet(W)
    <2>1. W \in SUBSET (ms \X Sides)
      OBVIOUS
    <2> QED
      BY <2>1, SeatsFinite, FS_Subset
  <1>2. \A side \in Sides : Other(side) \in Sides /\ Other(Other(side)) = side
    BY DEF Other, Sides
  <1>3. \A x \in W : turn[x] \in L
    <2> SUFFICES ASSUME NEW x \in W
                 PROVE  <<x[1], Other(x[2])>> \in L
      OBVIOUS
    <2>1. x[1] \in ms /\ x[2] \in Sides
      OBVIOUS
    <2>2. MatchOutcome(x[1], Other(x[2])) = 0
      BY <2>1, OutcomesShareTwo
    <2> QED
      BY <1>2, <2>1, <2>2
  <1>4. \A x, y \in W : turn[x] = turn[y] => x = y
    <2> SUFFICES ASSUME NEW x \in W, NEW y \in W, turn[x] = turn[y]
                 PROVE  x = y
      OBVIOUS
    <2>1. x = <<x[1], x[2]>> /\ y = <<y[1], y[2]>> /\ x[2] \in Sides /\ y[2] \in Sides
      OBVIOUS
    <2>2. x[1] = y[1] /\ Other(x[2]) = Other(y[2])
      OBVIOUS
    <2>3. x[2] = y[2]
      BY <1>2, <2>1, <2>2
    <2> QED
      BY <2>1, <2>2, <2>3
  <1>5. \A y \in L : \E x \in W : turn[x] = y
    <2> SUFFICES ASSUME NEW y \in L
                 PROVE  \E x \in W : turn[x] = y
      OBVIOUS
    <2>1. y = <<y[1], y[2]>> /\ y[1] \in ms /\ y[2] \in Sides /\ MatchOutcome(y[1], y[2]) = 0
      OBVIOUS
    <2>2. PICK side \in Sides : side = Other(y[2]) /\ Other(side) = y[2]
      BY <1>2, <2>1
    <2>3. MatchOutcome(y[1], side) = 2
      BY <2>1, <2>2, OutcomesShareTwo
    <2>4. <<y[1], side>> \in W
      BY <2>1, <2>3
    <2>5. turn[<<y[1], side>>] = y
      BY <2>1, <2>2, <2>4
    <2> QED
      BY <2>4, <2>5
  <1>6. turn \in Bijection(W, L)
    <2>1. turn \in [W -> L]
      BY <1>3
    <2> HIDE DEF turn, W, L
    <2> QED
      BY <1>4, <1>5, <2>1 DEF Bijection, Injection, Surjection, IsInjective
  <1> HIDE DEF turn, W, L
  <1>7. Cardinality(W) = Cardinality(L)
    BY <1>1, <1>6, FS_Bijection DEF ExistsBijection
  <1> QED
    BY <1>7 DEF W, L

(***************************************************************************)
(* This match among the others.                                            *)
(***************************************************************************)
LEMMA CountedAreMatches ==
    ASSUME TypeOK, PlayInv
    PROVE  AreMatches(Counted) /\ AreMatches(OtherMatches) /\ ThisMatch \notin OtherMatches
  <1>1. AreMatches(OtherMatches)
    BY ScoringAssumption, FiniteAssumption DEF AreMatches
  <1>2. ThisMatch \notin OtherMatches
    BY ScoringAssumption DEF ThisMatch
  <1>3. /\ ThisMatch.home \in Teams /\ ThisMatch.away \in Teams
        /\ ThisMatch.results \subseteq Result /\ IsFiniteSet(ThisMatch.results)
    BY ScoringAssumption DEF ThisMatch, TypeOK, PlayInv
  <1>4. IsFiniteSet(OtherMatches \cup {ThisMatch})
    BY FiniteAssumption, FS_AddElement
  <1>5. AreMatches(Counted)
    <2>1. Counted = OtherMatches \/ Counted = OtherMatches \cup {ThisMatch}
      BY DEF Counted
    <2> QED
      BY <1>1, <1>3, <1>4, <2>1 DEF AreMatches
  <1> QED
    BY <1>1, <1>2, <1>5

\* A side of this match adds its games to those of its team's other matches.
LEMMA GamesWithThisMatch ==
    ASSUME TypeOK, PlayInv, completed, weekClosed, NEW side \in Sides, NEW field \in {"won", "lost"}
    PROVE  /\ GamesIn(Played(Counted, TeamOf(side)), field)
                = GamesIn(Played(OtherMatches, TeamOf(side)), field) + GamesOf(ThisMatch, side, field)
           /\ GamesIn(Played(OtherMatches, TeamOf(side)), field) \in Nat
           /\ GamesOf(ThisMatch, side, field) \in Nat
  <1> DEFINE P == Played(Counted, TeamOf(side))
             Q == Played(OtherMatches, TeamOf(side))
             x == <<ThisMatch, side>>
             f == [y \in P |-> GamesOf(y[1], y[2], field)]
             g == [y \in Q |-> GamesOf(y[1], y[2], field)]
  <1>1. AreMatches(Counted) /\ AreMatches(OtherMatches) /\ ThisMatch \notin OtherMatches
    BY CountedAreMatches
  <1>2. Counted = OtherMatches \cup {ThisMatch}
    BY DEF Counted
  <1>3. \A s \in Sides : ThisMatch[s] = TeamOf(side) <=> s = side
    <2>1. HomeTeam # AwayTeam
      BY ScoringAssumption
    <2> QED
      BY <2>1 DEF ThisMatch, TeamOf, Sides
  <1>4. x \in P /\ P \ {x} = Q
    <2> DEFINE T == TeamOf(side)
    <2>1. \A m \in Counted, s \in Sides : m[s] = T =>
              m \in OtherMatches \/ <<m, s>> = x
      BY <1>2, <1>3
    <2>2. x \in P
      BY <1>2, <1>3 DEF Played
    <2>3. x \notin Q
      BY <1>1 DEF Played
    <2>4. Q \subseteq P
      BY <1>2 DEF Played
    <2>5. P \subseteq Q \cup {x}
      <3> SUFFICES ASSUME NEW y \in P, y # x
                   PROVE  y \in Q
        OBVIOUS
      <3>1. y = <<y[1], y[2]>> /\ y[1] \in Counted /\ y[2] \in Sides /\ y[1][y[2]] = T
        BY DEF Played
      <3>2. y[1] \in OtherMatches
        BY <2>1, <3>1
      <3> QED
        BY <3>1, <3>2 DEF Played
    <2> HIDE DEF P, Q, x
    <2> QED
      BY <2>2, <2>3, <2>4, <2>5
  <1>5. IsFiniteSet(P) /\ IsFiniteSet(Q)
    BY <1>1, SeatsFinite
  <1>6. \A y \in P : f[y] \in Nat
    <2> SUFFICES ASSUME NEW y \in P
                 PROVE  GamesOf(y[1], y[2], field) \in Nat
      OBVIOUS
    <2>1. y[1] \in Counted
      BY DEF Played
    <2> QED
      BY <1>1, <2>1, GamesOfIsNat
  <1>7. DOMAIN f = P /\ f[x] = GamesOf(ThisMatch, side, field)
    BY <1>4
  <1>8. g = [y \in (DOMAIN f) \ {x} |-> f[y]]
    BY <1>4
  <1>9. \A y \in Q : g[y] \in Nat
    BY <1>4, <1>6, <1>8
  <1>10. DOMAIN g = Q
    OBVIOUS
  <1>11. Total(f) = GamesIn(P, field) /\ Total(g) = GamesIn(Q, field)
    BY DEF GamesIn
  <1> HIDE DEF P, Q, x, f, g
  <1>12. Total(f) = f[x] + Total([y \in (DOMAIN f) \ {x} |-> f[y]])
    BY <1>4, <1>5, <1>6, <1>7, TotalSplit
  <1>13. Total(g) \in Nat
    BY <1>5, <1>9, <1>10, TotalCounts
  <1>14. f[x] \in Nat
    BY <1>4, <1>6
  <1>15. GamesIn(P, field) = GamesIn(Q, field) + GamesOf(ThisMatch, side, field)
    BY <1>7, <1>8, <1>11, <1>12, <1>13, <1>14
  <1> QED
    BY <1>7, <1>11, <1>13, <1>14, <1>15 DEF P, Q

\* What the results of this match say, and that somebody won a game of it.
LEMMA ThisMatchShowsSheet ==
    ASSUME TypeOK, PlayInv, completed, weekClosed, ~typed
    PROVE  /\ \A side \in Sides :
                 /\ Won(ThisMatch, side) = GamesOnSheet(side)
                 /\ GamesOf(ThisMatch, side, "won") = GamesOnSheet(side)
                 /\ GamesOf(ThisMatch, side, "lost") = GamesOnSheet(Other(side))
                 /\ GamesOnSheet(side) \in Nat
           /\ GamesOnSheet("home") + GamesOnSheet("away") > 0
  <1>1. SheetCounted /\ AnyWinner(sheet)
    BY DEF PlayInv
  <1>2. HomeTeam # AwayTeam
    BY ScoringAssumption
  <1>3. \A r \in results : r.team \in {HomeTeam, AwayTeam}
    BY <1>1 DEF SheetCounted
  <1>4. ASSUME NEW side \in Sides
        PROVE  /\ ResultsOf(ThisMatch, side) = RowsOf(side)
               /\ {q \in ThisMatch.results : q.team = ThisMatch.home <=> side = "home"} = RowsOf(side)
    <2>1. /\ ThisMatch.results = results /\ ThisMatch.home = HomeTeam
          /\ ThisMatch[side] = TeamOf(side)
      BY DEF ThisMatch, TeamOf, Sides
    <2>2. ResultsOf(ThisMatch, side) = RowsOf(side)
      BY <1>2, <2>1 DEF ResultsOf, RowsOf, TeamOf
    <2>3. {q \in ThisMatch.results : q.team = ThisMatch.home <=> side = "home"} = RowsOf(side)
      BY <1>2, <1>3, <2>1 DEF RowsOf, TeamOf, Sides
    <2> QED
      BY <2>2, <2>3
  <1>5. IsFiniteSet(sheet)
    <2>1. \A r \in sheet : r.round \in Rounds /\ r.home \in HomePlayers
      BY DEF TypeOK, Row
    <2> QED
      BY <2>1, SheetsAreFinite DEF TypeOK
  <1>6. ASSUME NEW side \in Sides
        PROVE  GamesOnSheet(side) \in Nat /\ \A r \in sheet : GamesWon(r.games, side) <= GamesOnSheet(side)
    <2> DEFINE f == [r \in sheet |-> GamesWon(r.games, side)]
    <2>1. DOMAIN f = sheet /\ \A r \in sheet : f[r] \in Nat /\ f[r] = GamesWon(r.games, side)
      BY GamesWonIsNat
    <2>2. GamesOnSheet(side) = Total(f)
      BY DEF GamesOnSheet
    <2> HIDE DEF f
    <2>3. \A r \in sheet : f[r] <= Total(f)
      BY <1>5, <2>1, TotalAtLeast
    <2> QED
      BY <1>5, <2>1, <2>2, <2>3, TotalCounts
  <1>7. ASSUME NEW side \in Sides
        PROVE  /\ Won(ThisMatch, side) = GamesOnSheet(side)
               /\ GamesOf(ThisMatch, side, "won") = GamesOnSheet(side)
               /\ GamesOf(ThisMatch, side, "lost") = GamesOnSheet(Other(side))
    <2>1. /\ Total([r \in RowsOf(side) |-> r.won]) = GamesOnSheet(side)
          /\ Total([r \in RowsOf(side) |-> r.lost]) = GamesOnSheet(Other(side))
      BY <1>1 DEF SheetCounted
    <2>2. Won(ThisMatch, side) = Total([r \in RowsOf(side) |-> r.won])
      BY <1>4 DEF Won
    <2>3. /\ GamesOf(ThisMatch, side, "won") = Total([r \in RowsOf(side) |-> r.won])
          /\ GamesOf(ThisMatch, side, "lost") = Total([r \in RowsOf(side) |-> r.lost])
      BY <1>4 DEF GamesOf
    <2> QED
      BY <2>1, <2>2, <2>3
  <1>8. GamesOnSheet("home") + GamesOnSheet("away") > 0
    <2>1. PICK r \in sheet, n \in 1..3 : 10 \in {r.games[n].home, r.games[n].away}
      BY <1>1 DEF AnyWinner
    <2>2. PICK side \in Sides : GameWinner(r.games[n]) = side
      BY <2>1 DEF GameWinner, Sides
    <2>3. GamesWon(r.games, side) > 0
      <3>1. \A k \in 1..3 : One(GameWinner(r.games[k]) = side) \in Nat
        BY DEF One
      <3>2. One(GameWinner(r.games[n]) = side) = 1
        BY <2>2 DEF One
      <3>3. n = 1 \/ n = 2 \/ n = 3
        OBVIOUS
      <3> QED
        BY <3>1, <3>2, <3>3 DEF GamesWon
    <2>4. GamesOnSheet(side) > 0
      BY <1>6, <2>3, GamesWonIsNat
    <2>5. GamesOnSheet("home") \in Nat /\ GamesOnSheet("away") \in Nat
      BY <1>6 DEF Sides
    <2> QED
      BY <2>4, <2>5 DEF Sides
  <1> QED
    BY <1>6, <1>7, <1>8

LEMMA StandingsFollow ==
    ASSUME TypeOK, PlayInv
    PROVE  StandingsShowPlay
  <1> DEFINE standing == ComputeStandings
             total(field) == Total([t \in Teams |-> standing[t][field]])
             others(t, field) == GamesIn(Played(OtherMatches, t), field)
             h == GamesOnSheet("home")
             a == GamesOnSheet("away")
  <1>1. AreMatches(Counted)
    BY CountedAreMatches
  <1>2. \A t \in Teams :
          /\ standing[t]["points"] =
               Total([x \in Played(Counted, t) |-> MatchOutcome(x[1], x[2])])
          /\ standing[t]["wins"] =
               Cardinality({x \in Played(Counted, t) : MatchOutcome(x[1], x[2]) = 2})
          /\ standing[t]["losses"] =
               Cardinality({x \in Played(Counted, t) : MatchOutcome(x[1], x[2]) = 0})
          /\ standing[t].won = GamesIn(Played(Counted, t), "won")
          /\ standing[t].lost = GamesIn(Played(Counted, t), "lost")
    BY DEF ComputeStandings
  <1> HIDE DEF standing
  <1>3. total("points") = 2 * Cardinality(Counted)
    <2>1. [t \in Teams |-> standing[t]["points"]] =
            [t \in Teams |-> Total([x \in Played(Counted, t) |-> MatchOutcome(x[1], x[2])])]
      BY <1>2
    <2> QED
      BY <1>1, <2>1, PointsOfMatches
  <1>4. total("wins") = total("losses")
    <2>1. [t \in Teams |-> standing[t]["wins"]] =
            [t \in Teams |-> Cardinality({x \in Played(Counted, t) : MatchOutcome(x[1], x[2]) = 2})]
      BY <1>2
    <2>2. [t \in Teams |-> standing[t]["losses"]] =
            [t \in Teams |-> Cardinality({x \in Played(Counted, t) : MatchOutcome(x[1], x[2]) = 0})]
      BY <1>2
    <2>3. \A n :
            Total([t \in Teams |-> Cardinality({x \in Played(Counted, t) : MatchOutcome(x[1], x[2]) = n})])
              = Cardinality({x \in Counted \X Sides : MatchOutcome(x[1], x[2]) = n})
      BY <1>1, OutcomesOfMatches
    <2>4. /\ total("wins") = Cardinality({x \in Counted \X Sides : MatchOutcome(x[1], x[2]) = 2})
          /\ total("losses") = Cardinality({x \in Counted \X Sides : MatchOutcome(x[1], x[2]) = 0})
      BY <2>1, <2>2, <2>3
    <2> QED
      BY <1>1, <2>4, WinsAreLosses
  <1>5. ASSUME completed, weekClosed, ~typed
        PROVE  /\ standing[HomeTeam].won = others(HomeTeam, "won") + h
               /\ standing[AwayTeam].won = others(AwayTeam, "won") + a
               /\ standing[HomeTeam].lost = others(HomeTeam, "lost") + a
               /\ h + a > 0
               /\ MatchOutcome(ThisMatch, "home") = IF h > a THEN 2 ELSE IF h = a THEN 1 ELSE 0
    <2>1. /\ "home" \in Sides /\ "away" \in Sides /\ HomeTeam \in Teams /\ AwayTeam \in Teams
          /\ TeamOf("home") = HomeTeam /\ TeamOf("away") = AwayTeam
          /\ Other("home") = "away" /\ Other("away") = "home"
      BY ScoringAssumption DEF Sides, TeamOf, Other
    <2>2. /\ GamesOf(ThisMatch, "home", "won") = h /\ GamesOf(ThisMatch, "away", "won") = a
          /\ GamesOf(ThisMatch, "home", "lost") = a /\ h + a > 0
          /\ Won(ThisMatch, "home") = h /\ Won(ThisMatch, "away") = a
      BY <1>5, <2>1, ThisMatchShowsSheet
    <2>3. /\ GamesIn(Played(Counted, HomeTeam), "won") = others(HomeTeam, "won") + h
          /\ GamesIn(Played(Counted, AwayTeam), "won") = others(AwayTeam, "won") + a
          /\ GamesIn(Played(Counted, HomeTeam), "lost") = others(HomeTeam, "lost") + a
      <3>1. GamesIn(Played(Counted, TeamOf("home")), "won")
              = GamesIn(Played(OtherMatches, TeamOf("home")), "won") + GamesOf(ThisMatch, "home", "won")
        BY <1>5, <2>1, GamesWithThisMatch
      <3>2. GamesIn(Played(Counted, TeamOf("away")), "won")
              = GamesIn(Played(OtherMatches, TeamOf("away")), "won") + GamesOf(ThisMatch, "away", "won")
        BY <1>5, <2>1, GamesWithThisMatch
      <3>3. GamesIn(Played(Counted, TeamOf("home")), "lost")
              = GamesIn(Played(OtherMatches, TeamOf("home")), "lost") + GamesOf(ThisMatch, "home", "lost")
        BY <1>5, <2>1, GamesWithThisMatch
      <3> QED
        BY <2>1, <2>2, <3>1, <3>2, <3>3
    <2>4. MatchOutcome(ThisMatch, "home") = IF h > a THEN 2 ELSE IF h = a THEN 1 ELSE 0
      BY <2>1, <2>2 DEF MatchOutcome
    <2> QED
      BY <1>2, <2>1, <2>2, <2>3, <2>4
  <1>6. /\ total("points") = 2 * Cardinality(Counted)
        /\ total("wins") = total("losses")
        /\ completed /\ weekClosed /\ ~typed =>
             /\ standing[HomeTeam].won = others(HomeTeam, "won") + h
             /\ standing[AwayTeam].won = others(AwayTeam, "won") + a
             /\ standing[HomeTeam].lost = others(HomeTeam, "lost") + a
             /\ h + a > 0
             /\ MatchOutcome(ThisMatch, "home") = IF h > a THEN 2 ELSE IF h = a THEN 1 ELSE 0
    BY <1>3, <1>4, <1>5
  <1> QED
    BY <1>6 DEF StandingsShowPlay, standing

(***************************************************************************)
(* StandingsShowPlay for every instance: any number of players, rounds,    *)
(* teams and other matches, and any order of saves, clears, submissions by *)
(* hand, closes and changes of the rules.                                  *)
(***************************************************************************)
THEOREM StandingsCorrect == Spec => []StandingsShowPlay
  <1>1. Init => TypeOK /\ PlayInv
    <2>1. Init => TypeOK
      BY SheetInvInit DEF Init, SheetInv, TypeOK, HasError
    <2>2. Init => PlayInv
      BY FS_EmptySet DEF Init, PlayInv
    <2> QED
      BY <2>1, <2>2
  <1>2. TypeOK /\ PlayInv /\ [Next]_vars => (TypeOK /\ PlayInv)'
    BY TypeStep, PlayInvStep
  <1>3. TypeOK /\ PlayInv => StandingsShowPlay
    BY StandingsFollow
  <1> QED
    BY <1>1, <1>2, <1>3, PTL DEF Spec

================================================================================
