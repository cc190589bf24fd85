--------------------------- MODULE Patterns_proofs ---------------------------
(***************************************************************************)
(* Theorems about the ranking of values by the mean engagement of their    *)
(* reels, for any reels and lists of any length.  What is added up is the  *)
(* fold of FiniteSetsExt, a recursive function on the subsets of a finite  *)
(* set: that it exists, and is a number, has to be shown first.             *)
(***************************************************************************)
EXTENDS Patterns, Orders_proofs, SequenceTheorems

-----------------------------------------------------------------------------
(* The sum over a finite set. *)

Choice(s) == CHOOSE x \in s : TRUE

Sum(e, f, s) == IF s = {} THEN 0 ELSE e[Choice(s)] + f[s \ {Choice(s)}]

\* f is the sum of e over the subsets of S.
IsSum(e, f, S) == f = [s \in SUBSET S |-> Sum(e, f, s)]

\* The same over those subsets that have at most n elements.
SumUpTo(e, f, S, n) ==
  f = [s \in {t \in SUBSET S : Cardinality(t) <= n} |-> Sum(e, f, s)]

LEMMA ChoiceRemoved ==
  ASSUME NEW S, IsFiniteSet(S), NEW s \in SUBSET S, s # {}
  PROVE  /\ Choice(s) \in s
         /\ s \ {Choice(s)} \in SUBSET S
         /\ Cardinality(s) \in Nat
         /\ Cardinality(s \ {Choice(s)}) = Cardinality(s) - 1
         /\ Cardinality(s) >= 1
<1>1. Choice(s) \in s
  BY DEF Choice
<1>2. IsFiniteSet(s) /\ Cardinality(s) \in Nat
  BY FS_Subset, FS_CardinalityType
<1>3. Cardinality(s \ {Choice(s)}) = Cardinality(s) - 1
  BY <1>1, <1>2, FS_RemoveElement
<1>4. Cardinality(s) # 0
  BY <1>2, FS_EmptySet
<1>. QED
  BY <1>1, <1>2, <1>3, <1>4

LEMMA SumUpToNext ==
  ASSUME NEW S, IsFiniteSet(S), NEW e, NEW n \in Nat, NEW f, SumUpTo(e, f, S, n)
  PROVE  \E g : SumUpTo(e, g, S, n + 1)
<1> DEFINE D(m) == {t \in SUBSET S : Cardinality(t) <= m}
           g == [s \in D(n + 1) |-> Sum(e, f, s)]
<1>1. \A s \in D(n + 1) : s # {} => s \ {Choice(s)} \in D(n)
  BY ChoiceRemoved
<1>2. D(n) \subseteq D(n + 1)
  <2>1. \A s \in SUBSET S : Cardinality(s) \in Nat
    BY FS_Subset, FS_CardinalityType
  <2>. QED
    BY <2>1
<1>3. f = [s \in D(n) |-> Sum(e, f, s)]
  BY DEF SumUpTo
<1> HIDE DEF D
<1>4. \A s \in D(n) : g[s] = f[s]
  BY <1>2, <1>3
<1>5. \A s \in D(n + 1) : Sum(e, g, s) = Sum(e, f, s)
  <2> HIDE DEF g
  <2>. QED
    BY <1>1, <1>4 DEF Sum
<1>6. g = [s \in D(n + 1) |-> Sum(e, g, s)]
  <2>1. g = [s \in D(n + 1) |-> Sum(e, f, s)]
    OBVIOUS
  <2> HIDE DEF g
  <2>. QED
    BY <1>5, <2>1
<1>. QED
  BY <1>6 DEF SumUpTo, D

LEMMA SumUpToExists ==
  ASSUME NEW S, IsFiniteSet(S), NEW e, NEW n \in Nat
  PROVE  \E f : SumUpTo(e, f, S, n)
<1> DEFINE T == {m \in Nat : ~ \E f : SumUpTo(e, f, S, m)}
<1>1. SUFFICES ASSUME T # {} PROVE FALSE
  OBVIOUS
<1>2. PICK m \in T : \A k \in T : m <= k
  <2>1. T \in SUBSET Nat
    OBVIOUS
  <2> HIDE DEF T
  <2>. QED
    BY <1>1, <2>1, LeastNat
<1>3. CASE m = 0
  <2> DEFINE f == [s \in {t \in SUBSET S : Cardinality(t) <= 0} |-> 0]
  <2>1. \A s \in SUBSET S : Cardinality(s) <= 0 => s = {}
    BY FS_Subset, FS_CardinalityType, FS_EmptySet
  <2>2. SumUpTo(e, f, S, 0)
    BY <2>1 DEF SumUpTo, Sum
  <2>. QED
    BY <1>3, <2>2
<1>4. CASE m # 0
  <2>1. m - 1 \in Nat /\ m - 1 \notin T
    BY <1>2, <1>4
  <2>2. PICK f : SumUpTo(e, f, S, m - 1)
    BY <2>1
  <2>3. (m - 1) + 1 = m
    BY <1>2
  <2>. QED
    BY <1>2, <2>1, <2>2, <2>3, SumUpToNext
<1>. QED
  BY <1>3, <1>4

\* The sum of whole numbers over a finite set exists and is a whole number.
LEMMA SumExists ==
  ASSUME NEW S, IsFiniteSet(S), NEW e
  PROVE  \E f : IsSum(e, f, S)
<1>1. PICK f : SumUpTo(e, f, S, Cardinality(S))
  BY SumUpToExists, FS_CardinalityType
<1>2. {t \in SUBSET S : Cardinality(t) <= Cardinality(S)} = SUBSET S
  BY FS_Subset
<1>. QED
  BY <1>1, <1>2 DEF SumUpTo, IsSum

LEMMA SumIsInt ==
  ASSUME NEW S, IsFiniteSet(S), NEW e, \A x \in S : e[x] \in Int,
         NEW f, IsSum(e, f, S), NEW s \in SUBSET S
  PROVE  f[s] \in Int
<1> DEFINE T == {Cardinality(t) : t \in {u \in SUBSET S : f[u] \notin Int}}
<1>1. SUFFICES ASSUME T # {} PROVE FALSE
  OBVIOUS
<1>2. T \in SUBSET Nat
  BY FS_Subset, FS_CardinalityType
<1>3. PICK m \in T : \A k \in T : m <= k
  <2> HIDE DEF T
  <2>. QED
    BY <1>1, <1>2, LeastNat
<1>4. PICK t \in SUBSET S : f[t] \notin Int /\ m = Cardinality(t)
  BY <1>3
<1>5. f[t] = Sum(e, f, t)
  BY DEF IsSum
<1>6. t # {}
  BY <1>4, <1>5 DEF Sum
<1> DEFINE r == t \ {Choice(t)}
<1>7. Choice(t) \in S /\ r \in SUBSET S /\ Cardinality(r) = m - 1 /\ m \in Nat
  BY <1>4, <1>6, ChoiceRemoved
<1>8. f[r] \in Int
  <2>1. f[r] \notin Int => m - 1 \in T
    BY <1>7
  <2>. QED
    BY <1>3, <1>7, <2>1
<1>9. f[t] = e[Choice(t)] + f[r]
  BY <1>5, <1>6 DEF Sum
<1> HIDE DEF r
<1>. QED
  BY <1>4, <1>7, <1>8, <1>9

-----------------------------------------------------------------------------
(* Values and their reels. *)

LEMMA HavingIs ==
  ASSUME NEW rows \in Seq(ReelRows), NEW key, NEW v \in ValuesOf(rows, key)
  PROVE  /\ Having(rows, key, v) \in SUBSET (1 .. Len(rows))
         /\ Having(rows, key, v) # {}
         /\ IsFiniteSet(Having(rows, key, v))
         /\ Cardinality(Having(rows, key, v)) \in Nat \ {0}
<1>1. Having(rows, key, v) \in SUBSET (1 .. Len(rows))
  BY DEF Having
<1>2. Having(rows, key, v) # {}
  BY DEF Having, ValuesOf
<1>3. IsFiniteSet(1 .. Len(rows))
  BY FS_Interval
<1>4. IsFiniteSet(Having(rows, key, v))
  BY <1>1, <1>3, FS_Subset
<1>. QED
  BY <1>1, <1>2, <1>4, FS_CardinalityType, FS_EmptySet

LEMMA ValuesFinite ==
  ASSUME NEW rows \in Seq(ReelRows), NEW key
  PROVE  IsFiniteSet(ValuesOf(rows, key)) /\ Cardinality(ValuesOf(rows, key)) \in Nat
<1> DEFINE D == {k \in DOMAIN rows : Attribute(rows[k], key) # None}
           f == [k \in D |-> Attribute(rows[k], key)]
<1>1. IsFiniteSet(D)
  <2>1. D \in SUBSET (1 .. Len(rows))
    OBVIOUS
  <2>2. IsFiniteSet(1 .. Len(rows))
    BY FS_Interval
  <2> HIDE DEF D
  <2>. QED
    BY <2>1, <2>2, FS_Subset
<1>2. f \in Surjection(D, ValuesOf(rows, key))
  BY DEF Surjection, ValuesOf
<1> HIDE DEF f, D
<1>. QED
  BY <1>1, <1>2, FS_Surjection, FS_CardinalityType

\* Only whole numbers are added up.
LEMMA TotalIsInt ==
  ASSUME NEW rows \in Seq(ReelRows), NEW key, NEW v \in ValuesOf(rows, key)
  PROVE  TotalEngagement(rows, key, v) \in Int
<1> DEFINE S == Having(rows, key, v)
           e == [k \in S |-> Engagement(rows[k])]
           Eq(f) == f = [s \in SUBSET S |->
                           IF s = {} THEN 0
                           ELSE Engagement(rows[Choice(s)]) + f[s \ {Choice(s)}]]
           h == CHOOSE f : Eq(f)
<1>1. TotalEngagement(rows, key, v) = h[S]
  BY DEF TotalEngagement, MapThenSumSet, MapThenFoldSet, Choice
<1>2. \A k \in S : e[k] \in Int
  <2>1. \A k \in S : rows[k] \in ReelRows
    BY HavingIs
  <2>. QED
    BY <2>1, PatternsAssumption DEF Engagement
<1>3. IsFiniteSet(S)
  BY HavingIs
<1>4. \A s \in SUBSET S : s # {} => Choice(s) \in S
  BY <1>3, ChoiceRemoved
<1> HIDE DEF S
<1>5. ASSUME NEW f
      PROVE  Eq(f) <=> IsSum(e, f, S)
  <2>1. \A s \in SUBSET S :
          Sum(e, f, s) = IF s = {} THEN 0
                         ELSE Engagement(rows[Choice(s)]) + f[s \ {Choice(s)}]
    BY <1>4 DEF Sum
  <2>. QED
    BY <2>1 DEF IsSum
<1>6. \E f : Eq(f)
  <2> HIDE DEF Eq, e
  <2>1. PICK f : IsSum(e, f, S)
    BY <1>3, SumExists
  <2>. QED
    BY <1>5, <2>1
<1>7. Eq(h)
  <2> HIDE DEF Eq
  <2>. QED
    BY <1>6
<1> HIDE DEF Eq, h, e
<1>8. IsSum(e, h, S)
  BY <1>5, <1>7
<1>9. h[S] \in Int
  BY <1>2, <1>3, <1>8, SumIsInt
<1>. QED
  BY <1>1, <1>9

LEMMA FirstIs ==
  ASSUME NEW rows \in Seq(ReelRows), NEW key, NEW v \in ValuesOf(rows, key)
  PROVE  First(rows, key, v) \in Having(rows, key, v) /\ First(rows, key, v) \in Nat
<1> DEFINE T == Having(rows, key, v)
<1>1. T \in SUBSET Nat /\ T # {}
  BY HavingIs
<1> HIDE DEF T
<1>2. PICK x \in T : \A y \in T : x <= y
  BY <1>1, LeastNat
<1>3. Min(T) \in T
  BY <1>2 DEF Min
<1>. QED
  BY <1>1, <1>3 DEF First, T

LEMMA FirstsDiffer ==
  ASSUME NEW rows \in Seq(ReelRows), NEW key,
         NEW v \in ValuesOf(rows, key), NEW w \in ValuesOf(rows, key), v # w
  PROVE  First(rows, key, v) # First(rows, key, w)
BY FirstIs DEF Having

-----------------------------------------------------------------------------
(* The three orders are strict weak orders. *)

\* Fractions a/p and c/r, of positive denominators, and b/q: what is below one of
\* two numbers, or above it, is on the same side of the other or between them.
LEMMA CrossMultiplied ==
  ASSUME NEW a \in Int, NEW b \in Int, NEW c \in Int,
         NEW p \in Nat \ {0}, NEW q \in Nat \ {0}, NEW r \in Nat \ {0},
         a * q < b * p
  PROVE  a * r < c * p \/ c * q < b * r
<1>1. SUFFICES ASSUME a * r >= c * p, c * q >= b * r PROVE FALSE
  <2>1. a * r \in Int /\ c * p \in Int /\ c * q \in Int /\ b * r \in Int
    OBVIOUS
  <2>. QED
    BY <2>1
<1>2. \A x, y \in Int, k \in Nat \ {0} : x >= y => k * x >= k * y
  OBVIOUS
<1>3. \A x, y \in Int, k \in Nat \ {0} : x < y => k * x < k * y
  OBVIOUS
<1>4. a * r \in Int /\ c * p \in Int /\ c * q \in Int /\ b * r \in Int
      /\ a * q \in Int /\ b * p \in Int
  OBVIOUS
<1>5. q * (a * r) >= q * (c * p)
  BY <1>1, <1>2, <1>4
<1>6. p * (c * q) >= p * (b * r)
  BY <1>1, <1>2, <1>4
<1>7. r * (a * q) < r * (b * p)
  BY <1>3, <1>4
<1>8. q * (a * r) = r * (a * q) /\ q * (c * p) = p * (c * q) /\ p * (b * r) = r * (b * p)
  OBVIOUS
<1>. QED
  BY <1>4, <1>5, <1>6, <1>7, <1>8

Orders == {"best", "worst", "frequent"}

LEMMA BehindIsWeakOrder ==
  ASSUME NEW rows \in Seq(ReelRows), NEW key, NEW order \in Orders
  PROVE  /\ \A v, w \in ValuesOf(rows, key) :
              Behind(order, rows, key, v, w) => ~ Behind(order, rows, key, w, v)
         /\ \A u, v, w \in ValuesOf(rows, key) :
              Behind(order, rows, key, u, v) =>
                Behind(order, rows, key, u, w) \/ Behind(order, rows, key, w, v)
<1> DEFINE V == ValuesOf(rows, key)
           T(v) == TotalEngagement(rows, key, v)
           C(v) == Cardinality(Having(rows, key, v))
<1>1. \A v \in V : T(v) \in Int /\ C(v) \in Nat \ {0}
  BY TotalIsInt, HavingIs
<1>2. \A v, w \in V : LessEngaging(rows, key, v, w) <=> T(v) * C(w) < T(w) * C(v)
  BY DEF LessEngaging
<1>3. \A v, w \in V : RarerThan(rows, key, v, w) <=> C(v) < C(w)
  BY DEF RarerThan
<1> HIDE DEF V, T, C
<1>4. /\ \A v, w \in V : LessEngaging(rows, key, v, w) => ~ LessEngaging(rows, key, w, v)
      /\ \A u, v, w \in V : LessEngaging(rows, key, u, v) =>
           LessEngaging(rows, key, u, w) \/ LessEngaging(rows, key, w, v)
  <2>1. ASSUME NEW v \in V, NEW w \in V, LessEngaging(rows, key, v, w)
        PROVE  ~ LessEngaging(rows, key, w, v)
    <3>1. T(v) * C(w) \in Int /\ T(w) * C(v) \in Int
      BY <1>1
    <3>. QED
      BY <1>2, <2>1, <3>1
  <2>2. ASSUME NEW u \in V, NEW v \in V, NEW w \in V, LessEngaging(rows, key, u, v)
        PROVE  LessEngaging(rows, key, u, w) \/ LessEngaging(rows, key, w, v)
    BY <1>1, <1>2, <2>2, CrossMultiplied
  <2>. QED
    BY <2>1, <2>2
<1>5. CASE order = "best"
  BY <1>4, <1>5 DEF Behind, V
<1>6. CASE order = "worst"
  BY <1>4, <1>6 DEF Behind, V
<1>7. CASE order = "frequent"
  <2>1. /\ \A v, w \in V : RarerThan(rows, key, v, w) => ~ RarerThan(rows, key, w, v)
        /\ \A u, v, w \in V : RarerThan(rows, key, u, v) =>
             RarerThan(rows, key, u, w) \/ RarerThan(rows, key, w, v)
    BY <1>1, <1>3
  <2>. QED
    BY <1>7, <2>1 DEF Behind, V
<1>. QED
  BY <1>5, <1>6, <1>7 DEF Orders

-----------------------------------------------------------------------------
(* What Ranked returns. *)

\* w is sorted before v.
Precedes(order, rows, key, w, v) ==
  \/ Behind(order, rows, key, v, w)
  \/ ~ Behind(order, rows, key, w, v) /\ First(rows, key, w) < First(rows, key, v)

Precedence(order, rows, key) ==
  {p \in ValuesOf(rows, key) \X ValuesOf(rows, key) :
     Precedes(order, rows, key, p[1], p[2])}

LEMMA PrecedenceIsTotal ==
  ASSUME NEW rows \in Seq(ReelRows), NEW key, NEW order \in Orders
  PROVE  /\ TotalOrder(Precedence(order, rows, key), ValuesOf(rows, key))
         /\ \A v, w \in ValuesOf(rows, key) :
              <<w, v>> \in Precedence(order, rows, key)
                <=> Precedes(order, rows, key, w, v)
<1> DEFINE V == ValuesOf(rows, key)
           B(v, w) == Behind(order, rows, key, v, w)
           W == {p \in V \X V : B(p[2], p[1])}
           f == [v \in V |-> First(rows, key, v)]
<1>1. /\ \A v, w \in V : B(v, w) => ~ B(w, v)
      /\ \A u, v, w \in V : B(u, v) => B(u, w) \/ B(w, v)
  BY BehindIsWeakOrder
<1>2. f \in [V -> Nat] /\ \A v, w \in V : v # w => f[v] # f[w]
  BY FirstIs, FirstsDiffer
<1>3. Precedence(order, rows, key) = Stable(W, f, V)
  BY DEF Precedence, Precedes, Stable
<1>4. \A v, w \in V : <<w, v>> \in Precedence(order, rows, key)
                        <=> Precedes(order, rows, key, w, v)
  BY DEF Precedence
<1>5. WeakOrder(W, V)
  <2> HIDE DEF V, B
  <2>1. \A v, w \in V : <<v, w>> \in W <=> B(w, v)
    OBVIOUS
  <2> HIDE DEF W
  <2>. QED
    BY <1>1, <2>1 DEF WeakOrder
<1> HIDE DEF V, B, W, f
<1>6. TotalOrder(Stable(W, f, V), V)
  BY <1>2, <1>5, StableIsTotal
<1>. QED
  BY <1>3, <1>4, <1>6 DEF V

Top(rows, key) == Min({TopN, Cardinality(ValuesOf(rows, key))})

LEMMA TopIs ==
  ASSUME NEW rows \in Seq(ReelRows), NEW key
  PROVE  /\ Top(rows, key) \in Nat
         /\ Top(rows, key) <= TopN
         /\ Top(rows, key) <= Cardinality(ValuesOf(rows, key))
         /\ Top(rows, key) \in {TopN, Cardinality(ValuesOf(rows, key))}
<1> DEFINE m == Cardinality(ValuesOf(rows, key))
<1>1. m \in Nat /\ TopN \in Nat
  BY ValuesFinite, PatternsAssumption
<1> HIDE DEF m
<1>2. \E x \in {TopN, m} : \A y \in {TopN, m} : x <= y
  BY <1>1
<1>3. Min({TopN, m}) \in {TopN, m} /\ \A y \in {TopN, m} : Min({TopN, m}) <= y
  BY <1>2 DEF Min
<1>. QED
  BY <1>1, <1>3 DEF Top, m

\* The n-th of the ranked values is the one at the n-th place.
LEMMA RankedIs ==
  ASSUME NEW rows \in Seq(ReelRows), NEW key, NEW order \in Orders
  PROVE  LET r == Ranked(order, rows, key)
             R == Precedence(order, rows, key)
         IN  /\ r = [n \in 1 .. Top(rows, key) |-> r[n]]
             /\ DOMAIN r = 1 .. Top(rows, key)
             /\ \A n \in 1 .. Top(rows, key) :
                  /\ r[n] \in ValuesOf(rows, key)
                  /\ Place(R, ValuesOf(rows, key), r[n]) = n - 1
<1> DEFINE V == ValuesOf(rows, key)
           R == Precedence(order, rows, key)
           r == Ranked(order, rows, key)
           place(v) == Cardinality({w \in V : Precedes(order, rows, key, w, v)})
           nth(n) == CHOOSE v \in V : place(v) = n - 1
<1>1. r = [n \in 1 .. Top(rows, key) |-> nth(n)]
  BY DEF Ranked, Precedes, Top
<1>2. ASSUME NEW v \in V
      PROVE  place(v) = Place(R, V, v)
  BY PrecedenceIsTotal DEF Place
<1>3. TotalOrder(R, V) /\ IsFiniteSet(V)
  BY PrecedenceIsTotal, ValuesFinite
<1>4. Top(rows, key) \in Nat /\ Top(rows, key) <= Cardinality(V) /\ Cardinality(V) \in Nat
  BY TopIs, ValuesFinite
<1> HIDE DEF V, R, r, place
<1>5. ASSUME NEW n \in 1 .. Top(rows, key)
      PROVE  nth(n) \in V /\ Place(R, V, nth(n)) = n - 1
  <2>1. n - 1 \in 0 .. Cardinality(V) - 1
    BY <1>4
  <2>2. PICK v \in V : Place(R, V, v) = n - 1
    BY <1>3, <2>1, PlacesTaken
  <2>3. \E w \in V : place(w) = n - 1
    BY <1>2, <2>2
  <2>4. nth(n) \in V /\ place(nth(n)) = n - 1
    BY <2>3
  <2>. QED
    BY <1>2, <2>4
<1> HIDE DEF nth
<1>. QED
  BY <1>1, <1>5 DEF r, V, R

\* find_best_topics and its likes return TOP_N values, or all if there are fewer,
\* each once; none is behind one that comes after it, or behind one left out.
THEOREM RankedIsSorted ==
  ASSUME NEW rows \in Seq(ReelRows), NEW key, NEW order \in Orders
  PROVE  LET r == Ranked(order, rows, key)
             V == ValuesOf(rows, key)
         IN  /\ r \in Seq(V)
             /\ Len(r) = Min({TopN, Cardinality(V)})
             /\ \A i, j \in DOMAIN r : i < j =>
                  r[i] # r[j] /\ ~ Behind(order, rows, key, r[i], r[j])
             /\ \A i \in DOMAIN r, v \in V \ Range(r) :
                  ~ Behind(order, rows, key, r[i], v)
<1> DEFINE r == Ranked(order, rows, key)
           V == ValuesOf(rows, key)
           R == Precedence(order, rows, key)
           top == Top(rows, key)
           P(v) == Place(R, V, v)
<1>1. /\ r = [n \in 1 .. top |-> r[n]] /\ DOMAIN r = 1 .. top
      /\ \A n \in 1 .. top : r[n] \in V /\ P(r[n]) = n - 1
  BY RankedIs
<1>2. IsFiniteSet(V) /\ TotalOrder(R, V) /\ Cardinality(V) \in Nat
  BY PrecedenceIsTotal, ValuesFinite
<1>3. top \in Nat /\ top = Min({TopN, Cardinality(V)})
  BY TopIs DEF Top
<1>4. /\ \A v \in V : P(v) \in Nat
      /\ \A v, w \in V : <<w, v>> \in R => P(w) < P(v)
  BY <1>2, PlaceGrows
<1>5. \A v, w \in V : Behind(order, rows, key, v, w) => <<w, v>> \in R
  BY PrecedenceIsTotal DEF Precedes
<1>6. \A v, w \in V : Behind(order, rows, key, v, w) => P(w) < P(v)
  BY <1>4, <1>5
<1>7. \A v, w \in V : P(v) = P(w) => v = w
  BY <1>2, SamePlace
<1> HIDE DEF r, V, R, top, P
<1>9. r \in Seq(V) /\ Len(r) = top
  <2>1. r \in [1 .. top -> V]
    BY <1>1
  <2>2. top \in Nat
    BY <1>3
  <2>3. r \in Seq(V)
    BY <2>1, <2>2, SeqDef
  <2>. QED
    BY <1>1, <2>2, <2>3, LenProperties
<1>10. ASSUME NEW i \in DOMAIN r, NEW j \in DOMAIN r, i < j
       PROVE  r[i] # r[j] /\ ~ Behind(order, rows, key, r[i], r[j])
  <2>1. i \in 1 .. top /\ j \in 1 .. top /\ i \in Int /\ j \in Int
    BY <1>1, <1>3
  <2>2. r[i] \in V /\ r[j] \in V /\ P(r[i]) = i - 1 /\ P(r[j]) = j - 1
    BY <1>1, <2>1
  <2>. QED
    BY <1>6, <1>10, <2>1, <2>2
<1>11. ASSUME NEW i \in DOMAIN r, NEW v \in V \ Range(r)
       PROVE  ~ Behind(order, rows, key, r[i], v)
  <2>1. r[i] \in V /\ P(r[i]) = i - 1 /\ i \in 1 .. top
    BY <1>1
  <2>2. \A n \in 1 .. top : P(v) # n - 1
    <3>1. \A n \in 1 .. top : r[n] # v
      BY <1>1 DEF Range
    <3>. QED
      BY <1>1, <1>7, <3>1
  <2>3. P(v) \in Nat /\ ~ (P(v) + 1 \in 1 .. top)
    BY <1>4, <2>2
  <2>4. P(v) >= top
    BY <1>3, <2>3
  <2>. QED
    BY <1>3, <1>6, <2>1, <2>3, <2>4
<1>. QED
  BY <1>3, <1>9, <1>10, <1>11 DEF r, V

-----------------------------------------------------------------------------
(* Best and worst topics. *)

Equal(rows, v, w) ==
  /\ ~ LessEngaging(rows, "topic", v, w)
  /\ ~ LessEngaging(rows, "topic", w, v)

\* Fewer than TopN values are sorted before one that is kept.
LEMMA FewBefore ==
  ASSUME NEW rows \in Seq(ReelRows), NEW key, NEW order \in Orders,
         NEW t \in Range(Ranked(order, rows, key))
  PROVE  LET ahead == {w \in ValuesOf(rows, key) : Behind(order, rows, key, t, w)}
         IN  /\ IsFiniteSet(ahead)
             /\ Cardinality(ahead) \in 0 .. TopN - 1
             /\ t \in ValuesOf(rows, key)
<1> DEFINE V == ValuesOf(rows, key)
           R == Precedence(order, rows, key)
           ahead == {w \in V : Behind(order, rows, key, t, w)}
           before == {w \in V : <<w, t>> \in R}
<1>1. PICK n \in 1 .. Top(rows, key) :
        t = Ranked(order, rows, key)[n] /\ t \in V /\ Place(R, V, t) = n - 1
  <2> DEFINE r == Ranked(order, rows, key)
  <2>1. \E n \in DOMAIN r : t = r[n]
    BY DEF Range
  <2>2. /\ DOMAIN r = 1 .. Top(rows, key)
        /\ \A n \in 1 .. Top(rows, key) : r[n] \in V /\ Place(R, V, r[n]) = n - 1
    BY RankedIs
  <2> HIDE DEF r, V, R
  <2>3. \E n \in 1 .. Top(rows, key) : t = r[n] /\ t \in V /\ Place(R, V, t) = n - 1
    BY <2>1, <2>2
  <2>. QED
    BY <2>3 DEF r
<1>2. Cardinality(before) <= TopN - 1
  BY <1>1, TopIs, PatternsAssumption DEF Place
<1>3. ahead \in SUBSET before
  BY <1>1, PrecedenceIsTotal DEF Precedes
<1>4. before \in SUBSET V /\ IsFiniteSet(V)
  BY ValuesFinite
<1> HIDE DEF ahead, before, V
<1>5. IsFiniteSet(before) /\ Cardinality(before) \in Nat
  BY <1>4, FS_Subset, FS_CardinalityType
<1>6. IsFiniteSet(ahead) /\ Cardinality(ahead) \in Nat
      /\ Cardinality(ahead) <= Cardinality(before)
  BY <1>3, <1>5, FS_Subset, FS_CardinalityType
<1>. QED
  BY <1>1, <1>2, <1>5, <1>6, PatternsAssumption DEF ahead, V

\* A topic is among the best and among the worst only when there are too few
\* topics for both lists or another one does as well.
THEOREM BothListsNeedTie ==
  ASSUME NEW rows \in Seq(ReelRows),
         NEW t \in Range(Best(rows, "topic")) \cap Range(WorstTopics(rows))
  PROVE  \/ Cardinality(ValuesOf(rows, "topic")) < 2 * TopN
         \/ \E v \in ValuesOf(rows, "topic") \ {t} : Equal(rows, v, t)
<1> DEFINE V == ValuesOf(rows, "topic")
           better == {w \in V : Behind("best", rows, "topic", t, w)}
           worse == {w \in V : Behind("worst", rows, "topic", t, w)}
<1>1. /\ IsFiniteSet(better) /\ Cardinality(better) \in 0 .. TopN - 1 /\ t \in V
      /\ IsFiniteSet(worse) /\ Cardinality(worse) \in 0 .. TopN - 1
  BY FewBefore DEF Best, WorstTopics, Orders
<1>2. SUFFICES ASSUME \A v \in V \ {t} : ~ Equal(rows, v, t)
               PROVE  Cardinality(V) < 2 * TopN
  OBVIOUS
<1>3. V \subseteq (better \cup worse) \cup {t}
  BY <1>2 DEF Equal, Behind
<1> HIDE DEF V, better, worse
<1> DEFINE W == (better \cup worse) \cup {t}
<1>4. /\ IsFiniteSet(W) /\ Cardinality(W) \in Nat
      /\ Cardinality(W) <= Cardinality(better) + Cardinality(worse) + 1
  BY <1>1, UnionWithOne
<1> HIDE DEF W
<1>5. Cardinality(V) <= Cardinality(W) /\ Cardinality(V) \in Nat
  BY <1>3, <1>4, FS_Subset, FS_CardinalityType DEF W
<1>. QED
  BY <1>1, <1>4, <1>5, PatternsAssumption

=============================================================================
