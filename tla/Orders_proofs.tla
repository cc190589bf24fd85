---------------------------- MODULE Orders_proofs ----------------------------
(***************************************************************************)
(* Facts about finite sets, orders of them and the places in an order,     *)
(* used for the two rankings of this project: by engagement and by score.  *)
(***************************************************************************)
EXTENDS Integers, FiniteSetsExt, FiniteSetTheorems, WellFoundedInduction, TLAPS

-----------------------------------------------------------------------------
(* The least and the greatest number of a set. *)

LEMMA LeastNat ==
  ASSUME NEW T \in SUBSET Nat, T # {}
  PROVE  \E x \in T : \A y \in T : x <= y
<1> DEFINE R == OpToRel(<, Nat)
<1>1. \E x \in T : \A y \in T : ~ (<<y, x>> \in R)
  BY NatLessThanWellFounded, WFMin
<1>2. \A x, y \in T : y < x => <<y, x>> \in R
  BY DEF OpToRel
<1> HIDE DEF R
<1>3. PICK x \in T : \A y \in T : ~ (<<y, x>> \in R)
  BY <1>1, Zenon
<1>4. \A y \in T : ~ (y < x)
  BY <1>2, <1>3, Zenon
<1>5. \A y \in T : x <= y
  BY <1>4
<1>. QED
  BY <1>5

LEMMA GreatestNat ==
  ASSUME NEW n \in Nat, NEW T \in SUBSET (1 .. n), T # {}
  PROVE  Max(T) \in T
<1> DEFINE U == {n - k : k \in T}
<1>1. U \in SUBSET Nat
  <2>1. \A k \in T : n - k \in Nat
    OBVIOUS
  <2>. QED
    BY <2>1
<1>2. U # {}
  OBVIOUS
<1>3. PICK m \in U : \A y \in U : m <= y
  <2> HIDE DEF U
  <2>. QED
    BY <1>1, <1>2, LeastNat
<1>4. PICK k \in T : m = n - k
  OBVIOUS
<1>5. \A y \in T : n - y \in U
  OBVIOUS
<1> HIDE DEF U
<1>6. \A y \in T : n - k <= n - y
  BY <1>3, <1>4, <1>5
<1>7. \A y \in T : k >= y
  BY <1>6
<1>. QED
  BY <1>7 DEF Max

-----------------------------------------------------------------------------
(* Places in a strict total order of a finite set. *)

\* R is a strict total order of S.
TotalOrder(R, S) ==
  /\ \A v \in S : <<v, v>> \notin R
  /\ \A u, v, w \in S : <<u, v>> \in R /\ <<v, w>> \in R => <<u, w>> \in R
  /\ \A v, w \in S : v # w => <<v, w>> \in R \/ <<w, v>> \in R

Place(R, S, v) == Cardinality({w \in S : <<w, v>> \in R})

LEMMA PlaceGrows ==
  ASSUME NEW S, IsFiniteSet(S), NEW R, TotalOrder(R, S)
  PROVE  /\ \A v \in S : Place(R, S, v) \in 0 .. Cardinality(S) - 1
         /\ \A v, w \in S : <<v, w>> \in R => Place(R, S, v) < Place(R, S, w)
<1> DEFINE before(v) == {w \in S : <<w, v>> \in R}
<1>1. \A v \in S : /\ before(v) \in SUBSET S /\ IsFiniteSet(before(v))
                   /\ Cardinality(before(v)) \in Nat
  BY FS_Subset, FS_CardinalityType
<1>2. Cardinality(S) \in Nat
  BY FS_CardinalityType
<1>3. ASSUME NEW v \in S
      PROVE  Place(R, S, v) \in 0 .. Cardinality(S) - 1
  <2>1. before(v) # S
    BY DEF TotalOrder
  <2>2. Cardinality(before(v)) <= Cardinality(S) /\ Cardinality(before(v)) # Cardinality(S)
    <3> HIDE DEF before
    <3>. QED
      BY <1>1, <2>1, FS_Subset
  <2>3. Place(R, S, v) = Cardinality(before(v)) /\ Cardinality(before(v)) \in Nat
    BY <1>1 DEF Place
  <2> HIDE DEF before
  <2>. QED
    BY <1>2, <2>2, <2>3
<1>4. ASSUME NEW v \in S, NEW w \in S, <<v, w>> \in R
      PROVE  Place(R, S, v) < Place(R, S, w)
  <2>1. before(v) \in SUBSET before(w)
    BY <1>4 DEF TotalOrder
  <2>2. v \in before(w) /\ v \notin before(v)
    BY <1>4 DEF TotalOrder
  <2>3. Cardinality(before(v)) <= Cardinality(before(w))
        /\ Cardinality(before(v)) # Cardinality(before(w))
    <3>1. IsFiniteSet(before(w)) /\ before(v) # before(w)
      BY <1>1, <2>2
    <3> HIDE DEF before
    <3>. QED
      BY <2>1, <3>1, FS_Subset
  <2>. QED
    BY <1>1, <2>3 DEF Place
<1>. QED
  BY <1>3, <1>4

\* Every place is taken, by one value.
LEMMA PlacesTaken ==
  ASSUME NEW S, IsFiniteSet(S), NEW R, TotalOrder(R, S),
         NEW k \in 0 .. Cardinality(S) - 1
  PROVE  \E v \in S : Place(R, S, v) = k
<1> DEFINE T == 0 .. Cardinality(S) - 1
           f == [v \in S |-> Place(R, S, v)]
<1>1. Cardinality(S) \in Nat
  BY FS_CardinalityType
<1>2. f \in [S -> T]
  BY PlaceGrows
<1>3. \A v, w \in S : f[v] = f[w] => v = w
  <2>1. ASSUME NEW v \in S, NEW w \in S, <<v, w>> \in R
        PROVE  Place(R, S, v) # Place(R, S, w)
    BY <1>1, <2>1, PlaceGrows
  <2>. QED
    BY <2>1 DEF TotalOrder
<1>4. IsFiniteSet(T) /\ Cardinality(T) = Cardinality(S)
  BY <1>1, FS_Interval
<1> HIDE DEF f, T
<1>5. f \in Injection(S, T)
  BY <1>2, <1>3 DEF Injection, IsInjective
<1>6. f \in Surjection(S, T)
  BY <1>4, <1>5, FS_Injection
<1>7. PICK v \in S : f[v] = k
  BY <1>6 DEF Surjection, T
<1>. QED
  BY <1>7 DEF f

\* No two share a place.
LEMMA SamePlace ==
  ASSUME NEW S, IsFiniteSet(S), NEW R, TotalOrder(R, S), NEW v \in S, NEW w \in S,
         Place(R, S, v) = Place(R, S, w)
  PROVE  v = w
<1>1. \A x \in S : Place(R, S, x) \in Int
  BY PlaceGrows
<1>2. <<v, w>> \notin R /\ <<w, v>> \notin R
  BY <1>1, PlaceGrows
<1>. QED
  BY <1>2 DEF TotalOrder

\* The elements at the places below n.
LEMMA Podium ==
  ASSUME NEW S, IsFiniteSet(S), NEW R, TotalOrder(R, S), NEW n \in Nat
  PROVE  Cardinality({v \in S : Place(R, S, v) < n})
           = IF Cardinality(S) < n THEN Cardinality(S) ELSE n
<1> DEFINE K == {v \in S : Place(R, S, v) < n}
           c == Cardinality(S)
           m == IF c < n THEN c ELSE n
           T == 0 .. m - 1
           f == [v \in K |-> Place(R, S, v)]
<1>1. c \in Nat /\ m \in Nat /\ m <= c
  BY FS_CardinalityType
<1>2. \A v \in S : Place(R, S, v) \in 0 .. c - 1
  BY PlaceGrows
<1>3. f \in [K -> T]
  BY <1>1, <1>2
<1>4. \A k \in T : \E v \in K : f[v] = k
  <2> SUFFICES ASSUME NEW k \in T
               PROVE  \E v \in K : f[v] = k
    OBVIOUS
  <2>1. k \in 0 .. c - 1 /\ k < n
    BY <1>1
  <2>2. PICK v \in S : Place(R, S, v) = k
    BY <2>1, PlacesTaken
  <2>. QED
    BY <2>1, <2>2
<1>5. \A v, w \in K : f[v] = f[w] => v = w
  BY SamePlace
<1>6. IsFiniteSet(K)
  BY FS_Subset
<1>7. IsFiniteSet(T) /\ Cardinality(T) = m
  <2> HIDE DEF m
  <2>1. 0 \in Int /\ m - 1 \in Int
    BY <1>1
  <2>2. IsFiniteSet(T) /\ Cardinality(T) = IF 0 > m - 1 THEN 0 ELSE m - 1 - 0 + 1
    BY <2>1, FS_Interval
  <2> HIDE DEF T
  <2>. QED
    BY <1>1, <2>2
<1> HIDE DEF K, T, f, m
<1>8. f \in Bijection(K, T)
  BY <1>3, <1>4, <1>5 DEF Bijection, Injection, Surjection, IsInjective
<1>9. Cardinality(K) = Cardinality(T)
  BY <1>6, <1>7, <1>8, FS_Bijection DEF ExistsBijection
<1>. QED
  BY <1>7, <1>9 DEF K, m

-----------------------------------------------------------------------------
(* What a stable sort by W leaves: W decides, and what W does not tell apart *)
(* keeps the order in which f found it.                                     *)

\* W is a strict weak order of S.
WeakOrder(W, S) ==
  /\ \A v, w \in S : <<v, w>> \in W => <<w, v>> \notin W
  /\ \A u, v, w \in S : <<u, v>> \in W => <<u, w>> \in W \/ <<w, v>> \in W

Stable(W, f, S) ==
  {p \in S \X S : \/ p \in W
                  \/ <<p[2], p[1]>> \notin W /\ f[p[1]] < f[p[2]]}

LEMMA StableIsTotal ==
  ASSUME NEW S, NEW W, WeakOrder(W, S),
         NEW f \in [S -> Nat], \A v, w \in S : v # w => f[v] # f[w]
  PROVE  TotalOrder(Stable(W, f, S), S)
<1> DEFINE R == Stable(W, f, S)
           B(v, w) == <<v, w>> \in W
<1>1. \A v, w \in S : <<v, w>> \in R <=> B(v, w) \/ (~ B(w, v) /\ f[v] < f[w])
  BY DEF Stable
<1>2. /\ \A v, w \in S : B(v, w) => ~ B(w, v)
      /\ \A u, v, w \in S : B(u, v) => B(u, w) \/ B(w, v)
  BY DEF WeakOrder
<1>3. \A v \in S : f[v] \in Nat
  OBVIOUS
<1> HIDE DEF R, B
<1>4. \A v \in S : <<v, v>> \notin R
  BY <1>1, <1>2, <1>3
<1>5. \A u, v, w \in S : <<u, v>> \in R /\ <<v, w>> \in R => <<u, w>> \in R
  <2>1. SUFFICES ASSUME NEW u \in S, NEW v \in S, NEW w \in S,
                        B(u, v) \/ (~ B(v, u) /\ f[u] < f[v]),
                        B(v, w) \/ (~ B(w, v) /\ f[v] < f[w])
                 PROVE  B(u, w) \/ (~ B(w, u) /\ f[u] < f[w])
    BY <1>1
  <2>2. CASE B(u, v)
    <3>1. ~ B(w, v)
      BY <1>2, <2>1
    <3>. QED
      BY <1>2, <2>2, <3>1
  <2>3. CASE ~ B(u, v) /\ B(v, w)
    <3>1. ~ B(v, u)
      BY <2>1, <2>3
    <3>. QED
      BY <1>2, <2>3, <3>1
  <2>4. CASE ~ B(u, v) /\ ~ B(v, w)
    <3>1. f[u] < f[w]
      BY <1>3, <2>1, <2>4
    <3>2. ~ B(v, u) /\ ~ B(w, v)
      BY <2>1, <2>4
    <3>3. ~ B(w, u)
      BY <1>2, <3>2
    <3>. QED
      BY <3>1, <3>3
  <2>. QED
    BY <2>2, <2>3, <2>4
<1>6. \A v, w \in S : v # w => <<v, w>> \in R \/ <<w, v>> \in R
  <2>1. ASSUME NEW v \in S, NEW w \in S, v # w
        PROVE  f[v] < f[w] \/ f[w] < f[v]
    BY <1>3, <2>1
  <2>. QED
    BY <1>1, <2>1
<1>. QED
  BY <1>4, <1>5, <1>6 DEF TotalOrder, R

-----------------------------------------------------------------------------
(* Cardinalities. *)

LEMMA UnionWithOne ==
  ASSUME NEW S, IsFiniteSet(S), NEW T, IsFiniteSet(T), NEW x
  PROVE  /\ IsFiniteSet((S \cup T) \cup {x})
         /\ Cardinality((S \cup T) \cup {x}) \in Nat
         /\ Cardinality((S \cup T) \cup {x}) <= Cardinality(S) + Cardinality(T) + 1
<1>1. /\ Cardinality(S) \in Nat /\ Cardinality(T) \in Nat
      /\ IsFiniteSet(S \cap T) /\ Cardinality(S \cap T) \in Nat
  BY FS_Intersection, FS_CardinalityType
<1> DEFINE U == S \cup T
<1>2. IsFiniteSet(U) /\ Cardinality(U) = Cardinality(S) + Cardinality(T) - Cardinality(S \cap T)
  BY FS_Union
<1>3. Cardinality(U) \in Nat
  BY <1>2, FS_CardinalityType
<1> HIDE DEF U
<1>4. IsFiniteSet(U \cup {x})
  BY <1>2, FS_AddElement
<1>5. Cardinality(U \cup {x}) = IF x \in U THEN Cardinality(U) ELSE Cardinality(U) + 1
  BY <1>2, FS_AddElement
<1>6. Cardinality(U \cup {x}) \in Nat
      /\ Cardinality(U \cup {x}) <= Cardinality(S) + Cardinality(T) + 1
  BY <1>1, <1>2, <1>3, <1>5
<1>. QED
  BY <1>4, <1>6 DEF U

=============================================================================
