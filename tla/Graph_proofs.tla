---------------------------- MODULE Graph_proofs ----------------------------
(***************************************************************************)
(* What the agent may say with full confidence, for any results of the     *)
(* searches, any query and any size of the page of the reranker.           *)
(***************************************************************************)
EXTENDS AgentGraph, Orders_proofs, SequenceTheorems

Scores == 0 .. 10000

-----------------------------------------------------------------------------
(* The highest of some scores, and the rows a search leaves. *)

LEMMA HighestExists ==
  ASSUME NEW S \in SUBSET Scores
  PROVE  Highest(S) \in Scores /\ (S = {} => Highest(S) = 0)
<1> DEFINE T == S \cup {0}
           gaps == {g \in Scores : 10000 - g \in T}
<1>1. T \subseteq Scores /\ 0 \in T
  BY DEF Scores
<1>2. gaps \subseteq Nat /\ gaps # {}
  <2>1. 10000 \in Scores /\ 10000 - 10000 = 0 /\ Scores \subseteq Nat
    BY DEF Scores
  <2>2. 10000 \in gaps
    BY <1>1, <2>1
  <2>3. gaps \subseteq Scores
    OBVIOUS
  <2> HIDE DEF gaps
  <2>. QED
    BY <2>1, <2>2, <2>3
<1> HIDE DEF gaps
<1>3. PICK g \in gaps : \A h \in gaps : g <= h
  BY <1>2, LeastNat, Zenon
<1> DEFINE x == 10000 - g
<1>4. \A y \in T : x >= y
  <2> SUFFICES ASSUME NEW y \in T
               PROVE  x >= y
    OBVIOUS
  <2>1. y \in 0 .. 10000 /\ g \in 0 .. 10000
    BY <1>1, <1>3 DEF Scores, gaps
  <2>2. 10000 - y \in 0 .. 10000 /\ 10000 - (10000 - y) = y
    BY <2>1
  <2>3. 10000 - y \in gaps
    BY <2>2 DEF Scores, gaps
  <2>4. g <= 10000 - y
    BY <1>3, <2>3
  <2>. QED
    BY <2>1, <2>4
<1>5. x \in T
  BY <1>3 DEF gaps
<1> HIDE DEF T, x
<1>6. Max(T) \in T
  BY <1>4, <1>5 DEF Max
<1>7. S = {} => Max(T) = 0
  BY <1>6 DEF T
<1>. QED
  BY <1>1, <1>6, <1>7 DEF Highest, T

LEMMA FirstRows ==
  ASSUME NEW X, NEW s \in Seq(X), NEW n \in Nat
  PROVE  AtMost(n, s) \in Seq(X)
<1> DEFINE k == IF Len(s) < n THEN Len(s) ELSE n
<1>1. k \in Nat /\ k <= Len(s)
  OBVIOUS
<1> HIDE DEF k
<1>2. \A i \in 1 .. k : s[i] \in X
  BY <1>1, ElementOfSeq
<1>3. SubSeq(s, 1, k) \in Seq(X)
  BY <1>1, <1>2, SubSeqProperties
<1>. QED
  BY <1>3 DEF AtMost, k

LEMMA PlacesAreFinite ==
  ASSUME NEW m \in Nat, NEW first \in SUBSET (1 .. m)
  PROVE  IsFiniteSet(first) /\ Cardinality(first) \in Nat
<1>1. IsFiniteSet(1 .. m)
  BY FS_Interval
<1>2. IsFiniteSet(first)
  BY <1>1, FS_Subset
<1>. QED
  BY <1>2, FS_CardinalityType

\* Below place m there are places of "first" in any number up to theirs.
LEMMA NthExists ==
  ASSUME NEW m \in Nat, NEW first \in SUBSET (1 .. m), NEW n \in 1 .. Cardinality(first)
  PROVE  \E k \in first : Cardinality({j \in first : j <= k}) = n
<1> DEFINE upTo(k) == {j \in first : j <= k}
           T == {k \in 0 .. m : Cardinality(upTo(k)) >= n}
<1>1. IsFiniteSet(first) /\ Cardinality(first) \in Nat
  BY PlacesAreFinite
<1>2. \A k : IsFiniteSet(upTo(k)) /\ Cardinality(upTo(k)) \in Nat
  <2> SUFFICES ASSUME NEW k
               PROVE  IsFiniteSet(upTo(k)) /\ Cardinality(upTo(k)) \in Nat
    OBVIOUS
  <2>1. upTo(k) \in SUBSET first
    OBVIOUS
  <2>. QED
    BY <1>1, <2>1, FS_Subset, FS_CardinalityType
<1>3. upTo(m) = first /\ m \in 0 .. m
  <2>1. \A j \in first : j <= m
    OBVIOUS
  <2>2. upTo(m) = first
    BY <2>1, Zenon
  <2>3. m \in 0 .. m
    OBVIOUS
  <2>. QED
    BY <2>2, <2>3
<1>4. T # {} /\ T \subseteq Nat
  <2>1. Cardinality(upTo(m)) >= n
    BY <1>1, <1>3
  <2>2. m \in T
    BY <1>3, <2>1
  <2>3. T \subseteq 0 .. m /\ 0 .. m \subseteq Nat
    OBVIOUS
  <2> HIDE DEF T
  <2>. QED
    BY <2>2, <2>3
<1>5. PICK k \in T : \A h \in T : k <= h
  BY <1>4, LeastNat
<1>6. Cardinality(upTo(0)) = 0
  <2>1. \A j \in first : ~ (j <= 0)
    OBVIOUS
  <2>2. upTo(0) = {}
    BY <2>1, Zenon
  <2>. QED
    BY <2>2, FS_EmptySet
<1>7. k \in 0 .. m /\ Cardinality(upTo(k)) >= n
  BY <1>5
<1>8. k \in 1 .. m
  <2>1. k # 0
    BY <1>6, <1>7
  <2>. QED
    BY <1>7, <2>1
<1>9. ~ (Cardinality(upTo(k - 1)) >= n)
  <2>1. k - 1 \in 0 .. m /\ ~ (k <= k - 1)
    BY <1>8
  <2>2. k - 1 \notin T
    BY <1>5, <2>1
  <2>. QED
    BY <2>1, <2>2
<1>10. upTo(k) = IF k \in first THEN upTo(k - 1) \cup {k} ELSE upTo(k - 1)
  <2>1. \A j \in first : j <= k <=> j = k \/ j <= k - 1
    BY <1>8
  <2>2. k <= k
    BY <1>8
  <2>. QED
    BY <2>1, <2>2
<1>11. k \notin upTo(k - 1)
  BY <1>8
<1> HIDE DEF upTo, T
<1>12. k \in first
  BY <1>7, <1>9, <1>10
<1>13. Cardinality(upTo(k)) = Cardinality(upTo(k - 1)) + 1
  BY <1>2, <1>10, <1>11, <1>12, FS_AddElement
<1>14. Cardinality(upTo(k)) = n
  BY <1>2, <1>7, <1>9, <1>13
<1>. QED
  BY <1>12, <1>14 DEF upTo

\* Removing the rows that were found before leaves rows that were found.
LEMMA FirstOfEachIdType ==
  ASSUME NEW X, NEW s \in Seq(X)
  PROVE  FirstOfEachId(s) \in Seq(X)
<1> DEFINE first == Firsts(s)
           nth[n \in Nat] == CHOOSE k \in first : Cardinality({j \in first : j <= k}) = n
           result == [n \in 1 .. Cardinality(first) |-> s[nth[n]]]
<1>1. Len(s) \in Nat /\ first \in SUBSET (1 .. Len(s))
  BY DEF Firsts
<1>2. Cardinality(first) \in Nat
  BY <1>1, PlacesAreFinite
<1>3. ASSUME NEW n \in 1 .. Cardinality(first)
      PROVE  s[nth[n]] \in X
  <2>1. \E k \in first : Cardinality({j \in first : j <= k}) = n
    BY <1>1, NthExists
  <2>2. n \in Nat
    BY <1>2
  <2>3. nth[n] = CHOOSE k \in first : Cardinality({j \in first : j <= k}) = n
    BY <2>2
  <2>4. nth[n] \in first
    BY <2>1, <2>3
  <2>. QED
    BY <1>1, <2>4, ElementOfSeq
<1>4. FirstOfEachId(s) = result
  BY DEF FirstOfEachId
<1> HIDE DEF result
<1>5. result \in [1 .. Cardinality(first) -> X]
  BY <1>3 DEF result
<1>. QED
  BY <1>2, <1>4, <1>5, SeqDef

LEMMA SearchesAreRows ==
  ASSUME NEW similar \in Searches
  PROVE  similar \in Seq(Row)
<1>1. PICK searched \in BOOLEAN, dense \in DenseResults, sparse \in SparseResults,
           stored \in StoredResults :
        similar = HybridSearch(searched, dense, sparse, stored)
  BY DEF Searches
<1>2. dense \in Seq(Row) /\ sparse \in Seq(Row) /\ stored \in Seq(Row)
  BY <1>1, GraphAssumption
<1>3. dense \o sparse \in Seq(Row)
  BY <1>2, ConcatProperties
<1>4. FirstOfEachId(dense \o sparse) \in Seq(Row)
  BY <1>3, FirstOfEachIdType
<1>5. SearchLimit \in Nat /\ FallbackLimit \in Nat
  BY RerankerAssumption
<1>6. /\ AtMost(SearchLimit, FirstOfEachId(dense \o sparse)) \in Seq(Row)
      /\ AtMost(FallbackLimit, stored) \in Seq(Row)
  BY <1>2, <1>4, <1>5, FirstRows
<1>. QED
  BY <1>1, <1>6 DEF HybridSearch, SearchReelsHybrid

-----------------------------------------------------------------------------
(* The scores. *)

LEMMA CoverageType ==
  ASSUME NEW terms \in SUBSET QueryTerms
  PROVE  Coverage(terms) \in Nat /\ (terms = {} => Coverage(terms) = 0)
<1> DEFINE a == Cardinality(terms)
           b == Cardinality(QueryTerms)
<1>1. a \in Nat /\ b \in Nat /\ (terms = {} => a = 0)
  BY RerankerAssumption, FS_Subset, FS_CardinalityType, FS_EmptySet
<1>2. QueryTerms # {} => b > 0
  BY <1>1, RerankerAssumption, FS_EmptySet
<1> HIDE DEF a, b
<1>3. b > 0 => (100 * a) \div b \in Nat /\ (a = 0 => (100 * a) \div b = 0)
  BY <1>1
<1>. QED
  BY <1>1, <1>2, <1>3 DEF Coverage, a, b

LEMMA RerankerScoreType ==
  ASSUME NEW c \in Row
  PROVE  RerankerScore(c) \in Scores
<1> DEFINE a == c.retrieval
           b == c.bm25
           v == Coverage(c.terms)
           f == FuseScores(c)
           sum == v * 40 + f * 30 + a * 20 + b * 10
<1>1. a \in Nat /\ b \in Nat /\ c.terms \in SUBSET QueryTerms
  BY DEF Row, Percent
<1>2. v \in Nat
  BY <1>1, CoverageType
<1>3. f = IF a > 0 /\ b > 0 THEN (a + b) \div 2 ELSE a + b
  BY DEF FuseScores
<1>4. RerankerScore(c) = IF c.text THEN Capped(sum) ELSE 0
  BY DEF RerankerScore
<1> HIDE DEF a, b, v, f
<1>5. f \in Nat
  <2>1. (a + b) \div 2 \in Nat /\ a + b \in Nat
    BY <1>1
  <2>. QED
    BY <1>3, <2>1
<1>6. sum \in Nat
  BY <1>1, <1>2, <1>5
<1> HIDE DEF sum
<1>7. Capped(sum) \in Scores /\ 0 \in Scores
  BY <1>6 DEF Capped, Scores
<1>. QED
  BY <1>4, <1>7

\* The confidence of the rows that were kept; nothing kept gives none.
LEMMA ConfidenceType ==
  ASSUME NEW top \in SUBSET Row
  PROVE  /\ RetrievalConfidence(top) \in Scores
         /\ top = {} => RetrievalConfidence(top) = 0
<1> DEFINE retrievals == {c.retrieval : c \in top}
           rerankers == {RerankerScore(c) : c \in top}
           terms == UNION {c.terms : c \in top}
           x == Highest(retrievals)
           y == Highest(rerankers)
           z == Coverage(terms)
<1>1. retrievals \in SUBSET Scores /\ (top = {} => retrievals = {})
  BY DEF Row, Percent, Scores
<1>2. rerankers \in SUBSET Scores /\ (top = {} => rerankers = {})
  BY RerankerScoreType
<1>3. terms \in SUBSET QueryTerms /\ (top = {} => terms = {})
  BY DEF Row
<1> HIDE DEF retrievals, rerankers
<1>4. x \in Scores /\ (top = {} => x = 0)
  BY <1>1, HighestExists
<1>5. y \in Scores /\ (top = {} => y = 0)
  BY <1>2, HighestExists
<1>6. z \in Nat /\ (top = {} => z = 0)
  BY <1>3, CoverageType
<1>7. RetrievalConfidence(top) = Capped(x * 35 + (y * 40) \div 100 + z * 25)
  BY DEF RetrievalConfidence, retrievals, rerankers
<1> HIDE DEF x, y, z
<1>8. (y * 40) \div 100 \in Nat /\ (y = 0 => (y * 40) \div 100 = 0)
  BY <1>5 DEF Scores
<1>. QED
  BY <1>4, <1>5, <1>6, <1>7, <1>8 DEF Capped, Scores

\* The reranker keeps rows it was given.
LEMMA RerankedRows ==
  ASSUME NEW docs \in Seq(Row)
  PROVE  Reranked(docs) \in SUBSET Row /\ (docs = <<>> => Reranked(docs) = {})
<1>1. Firsts(docs) \subseteq DOMAIN docs
  BY DEF Firsts
<1>2. \A k \in DOMAIN docs : docs[k] \in Row
  BY ElementOfSeq
<1>3. docs = <<>> => DOMAIN docs = {}
  OBVIOUS
<1>. QED
  BY <1>1, <1>2, <1>3 DEF Reranked

-----------------------------------------------------------------------------
(* The rows that are kept. *)

LEMMA FuseScoresType ==
  ASSUME NEW c \in Row
  PROVE  FuseScores(c) \in Nat
<1> DEFINE a == c.retrieval
           b == c.bm25
<1>1. a \in Nat /\ b \in Nat
  BY DEF Row, Percent
<1>2. FuseScores(c) = IF a > 0 /\ b > 0 THEN (a + b) \div 2 ELSE a + b
  BY DEF FuseScores
<1> HIDE DEF a, b
<1>3. (a + b) \div 2 \in Nat /\ a + b \in Nat
  BY <1>1
<1>. QED
  BY <1>2, <1>3

LEMMA BetterIsWeakOrder ==
  /\ \A c, d \in Row : Better(c, d) => ~ Better(d, c)
  /\ \A b, c, d \in Row : Better(b, c) => Better(b, d) \/ Better(d, c)
<1> DEFINE s(c) == RerankerScore(c)
           f(c) == FuseScores(c)
<1>1. \A c \in Row : s(c) \in Nat /\ f(c) \in Nat
  <2>1. Scores \subseteq Nat
    BY DEF Scores
  <2>. QED
    BY <2>1, RerankerScoreType, FuseScoresType
<1>2. \A c, d \in Row : Better(c, d) <=> s(c) > s(d) \/ (s(c) = s(d) /\ f(c) > f(d))
  BY DEF Better
<1> HIDE DEF s, f
<1>. QED
  BY <1>1, <1>2

\* The places of the first rows of each id, in the order they are ranked.
Ranking(docs) ==
  {p \in Firsts(docs) \X Firsts(docs) :
     \/ Better(docs[p[1]], docs[p[2]])
     \/ ~ Better(docs[p[2]], docs[p[1]]) /\ p[1] < p[2]}

LEMMA FirstPlaces ==
  ASSUME NEW docs \in Seq(Row)
  PROVE  /\ Firsts(docs) \in SUBSET (1 .. Len(docs))
         /\ IsFiniteSet(Firsts(docs)) /\ Cardinality(Firsts(docs)) \in Nat
         /\ \A k \in Firsts(docs) : docs[k] \in Row
         /\ \A j, k \in Firsts(docs) : docs[j].id = docs[k].id => j = k
<1>1. Firsts(docs) \in SUBSET (1 .. Len(docs))
  BY DEF Firsts
<1>2. \A k \in Firsts(docs) : docs[k] \in Row
  BY <1>1, ElementOfSeq
<1>3. ASSUME NEW j \in Firsts(docs), NEW k \in Firsts(docs), j < k
      PROVE  docs[j].id # docs[k].id
  <2>1. j \in 1 .. k - 1
    BY <1>1, <1>3
  <2>. QED
    BY <2>1 DEF Firsts
<1>4. \A j, k \in Firsts(docs) : docs[j].id = docs[k].id => j = k
  <2>1. \A j, k \in Firsts(docs) : j < k \/ k < j \/ j = k
    BY <1>1
  <2>. QED
    BY <1>3, <2>1
<1>5. Len(docs) \in Nat
  OBVIOUS
<1>. QED
  BY <1>1, <1>2, <1>4, <1>5, PlacesAreFinite

LEMMA RankingIsTotal ==
  ASSUME NEW docs \in Seq(Row)
  PROVE  /\ TotalOrder(Ranking(docs), Firsts(docs))
         /\ \A j, k \in Firsts(docs) :
              Better(docs[j], docs[k]) => <<j, k>> \in Ranking(docs)
<1> DEFINE S == Firsts(docs)
           W == {p \in S \X S : Better(docs[p[1]], docs[p[2]])}
           f == [k \in S |-> k]
<1>1. f \in [S -> Nat] /\ \A j, k \in S : j # k => f[j] # f[k]
  BY FirstPlaces
<1>2. Ranking(docs) = Stable(W, f, S)
  BY DEF Ranking, Stable
<1>3. \A k \in S : docs[k] \in Row
  BY FirstPlaces
<1>4. WeakOrder(W, S)
  <2> HIDE DEF S
  <2>1. \A j, k \in S : <<j, k>> \in W <=> Better(docs[j], docs[k])
    OBVIOUS
  <2> HIDE DEF W
  <2>. QED
    BY <1>3, <2>1, BetterIsWeakOrder DEF WeakOrder
<1>5. \A j, k \in S : Better(docs[j], docs[k]) => <<j, k>> \in Ranking(docs)
  BY DEF Ranking
<1> HIDE DEF S, W, f
<1>6. TotalOrder(Stable(W, f, S), S)
  BY <1>1, <1>4, StableIsTotal
<1>. QED
  BY <1>2, <1>5, <1>6 DEF S

\* What the agent reads of its search results: one row of each id, all of them
\* or as many as RERANKER_TOP_K, and none that was dropped is better than one
\* that was kept.
THEOREM RerankedAreBest ==
  ASSUME NEW docs \in Seq(Row)
  PROVE  LET kept == Reranked(docs)
             n == Cardinality(Firsts(docs))
         IN  /\ kept \in SUBSET {docs[k] : k \in Firsts(docs)}
             /\ Cardinality(kept) = IF n < RerankerTopK THEN n ELSE RerankerTopK
             /\ \A c, d \in kept : c.id = d.id => c = d
             /\ \A c \in kept, k \in Firsts(docs) :
                  docs[k] \notin kept => ~ Better(docs[k], c)
<1> DEFINE S == Firsts(docs)
           R == Ranking(docs)
           P(k) == Place(R, S, k)
           K == {k \in S : P(k) < RerankerTopK}
           kept == Reranked(docs)
<1>1. /\ IsFiniteSet(S) /\ Cardinality(S) \in Nat
      /\ \A j, k \in S : docs[j].id = docs[k].id => j = k
  BY FirstPlaces
<1>2. TotalOrder(R, S) /\ \A j, k \in S : Better(docs[j], docs[k]) => <<j, k>> \in R
  BY RankingIsTotal
<1>3. RerankerTopK \in Nat
  BY RerankerAssumption
<1>4. kept = {docs[k] : k \in K}
  <2> DEFINE place(k) == Cardinality({j \in S :
                           \/ Better(docs[j], docs[k])
                           \/ ~ Better(docs[k], docs[j]) /\ j < k})
  <2>1. kept = {docs[k] : k \in {j \in S : place(j) < RerankerTopK}}
    BY DEF Reranked
  <2>2. \A k \in S : place(k) = P(k)
    BY DEF Place, Ranking
  <2> HIDE DEF place, P, S, kept
  <2>. QED
    BY <2>1, <2>2
<1>5. Cardinality(K) = IF Cardinality(S) < RerankerTopK THEN Cardinality(S)
                                                        ELSE RerankerTopK
  <2> HIDE DEF S, R
  <2>. QED
    BY <1>1, <1>2, <1>3, Podium
<1>6. \A j, k \in S : <<j, k>> \in R => P(j) < P(k)
  <2> HIDE DEF S, R
  <2>. QED
    BY <1>1, <1>2, PlaceGrows
<1>7. \A k \in S : P(k) \in Nat
  <2> HIDE DEF S, R
  <2>1. \A k \in S : P(k) \in 0 .. Cardinality(S) - 1
    BY <1>1, <1>2, PlaceGrows
  <2>. QED
    BY <2>1
<1> HIDE DEF kept, P, R, S
<1>8. Cardinality(kept) = Cardinality(K)
  <2> DEFINE f == [k \in K |-> docs[k]]
  <2>1. IsFiniteSet(K)
    BY <1>1, FS_Subset
  <2> HIDE DEF K
  <2>2. \A j, k \in K : f[j] = f[k] => j = k
    <3>1. K \subseteq S
      BY DEF K
    <3>. QED
      BY <1>1, <3>1
  <2>3. f \in [K -> kept] /\ \A c \in kept : \E k \in K : f[k] = c
    BY <1>4
  <2> HIDE DEF f
  <2>4. f \in Bijection(K, kept)
    BY <2>2, <2>3 DEF Bijection, Injection, Surjection, IsInjective
  <2>. QED
    BY <2>1, <2>4, FS_Bijection DEF ExistsBijection
<1>9. \A c, d \in kept : c.id = d.id => c = d
  BY <1>1, <1>4
<1>10. ASSUME NEW c \in kept, NEW k \in S, docs[k] \notin kept
       PROVE  ~ Better(docs[k], c)
  <2>1. PICK j \in K : c = docs[j]
    BY <1>4
  <2>2. k \notin K
    BY <1>4, <1>10
  <2>3. ~ (P(k) < P(j))
    BY <1>3, <1>7, <2>1, <2>2
  <2>. QED
    BY <1>2, <1>6, <2>1, <2>3
<1>11. kept \in SUBSET {docs[k] : k \in S}
  BY <1>4
<1>. QED
  BY <1>5, <1>8, <1>9, <1>10, <1>11 DEF kept, S

-----------------------------------------------------------------------------
(* The answer. *)

RetrievedRecord ==
  [creator : BOOLEAN, analytics : BOOLEAN, competitor : BOOLEAN,
   trends : Seq(Row), similar : Seq(Row), pinned : Nat]

LEMMA BreadthPointsType ==
  ASSUME NEW sources, NEW documents
  PROVE  LET n == BreadthPoints(sources, documents)
         IN  n \in Nat /\ n <= 7000 /\ (sources \in 0 .. 1 => n <= 4000)
<1> DEFINE a == CASE sources >= 3 -> 4000 [] sources = 2 -> 2500
                  [] sources = 1 -> 1000 [] OTHER -> 0
           b == CASE documents >= 10 -> 3000 [] documents \in 5 .. 9 -> 2000
                  [] documents \in 1 .. 4 -> 1000 [] OTHER -> 0
<1>1. a \in {0, 1000, 2500, 4000}
  <2>1. CASE sources >= 3
    BY <2>1
  <2>2. CASE ~ (sources >= 3)
    BY <2>2
  <2>. QED
    BY <2>1, <2>2
<1>2. b \in {0, 1000, 2000, 3000}
  OBVIOUS
<1>3. sources \in 0 .. 1 => a \in {0, 1000}
  OBVIOUS
<1>4. BreadthPoints(sources, documents) = a + b
  BY DEF BreadthPoints
<1> HIDE DEF a, b
<1>. QED
  BY <1>1, <1>2, <1>3, <1>4

LEMMA OwnPointsType ==
  ASSUME NEW keys
  PROVE  /\ OwnPoints(keys) \in 0 .. 6000
         /\ keys \cap OwnData = {} => OwnPoints(keys) = 0
         /\ keys \cap Citable = {} => OwnPoints(keys) \in 0 .. 3000
BY DEF OwnPoints, OwnData, Citable

\* Without data of the creator the score is 7000 at most, and with the pinned
\* transcripts alone as well.
LEMMA FullNeedsOwnData ==
  ASSUME NEW r \in RetrievedRecord
  PROVE  LET c == ContextFusion(r)
         IN  Route(ConfidenceScore(c)) = "full" =>
               c.keys \cap OwnData # {} /\ c.keys \cap Citable # {}
<1> DEFINE c == ContextFusion(r)
           docs == r.trends \o r.similar
           combined == c.combined
           breadth == BreadthPoints(Cardinality(c.keys), c.documents)
           own == OwnPoints(c.keys)
<1>1. docs \in Seq(Row) /\ r.trends \in Seq(Row) /\ r.similar \in Seq(Row)
  BY ConcatProperties DEF RetrievedRecord
<1>2. /\ combined = RetrievalConfidence(Reranked(docs))
      /\ ConfidenceScore(c) =
           Capped((IF combined > 0 THEN combined \div 2 ELSE breadth) + own)
  <2>1. combined = RetrievalConfidence(Reranked(docs))
    BY DEF ContextFusion
  <2> HIDE DEF c
  <2>. QED
    BY <2>1 DEF ConfidenceScore
<1> HIDE DEF combined
<1>3. combined \in Nat /\ combined <= 10000 /\ (docs = <<>> => combined = 0)
  <2> DEFINE top == Reranked(docs)
  <2>1. top \in SUBSET Row /\ (docs = <<>> => top = {})
    BY <1>1, RerankedRows
  <2> HIDE DEF top
  <2>2. RetrievalConfidence(top) \in Scores /\ (top = {} => RetrievalConfidence(top) = 0)
    BY <2>1, ConfidenceType
  <2>3. combined = RetrievalConfidence(top)
    BY <1>2 DEF top
  <2>4. combined \in Scores /\ (docs = <<>> => combined = 0)
    BY <2>1, <2>2, <2>3
  <2> HIDE DEF docs
  <2>. QED
    BY <2>4 DEF Scores
<1>4. breadth \in Nat /\ breadth <= 7000 /\ own \in 0 .. 6000
  <2> DEFINE keys == c.keys
             sources == Cardinality(keys)
             documents == c.documents
  <2> HIDE DEF keys, sources, documents
  <2>1. breadth = BreadthPoints(sources, documents) /\ own = OwnPoints(keys)
    BY DEF keys, sources, documents
  <2> HIDE DEF breadth, own
  <2>. QED
    BY <2>1, BreadthPointsType, OwnPointsType
<1>5. CASE c.keys \cap OwnData = {}
  <2>1. own = 0
    BY <1>5, OwnPointsType
  <2> DEFINE score == ConfidenceScore(c)
             half == combined \div 2
  <2>2. score = Capped((IF combined > 0 THEN half ELSE breadth) + own)
    BY <1>2
  <2> HIDE DEF c, breadth, own, score
  <2>3. half \in Nat /\ half <= 5000
    BY <1>3
  <2> HIDE DEF half
  <2>5. score \in Nat /\ score <= 7000
    BY <1>4, <2>1, <2>2, <2>3 DEF Capped
  <2>6. Route(score) # "full"
    BY <2>5 DEF Route, HighConfidenceThreshold, ClarifyingThreshold
  <2>. QED
    BY <2>6 DEF score, c
<1>6. CASE c.keys \cap Citable = {}
  <2>1. c.keys =
          Present("creator_profile", r.creator)
          \cup Present("analytics", r.analytics)
          \cup Present("competitor_insights", r.competitor)
          \cup Present("similar_reels", r.similar # <<>>)
          \cup Present("trend_summary", r.trends # <<>>)
          \cup (IF docs # <<>> THEN {"retrieval_confidence", "reranked_candidates",
                                     "reranker_top_k"} ELSE {})
          \cup Present("pinned_transcripts", r.pinned > 0)
    BY DEF ContextFusion
  <2>2. /\ r.similar # <<>> => "similar_reels" \in c.keys
        /\ r.trends # <<>> => "trend_summary" \in c.keys
    BY <2>1 DEF Present
  <2>3. r.similar = <<>> /\ r.trends = <<>>
    BY <1>6, <2>2 DEF Citable
  <2>4. docs = <<>>
    BY <2>3
  <2>5. c.keys \subseteq {"pinned_transcripts"}
    BY <1>6, <2>1, <2>4 DEF Present, Citable
  <2>6. Cardinality(c.keys) \in 0 .. 1
    <3>1. IsFiniteSet({"pinned_transcripts"}) /\ Cardinality({"pinned_transcripts"}) = 1
      BY FS_Singleton
    <3>2. IsFiniteSet(c.keys) /\ Cardinality(c.keys) <= 1
      BY <2>5, <3>1, FS_Subset
    <3>3. Cardinality(c.keys) \in Nat
      BY <3>2, FS_CardinalityType
    <3>. QED
      BY <3>2, <3>3
  <2>7. breadth \in Nat /\ breadth <= 4000 /\ own \in 0 .. 3000
    <3> DEFINE keys == c.keys
               sources == Cardinality(keys)
               documents == c.documents
    <3>1. sources \in 0 .. 1 /\ keys \cap Citable = {}
      BY <1>6, <2>6
    <3> HIDE DEF keys, sources, documents
    <3>2. breadth = BreadthPoints(sources, documents) /\ own = OwnPoints(keys)
      BY DEF keys, sources, documents
    <3> HIDE DEF breadth, own
    <3>. QED
      BY <3>1, <3>2, BreadthPointsType, OwnPointsType
  <2>8. ConfidenceScore(c) = Capped(breadth + own)
    BY <1>2, <1>3, <2>4
  <2> DEFINE score == ConfidenceScore(c)
  <2>9. score = Capped(breadth + own)
    BY <2>8
  <2> HIDE DEF c, breadth, own, score
  <2>10. score \in Nat /\ score <= 7000
    BY <2>7, <2>9 DEF Capped
  <2>11. Route(score) # "full"
    BY <2>10 DEF Route, HighConfidenceThreshold, ClarifyingThreshold
  <2>. QED
    BY <2>11 DEF score, c
<1>. QED
  BY <1>5, <1>6

\* However a request is understood, whichever sources fail and whatever the
\* searches find, an answer with full confidence rests on data of the creator
\* and cites a source (confidence_evaluation_node, citation_builder_node).
THEOREM FullAnswersNeedOwnData ==
  \A n \in 0 .. MaxPinned : \A answer \in Answers[n] :
    answer.mode = "full" => answer.own /\ answer.cited
<1> SUFFICES ASSUME NEW n \in 0 .. MaxPinned, NEW answer \in Answers[n],
                    answer.mode = "full"
             PROVE  answer.own /\ answer.cited
  OBVIOUS
<1>1. PICK plan \in Plans, answered \in SUBSET Sources,
           trends \in TrendResults, similar \in Searches :
        answer = Answer(Retrieved(plan, answered, trends, similar, n))
  BY DEF Answers
<1> DEFINE r == Retrieved(plan, answered, trends, similar, n)
           c == ContextFusion(r)
<1>2. r \in RetrievedRecord
  <2>1. trends \in Seq(Row) /\ similar \in Seq(Row) /\ n \in Nat
    BY GraphAssumption, SearchesAreRows
  <2>2. <<>> \in Seq(Row)
    OBVIOUS
  <2>. QED
    BY <2>1, <2>2 DEF Retrieved, RetrievedRecord
<1> HIDE DEF r
<1>3. /\ answer.mode = IF CitationRaises(r) THEN "raises" ELSE Route(ConfidenceScore(c))
      /\ answer.own = (c.keys \cap OwnData # {})
      /\ answer.cited = (c.keys \cap Citable # {})
  BY <1>1 DEF Answer, r
<1>4. Route(ConfidenceScore(c)) = "full"
  BY <1>3
<1>. QED
  BY <1>2, <1>3, <1>4, FullNeedsOwnData
=============================================================================
