--------------------------- MODULE Metrics_proofs ---------------------------
(* Theorems about Metrics. *)
EXTENDS Metrics, TLAPS

LEMMA Division ==
  ASSUME NEW n \in Nat, NEW d \in Nat, d > 0
  PROVE  n \div d \in Nat /\ (n \div d) * d <= n /\ n < (n \div d) * d + d
BY SMT

LEMMA RatioBounds ==
  ASSUME NEW n \in Nat, NEW d \in Nat, NEW scale \in Nat
  PROVE  Ratio(n, d, scale) \in Nat /\ IsRatio(Ratio(n, d, scale), n, d, scale)
<1>1. CASE d = 0
  BY <1>1 DEF Ratio, IsRatio
<1>2. CASE d > 0
  <2> DEFINE m == 2 * n * scale * 10000 + d
             q == m \div (2 * d)
  <2>1. m \in Nat /\ 2 * d \in Nat /\ 2 * d > 0
    BY <1>2
  <2>2. q \in Nat /\ q * (2 * d) <= m /\ m < q * (2 * d) + 2 * d
    BY <2>1, Division
  <2>3. Ratio(n, d, scale) = q
    BY <1>2 DEF Ratio
  <2>4. 2 * (q * d - n * scale * 10000) = q * (2 * d) - m + d
    BY <2>2
  <2>. QED
    BY <2>1, <2>2, <2>3, <2>4, <1>2 DEF IsRatio
<1>. QED
  BY <1>1, <1>2

LEMMA UnknownIsZero ==
  ASSUME NEW n \in Nat \cup {None}, NEW views \in Nat
  PROVE  /\ OrZero(n) \in Nat
         /\ OrZero(RateOrNull(n, views)) = Percent(OrZero(n), views)
<1>1. CASE n = None
  <2>1. OrZero(n) = 0 /\ RateOrNull(n, views) = None
    BY <1>1 DEF OrZero, RateOrNull
  <2>2. IsRatio(Percent(0, views), 0, views, 100) /\ Percent(0, views) \in Nat
    BY RatioBounds DEF Percent
  <2>3. Percent(0, views) = 0
    <3> DEFINE q == Percent(0, views)
    <3> SUFFICES q = 0
      OBVIOUS
    <3>1. q \in Nat /\ IsRatio(q, 0, views, 100)
      BY <2>2
    <3> HIDE DEF q
    <3>2. CASE views = 0
      BY <3>1, <3>2 DEF IsRatio
    <3>3. CASE views > 0
      <4>1. 2 * (q * views) <= views
        BY <3>1, <3>3 DEF IsRatio
      <4>2. q >= 1 => q * views >= views
        BY <3>1, <3>3
      <4>. QED
        BY <3>1, <3>3, <4>1, <4>2
    <3>. QED
      BY <3>1, <3>2, <3>3
  <2>. QED
    BY <2>1, <2>3 DEF OrZero
<1>2. CASE n \in Nat
  <2>1. OrZero(n) = n /\ RateOrNull(n, views) = Percent(n, views)
    BY <1>2, MetricsAssumption DEF OrZero, RateOrNull
  <2>2. Percent(n, views) \in Nat
    BY <1>2, RatioBounds DEF Percent
  <2>. QED
    BY <2>1, <2>2, <1>2, MetricsAssumption DEF OrZero
<1>. QED
  BY <1>1, <1>2

-----------------------------------------------------------------------------
(* The invariant: what every row in the table or in the hands of an analyst   *)
(* satisfies, whoever wrote it.                                              *)

Counts ==
  {c \in [RawCounts -> Nat \cup {None}] :
     c["views"] \in Nat /\ c["likes"] \in Nat /\ c["comments"] \in Nat}

\* The weighted sum of three rates is rounded to the nearest unit.
LEMMA ViralityBounds ==
  ASSUME NEW e \in Nat, NEW f \in Nat, NEW s, OrZero(s) \in Nat
  PROVE  LET v == Virality(e, s, f)
             sum == 5 * e + 3 * OrZero(s) + 2 * f
         IN  -5 <= 10 * v - sum /\ 10 * v - sum <= 5
BY DEF Virality

IsRow(r) ==
  LET c == r.rates.counts
  IN  /\ c \in Counts
      /\ r.of \in Nat
      /\ r.rates.engagementRate = Percent(Interactions(c), c.views)
      /\ r.rates.commentRate = Percent(c.comments, c.views)
      /\ OrZero(r.rates.saveRate) = Percent(OrZero(c.saves), c.views)
      /\ OrZero(r.rates.shareRate) = Percent(OrZero(c.shares), c.views)
      /\ c.saves # None => r.rates.saveRate = Percent(c.saves, c.views)
      /\ c.shares # None => r.rates.shareRate = Percent(c.shares, c.views)
      /\ r.rates.viewToFollower \in Nat
      /\ r.rates.viralityScore =
           Virality(r.rates.engagementRate, r.rates.shareRate, r.rates.viewToFollower)
      /\ r.metricQuality = "FULL" => None \notin {c.saves, c.shares}

MetricsInv ==
  /\ followers \in Nat \cup {None}
  /\ row # None => IsRow(row)
  /\ analyst = [j \in Analysts |-> analyst[j]]
  /\ \A i \in Ingesters : ingester[i].pc = "metric" =>
       ingester[i].clip \in Clips /\ ingester[i].followers \in Nat
  /\ \A j \in Analysts : analyst[j].pc = "write" =>
       /\ analyst[j].followers \in Nat
       /\ analyst[j].row # None => IsRow(analyst[j].row)

LEMMA MappedRows ==
  ASSUME NEW clip \in Clips, NEW n \in Nat
  PROVE  IsRow(MapMetric(clip, n))
<1> DEFINE c == CountsOf(clip)
           r == MapMetric(clip, n)
<1>1. clip \in [RawCounts -> Nat \cup {None}]
  BY MetricsAssumption
<1>2. /\ c \in Counts /\ c.saves = clip.saves /\ c.shares = clip.shares
      /\ c.views \in Nat /\ c.saves \in Nat \cup {None} /\ c.shares \in Nat \cup {None}
  BY <1>1, MetricsAssumption DEF CountsOf, Counts, RawCounts, OrZero
<1>3. /\ r.rates.counts = c /\ r.of = n
      /\ r.rates.engagementRate = Percent(Interactions(c), c.views)
      /\ r.rates.commentRate = Percent(c.comments, c.views)
      /\ r.rates.saveRate = Percent(OrZero(c.saves), c.views)
      /\ r.rates.shareRate = Percent(OrZero(c.shares), c.views)
      /\ r.rates.viewToFollower = Ratio(c.views, n, 100)
      /\ r.rates.viralityScore =
           Virality(r.rates.engagementRate, r.rates.shareRate, r.rates.viewToFollower)
  BY DEF MapMetric, Row, Rated, EngagementRate
<1>4. r.metricQuality = "FULL" => None \notin {clip.saves, clip.shares}
  BY DEF MapMetric, Row, RawCounts
<1>5. \A k \in Nat \cup {None} : OrZero(k) \in Nat
  BY DEF OrZero
<1>6. /\ OrZero(Percent(OrZero(c.saves), c.views)) = Percent(OrZero(c.saves), c.views)
      /\ OrZero(Percent(OrZero(c.shares), c.views)) = Percent(OrZero(c.shares), c.views)
  <2>1. \A k \in Nat : OrZero(k) = k
    BY MetricsAssumption DEF OrZero
  <2>2. \A k, v \in Nat : Percent(k, v) \in Nat
    BY RatioBounds DEF Percent
  <2>. QED
    BY <2>1, <2>2, <1>2, <1>5
<1>7. Ratio(c.views, n, 100) \in Nat
  BY <1>2, RatioBounds
<1>8. \A k : k # None => OrZero(k) = k
  BY DEF OrZero
<1> HIDE DEF c, r
<1>9. IsRow(r)
  BY <1>2, <1>3, <1>4, <1>6, <1>7, <1>8 DEF IsRow
<1>. QED
  BY <1>9 DEF r

LEMMA ComputedRows ==
  ASSUME NEW read, read # None => IsRow(read), NEW n \in Nat
  PROVE  LET r == ComputeReelMetrics(read, n)
         IN  IsRow(r) /\ r.rates.counts = CountsRead(read)
<1> DEFINE c == CountsRead(read)
           r == ComputeReelMetrics(read, n)
<1>1. /\ c \in Counts /\ c.views \in Nat
      /\ c.saves \in Nat \cup {None} /\ c.shares \in Nat \cup {None}
  <2>1. c \in Counts
    BY DEF CountsRead, IsRow, Counts, RawCounts
  <2>. QED
    BY <2>1 DEF Counts, RawCounts
<1>2. /\ r.rates.counts = c /\ r.of = n
      /\ r.rates.engagementRate = Percent(Interactions(c), c.views)
      /\ r.rates.commentRate = Percent(c.comments, c.views)
      /\ r.rates.saveRate = RateOrNull(c.saves, c.views)
      /\ r.rates.shareRate = RateOrNull(c.shares, c.views)
      /\ r.rates.viewToFollower = Ratio(c.views, n, 1)
      /\ r.rates.viralityScore =
           Virality(r.rates.engagementRate, r.rates.shareRate, r.rates.viewToFollower)
      /\ r.metricQuality = Quality(c)
  BY DEF ComputeReelMetrics, Row, Rated, EngagementRate
<1>3. Quality(c) = "FULL" => None \notin {c.saves, c.shares}
  BY DEF Quality
<1>4. /\ OrZero(RateOrNull(c.saves, c.views)) = Percent(OrZero(c.saves), c.views)
      /\ OrZero(RateOrNull(c.shares, c.views)) = Percent(OrZero(c.shares), c.views)
  BY <1>1, UnknownIsZero
<1>5. Ratio(c.views, n, 1) \in Nat
  BY <1>1, RatioBounds
<1>6. \A k, v : k # None => RateOrNull(k, v) = Percent(k, v)
  BY DEF RateOrNull
<1> HIDE DEF c, r
<1>7. IsRow(r) /\ r.rates.counts = c
  BY <1>1, <1>2, <1>3, <1>4, <1>5, <1>6 DEF IsRow
<1>. QED
  BY <1>7 DEF c, r

-----------------------------------------------------------------------------
LEMMA MetricsInvInit ==
  ASSUME MetricsInit
  PROVE  MetricsInv
BY DEF MetricsInit, MetricsInv, NoClip, NoCopy

LEMMA MetricsInvNext ==
  ASSUME MetricsInv, [MetricsNext]_metricVars
  PROVE  MetricsInv'
<1>1. CASE UNCHANGED metricVars
  BY <1>1 DEF MetricsInv, metricVars
<1>2. ASSUME NEW i \in Ingesters, IngestReel(i)
      PROVE  MetricsInv'
  <2>1. PICK n \in FollowerCounts, clip \in Clips :
          /\ followers' = n
          /\ ingester' = [ingester EXCEPT ![i] =
               [pc |-> "metric", clip |-> clip, followers |-> n]]
    BY <1>2 DEF IngestReel
  <2>2. n \in Nat
    BY MetricsAssumption
  <2>3. row' = row /\ analyst' = analyst
    BY <1>2 DEF IngestReel
  <2>4. \A k \in Ingesters : ingester'[k].pc = "metric" =>
          ingester'[k].clip \in Clips /\ ingester'[k].followers \in Nat
    BY <2>1, <2>2 DEF MetricsInv
  <2>. QED
    BY <2>1, <2>2, <2>3, <2>4 DEF MetricsInv
<1>3. ASSUME NEW i \in Ingesters, IngestMetric(i)
      PROVE  MetricsInv'
  <2>1. row' # row => IsRow(row')
    BY <1>3, MappedRows DEF IngestMetric, MetricsInv
  <2>2. \A k \in Ingesters : ingester'[k].pc = "metric" =>
          ingester'[k].clip \in Clips /\ ingester'[k].followers \in Nat
    BY <1>3 DEF IngestMetric, MetricsInv, NoClip
  <2>. QED
    BY <1>3, <2>1, <2>2 DEF IngestMetric, MetricsInv
<1>4. ASSUME NEW j \in Analysts, ReadReel(j)
      PROVE  MetricsInv'
  BY <1>4 DEF ReadReel, MetricsInv
<1>5. ASSUME NEW j \in Analysts, ProcessSingleReel(j)
      PROVE  MetricsInv'
  <2>1. row' # row => IsRow(row')
    BY <1>5, ComputedRows DEF ProcessSingleReel, MetricsInv
  <2>2. \A k \in Analysts : analyst'[k].pc = "write" => analyst'[k] = analyst[k]
    BY <1>5 DEF ProcessSingleReel, MetricsInv, NoCopy
  <2>. QED
    BY <1>5, <2>1, <2>2 DEF ProcessSingleReel, MetricsInv
<1>. QED
  BY <1>1, <1>2, <1>3, <1>4, <1>5 DEF MetricsNext

LEMMA MetricsInvariant == MetricsSpec => []MetricsInv
<1>1. MetricsInit => MetricsInv
  BY MetricsInvInit
<1>2. MetricsInv /\ [MetricsNext]_metricVars => MetricsInv'
  BY MetricsInvNext
<1>. QED
  BY <1>1, <1>2, PTL DEF MetricsSpec

\* For any clips, followers, ingesters and analysts, every stored row satisfies
\* the definitions of the rates on which both programs agree: they round, guard the
\* divisions and sum unknown counts in a way that fits the counts they store.
THEOREM StoredRatesFit == MetricsSpec => []RatesFitCounts
<1>1. MetricsInv => RatesFitCounts
  <2> SUFFICES ASSUME MetricsInv, row # None PROVE RatesFitCounts
    BY DEF RatesFitCounts
  <2> DEFINE c == row.rates.counts
             of == row.rates
  <2>1. IsRow(row)
    BY DEF MetricsInv
  <2>2. /\ c.views \in Nat /\ c.comments \in Nat /\ c.likes \in Nat
        /\ c.saves # None => c.saves \in Nat
        /\ c.shares # None => c.shares \in Nat
        /\ OrZero(c.saves) \in Nat /\ OrZero(c.shares) \in Nat
    BY <2>1 DEF IsRow, Counts, RawCounts, OrZero
  <2>3. Interactions(c) = c.likes + c.comments + OrZero(c.saves) + OrZero(c.shares)
        /\ Interactions(c) \in Nat
    BY <2>2 DEF Interactions
  <2>4. \A n \in Nat : /\ IsRatio(Percent(n, c.views), n, c.views, 100)
                       /\ Percent(n, c.views) \in Nat
    BY <2>2, RatioBounds DEF Percent
  <2>5. of.engagementRate \in Nat /\ OrZero(of.shareRate) \in Nat /\ of.viewToFollower \in Nat
    BY <2>1, <2>2, <2>3, <2>4 DEF IsRow
  <2>6. LET v == Virality(of.engagementRate, of.shareRate, of.viewToFollower)
            sum == 5 * of.engagementRate + 3 * OrZero(of.shareRate) + 2 * of.viewToFollower
        IN  -5 <= 10 * v - sum /\ 10 * v - sum <= 5
    BY <2>5, ViralityBounds
  <2>7. of.viralityScore = Virality(of.engagementRate, of.shareRate, of.viewToFollower)
    BY <2>1 DEF IsRow
  <2>8. LET sum == 5 * of.engagementRate + 3 * OrZero(of.shareRate) + 2 * of.viewToFollower
        IN  -5 <= 10 * of.viralityScore - sum /\ 10 * of.viralityScore - sum <= 5
    BY <2>6, <2>7
  <2>9. /\ IsRatio(of.engagementRate,
                   c.likes + c.comments + OrZero(c.saves) + OrZero(c.shares), c.views, 100)
        /\ IsRatio(of.commentRate, c.comments, c.views, 100)
        /\ c.saves # None => IsRatio(of.saveRate, c.saves, c.views, 100)
        /\ c.shares # None => IsRatio(of.shareRate, c.shares, c.views, 100)
    BY <2>1, <2>2, <2>3, <2>4 DEF IsRow
  <2>. QED
    BY <2>8, <2>9 DEF RatesFitCounts
<1>. QED
  BY <1>1, MetricsInvariant, PTL

\* No program calls a row full whose saves or shares are unknown.
THEOREM FullRowsAreComplete == MetricsSpec => []FullQualityIsComplete
<1>1. MetricsInv => FullQualityIsComplete
  BY DEF MetricsInv, IsRow, FullQualityIsComplete
<1>. QED
  BY <1>1, MetricsInvariant, PTL

\* The analytics stage, given the row as it is, writes the same counts and the
\* same rates again, but for the one to the followers.
THEOREM RecomputedRowsAgree == MetricsSpec => RecomputationKeepsRates
<1> DEFINE Kept ==
      \A j \in Analysts :
        /\ analyst'[j] # analyst[j] /\ analyst[j].pc = "write"
        /\ row # None /\ analyst[j].row = row
        => /\ row'.rates.counts = row.rates.counts
           /\ row'.rates.engagementRate = row.rates.engagementRate
           /\ row'.rates.commentRate = row.rates.commentRate
           /\ OrZero(row'.rates.saveRate) = OrZero(row.rates.saveRate)
           /\ OrZero(row'.rates.shareRate) = OrZero(row.rates.shareRate)
           /\ row.metricQuality = "FULL" => row'.metricQuality = "FULL"
<1>1. MetricsInv /\ [MetricsNext]_metricVars => [Kept]_metricVars
  <2> SUFFICES ASSUME MetricsInv, [MetricsNext]_metricVars, NEW j \in Analysts,
                      analyst'[j] # analyst[j], analyst[j].pc = "write",
                      row # None, analyst[j].row = row
               PROVE  /\ row'.rates.counts = row.rates.counts
                      /\ row'.rates.engagementRate = row.rates.engagementRate
                      /\ row'.rates.commentRate = row.rates.commentRate
                      /\ OrZero(row'.rates.saveRate) = OrZero(row.rates.saveRate)
                      /\ OrZero(row'.rates.shareRate) = OrZero(row.rates.shareRate)
                      /\ row.metricQuality = "FULL" => row'.metricQuality = "FULL"
    BY Zenon
  <2>1. ProcessSingleReel(j)
    <3>1. \A k \in Analysts \ {j} : ~ ReadReel(k) /\ ~ ProcessSingleReel(k)
      BY DEF ReadReel, ProcessSingleReel, MetricsInv
    <3>2. \A i \in Ingesters : ~ IngestReel(i) /\ ~ IngestMetric(i)
      BY DEF IngestReel, IngestMetric
    <3>3. ~ ReadReel(j)
      BY DEF ReadReel
    <3>. QED
      BY <3>1, <3>2, <3>3 DEF MetricsNext, metricVars
  <2>2. CASE row' = row
    BY <2>2
  <2>3. CASE row' = ComputeReelMetrics(row, analyst[j].followers)
    <3>1. IsRow(row) /\ analyst[j].followers \in Nat
      BY DEF MetricsInv
    <3>2. IsRow(row') /\ row'.rates.counts = row.rates.counts
      BY <2>3, <3>1, ComputedRows DEF CountsRead
    <3>3. row'.metricQuality = Quality(row.rates.counts)
      BY <2>3 DEF ComputeReelMetrics, Row, CountsRead
    <3>. QED
      BY <3>1, <3>2, <3>3 DEF IsRow, Quality
  <2>. QED
    BY <2>1, <2>2, <2>3 DEF ProcessSingleReel
<1>. QED
  BY <1>1, MetricsInvariant, PTL DEF MetricsSpec, RecomputationKeepsRates
=============================================================================
