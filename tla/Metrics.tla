------------------------------ MODULE Metrics ------------------------------
(***************************************************************************)
(* The derived columns of one row of "ReelMetric".  Two programs compute    *)
(* them from the raw counts and write the whole row: the ingestion, from    *)
(* what HikerAPI reports (map_metric of mapper.py), and the analytics stage, *)
(* from the row itself and the followers of the account                     *)
(* (compute_reel_metrics of metrics.py).  The jobs are those of Catalog,    *)
(* where one number stands for all counts; here the columns are told apart. *)
(*                                                                         *)
(* Rates are in units of 10^-4 of a percent, the digits round keeps; a tie  *)
(* is rounded up.  The other fields of ReelMetricsResult (growth, posting   *)
(* frequency, watch time, consistency) are stored nowhere and left out.     *)
(***************************************************************************)
EXTENDS Integers

CONSTANTS
  None,            \* SQL NULL, null in a response, a missing row
  Clips,           \* what HikerAPI may report of the reel
  FollowerCounts,  \* the numbers of followers the account may have
  VolatilityThreshold, \* FOLLOWER_VOLATILITY_THRESHOLD
  Ingesters, Analysts,
  MaxIngestions    \* bound: ingestions

RawCounts == {"views", "likes", "comments", "saves", "shares"}

ASSUME MetricsAssumption ==
  /\ None \notin Nat
  /\ Clips \subseteq [RawCounts -> Nat \cup {None}]
  /\ FollowerCounts \subseteq Nat
  /\ VolatilityThreshold \in Nat
  /\ MaxIngestions \in Nat

VARIABLES
  followers,  \* "followerCount" of the account, None before there is a reel
  row,        \* the row of the reel, or None
  ingester,   \* ingester[i]: a clip on its way from HikerAPI to the row
  analyst,    \* analyst[j]: what process_single_reel was given
  ingestions  \* ingestions started

metricVars == <<followers, row, ingester, analyst, ingestions>>

NoClip == [pc |-> "idle", clip |-> None, followers |-> 0]

NoCopy == [pc |-> "idle", row |-> None, followers |-> 0]

-----------------------------------------------------------------------------
(* Arithmetic. *)

OrZero(n) == IF n = None THEN 0 ELSE n

\* round(n / d * scale, 4), guarded against the division by zero
Ratio(n, d, scale) ==
  IF d <= 0 THEN 0 ELSE (2 * n * scale * 10000 + d) \div (2 * d)

Percent(n, views) == Ratio(n, views, 100)

Interactions(c) == c.likes + c.comments + OrZero(c.saves) + OrZero(c.shares)

\* The weights 0.5, 0.3 and 0.2, which both programs declare.
Virality(engagementRate, shareRate, viewToFollower) ==
  (5 * engagementRate + 3 * OrZero(shareRate) + 2 * viewToFollower + 5) \div 10

\* Mutant of EngagementRate: unknown counts make the whole rate unknown.
EngagementKnownOnly(c) ==
  IF None \in {c.saves, c.shares} THEN 0 ELSE Percent(Interactions(c), c.views)

EngagementRate(c) == Percent(Interactions(c), c.views)

\* The columns both programs compute in the same way.
Rated(counts, saveRate, shareRate, toFollower) ==
  [counts |-> counts,
   engagementRate |-> EngagementRate(counts),
   saveRate |-> saveRate,
   shareRate |-> shareRate,
   commentRate |-> Percent(counts.comments, counts.views),
   viewToFollower |-> toFollower,
   viralityScore |-> Virality(EngagementRate(counts), shareRate, toFollower)]

\* A row with its flags, and as history for how many followers it was computed.
Row(rates, quality, volatile, of) ==
  [rates |-> rates, metricQuality |-> quality, isVolatile |-> volatile, of |-> of]

\* _safe_int, and _safe_int_optional for saves and shares
CountsOf(clip) ==
  [k \in RawCounts |-> IF k \in {"saves", "shares"} THEN clip[k] ELSE OrZero(clip[k])]

\* map_metric: unknown saves and shares have the rate 0, and a row is full when
\* HikerAPI reported all five counts.
MapMetric(clip, n) ==
  LET c == CountsOf(clip)
  IN  Row(Rated(c, Percent(OrZero(c.saves), c.views),
                Percent(OrZero(c.shares), c.views), Ratio(c.views, n, 100)),
          IF None \in {clip[k] : k \in RawCounts} THEN "PARTIAL" ELSE "FULL",
          FALSE, n)

\* compute_save_rate, compute_share_rate
RateOrNull(n, views) == IF n = None THEN None ELSE Percent(n, views)

\* Mutant of CountsRead: saves and shares are read with `or 0` like the others.
CountsReadAsZeros(read) ==
  [k \in RawCounts |-> IF read = None THEN 0 ELSE OrZero(read.rates.counts[k])]

\* process_single_reel: counts of a missing row are 0, its saves and shares null.
CountsRead(read) ==
  IF read = None THEN [k \in RawCounts |-> IF k \in {"saves", "shares"} THEN None ELSE 0]
  ELSE read.rates.counts

\* Mutant of Quality: a row is full when its engagement rate is.
QualityOfEngagement(c) ==
  IF c.views > 0 /\ None \in {c.saves, c.shares} THEN "PARTIAL" ELSE "FULL"

Quality(c) == IF None \in {c.saves, c.shares} THEN "PARTIAL" ELSE "FULL"

\* compute_reel_metrics: unknown saves and shares have no rate, and a view per
\* follower counts as 1, not as the 100 of map_metric.
ComputeReelMetrics(read, n) ==
  LET c == CountsRead(read)
  IN  Row(Rated(c, RateOrNull(c.saves, c.views), RateOrNull(c.shares, c.views),
                Ratio(c.views, n, 1)),
          Quality(c), n < VolatilityThreshold, n)

-----------------------------------------------------------------------------
MetricsInit ==
  /\ followers = None
  /\ row = None
  /\ ingester = [i \in Ingesters |-> NoClip]
  /\ analyst = [j \in Analysts |-> NoCopy]
  /\ ingestions = 0

\* ingest_creator up to the row of the reel: the account is stored with the
\* number of followers that the metric will be computed from.
IngestReel(i) ==
  /\ ingester[i].pc = "idle"
  /\ ingestions < MaxIngestions
  /\ ingestions' = ingestions + 1
  /\ \E n \in FollowerCounts, clip \in Clips :
       /\ followers' = n
       /\ ingester' = [ingester EXCEPT ![i] =
            [pc |-> "metric", clip |-> clip, followers |-> n]]
  /\ UNCHANGED <<row, analyst>>

IngestMetric(i) ==
  /\ ingester[i].pc = "metric"
  /\ \/ row' = MapMetric(ingester[i].clip, ingester[i].followers)
     \/ UNCHANGED row  \* the statement failed
  /\ ingester' = [ingester EXCEPT ![i] = NoClip]
  /\ UNCHANGED <<followers, analyst, ingestions>>

\* get_reels_with_metrics
ReadReel(j) ==
  /\ analyst[j].pc = "idle"
  /\ followers # None
  /\ analyst' = [analyst EXCEPT ![j] =
       [pc |-> "write", row |-> row, followers |-> followers]]
  /\ UNCHANGED <<followers, row, ingester, ingestions>>

ProcessSingleReel(j) ==
  /\ analyst[j].pc = "write"
  /\ \/ row' = ComputeReelMetrics(analyst[j].row, analyst[j].followers)
     \/ UNCHANGED row  \* the statement failed, or another reel's did
  /\ analyst' = [analyst EXCEPT ![j] = NoCopy]
  /\ UNCHANGED <<followers, ingester, ingestions>>

MetricsNext ==
  \/ \E i \in Ingesters : IngestReel(i) \/ IngestMetric(i)
  \/ \E j \in Analysts : ReadReel(j) \/ ProcessSingleReel(j)

MetricsSpec == MetricsInit /\ [][MetricsNext]_metricVars

-----------------------------------------------------------------------------
(* Properties. *)

\* The definition of openspec's reel-metrics: n / d * scale, rounded to four
\* decimal places, and 0 without a division when d is 0.
IsRatio(rate, n, d, scale) ==
  IF d = 0 THEN rate = 0
  ELSE LET error == 2 * (rate * d - n * scale * 10000)
       IN  - d <= error /\ error <= d

\* Whoever wrote a row, and however the writers overlapped, the rates on which
\* openspec's reel-metrics and both programs agree are those of the counts beside
\* them, and the virality is that of the rates beside it: no row mixes two writers.
\* (viewToFollower, and the rates of unknown counts, are not the same in both.)
RatesFitCounts ==
  row # None =>
    LET c == row.rates.counts
        of == row.rates
        composite == 5 * of.engagementRate + 3 * OrZero(of.shareRate)
                       + 2 * of.viewToFollower
    IN  /\ IsRatio(of.engagementRate,
                   c.likes + c.comments + OrZero(c.saves) + OrZero(c.shares), c.views, 100)
        /\ IsRatio(of.commentRate, c.comments, c.views, 100)
        /\ c.saves # None => IsRatio(of.saveRate, c.saves, c.views, 100)
        /\ c.shares # None => IsRatio(of.shareRate, c.shares, c.views, 100)
        /\ -5 <= 10 * of.viralityScore - composite /\ 10 * of.viralityScore - composite <= 5

\* openspec's reel-metrics, which the analytics stage "must match exactly": the
\* views per follower of every row are a percentage.
ViewToFollowerIsPercentage ==
  row # None => IsRatio(row.rates.viewToFollower, row.rates.counts.views, row.of, 100)

\* A full row has every count that may be unknown: neither program calls a row
\* full that lacks its saves or shares.  (The spec says the same of the views,
\* likes and comments; those are stored as 0 when unknown, and the analytics
\* stage then calls the row full.)
FullQualityIsComplete ==
  row # None /\ row.metricQuality = "FULL" =>
    row.rates.counts.saves # None /\ row.rates.counts.shares # None

\* A recomputation of the row that it read changes no count, and no rate but
\* that to the followers, except that the rate of an unknown count is null; it
\* never takes back that a row is full.
RecomputationKeepsRates ==
  [][\A j \in Analysts :
       /\ analyst'[j] # analyst[j] /\ analyst[j].pc = "write"
       /\ row # None /\ analyst[j].row = row
       => /\ row'.rates.counts = row.rates.counts
          /\ row'.rates.engagementRate = row.rates.engagementRate
          /\ row'.rates.commentRate = row.rates.commentRate
          /\ OrZero(row'.rates.saveRate) = OrZero(row.rates.saveRate)
          /\ OrZero(row'.rates.shareRate) = OrZero(row.rates.shareRate)
          /\ row.metricQuality = "FULL" => row'.metricQuality = "FULL"]_metricVars
=============================================================================
