------------------------------ MODULE Patterns ------------------------------
(***************************************************************************)
(* What the knowledge stage makes of the reels it reads: patterns.py ranks *)
(* the values of each attribute by the mean engagement of their reels,     *)
(* competitor_integration.py collects what competitors and trends show, and *)
(* persist_creator_profile joins the two into a row of "CreatorProfile".    *)
(*                                                                         *)
(* Reels come as the query orders them.  Values are model values; lower()   *)
(* is left out, topics that differ only in case are one value.             *)
(***************************************************************************)
EXTENDS Integers, Sequences, FiniteSets, FiniteSetsExt, Functions

CONSTANTS
  None,
  ReelRows,        \* rows of get_reels_with_full_intelligence; rates in some unit
  TrendTopics,     \* the topics of trends and competitors, without repetition
  EmergingFormats, \* their formats, likewise
  TopN,            \* TOP_N
  MinReels         \* MIN_REELS_FOR_PATTERNS

ASSUME PatternsAssumption ==
  /\ TopN \in Nat \ {0} /\ MinReels \in Nat
  /\ \A reel \in ReelRows : reel.engagementRate \in Int \cup {None}

DurationBuckets == {0, 15, 30, 45, 60, 90}

\* _duration_bucket, named by its lower bound; a duration of 0 is "or"ed away.
DurationBucket(sec) ==
  IF sec \in {None, 0} THEN None
  ELSE Max({low \in DurationBuckets : low <= sec})

\* _topic_for_reel and its likes; _posting_day.
Attribute(reel, key) ==
  IF key = "durationRange" THEN DurationBucket(reel.durationSec) ELSE reel[key]

\* _engagement_for_reel
Engagement(reel) == IF reel.engagementRate = None THEN 0 ELSE reel.engagementRate

Having(rows, key, value) == {k \in DOMAIN rows : Attribute(rows[k], key) = value}

ValuesOf(rows, key) == {Attribute(rows[k], key) : k \in DOMAIN rows} \ {None}

First(rows, key, value) == Min(Having(rows, key, value))

TotalEngagement(rows, key, value) ==
  LET engagement(k) == Engagement(rows[k])
  IN  MapThenSumSet(engagement, Having(rows, key, value))

\* The mean of v is below the mean of w.
LessEngaging(rows, key, v, w) ==
  TotalEngagement(rows, key, v) * Cardinality(Having(rows, key, w))
    < TotalEngagement(rows, key, w) * Cardinality(Having(rows, key, v))

RarerThan(rows, key, v, w) ==
  Cardinality(Having(rows, key, v)) < Cardinality(Having(rows, key, w))

\* v comes behind w in "order".
Behind(order, rows, key, v, w) ==
  CASE order = "best" -> LessEngaging(rows, key, v, w)
    [] order = "worst" -> LessEngaging(rows, key, w, v)
    [] order = "frequent" -> RarerThan(rows, key, v, w)

\* sorted() is stable: what is equal in "order" stays as the values are met.
Ranked(order, rows, key) ==
  LET values == ValuesOf(rows, key)
      place(v) == Cardinality({w \in values :
                    \/ Behind(order, rows, key, v, w)
                    \/ ~ Behind(order, rows, key, w, v)
                       /\ First(rows, key, w) < First(rows, key, v)})
      top == Min({TopN, Cardinality(values)})
  IN  [n \in 1 .. top |-> CHOOSE v \in values : place(v) = n - 1]

\* find_best_topics, find_best_hook_types, find_best_content_formats
Best(rows, key) == Ranked("best", rows, key)

\* Mutant of WorstTopics: sorted with reverse=True, as the best ones are.
WorstTopicsReversed(rows) == Ranked("best", rows, "topic")

\* find_worst_topics
WorstTopics(rows) == Ranked("worst", rows, "topic")

HeadOrNone(s) == IF s = <<>> THEN None ELSE s[1]

\* find_best_posting_day, find_best_duration_range: max() takes the first maximum.
BestOne(rows, key) == HeadOrNone(Best(rows, key))

\* find_audience_interests
AudienceInterests(rows) ==
  Ranked("frequent", rows,
         IF ValuesOf(rows, "topic") # {} THEN "topic" ELSE "audienceIntent")

NoPatterns == [bestTopics |-> <<>>, worstTopics |-> <<>>, bestHookTypes |-> <<>>,
               bestContentFormats |-> <<>>, bestPostingDay |-> None,
               bestDurationRange |-> None, audienceInterests |-> <<>>]

\* analyze_patterns, what the profile takes from it
AnalyzePatterns(rows) ==
  IF Len(rows) < MinReels THEN NoPatterns
  ELSE [bestTopics |-> Best(rows, "topic"),
        worstTopics |-> WorstTopics(rows),
        bestHookTypes |-> Best(rows, "hookType"),
        bestContentFormats |-> Best(rows, "contentFormat"),
        bestPostingDay |-> BestOne(rows, "postingDay"),
        bestDurationRange |-> BestOne(rows, "durationRange"),
        audienceInterests |-> AudienceInterests(rows)]

\* merge_competitor_trends and persist_creator_profile: trends count as interests
\* of the audience, and a format of others stands in when there is no own one.
CreatorProfile(rows) ==
  LET p == AnalyzePatterns(rows)
      new(topic) == topic \notin Range(p.audienceInterests)
  IN  [bestTopics |-> p.bestTopics,
       worstTopics |-> p.worstTopics,
       bestHookTypes |-> p.bestHookTypes,
       bestPostingDay |-> p.bestPostingDay,
       bestDurationRange |-> p.bestDurationRange,
       bestContentFormat |->
         HeadOrNone(p.bestContentFormats \o EmergingFormats),
       audienceInterests |->
         p.audienceInterests \o SelectSeq(TrendTopics, new)]

\* What n reels can come to.
CreatorProfiles(n) == {[rows |-> rows, profile |-> CreatorProfile(rows)] :
                         rows \in [1 .. n -> ReelRows]}
=============================================================================
