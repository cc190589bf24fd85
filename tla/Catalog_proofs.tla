--------------------------- MODULE Catalog_proofs ---------------------------
(***************************************************************************)
(* Theorems about the jobs of the catalogue, for any accounts, reels and   *)
(* workers.                                                                *)
(***************************************************************************)
EXTENDS Catalog, FiniteSetTheorems, TLAPS

-----------------------------------------------------------------------------
(* Lemmas about the queries and the statements. *)

\* Appending a row to a table leaves the rows before it in place.
LEMMA AppendFacts ==
  ASSUME NEW S, NEW s \in Seq(S), NEW e \in S
  PROVE  /\ Append(s, e) \in Seq(S)
         /\ DOMAIN Append(s, e) = 1 .. Len(s) + 1
         /\ Append(s, e)[Len(s) + 1] = e
         /\ \A i \in DOMAIN s : Append(s, e)[i] = s[i]
         /\ Range(Append(s, e)) = Range(s) \cup {e}
  BY DEF Range

\* An index of the longer table that is not its last is one of the shorter.
LEMMA IndexBefore ==
  ASSUME NEW n \in Nat, NEW q \in 1 .. n + 1, q # n + 1
  PROVE  q \in 1 .. n
  OBVIOUS

\* A LIMIT query returns rows of the table it reads.
LEMMA QueriesSelect ==
  ASSUME NEW S, NEW n
  PROVE  Newest(S, n) \subseteq S /\ Oldest(S, n) \subseteq S
  BY DEF Newest, Oldest

LEMMA StoredReels ==
  ASSUME reels \in Seq(Reels)
  PROVE  Stored \subseteq Reels
  BY DEF Stored, Range

LEMMA CountType ==
  ASSUME StoreTypeOK, NEW r \in Reels
  PROVE  Count(r) \in Nat
  BY DEF StoreTypeOK, Count

-----------------------------------------------------------------------------
(* Type correctness. *)

\* An ingestion step keeps the types of the tables.
LEMMA IngestionStoreTypes ==
  ASSUME TypeOK, IngestionStep
  PROVE  StoreTypeOK'
<1> USE DEF TypeOK, StoreTypeOK, IngestionTypeOK, IngesterState
<1> USE DEF storeVars, accountTable, reelTable, metricTable
<1>1. ASSUME NEW r \in Reels, HikerCounts(r)
      PROVE  StoreTypeOK'
  BY <1>1 DEF HikerCounts
<1>2. ASSUME NEW i \in Ingesters, NEW a \in Accounts, StartIngestion(i, a)
      PROVE  StoreTypeOK'
  BY <1>2 DEF StartIngestion
<1>3. ASSUME NEW i \in Ingesters, IngestionGoesOn(i)
      PROVE  StoreTypeOK'
  <2>1. CASE StoreAccount(i)
    BY <2>1, AppendFacts DEF StoreAccount, UpsertAccount
  <2>2. CASE SnapshotAccount(i)
    BY <2>2 DEF SnapshotAccount, InsertAccountSnapshot
  <2>3. CASE FetchClips(i)
    BY <2>3 DEF FetchClips
  <2>4. CASE IngestionRaises(i)
    BY <2>4 DEF IngestionRaises
  <2>5. CASE StoreClip(i)
    BY <2>5, AppendFacts DEF StoreClip, UpsertReel
  <2>6. CASE StoreClipMetric(i)
    BY <2>6 DEF StoreClipMetric, UpsertReelMetric, MarkWrite
  <2>7. CASE StoreComment(i)
    BY <2>7 DEF StoreComment, InsertComment
  <2>8. CASE GiveUpClip(i)
    BY <2>8 DEF GiveUpClip
  <2>9. CASE FinishIngestion(i)
    BY <2>9 DEF FinishIngestion
  <2> QED
    BY <1>3, <2>1, <2>2, <2>3, <2>4, <2>5, <2>6, <2>7, <2>8, <2>9
    DEF IngestionGoesOn
<1> QED BY <1>1, <1>2, <1>3 DEF IngestionStep, IngestionNext

\* Taking a clip off the list keeps the type of an ingester.
LEMMA IngesterDrops ==
  ASSUME NEW w \in IngesterState, NEW S \in SUBSET Reels
  PROVE  [w EXCEPT !.todo = S] \in IngesterState
<1> DEFINE v == [w EXCEPT !.todo = S]
<1>1. /\ v.pc = w.pc /\ v.account = w.account /\ v.todo = S
      /\ v.reel = w.reel /\ v.clip = w.clip
  BY DEF IngesterState
<1> QED BY <1>1 DEF IngesterState

\* So does going on to the next statement.
LEMMA IngesterGoes ==
  ASSUME NEW w \in IngesterState, w.pc # "idle",
         NEW next \in {"snapshot", "fetch", "comments"},
         next = "comments" => w.reel \in Reels
  PROVE  [w EXCEPT !.pc = next] \in IngesterState
<1> DEFINE v == [w EXCEPT !.pc = next]
<1>1. /\ v.pc = next /\ v.account = w.account /\ v.todo = w.todo
      /\ v.reel = w.reel /\ v.clip = w.clip
  BY DEF IngesterState
<1> QED BY <1>1 DEF IngesterState

\* An ingestion step keeps the type of the ingesters.
LEMMA IngesterTypes ==
  ASSUME StoreAssumption, TypeOK, IngestionStep
  PROVE  IngestionTypeOK'
<1> USE DEF TypeOK, IngestionTypeOK, IngesterState, NoIngestion
<1>1. ASSUME NEW r \in Reels, HikerCounts(r)
      PROVE  IngestionTypeOK'
  BY <1>1 DEF HikerCounts
<1>2. ASSUME NEW i \in Ingesters, NEW a \in Accounts, StartIngestion(i, a)
      PROVE  IngestionTypeOK'
  <2> DEFINE started == [NoIngestion EXCEPT !.pc = "account", !.account = a]
  <2>1. started \in IngesterState
    OBVIOUS
  <2>2. ingester' = [ingester EXCEPT ![i] = started]
    BY <1>2 DEF StartIngestion
  <2> HIDE DEF started, IngesterState
  <2> QED BY <1>2, <2>1, <2>2 DEF StartIngestion
<1>3. ASSUME NEW i \in Ingesters, IngestionGoesOn(i)
      PROVE  IngestionTypeOK'
  <2>1. CASE StoreAccount(i)
    <3>1. ingester[i] \in IngesterState /\ ingester[i].pc = "account"
      BY <2>1 DEF StoreAccount
    <3>2. /\ ingester' = [ingester EXCEPT ![i].pc = "snapshot"]
          /\ UNCHANGED <<live, ingestions>>
      BY <2>1 DEF StoreAccount
    <3>3. [ingester[i] EXCEPT !.pc = "snapshot"] \in IngesterState
      <4> HIDE DEF IngesterState
      <4> QED BY <3>1, IngesterGoes
    <3> HIDE DEF IngesterState
    <3> QED BY <3>2, <3>3 DEF IngestionTypeOK
  <2>2. CASE SnapshotAccount(i)
    <3>1. ingester[i] \in IngesterState /\ ingester[i].pc = "snapshot"
      BY <2>2 DEF SnapshotAccount
    <3>2. /\ ingester' = [ingester EXCEPT ![i].pc = "fetch"]
          /\ UNCHANGED <<live, ingestions>>
      BY <2>2 DEF SnapshotAccount
    <3>3. [ingester[i] EXCEPT !.pc = "fetch"] \in IngesterState
      <4> HIDE DEF IngesterState
      <4> QED BY <3>1, IngesterGoes
    <3> HIDE DEF IngesterState
    <3> QED BY <3>2, <3>3 DEF IngestionTypeOK
  <2>3. CASE FetchClips(i)
    <3>1. PICK S \in SUBSET OwnedBy(ingester[i].account) :
            ingester' = [ingester EXCEPT ![i] =
              [@ EXCEPT !.pc = "clips", !.todo = S, !.clip = FetchedCounts(S)]]
      BY <2>3 DEF FetchClips
    <3>2. S \subseteq Reels /\ FetchedCounts(S) \in [Reels -> Nat]
      BY DEF OwnedBy, FetchedCounts
    <3>3. [ingester[i] EXCEPT !.pc = "clips", !.todo = S, !.clip = FetchedCounts(S)]
            \in IngesterState
      <4>1. ingester[i] \in IngesterState /\ ingester[i].pc = "fetch"
        BY <2>3 DEF FetchClips
      <4> QED BY <3>2, <4>1
    <3> QED BY <2>3, <3>1, <3>3 DEF FetchClips
  <2>4. CASE IngestionRaises(i)
    BY <2>4 DEF IngestionRaises
  <2>5. CASE StoreClip(i)
    BY <2>5 DEF StoreClip
  <2>6. CASE StoreClipMetric(i)
    <3>1. ingester[i] \in IngesterState /\ ingester[i].pc = "metric"
      BY <2>6 DEF StoreClipMetric
    <3>2. /\ ingester' = [ingester EXCEPT ![i].pc = "comments"]
          /\ UNCHANGED <<live, ingestions>>
      BY <2>6 DEF StoreClipMetric
    <3>3. [ingester[i] EXCEPT !.pc = "comments"] \in IngesterState
      <4>1. ingester[i].reel \in Reels
        BY <3>1
      <4> HIDE DEF IngesterState
      <4> QED BY <3>1, <4>1, IngesterGoes
    <3> HIDE DEF IngesterState
    <3> QED BY <3>2, <3>3 DEF IngestionTypeOK
  <2>7. CASE StoreComment(i)
    <3>1. ingester' = [ingester EXCEPT ![i] = [@ EXCEPT !.pc = "clips", !.reel = None]]
      BY <2>7 DEF StoreComment
    <3>2. [ingester[i] EXCEPT !.pc = "clips", !.reel = None] \in IngesterState
      BY <2>7 DEF StoreComment
    <3> QED BY <2>7, <3>1, <3>2 DEF StoreComment
  <2>8. CASE GiveUpClip(i)
    <3>1. ASSUME NEW r \in ingester[i].todo,
                 ingester' = [ingester EXCEPT ![i].todo = @ \ {r}]
          PROVE  ingester' \in [Ingesters -> IngesterState]
      <4>1. ingester[i].todo \ {r} \in SUBSET Reels
        OBVIOUS
      <4>2. ingester[i] \in IngesterState
        OBVIOUS
      <4>3. [ingester[i] EXCEPT !.todo = @ \ {r}] \in IngesterState
        <5> HIDE DEF IngesterState
        <5> QED BY <4>1, <4>2, IngesterDrops
      <4> QED BY <3>1, <4>3
    <3>2. ASSUME ingester[i].pc \in {"metric", "comments"},
                 ingester' = [ingester EXCEPT ![i].pc = "clips", ![i].reel = None]
          PROVE  ingester' \in [Ingesters -> IngesterState]
      <4>1. [ingester[i] EXCEPT !.pc = "clips", !.reel = None] \in IngesterState
        BY <3>2
      <4> QED BY <3>2, <4>1
    <3> QED BY <2>8, <3>1, <3>2 DEF GiveUpClip
  <2>9. CASE FinishIngestion(i)
    BY <2>9 DEF FinishIngestion
  <2> QED
    BY <1>3, <2>1, <2>2, <2>3, <2>4, <2>5, <2>6, <2>7, <2>8, <2>9
    DEF IngestionGoesOn
<1> QED BY <1>1, <1>2, <1>3 DEF IngestionStep, IngestionNext

\* The updates of an analyst's local variables keep its type: taking a reel
\* off the list, and moving to another statement with or without a reel.
LEMMA AnalystDrops ==
  ASSUME NEW w \in AnalystState, NEW S \in SUBSET Reels
  PROVE  [w EXCEPT !.todo = S] \in AnalystState
<1> DEFINE v == [w EXCEPT !.todo = S]
<1>1. v.pc = w.pc /\ v.todo = S /\ v.reel = w.reel /\ v.copy = w.copy
  BY DEF AnalystState
<1> QED BY <1>1 DEF AnalystState

LEMMA AnalystMoves ==
  ASSUME NEW w \in AnalystState, NEW S \in SUBSET Reels, NEW r \in Reels
  PROVE  [w EXCEPT !.pc = "snapshot", !.todo = S, !.reel = r] \in AnalystState
<1> DEFINE v == [w EXCEPT !.pc = "snapshot", !.todo = S, !.reel = r]
<1>1. v.pc = "snapshot" /\ v.todo = S /\ v.reel = r /\ v.copy = w.copy
  BY DEF AnalystState
<1> QED BY <1>1 DEF AnalystState

LEMMA AnalystReturns ==
  ASSUME NEW w \in AnalystState
  PROVE  [w EXCEPT !.pc = "metrics", !.reel = None] \in AnalystState
<1> DEFINE v == [w EXCEPT !.pc = "metrics", !.reel = None]
<1>1. v.pc = "metrics" /\ v.todo = w.todo /\ v.reel = None /\ v.copy = w.copy
  BY DEF AnalystState
<1> QED BY <1>1 DEF AnalystState

\* What get_reels_with_metrics hands to an analyst is well typed.
LEMMA ReadReelsTypes ==
  ASSUME TypeOK, NEW j \in Analysts, NEW next \in {"metrics", "snapshots"},
         ReadReels(j, next)
  PROVE  /\ analyst' \in [Analysts -> AnalystState]
         /\ stale' \in [Workers -> SUBSET Reels]
<1> DEFINE rows == Newest(Stored, AnalyticsLimit)
           copy == [r \in Reels |-> IF r \in rows THEN Count(r) ELSE 0]
           read == [pc |-> next, todo |-> rows, reel |-> None, copy |-> copy]
<1>1. rows \in SUBSET Reels
  BY StoredReels, QueriesSelect DEF TypeOK, StoreTypeOK
<1>2. copy \in [Reels -> Nat]
  BY CountType DEF TypeOK
<1>3. /\ analyst' = [analyst EXCEPT ![j] = read]
      /\ stale' = [stale EXCEPT ![j] = {}]
  BY DEF ReadReels
<1> HIDE DEF rows, copy
<1>4. read \in AnalystState
  BY <1>1, <1>2 DEF AnalystState
<1> HIDE DEF read
<1> QED BY <1>3, <1>4 DEF TypeOK, StoreTypeOK, AnalyticsTypeOK

\* An analytics step keeps the types.
LEMMA AnalyticsTypes ==
  ASSUME StoreAssumption, TypeOK, AnalyticsStep
  PROVE  StoreTypeOK' /\ AnalyticsTypeOK'
<1> USE DEF TypeOK, StoreTypeOK, AnalyticsTypeOK
<1> USE DEF storeVars, accountTable, reelTable, metricTable
<1> PICK j \in Analysts : StartAnalytics(j) \/ StartSnapshotJob(j) \/ AnalyticsGoesOn(j)
  BY DEF AnalyticsStep, AnalyticsNext
<1>1. CASE StartAnalytics(j)
  <2>1. analyst' \in [Analysts -> AnalystState] /\ stale' \in [Workers -> SUBSET Reels]
    BY <1>1, ReadReelsTypes DEF StartAnalytics
  <2>2. AnalyticsTypeOK'
    <3>1. analyses \in [Analysts -> Nat] /\ analyses' = [analyses EXCEPT ![j] = @ + 1]
      BY <1>1 DEF StartAnalytics
    <3>2. analyses' \in [Analysts -> Nat]
      <4> HIDE DEF TypeOK, StoreTypeOK, AnalyticsTypeOK
      <4> QED BY <3>1
    <3> QED BY <2>1, <3>2
  <2>3. StoreTypeOK'
    BY <1>1, <2>1 DEF StartAnalytics
  <2> QED BY <2>2, <2>3
<1>2. CASE StartSnapshotJob(j)
  BY <1>2, ReadReelsTypes DEF StartSnapshotJob
<1>3. CASE WriteMetrics(j)
  <2>1. PICK r \in Reels :
          /\ r \in analyst[j].todo
          /\ UpsertReelMetric(j, r, analyst[j].copy[r])
          /\ analyst' = [analyst EXCEPT ![j].pc = "snapshot",
                                        ![j].todo = @ \ {r},
                                        ![j].reel = r]
    BY <1>3 DEF WriteMetrics, IsLatest
  <2>2. analyst' \in [Analysts -> AnalystState]
    <3>1. analyst[j].todo \ {r} \in SUBSET Reels
      BY DEF AnalystState
    <3> QED BY <2>1, <3>1, AnalystMoves
  <2>3. analyst[j].copy[r] \in Nat
    BY DEF AnalystState
  <2>4. StoreTypeOK'
    BY <1>3, <2>1, <2>3 DEF WriteMetrics, UpsertReelMetric, MarkWrite
  <2> QED BY <1>3, <2>2, <2>4 DEF WriteMetrics
<1>4. CASE WriteSnapshot(j)
  <2>1. analyst[j].reel \in Reels /\ analyst[j].copy[analyst[j].reel] \in Nat
    BY <1>4 DEF WriteSnapshot, AnalystState
  <2>2. StoreTypeOK'
    BY <1>4, <2>1, AppendFacts DEF WriteSnapshot, InsertReelSnapshot
  <2>3. analyst' \in [Analysts -> AnalystState]
    BY <1>4, AnalystReturns DEF WriteSnapshot
  <2> QED BY <1>4, <2>2, <2>3 DEF WriteSnapshot
<1>5. CASE ReadAgain(j)
  BY <1>5, ReadReelsTypes DEF ReadAgain
<1>6. CASE SnapshotReel(j)
  <2>1. PICK r \in Reels :
          /\ InsertReelSnapshot(r, analyst[j].copy[r])
          /\ analyst' = [analyst EXCEPT ![j].todo = @ \ {r}]
    BY <1>6 DEF SnapshotReel
  <2>2. analyst[j].copy[r] \in Nat /\ analyst[j].todo \ {r} \in SUBSET Reels
    BY DEF AnalystState
  <2>3. StoreTypeOK'
    BY <1>6, <2>1, <2>2, AppendFacts DEF SnapshotReel, InsertReelSnapshot
  <2>4. analyst' \in [Analysts -> AnalystState]
    BY <2>1, <2>2, AnalystDrops
  <2> QED BY <1>6, <2>3, <2>4 DEF SnapshotReel
<1>7. CASE GiveUpReel(j)
  <2>1. ASSUME NEW r \in Reels, analyst' = [analyst EXCEPT ![j].todo = @ \ {r}]
        PROVE  analyst' \in [Analysts -> AnalystState]
    <3>1. analyst[j].todo \ {r} \in SUBSET Reels
      BY DEF AnalystState
    <3> QED BY <2>1, <3>1, AnalystDrops
  <2>2. ASSUME analyst' = [analyst EXCEPT ![j].pc = "metrics", ![j].reel = None]
        PROVE  analyst' \in [Analysts -> AnalystState]
    BY <2>2, AnalystReturns
  <2> QED BY <1>7, <2>1, <2>2 DEF GiveUpReel
<1>8. CASE FinishAnalytics(j)
  BY <1>8 DEF FinishAnalytics, NoAnalysis, AnalystState
<1> QED BY <1>1, <1>2, <1>3, <1>4, <1>5, <1>6, <1>7, <1>8 DEF AnalyticsGoesOn

\* Taking a reel off the list keeps the type of an extractor.
LEMMA ExtractorDrops ==
  ASSUME NEW w \in ExtractorState, NEW S \in SUBSET Reels
  PROVE  [w EXCEPT !.todo = S] \in ExtractorState
<1> DEFINE v == [w EXCEPT !.todo = S]
<1>1. v.pc = w.pc /\ v.todo = S /\ v.spoken = w.spoken
  BY DEF ExtractorState
<1> QED BY <1>1 DEF ExtractorState

\* An extraction step keeps the types.
LEMMA ExtractionTypes ==
  ASSUME TypeOK, ExtractionStep
  PROVE  StoreTypeOK' /\ ExtractionTypeOK'
<1> USE DEF TypeOK, StoreTypeOK, ExtractionTypeOK
<1> USE DEF storeVars, accountTable, reelTable, metricTable
<1> PICK x \in Extractors :
      StartEnrichment(x) \/ StartIntelligence(x) \/ ExtractionGoesOn(x)
  BY DEF ExtractionStep, ExtractionNext
<1>1. Stored \subseteq Reels
  BY StoredReels
<1>2. CASE StartEnrichment(x)
  <2>1. Oldest(Pending, EnrichmentLimit) \in SUBSET Reels
    BY <1>1, QueriesSelect DEF Pending
  <2>2. [NoExtraction EXCEPT !.pc = "enrich",
                             !.todo = Oldest(Pending, EnrichmentLimit)]
          \in ExtractorState
    BY <2>1 DEF NoExtraction, ExtractorState
  <2> QED BY <1>2, <2>2 DEF StartEnrichment
<1>3. CASE EnrichReel(x)
  <2>1. PICK r \in Reels :
          /\ transcript' = [transcript EXCEPT ![r] = @ \/ "transcription" \in BatchRan]
          /\ overlays' = [overlays EXCEPT ![r] = @ \/ "ocr" \in BatchRan]
          /\ UpsertContentIntelligence(r, Intelligence(BatchRan))
          /\ extractor' = [extractor EXCEPT ![x].todo = @ \ {r}]
    BY <1>3 DEF EnrichReel
  <2>2. extractor[x].todo \ {r} \in SUBSET Reels
    BY DEF ExtractorState
  <2>3. Intelligence(BatchRan) \in Intelligences
    BY DEF Intelligence, Intelligences
  <2>4. StoreTypeOK'
    BY <1>3, <2>1, <2>3 DEF EnrichReel, UpsertContentIntelligence
  <2> QED BY <2>1, <2>2, <2>4, ExtractorDrops
<1>4. CASE StartIntelligence(x)
  <2> DEFINE rows == Newest(Stored, IntelligenceLimit)
             spoken == {r \in rows : transcript[r]}
  <2>1. rows \in SUBSET Reels /\ spoken \in SUBSET Reels
    BY <1>1, QueriesSelect
  <2>2. extractor' = [extractor EXCEPT ![x] =
          [NoExtraction EXCEPT !.pc = "intelligence", !.todo = rows, !.spoken = spoken]]
    BY <1>4 DEF StartIntelligence
  <2> HIDE DEF rows, spoken
  <2>3. [NoExtraction EXCEPT !.pc = "intelligence", !.todo = rows, !.spoken = spoken]
          \in ExtractorState
    BY <2>1 DEF NoExtraction, ExtractorState
  <2> QED BY <1>4, <2>2, <2>3 DEF StartIntelligence
<1>5. CASE ExtractIntelligence(x)
  <2>1. PICK r \in Reels :
          /\ UpsertContentIntelligence(r, Intelligence(IntelligenceInputs))
          /\ extractor' = [extractor EXCEPT ![x].todo = @ \ {r}]
    BY <1>5 DEF ExtractIntelligence
  <2>2. Intelligence(IntelligenceInputs) \in Intelligences
    BY DEF Intelligence, Intelligences
  <2>3. StoreTypeOK'
    BY <1>5, <2>1, <2>2 DEF ExtractIntelligence, UpsertContentIntelligence
  <2>4. extractor[x].todo \ {r} \in SUBSET Reels
    BY DEF ExtractorState
  <2> QED BY <2>1, <2>3, <2>4, ExtractorDrops
<1>6. CASE GiveUpExtraction(x)
  <2>1. PICK r \in Reels : extractor' = [extractor EXCEPT ![x].todo = @ \ {r}]
    BY <1>6 DEF GiveUpExtraction
  <2>2. extractor[x].todo \ {r} \in SUBSET Reels
    BY DEF ExtractorState
  <2> QED BY <1>6, <2>1, <2>2, ExtractorDrops DEF GiveUpExtraction
<1>7. CASE FinishExtraction(x)
  BY <1>7 DEF FinishExtraction, NoExtraction, ExtractorState
<1> QED BY <1>2, <1>3, <1>4, <1>5, <1>6, <1>7 DEF ExtractionGoesOn

\* The updates of a transcriber's local variables keep its type.
LEMMA TranscriberDrops ==
  ASSUME NEW w \in TranscriberState, NEW S \in SUBSET Reels
  PROVE  [w EXCEPT !.todo = S] \in TranscriberState
<1> DEFINE v == [w EXCEPT !.todo = S]
<1>1. /\ v.pc = w.pc /\ v.account = w.account /\ v.todo = S
      /\ v.had = w.had /\ v.reel = w.reel
  BY DEF TranscriberState
<1> QED BY <1>1 DEF TranscriberState

LEMMA TranscriberMoves ==
  ASSUME NEW w \in TranscriberState, NEW S \in SUBSET Reels, NEW r \in Reels
  PROVE  [w EXCEPT !.pc = "embed", !.todo = S, !.reel = r] \in TranscriberState
<1> DEFINE v == [w EXCEPT !.pc = "embed", !.todo = S, !.reel = r]
<1>1. /\ v.pc = "embed" /\ v.account = w.account /\ v.todo = S
      /\ v.had = w.had /\ v.reel = r
  BY DEF TranscriberState
<1> QED BY <1>1 DEF TranscriberState

LEMMA TranscriberLists ==
  ASSUME NEW w \in TranscriberState, NEW S \in SUBSET Reels, NEW H \in SUBSET Reels
  PROVE  [w EXCEPT !.pc = "reels", !.todo = S, !.had = H] \in TranscriberState
<1> DEFINE v == [w EXCEPT !.pc = "reels", !.todo = S, !.had = H]
<1>1. /\ v.pc = "reels" /\ v.account = w.account /\ v.todo = S
      /\ v.had = H /\ v.reel = w.reel
  BY DEF TranscriberState
<1> QED BY <1>1 DEF TranscriberState

LEMMA TranscriberReturns ==
  ASSUME NEW w \in TranscriberState
  PROVE  [w EXCEPT !.pc = "reels", !.reel = None] \in TranscriberState
<1> DEFINE v == [w EXCEPT !.pc = "reels", !.reel = None]
<1>1. /\ v.pc = "reels" /\ v.account = w.account /\ v.todo = w.todo
      /\ v.had = w.had /\ v.reel = None
  BY DEF TranscriberState
<1> QED BY <1>1 DEF TranscriberState

LEMMA TranscriberResolves ==
  ASSUME NEW w \in TranscriberState, NEW a \in Accounts
  PROVE  [w EXCEPT !.pc = "list", !.account = a] \in TranscriberState
<1> DEFINE v == [w EXCEPT !.pc = "list", !.account = a]
<1>1. /\ v.pc = "list" /\ v.account = a /\ v.todo = w.todo
      /\ v.had = w.had /\ v.reel = w.reel
  BY DEF TranscriberState
<1> QED BY <1>1 DEF TranscriberState

LEMMA TranscriberFallsBack ==
  ASSUME NEW w \in TranscriberState
  PROVE  [w EXCEPT !.pc = "fallback"] \in TranscriberState
<1> DEFINE v == [w EXCEPT !.pc = "fallback"]
<1>1. /\ v.pc = "fallback" /\ v.account = w.account /\ v.todo = w.todo
      /\ v.had = w.had /\ v.reel = w.reel
  BY DEF TranscriberState
<1> QED BY <1>1 DEF TranscriberState

LEMMA PrimaryIsAnAccount ==
  ASSUME StoreTypeOK
  PROVE  MostRecentWithReels \subseteq Accounts /\ MostRecentAccount \subseteq Accounts
  BY DEF StoreTypeOK, MostRecentWithReels, MostRecentAccount, MostRecent

\* A transcription step keeps the types.
LEMMA TranscriptionTypes ==
  ASSUME TypeOK, TranscriptionStep
  PROVE  StoreTypeOK' /\ TranscriptionTypeOK'
<1> USE DEF TypeOK, StoreTypeOK, TranscriptionTypeOK
<1> USE DEF storeVars, accountTable, reelTable, metricTable
<1> PICK t \in Transcribers : ResolveWithReels(t) \/ TranscriptionGoesOn(t)
  BY DEF TranscriptionStep, TranscriptionNext
<1>1. transcriber[t] \in TranscriberState
  OBVIOUS
<1>2. CASE ResolveWithReels(t)
  <2>1. ASSUME NEW a \in MostRecentWithReels,
               transcriber' = [transcriber EXCEPT ![t].pc = "list", ![t].account = a]
        PROVE  TranscriptionTypeOK'
    BY <1>1, <2>1, PrimaryIsAnAccount, TranscriberResolves
  <2>2. ASSUME transcriber' = [transcriber EXCEPT ![t].pc = "fallback"]
        PROVE  TranscriptionTypeOK'
    BY <1>1, <2>2, TranscriberFallsBack
  <2> QED BY <1>2, <2>1, <2>2 DEF ResolveWithReels
<1>3. CASE ResolveMostRecent(t)
  <2>1. ASSUME NEW a \in MostRecentAccount,
               transcriber' = [transcriber EXCEPT ![t].pc = "list", ![t].account = a]
        PROVE  TranscriptionTypeOK'
    BY <1>1, <2>1, PrimaryIsAnAccount, TranscriberResolves
  <2>2. ASSUME transcriber' = [transcriber EXCEPT ![t] = NoTranscription]
        PROVE  TranscriptionTypeOK'
    BY <2>2 DEF NoTranscription, TranscriberState
  <2> QED BY <1>3, <2>1, <2>2 DEF ResolveMostRecent
<1>4. CASE ListReels(t)
  <2> DEFINE rows(n) == Newest(Stored \cap OwnedBy(transcriber[t].account), n)
             had(n) == {r \in rows(n) : transcript[r]}
  <2>1. PICK n \in ReelCounts :
          transcriber' = [transcriber EXCEPT ![t].pc = "reels", ![t].todo = rows(n),
                                             ![t].had = had(n)]
    BY <1>4 DEF ListReels
  <2>2. rows(n) \in SUBSET Reels /\ had(n) \in SUBSET Reels
    BY QueriesSelect DEF OwnedBy
  <2> HIDE DEF rows, had
  <2>3. TranscriptionTypeOK'
    BY <1>1, <2>1, <2>2, TranscriberLists
  <2> QED BY <1>4, <2>3 DEF ListReels
<1>5. CASE PassOver(t)
  <2>1. PICK r \in Reels : transcriber' = [transcriber EXCEPT ![t].todo = @ \ {r}]
    BY <1>5 DEF PassOver
  <2>2. transcriber[t].todo \ {r} \in SUBSET Reels
    BY DEF TranscriberState
  <2> QED BY <1>1, <1>5, <2>1, <2>2, TranscriberDrops DEF PassOver
<1>6. CASE StoreTranscript(t)
  <2>1. PICK r \in Reels :
          /\ UpdateReelTranscript(r)
          /\ transcriber' = [transcriber EXCEPT ![t].pc = "embed",
                                                ![t].todo = @ \ {r},
                                                ![t].reel = r]
    BY <1>6 DEF StoreTranscript
  <2>2. transcriber[t].todo \ {r} \in SUBSET Reels
    BY DEF TranscriberState
  <2>3. TranscriptionTypeOK'
    BY <1>1, <2>1, <2>2, TranscriberMoves
  <2> QED BY <1>6, <2>1, <2>3 DEF StoreTranscript, UpdateReelTranscript
<1>7. CASE StoreEmbedding(t)
  <2>1. TranscriptionTypeOK'
    BY <1>1, <1>7, TranscriberReturns DEF StoreEmbedding
  <2> QED BY <1>7, <2>1 DEF StoreEmbedding, UpdateReelTranscriptEmbedding
<1>8. CASE PassOverEmbedding(t)
  BY <1>1, <1>8, TranscriberReturns DEF PassOverEmbedding
<1>9. CASE FinishTranscription(t)
  BY <1>9 DEF FinishTranscription, NoTranscription, TranscriberState
<1> QED BY <1>2, <1>3, <1>4, <1>5, <1>6, <1>7, <1>8, <1>9 DEF TranscriptionGoesOn

\* The idle states of the workers are well typed.
LEMMA IdleTypes ==
  /\ NoIngestion \in IngesterState
  /\ NoAnalysis \in AnalystState
  /\ NoExtraction \in ExtractorState
  /\ NoTranscription \in TranscriberState
  BY DEF NoIngestion, NoAnalysis, NoExtraction, NoTranscription,
         IngesterState, AnalystState, ExtractorState, TranscriberState

LEMMA InitTypes ==
  CatalogInit => TypeOK
<1> SUFFICES ASSUME CatalogInit PROVE TypeOK
  OBVIOUS
<1>1. StoreTypeOK
  BY DEF CatalogInit, StoreInit, StoreTypeOK, Intelligences
<1>2. IngestionTypeOK /\ AnalyticsTypeOK
  BY IdleTypes DEF CatalogInit, IngestionInit, AnalyticsInit, IngestionTypeOK, AnalyticsTypeOK
<1>3. ExtractionTypeOK /\ TranscriptionTypeOK
  BY IdleTypes DEF CatalogInit, ExtractionInit, TranscriptionInit,
                   ExtractionTypeOK, TranscriptionTypeOK
<1> QED BY <1>1, <1>2, <1>3 DEF TypeOK

\* Each kind of step keeps the types of the variables it does not touch.
LEMMA NextTypes ==
  ASSUME StoreAssumption, TypeOK, [CatalogNext]_vars
  PROVE  TypeOK'
<1>1. CASE IngestionStep
  BY <1>1, IngestionStoreTypes, IngesterTypes
     DEF TypeOK, IngestionStep, analyticsVars,
         AnalyticsTypeOK, ExtractionTypeOK, TranscriptionTypeOK
<1>2. CASE AnalyticsStep
  BY <1>2, AnalyticsTypes
     DEF TypeOK, AnalyticsStep, ingestVars,
         IngestionTypeOK, ExtractionTypeOK, TranscriptionTypeOK
<1>3. CASE ExtractionStep
  BY <1>3, ExtractionTypes
     DEF TypeOK, ExtractionStep, ingestVars, analyticsVars,
         IngestionTypeOK, AnalyticsTypeOK, TranscriptionTypeOK
<1>4. CASE TranscriptionStep
  BY <1>4, TranscriptionTypes
     DEF TypeOK, TranscriptionStep, ingestVars, analyticsVars,
         IngestionTypeOK, AnalyticsTypeOK, ExtractionTypeOK
<1>5. CASE ProcessStops
  BY <1>5, IdleTypes
     DEF ProcessStops, TypeOK, StoreTypeOK, storeVars, accountTable, reelTable,
         metricTable, IngestionTypeOK, AnalyticsTypeOK, ExtractionTypeOK,
         TranscriptionTypeOK
<1>6. CASE UNCHANGED vars
  BY <1>6
     DEF vars, TypeOK, StoreTypeOK, storeVars, accountTable, reelTable, metricTable,
         ingestVars, analyticsVars, IngestionTypeOK, AnalyticsTypeOK,
         ExtractionTypeOK, TranscriptionTypeOK
<1> QED BY <1>1, <1>2, <1>3, <1>4, <1>5, <1>6 DEF CatalogNext

\* In every reachable state each variable has its type, and a worker that is
\* in the middle of a row holds the row.
THEOREM TypeCorrect == CatalogSpec => []TypeOK
<1>1. TypeOK /\ [CatalogNext]_vars => TypeOK'
  BY NextTypes, StoreAssumption
<1> QED BY <1>1, InitTypes, PTL DEF CatalogSpec

-----------------------------------------------------------------------------
(* The analytics stage keeps the counts.                                    *)

\* The statements that write "ReelMetric" are those two of the jobs.
LEMMA MetricWriters ==
  ASSUME [CatalogNext]_vars
  PROVE  \/ UNCHANGED metrics
         \/ \E i \in Ingesters : StoreClipMetric(i) /\ UNCHANGED analyst
         \/ \E j \in Analysts : WriteMetrics(j)
<1> USE DEF storeVars, accountTable, reelTable, metricTable
<1>1. CASE IngestionStep
  BY <1>1 DEF IngestionStep, IngestionNext, IngestionGoesOn, HikerCounts,
     StartIngestion, StoreAccount, SnapshotAccount, FetchClips, IngestionRaises,
     StoreClip, StoreComment, GiveUpClip, FinishIngestion, analyticsVars
<1>2. CASE AnalyticsStep
  BY <1>2 DEF AnalyticsStep, AnalyticsNext, AnalyticsGoesOn, StartAnalytics,
     StartSnapshotJob, WriteSnapshot, ReadAgain, SnapshotReel, GiveUpReel,
     FinishAnalytics, ReadReels
<1>3. CASE ExtractionStep
  BY <1>3 DEF ExtractionStep, ExtractionNext, ExtractionGoesOn, StartEnrichment,
     StartIntelligence, EnrichReel, ExtractIntelligence, GiveUpExtraction,
     FinishExtraction
<1>4. CASE TranscriptionStep
  BY <1>4 DEF TranscriptionStep, TranscriptionNext, TranscriptionGoesOn,
     ResolveWithReels, ResolveMostRecent, ListReels, PassOver, StoreTranscript,
     StoreEmbedding, PassOverEmbedding, FinishTranscription
<1>5. CASE ProcessStops
  BY <1>5 DEF ProcessStops
<1>6. CASE UNCHANGED vars
  BY <1>6 DEF vars
<1> QED BY <1>1, <1>2, <1>3, <1>4, <1>5, <1>6 DEF CatalogNext

\* What one write does to the counts, and to what the others know of them.
LEMMA MetricWrite ==
  ASSUME StoreAssumption, TypeOK, NEW w \in Workers, NEW r \in Reels, NEW v \in Nat,
         UpsertReelMetric(w, r, v)
  PROVE  /\ Count(r)' = v
         /\ \A s \in Reels \ {r} : Count(s)' = Count(s)
         /\ stale'[w] = stale[w]
         /\ \A u \in Workers \ {w} : stale'[u] = stale[u] \cup {r}
         /\ raced \subseteq raced' /\ raced' \subseteq raced \cup {r}
         /\ r \in stale[w] => r \in raced'
  BY DEF StoreAssumption, TypeOK, StoreTypeOK, UpsertReelMetric, MarkWrite, Count

\* The write of an analyst: a reel in hand, with the count it was read with.
LEMMA AnalystWrite ==
  ASSUME StoreAssumption, TypeOK, NEW j \in Analysts, WriteMetrics(j)
  PROVE  \E r \in analyst[j].todo :
           /\ r \in Reels
           /\ Count(r)' = analyst[j].copy[r]
           /\ \A s \in Reels \ {r} : Count(s)' = Count(s)
           /\ stale'[j] = stale[j]
           /\ \A k \in Analysts \ {j} : stale'[k] = stale[k] \cup {r}
           /\ analyst' = [analyst EXCEPT ![j].pc = "snapshot",
                                         ![j].todo = @ \ {r},
                                         ![j].reel = r]
<1>1. PICK r \in Reels :
        /\ r \in analyst[j].todo
        /\ UpsertReelMetric(j, r, analyst[j].copy[r])
        /\ analyst' = [analyst EXCEPT ![j].pc = "snapshot",
                                      ![j].todo = @ \ {r},
                                      ![j].reel = r]
  BY DEF WriteMetrics, IsLatest
<1>2. analyst[j].copy[r] \in Nat
  BY DEF TypeOK, AnalyticsTypeOK, AnalystState
<1>3. j \in Workers /\ \A k \in Analysts \ {j} : k \in Workers \ {j}
  BY DEF Workers
<1>4. /\ Count(r)' = analyst[j].copy[r]
      /\ \A s \in Reels \ {r} : Count(s)' = Count(s)
      /\ stale'[j] = stale[j]
      /\ \A k \in Workers \ {j} : stale'[k] = stale[k] \cup {r}
  BY <1>1, <1>2, <1>3, MetricWrite
<1> QED BY <1>1, <1>3, <1>4

\* No step leaves an analyst with an old count it does not know to be old.
LEMMA NextCopies ==
  ASSUME StoreAssumption, TypeOK, CopyInv, [CatalogNext]_vars
  PROVE  CopyInv'
<1> SUFFICES ASSUME NEW j \in Analysts, NEW r \in Reels,
                    r \in analyst'[j].todo \ stale'[j]
             PROVE  analyst'[j].copy[r] = Count(r)'
  BY DEF CopyInv
<1> USE DEF TypeOK, StoreTypeOK, AnalyticsTypeOK
<1>1. ASSUME NEW i \in Ingesters, StoreClipMetric(i), UNCHANGED analyst
      PROVE  analyst'[j].copy[r] = Count(r)'
  <2>1. /\ ingester[i].reel \in Reels
        /\ ingester[i].clip[ingester[i].reel] \in Nat
        /\ UpsertReelMetric(i, ingester[i].reel, ingester[i].clip[ingester[i].reel])
    BY <1>1 DEF StoreClipMetric, IngestionTypeOK, IngesterState
  <2>2. i \in Workers /\ j \in Workers \ {i}
    BY DEF Workers, StoreAssumption
  <2>3. /\ \A s \in Reels \ {ingester[i].reel} : Count(s)' = Count(s)
        /\ stale'[j] = stale[j] \cup {ingester[i].reel}
    <3> HIDE DEF TypeOK, StoreTypeOK, AnalyticsTypeOK
    <3> QED BY <2>1, <2>2, MetricWrite
  <2> QED BY <1>1, <2>3 DEF CopyInv
<1>2. ASSUME NEW k \in Analysts, WriteMetrics(k)
      PROVE  analyst'[j].copy[r] = Count(r)'
  <2>1. PICK s \in analyst[k].todo :
          /\ \A q \in Reels \ {s} : Count(q)' = Count(q)
          /\ stale'[j] = IF j = k THEN stale[j] ELSE stale[j] \cup {s}
          /\ analyst' = [analyst EXCEPT ![k].pc = "snapshot",
                                        ![k].todo = @ \ {s},
                                        ![k].reel = s]
    BY <1>2, AnalystWrite
  <2>2. /\ analyst'[j].todo \subseteq analyst[j].todo
        /\ analyst'[j].copy = analyst[j].copy
        /\ j = k => s \notin analyst'[j].todo
    BY <2>1 DEF AnalystState
  <2> QED BY <2>1, <2>2 DEF CopyInv
<1>3. ASSUME UNCHANGED metrics, stale'[j] = stale[j], UNCHANGED analyst
      PROVE  analyst'[j].copy[r] = Count(r)'
  BY <1>3 DEF CopyInv, Count
<1>4. CASE AnalyticsStep /\ ~ \E k \in Analysts : WriteMetrics(k)
  <2> USE DEF storeVars, metricTable
  <2>1. PICK k \in Analysts : StartAnalytics(k) \/ StartSnapshotJob(k) \/ AnalyticsGoesOn(k)
    BY <1>4 DEF AnalyticsStep, AnalyticsNext
  <2>2. UNCHANGED metrics
    BY <1>4, <2>1 DEF StartAnalytics, StartSnapshotJob, AnalyticsGoesOn, WriteSnapshot,
       ReadAgain, SnapshotReel, GiveUpReel, FinishAnalytics
  <2>3. Count(r)' = Count(r)
    BY <2>2 DEF Count
  <2>4. ASSUME NEW next \in {"metrics", "snapshots"}, ReadReels(k, next)
        PROVE  analyst'[j].copy[r] = Count(r)'
    BY <2>3, <2>4 DEF ReadReels, CopyInv
  <2>5. ASSUME UNCHANGED stale, analyst'[j].todo \subseteq analyst[j].todo,
               analyst'[j].copy = analyst[j].copy
        PROVE  analyst'[j].copy[r] = Count(r)'
    BY <2>3, <2>5 DEF CopyInv
  <2>6. CASE WriteSnapshot(k)
    BY <2>5, <2>6 DEF WriteSnapshot, AnalystState
  <2>7. CASE SnapshotReel(k)
    <3>1. PICK s \in Reels : analyst' = [analyst EXCEPT ![k].todo = @ \ {s}]
      BY <2>7 DEF SnapshotReel
    <3>2. analyst'[j].todo \subseteq analyst[j].todo /\ analyst'[j].copy = analyst[j].copy
      BY <3>1 DEF AnalystState
    <3> QED BY <2>5, <2>7, <3>2 DEF SnapshotReel
  <2>8. CASE GiveUpReel(k)
    <3>1. \/ \E s \in Reels : analyst' = [analyst EXCEPT ![k].todo = @ \ {s}]
          \/ analyst' = [analyst EXCEPT ![k].pc = "metrics", ![k].reel = None]
      BY <2>8 DEF GiveUpReel
    <3>2. ASSUME NEW s \in Reels, analyst' = [analyst EXCEPT ![k].todo = @ \ {s}]
          PROVE  /\ analyst'[j].todo \subseteq analyst[j].todo
                 /\ analyst'[j].copy = analyst[j].copy
      BY <3>2 DEF AnalystState
    <3>3. ASSUME analyst' = [analyst EXCEPT ![k].pc = "metrics", ![k].reel = None]
          PROVE  /\ analyst'[j].todo \subseteq analyst[j].todo
                 /\ analyst'[j].copy = analyst[j].copy
      BY <3>3 DEF AnalystState
    <3> QED BY <2>5, <2>8, <3>1, <3>2, <3>3 DEF GiveUpReel
  <2>9. CASE FinishAnalytics(k)
    <3>1. analyst' = [analyst EXCEPT ![k] = NoAnalysis] /\ UNCHANGED stale
      BY <2>9 DEF FinishAnalytics
    <3>2. CASE j = k
      BY <3>1, <3>2 DEF NoAnalysis
    <3>3. CASE j # k
      BY <2>5, <3>1, <3>3
    <3> QED BY <3>2, <3>3
  <2> QED BY <1>4, <2>1, <2>4, <2>6, <2>7, <2>8, <2>9
          DEF StartAnalytics, StartSnapshotJob, ReadAgain, AnalyticsGoesOn
<1>5. CASE IngestionStep /\ ~ \E i \in Ingesters : StoreClipMetric(i)
  <2>1. UNCHANGED <<metrics, analyst>>
    BY <1>5 DEF IngestionStep, IngestionNext, IngestionGoesOn, HikerCounts,
       StartIngestion, StoreAccount, SnapshotAccount, FetchClips, IngestionRaises,
       StoreClip, StoreComment, GiveUpClip, FinishIngestion, analyticsVars,
       storeVars, metricTable
  <2>2. ASSUME NEW i \in Ingesters, FetchClips(i)
        PROVE  stale'[j] = stale[j]
    BY <2>2 DEF FetchClips, StoreAssumption, Workers
  <2>3. UNCHANGED stale \/ \E i \in Ingesters : FetchClips(i)
    BY <1>5 DEF IngestionStep, IngestionNext, IngestionGoesOn, HikerCounts,
       StartIngestion, StoreAccount, SnapshotAccount, IngestionRaises,
       StoreClip, StoreComment, GiveUpClip, FinishIngestion, storeVars, metricTable
  <2> QED BY <1>3, <2>1, <2>2, <2>3
<1>6. CASE ExtractionStep \/ TranscriptionStep \/ UNCHANGED vars
  <2>1. UNCHANGED <<metrics, stale, analyst>>
    BY <1>6 DEF ExtractionStep, ExtractionNext, ExtractionGoesOn, StartEnrichment,
       StartIntelligence, EnrichReel, ExtractIntelligence, GiveUpExtraction,
       FinishExtraction, TranscriptionStep, TranscriptionNext, TranscriptionGoesOn,
       ResolveWithReels, ResolveMostRecent, ListReels, PassOver, StoreTranscript,
       StoreEmbedding, PassOverEmbedding, FinishTranscription, vars, analyticsVars,
       storeVars, metricTable
  <2> QED BY <1>3, <2>1
<1>7. CASE ProcessStops
  BY <1>7 DEF ProcessStops, NoAnalysis
<1> QED BY <1>1, <1>2, <1>4, <1>5, <1>6, <1>7
        DEF CatalogNext, IngestionStep, analyticsVars

LEMMA CopiesInvariant == CatalogSpec => []CopyInv
<1>1. CatalogInit => CopyInv
  BY DEF CatalogInit, AnalyticsInit, NoAnalysis, CopyInv
<1>2. TypeOK /\ CopyInv /\ [CatalogNext]_vars => CopyInv'
  BY NextCopies, StoreAssumption
<1> QED BY <1>1, <1>2, TypeCorrect, PTL DEF CatalogSpec

\* An analytics run, however its statements fall between those of the other
\* jobs, changes the count of a reel only if the row was written after its read.
THEOREM AnalyticsKeepsCountsOfRows == CatalogSpec => AnalyticsKeepsCounts
<1>1. ASSUME TypeOK, CopyInv, [CatalogNext]_vars, NEW j \in Analysts, NEW r \in Reels,
             analyst'[j] # analyst[j], Count(r)' # Count(r)
      PROVE  r \in stale[j]
  <2>1. metrics' # metrics
    BY <1>1 DEF Count
  <2>2. PICK k \in Analysts : WriteMetrics(k)
    BY <1>1, <2>1, MetricWriters
  <2>3. PICK s \in analyst[k].todo :
          /\ Count(s)' = analyst[k].copy[s]
          /\ \A q \in Reels \ {s} : Count(q)' = Count(q)
          /\ analyst' = [analyst EXCEPT ![k].pc = "snapshot",
                                        ![k].todo = @ \ {s},
                                        ![k].reel = s]
    BY <1>1, <2>2, AnalystWrite, StoreAssumption
  <2>4. j = k /\ r = s
    BY <1>1, <2>3 DEF TypeOK, AnalyticsTypeOK
  <2> QED BY <1>1, <2>3, <2>4 DEF CopyInv
<1>2. TypeOK /\ CopyInv /\ [CatalogNext]_vars
      => [\A j \in Analysts, r \in Reels :
            analyst'[j] # analyst[j] /\ Count(r)' # Count(r) => r \in stale[j]]_vars
  BY <1>1
<1> QED BY <1>2, TypeCorrect, CopiesInvariant, PTL DEF CatalogSpec, AnalyticsKeepsCounts

-----------------------------------------------------------------------------
(* Transcripts and embeddings.                                              *)

\* Rows of "Reel" are inserted and never deleted.
LEMMA StoredGrows ==
  ASSUME TypeOK, NEW r \in Reels, UpsertReel(r)
  PROVE  Stored' = Stored \cup {r}
<1>1. CASE r \in Stored
  BY <1>1 DEF UpsertReel, Stored
<1>2. CASE r \notin Stored
  BY <1>2, AppendFacts DEF UpsertReel, Stored, TypeOK, StoreTypeOK
<1> QED BY <1>1, <1>2

\* The ingestion statement that writes "Reel".
LEMMA ReelWriter ==
  ASSUME TypeOK, IngestionStep
  PROVE  \/ UNCHANGED reelTable
         \/ \E i \in Ingesters, r \in Reels :
              /\ r \in ingester[i].todo
              /\ UpsertReel(r)
              /\ UNCHANGED accountTable
              /\ ingester' = [ingester EXCEPT ![i].pc = "metric",
                                              ![i].todo = @ \ {r},
                                              ![i].reel = r]
<1> USE DEF storeVars
<1>1. ASSUME NEW i \in Ingesters, StoreClip(i)
      PROVE  \E r \in Reels :
              /\ r \in ingester[i].todo
              /\ UpsertReel(r)
              /\ UNCHANGED accountTable
              /\ ingester' = [ingester EXCEPT ![i].pc = "metric",
                                              ![i].todo = @ \ {r},
                                              ![i].reel = r]
  BY <1>1 DEF StoreClip, TypeOK, IngestionTypeOK, IngesterState
<1>2. ASSUME NEW i \in Ingesters, IngestionGoesOn(i), ~ StoreClip(i)
      PROVE  UNCHANGED reelTable
  BY <1>2 DEF IngestionGoesOn, StoreAccount, SnapshotAccount, FetchClips,
     IngestionRaises, StoreClipMetric, StoreComment, GiveUpClip, FinishIngestion
<1> QED BY <1>1, <1>2 DEF IngestionStep, IngestionNext, HikerCounts, StartIngestion

\* No step separates a transcript from what the transcribers know of it.
LEMMA NextTexts ==
  ASSUME StoreAssumption, TypeOK, TextInv, [CatalogNext]_vars
  PROVE  TextInv'
<1> USE DEF TypeOK, StoreTypeOK
<1>1. CASE UNCHANGED <<reels, transcript, embedding, rewritten, transcriber>>
  BY <1>1 DEF TextInv, EmbeddingOnlyAfterErasure, Stored
<1>2. CASE IngestionStep
  <2>1. UNCHANGED transcriber
    BY <1>2 DEF IngestionStep
  <2>2. CASE UNCHANGED reelTable
    BY <1>1, <2>1, <2>2 DEF reelTable
  <2>3. ASSUME NEW r \in Reels, UpsertReel(r)
        PROVE  TextInv'
    <3>1. Stored' = Stored \cup {r}
      BY <2>3, StoredGrows
    <3>2. /\ rewritten' = IF r \in Stored THEN rewritten \cup {r} ELSE rewritten
          /\ transcript' = [transcript EXCEPT ![r] = FALSE]
          /\ embedding' = embedding
      BY <2>3 DEF UpsertReel
    <3>3. EmbeddingOnlyAfterErasure'
      BY <3>1, <3>2 DEF TextInv, EmbeddingOnlyAfterErasure
    <3> QED BY <2>1, <3>1, <3>2, <3>3 DEF TextInv
  <2> QED BY <1>2, <2>2, <2>3, ReelWriter
<1>3. CASE AnalyticsStep
  <2>1. UNCHANGED <<reelTable, transcriber>>
    BY <1>3 DEF AnalyticsStep, AnalyticsNext, AnalyticsGoesOn, StartAnalytics,
       StartSnapshotJob, WriteMetrics, WriteSnapshot, ReadAgain, SnapshotReel,
       GiveUpReel, FinishAnalytics, storeVars
  <2> QED BY <1>1, <2>1 DEF reelTable
<1>4. CASE ExtractionStep
  <2>1. UNCHANGED <<reels, embedding, rewritten, transcriber>>
    BY <1>4 DEF ExtractionStep, ExtractionNext, ExtractionGoesOn, StartEnrichment,
       StartIntelligence, EnrichReel, ExtractIntelligence, GiveUpExtraction,
       FinishExtraction, storeVars, reelTable
  <2>2. transcript' = transcript
    <3>1. ASSUME NEW x \in Extractors, EnrichReel(x)
          PROVE  transcript' = transcript
      BY <3>1 DEF EnrichReel, BatchRan, BatchInputs
    <3> QED BY <1>4, <3>1 DEF ExtractionStep, ExtractionNext, ExtractionGoesOn,
       StartEnrichment, StartIntelligence, ExtractIntelligence, GiveUpExtraction,
       FinishExtraction, storeVars, reelTable
  <2> QED BY <1>1, <2>1, <2>2
<1>5. CASE TranscriptionStep
  <2> USE DEF storeVars, reelTable, TranscriptionTypeOK
  <2>1. PICK t \in Transcribers : ResolveWithReels(t) \/ TranscriptionGoesOn(t)
    BY <1>5 DEF TranscriptionStep, TranscriptionNext
  <2>2. UNCHANGED <<reels, rewritten>> /\ Stored' = Stored
    BY <2>1 DEF TranscriptionGoesOn, ResolveWithReels, ResolveMostRecent, ListReels,
       PassOver, StoreTranscript, StoreEmbedding, PassOverEmbedding,
       FinishTranscription, Stored
  <2>3. ASSUME UNCHANGED <<transcript, embedding>>,
               \A u \in Transcribers :
                 /\ transcriber'[u].todo \subseteq Stored
                 /\ transcriber'[u].pc = "embed" => transcriber'[u] = transcriber[u]
        PROVE  TextInv'
    BY <2>2, <2>3 DEF TextInv, EmbeddingOnlyAfterErasure
  <2>a. ASSUME UNCHANGED <<transcript, embedding>>,
               \A u \in Transcribers \ {t} : transcriber'[u] = transcriber[u],
               transcriber'[t].todo \subseteq Stored,
               transcriber'[t].pc # "embed"
        PROVE  TextInv'
    BY <2>3, <2>a DEF TextInv
  <2>b. ASSUME NEW a \in Accounts,
               transcriber' = [transcriber EXCEPT ![t].pc = "list", ![t].account = a]
        PROVE  /\ \A u \in Transcribers \ {t} : transcriber'[u] = transcriber[u]
               /\ transcriber'[t].todo \subseteq Stored
               /\ transcriber'[t].pc # "embed"
    BY <2>b DEF TranscriberState, TextInv
  <2>c. ASSUME transcriber' = [transcriber EXCEPT ![t] = NoTranscription]
        PROVE  /\ \A u \in Transcribers \ {t} : transcriber'[u] = transcriber[u]
               /\ transcriber'[t].todo \subseteq Stored
               /\ transcriber'[t].pc # "embed"
    BY <2>c DEF NoTranscription
  <2>4. CASE ResolveWithReels(t)
    <3>1. ASSUME transcriber' = [transcriber EXCEPT ![t].pc = "fallback"]
          PROVE  /\ \A u \in Transcribers \ {t} : transcriber'[u] = transcriber[u]
                 /\ transcriber'[t].todo \subseteq Stored
                 /\ transcriber'[t].pc # "embed"
      BY <3>1 DEF TranscriberState, TextInv
    <3> QED BY <2>4, <2>a, <2>b, <3>1, PrimaryIsAnAccount DEF ResolveWithReels
  <2>5. CASE ListReels(t)
    <3> DEFINE rows(n) == Newest(Stored \cap OwnedBy(transcriber[t].account), n)
               had(n) == {r \in rows(n) : transcript[r]}
    <3>1. PICK n \in ReelCounts :
            transcriber' = [transcriber EXCEPT ![t].pc = "reels", ![t].todo = rows(n),
                                               ![t].had = had(n)]
      BY <2>5 DEF ListReels
    <3>2. rows(n) \subseteq Stored
      BY QueriesSelect
    <3> HIDE DEF rows, had
    <3>3. /\ \A u \in Transcribers \ {t} : transcriber'[u] = transcriber[u]
          /\ transcriber'[t].todo = rows(n)
          /\ transcriber'[t].pc = "reels"
      BY <3>1 DEF TranscriberState
    <3> QED BY <2>5, <2>a, <3>2, <3>3 DEF ListReels
  <2>6. CASE PassOver(t)
    BY <2>3, <2>6 DEF PassOver, TranscriberState, TextInv
  <2>7. CASE PassOverEmbedding(t)
    <3>1. /\ \A u \in Transcribers \ {t} : transcriber'[u] = transcriber[u]
          /\ transcriber'[t].todo = transcriber[t].todo
          /\ transcriber'[t].pc = "reels"
      BY <2>7 DEF PassOverEmbedding, TranscriberState
    <3> QED BY <2>7, <2>a, <3>1 DEF PassOverEmbedding, TextInv
  <2>d. CASE ResolveMostRecent(t)
    BY <2>d, <2>a, <2>b, <2>c, PrimaryIsAnAccount DEF ResolveMostRecent
  <2>e. CASE FinishTranscription(t)
    BY <2>e, <2>a, <2>c DEF FinishTranscription
  <2>8. CASE StoreTranscript(t)
    <3>1. PICK r \in Reels :
            /\ r \in transcriber[t].todo
            /\ UpdateReelTranscript(r)
            /\ transcriber' = [transcriber EXCEPT ![t].pc = "embed",
                                                  ![t].todo = @ \ {r},
                                                  ![t].reel = r]
      BY <2>8 DEF StoreTranscript, IsLatest
    <3>2. r \in Stored /\ transcript' = [transcript EXCEPT ![r] = TRUE] /\ UNCHANGED embedding
      BY <2>8, <3>1 DEF StoreTranscript, UpdateReelTranscript, TextInv
    <3>3. /\ transcriber'[t].todo \subseteq Stored /\ transcriber'[t].reel = r
          /\ \A u \in Transcribers \ {t} : transcriber'[u] = transcriber[u]
      BY <3>1 DEF TextInv, TranscriberState
    <3>4. EmbeddingOnlyAfterErasure'
      BY <2>2, <3>2 DEF TextInv, EmbeddingOnlyAfterErasure
    <3>5. \A q \in Reels : transcript'[q] \/ embedding'[q] => q \in Stored'
      BY <2>2, <3>2 DEF TextInv
    <3>6. ASSUME NEW u \in Transcribers, transcriber'[u].pc = "embed"
          PROVE  LET q == transcriber'[u].reel
                 IN  q \in Stored' /\ (transcript'[q] \/ q \in rewritten')
      <4>1. CASE u = t
        BY <2>2, <3>2, <3>3, <4>1
      <4>2. CASE u # t
        <5> DEFINE q == transcriber[u].reel
        <5>1. transcriber'[u].reel = q /\ q \in Stored /\ (transcript[q] \/ q \in rewritten)
          BY <3>3, <3>6, <4>2 DEF TextInv
        <5>2. q \in Reels
          BY <5>1, StoredReels
        <5> QED BY <2>2, <3>2, <5>1, <5>2
      <4> QED BY <4>1, <4>2
    <3>7. \A u \in Transcribers : transcriber'[u].todo \subseteq Stored'
      BY <2>2, <3>3 DEF TextInv
    <3> QED BY <3>4, <3>5, <3>6, <3>7 DEF TextInv
  <2>9. CASE StoreEmbedding(t)
    <3> DEFINE r == transcriber[t].reel
    <3>1. r \in Stored /\ r \in Reels /\ (transcript[r] \/ r \in rewritten)
      BY <2>9 DEF StoreEmbedding, TextInv, TranscriberState
    <3>2. embedding' = [embedding EXCEPT ![r] = TRUE] /\ UNCHANGED transcript
      BY <2>9 DEF StoreEmbedding, UpdateReelTranscriptEmbedding
    <3>3. /\ transcriber'[t].todo = transcriber[t].todo /\ transcriber'[t].pc = "reels"
          /\ \A u \in Transcribers \ {t} : transcriber'[u] = transcriber[u]
      BY <2>9 DEF StoreEmbedding, TranscriberState
    <3>4. EmbeddingOnlyAfterErasure'
      BY <2>2, <3>1, <3>2 DEF TextInv, EmbeddingOnlyAfterErasure
    <3> QED BY <2>2, <3>1, <3>2, <3>3, <3>4 DEF TextInv
  <2> QED BY <2>1, <2>4, <2>d, <2>5, <2>6, <2>8, <2>9, <2>7, <2>e
          DEF TranscriptionGoesOn
<1>6. CASE ProcessStops
  BY <1>6 DEF ProcessStops, TextInv, EmbeddingOnlyAfterErasure, Stored,
     NoTranscription, storeVars, reelTable
<1>7. CASE UNCHANGED vars
  BY <1>1, <1>7 DEF vars, storeVars, reelTable
<1> QED BY <1>2, <1>3, <1>4, <1>5, <1>6, <1>7 DEF CatalogNext

\* Between any two statements, a reel with an embedding and no transcript is
\* one that an ingestion has rewritten.
THEOREM ErasureOnlyByIngestion == CatalogSpec => []EmbeddingOnlyAfterErasure
<1>1. CatalogInit => TextInv
  BY DEF CatalogInit, StoreInit, TranscriptionInit, NoTranscription, TextInv,
         EmbeddingOnlyAfterErasure
<1>2. TypeOK /\ TextInv /\ [CatalogNext]_vars => TextInv'
  BY NextTexts, StoreAssumption
<1>3. TextInv => EmbeddingOnlyAfterErasure
  BY DEF TextInv
<1> QED BY <1>1, <1>2, <1>3, TypeCorrect, PTL DEF CatalogSpec

-----------------------------------------------------------------------------
(* The primary account.                                                     *)

\* The jobs other than ingestion leave accounts, reels and ingesters alone,
\* except that all ingesters stop when the process does.
LEMMA OnlyIngestionStores ==
  ASSUME [CatalogNext]_vars, ~ IngestionStep
  PROVE  /\ UNCHANGED <<accounts, reels>>
         /\ \/ UNCHANGED ingester
            \/ ingester' = [i \in Ingesters |-> NoIngestion]
<1> USE DEF storeVars, accountTable, reelTable, ingestVars
<1>1. CASE AnalyticsStep
  BY <1>1 DEF AnalyticsStep, AnalyticsNext, AnalyticsGoesOn, StartAnalytics,
     StartSnapshotJob, WriteMetrics, WriteSnapshot, ReadAgain, SnapshotReel,
     GiveUpReel, FinishAnalytics
<1>2. CASE ExtractionStep
  BY <1>2 DEF ExtractionStep, ExtractionNext, ExtractionGoesOn, StartEnrichment,
     StartIntelligence, EnrichReel, ExtractIntelligence, GiveUpExtraction,
     FinishExtraction
<1>3. CASE TranscriptionStep
  BY <1>3 DEF TranscriptionStep, TranscriptionNext, TranscriptionGoesOn,
     ResolveWithReels, ResolveMostRecent, ListReels, PassOver, StoreTranscript,
     StoreEmbedding, PassOverEmbedding, FinishTranscription
<1>4. CASE ProcessStops
  BY <1>4 DEF ProcessStops
<1>5. CASE UNCHANGED vars
  BY <1>5 DEF vars
<1> QED BY <1>1, <1>2, <1>3, <1>4, <1>5 DEF CatalogNext

\* What a step of an ingester does to the account it holds and to its clips.
LEMMA IngesterHolds ==
  ASSUME TypeOK, PrimaryInv, NEW i \in Ingesters, IngestionGoesOn(i), ~ StoreAccount(i)
  PROVE  /\ UNCHANGED accounts
         /\ \A k \in Ingesters \ {i} : ingester'[k] = ingester[k]
         /\ ingester'[i].pc \notin {"idle", "account"} =>
              ingester'[i].account \in Range(accounts)
         /\ \A r \in ingester'[i].todo : Owner[r] = ingester'[i].account
<1> USE DEF TypeOK, IngestionTypeOK, IngesterState, PrimaryInv, storeVars, accountTable
<1>1. CASE SnapshotAccount(i)
  BY <1>1 DEF SnapshotAccount
<1>2. CASE FetchClips(i)
  <2>1. PICK S \in SUBSET OwnedBy(ingester[i].account) :
          ingester' = [ingester EXCEPT ![i] =
            [@ EXCEPT !.pc = "clips", !.todo = S, !.clip = FetchedCounts(S)]]
    BY <1>2 DEF FetchClips
  <2>2. /\ ingester'[i].todo = S /\ ingester'[i].account = ingester[i].account
        /\ \A k \in Ingesters \ {i} : ingester'[k] = ingester[k]
    BY <2>1
  <2> QED BY <1>2, <2>2 DEF FetchClips, OwnedBy
<1>3. CASE IngestionRaises(i) \/ FinishIngestion(i)
  BY <1>3 DEF IngestionRaises, FinishIngestion, NoIngestion
<1>4. CASE StoreClip(i)
  <2>1. PICK r \in ingester[i].todo :
          ingester' = [ingester EXCEPT ![i].pc = "metric", ![i].todo = @ \ {r},
                                      ![i].reel = r]
    BY <1>4 DEF StoreClip
  <2>2. /\ ingester'[i].todo = ingester[i].todo \ {r}
        /\ ingester'[i].account = ingester[i].account
        /\ \A k \in Ingesters \ {i} : ingester'[k] = ingester[k]
    BY <2>1
  <2> QED BY <1>4, <2>2 DEF StoreClip
<1>5. CASE StoreClipMetric(i)
  BY <1>5 DEF StoreClipMetric
<1>6. CASE StoreComment(i)
  BY <1>6 DEF StoreComment
<1>7. CASE GiveUpClip(i)
  <2>1. ASSUME ingester[i].pc = "clips", NEW r \in ingester[i].todo,
               ingester' = [ingester EXCEPT ![i].todo = @ \ {r}]
        PROVE  /\ ingester'[i].pc = "clips"
               /\ ingester'[i].todo \subseteq ingester[i].todo
               /\ ingester'[i].account = ingester[i].account
               /\ \A k \in Ingesters \ {i} : ingester'[k] = ingester[k]
    BY <2>1
  <2>2. ASSUME ingester[i].pc \in {"metric", "comments"},
               ingester' = [ingester EXCEPT ![i].pc = "clips", ![i].reel = None]
        PROVE  /\ ingester'[i].todo \subseteq ingester[i].todo
               /\ ingester'[i].account = ingester[i].account
               /\ \A k \in Ingesters \ {i} : ingester'[k] = ingester[k]
    BY <2>2
  <2> QED BY <1>7, <2>1, <2>2 DEF GiveUpClip
<1> QED BY <1>1, <1>2, <1>3, <1>4, <1>5, <1>6, <1>7 DEF IngestionGoesOn

\* No step leaves a reel without an account or enters an account twice.
LEMMA NextPrimaries ==
  ASSUME StoreAssumption, TypeOK, PrimaryInv, [CatalogNext]_vars
  PROVE  PrimaryInv'
<1> USE DEF TypeOK, StoreTypeOK, IngestionTypeOK
<1>1. CASE ~ IngestionStep
  BY <1>1, OnlyIngestionStores DEF PrimaryInv, Stored, NoIngestion
<1>2. ASSUME NEW r \in Reels, HikerCounts(r)
      PROVE  PrimaryInv'
  BY <1>2 DEF HikerCounts, PrimaryInv, Stored, storeVars, accountTable, reelTable
<1>3. ASSUME NEW i \in Ingesters, NEW a \in Accounts, StartIngestion(i, a)
      PROVE  PrimaryInv'
  <2>1. /\ ingester'[i].pc = "account" /\ ingester'[i].todo = {}
        /\ \A k \in Ingesters \ {i} : ingester'[k] = ingester[k]
    BY <1>3 DEF StartIngestion, NoIngestion, IngesterState
  <2>2. UNCHANGED <<accounts, reels>>
    BY <1>3 DEF StartIngestion, storeVars, accountTable, reelTable
  <2> QED BY <2>1, <2>2 DEF PrimaryInv, Stored
<1>4. ASSUME NEW i \in Ingesters, StoreAccount(i)
      PROVE  PrimaryInv'
  <2> DEFINE a == ingester[i].account
  <2>1. /\ a \in Accounts
        /\ accounts' = IF a \in Range(accounts) THEN accounts ELSE Append(accounts, a)
        /\ reels' = reels
    BY <1>4 DEF StoreAccount, UpsertAccount, IngesterState, reelTable
  <2>2. /\ ingester'[i].account = a /\ ingester'[i].todo = ingester[i].todo
        /\ \A k \in Ingesters \ {i} : ingester'[k] = ingester[k]
    BY <1>4 DEF StoreAccount, IngesterState
  <2>3. Range(accounts') = Range(accounts) \cup {a}
    BY <2>1, AppendFacts
  <2>4. \A m, k \in DOMAIN accounts' : accounts'[m] = accounts'[k] => m = k
    <3>1. CASE a \in Range(accounts)
      BY <2>1, <3>1 DEF PrimaryInv
    <3>2. CASE a \notin Range(accounts)
      <4>1. \A m \in DOMAIN accounts : accounts[m] # a
        BY <3>2 DEF Range
      <4>2. DOMAIN accounts = 1 .. Len(accounts) /\ Len(accounts) \in Nat
        OBVIOUS
      <4>3. /\ DOMAIN accounts' = 1 .. Len(accounts) + 1
            /\ accounts'[Len(accounts) + 1] = a
            /\ \A m \in DOMAIN accounts : accounts'[m] = accounts[m]
        BY <2>1, <3>2, AppendFacts
      <4> SUFFICES ASSUME NEW m \in DOMAIN accounts', NEW k \in DOMAIN accounts',
                          accounts'[m] = accounts'[k]
                   PROVE  m = k
        OBVIOUS
      <4>4. CASE m \in DOMAIN accounts /\ k \in DOMAIN accounts
        BY <4>3, <4>4 DEF PrimaryInv
      <4>5. CASE m = Len(accounts) + 1 \/ k = Len(accounts) + 1
        <5>1. \A q \in DOMAIN accounts' : q # Len(accounts) + 1 => accounts'[q] # a
          <6> SUFFICES ASSUME NEW q \in DOMAIN accounts', q # Len(accounts) + 1
                       PROVE  accounts'[q] # a
            OBVIOUS
          <6> DEFINE n == Len(accounts)
          <6>1. n \in Nat /\ q \in 1 .. n + 1 /\ q # n + 1
            BY <4>2, <4>3
          <6> HIDE DEF n
          <6>2. q \in 1 .. n
            BY <6>1, IndexBefore
          <6>3. q \in DOMAIN accounts
            BY <4>2, <6>2 DEF n
          <6> QED BY <4>1, <4>3, <6>3
        <5> QED BY <4>3, <4>5, <5>1
      <4> QED BY <4>2, <4>3, <4>4, <4>5
    <3> QED BY <3>1, <3>2
  <2>5. \A r \in Stored' : Owner[r] \in Range(accounts')
    BY <2>1, <2>3 DEF PrimaryInv, Stored
  <2>6. ASSUME NEW k \in Ingesters
        PROVE  /\ ingester'[k].pc \notin {"idle", "account"} =>
                    ingester'[k].account \in Range(accounts')
               /\ \A r \in ingester'[k].todo : Owner[r] = ingester'[k].account
    <3>1. CASE k = i
      BY <2>2, <2>3, <3>1 DEF PrimaryInv
    <3>2. CASE k # i
      BY <2>2, <2>3, <3>2 DEF PrimaryInv
    <3> QED BY <3>1, <3>2
  <2> QED BY <2>4, <2>5, <2>6 DEF PrimaryInv
<1>5. ASSUME NEW i \in Ingesters, IngestionGoesOn(i), ~ StoreAccount(i)
      PROVE  PrimaryInv'
  <2>1. \A r \in Stored' : Owner[r] \in Range(accounts)
    <3>1. CASE StoreClip(i)
      <4>1. PICK r \in ingester[i].todo : r \in Reels /\ UpsertReel(r)
        BY <3>1 DEF StoreClip, IngesterState
      <4>2. Stored' = Stored \cup {r}
        BY <4>1, StoredGrows
      <4>3. Owner[r] = ingester[i].account /\ ingester[i].account \in Range(accounts)
        BY <3>1 DEF StoreClip, PrimaryInv
      <4> QED BY <4>2, <4>3 DEF PrimaryInv
    <3>2. CASE ~ StoreClip(i)
      <4>1. UNCHANGED reels
        BY <1>5, <3>2 DEF IngestionGoesOn, SnapshotAccount, FetchClips, IngestionRaises,
           StoreClipMetric, StoreComment, GiveUpClip, FinishIngestion, storeVars, reelTable
      <4> QED BY <4>1 DEF PrimaryInv, Stored
    <3> QED BY <3>1, <3>2
  <2> QED BY <1>5, <2>1, IngesterHolds DEF PrimaryInv
<1> QED BY <1>1, <1>2, <1>3, <1>4, <1>5 DEF IngestionStep, IngestionNext, IngestionGoesOn

LEMMA PrimaryInvariant == CatalogSpec => []PrimaryInv
<1>1. CatalogInit => PrimaryInv
  BY DEF CatalogInit, StoreInit, IngestionInit, NoIngestion, PrimaryInv, Stored, Range
<1>2. TypeOK /\ PrimaryInv /\ [CatalogNext]_vars => PrimaryInv'
  BY NextPrimaries, StoreAssumption
<1> QED BY <1>1, <1>2, TypeCorrect, PTL DEF CatalogSpec

\* LIMIT 1: two most recent accounts are the same.
LEMMA MostRecentUnique ==
  ASSUME StoreTypeOK, NEW S, NEW a \in MostRecent(S)
  PROVE  MostRecent(S) = {a}
<1> SUFFICES ASSUME NEW b \in MostRecent(S) PROVE b = a
  OBVIOUS
<1>1. PICK i \in DOMAIN accounts :
        accounts[i] = a /\ \A m \in DOMAIN accounts : accounts[m] \in S => m <= i
  BY DEF MostRecent
<1>2. PICK k \in DOMAIN accounts :
        accounts[k] = b /\ \A m \in DOMAIN accounts : accounts[m] \in S => m <= k
  BY DEF MostRecent
<1>3. a \in S /\ b \in S
  BY DEF MostRecent
<1>4. i \in Nat /\ k \in Nat
  BY DEF StoreTypeOK
<1>5. i <= k /\ k <= i
  BY <1>1, <1>2, <1>3
<1> QED BY <1>1, <1>2, <1>4, <1>5

\* A new account without reels does not move the primary one.
LEMMA NewAccountIsNotPrimary ==
  ASSUME TypeOK, PrimaryInv, NEW i \in Ingesters, StoreAccount(i)
  PROVE  MostRecentWithReels' = MostRecentWithReels
<1> DEFINE a == ingester[i].account
           O == {Owner[r] : r \in Stored}
<1>1. /\ a \in Accounts
      /\ accounts' = IF a \in Range(accounts) THEN accounts ELSE Append(accounts, a)
      /\ reels' = reels
  BY DEF StoreAccount, UpsertAccount, TypeOK, IngestionTypeOK, IngesterState, reelTable
<1>2. O' = O
  BY <1>1 DEF Stored
<1>3. MostRecentWithReels = MostRecent(O) /\ MostRecentWithReels' = MostRecent(O)'
  BY <1>2 DEF MostRecentWithReels
<1>4. CASE a \in Range(accounts)
  <2>1. accounts' = accounts
    BY <1>1, <1>4
  <2> QED BY <1>2, <1>3, <2>1 DEF MostRecent
<1>5. CASE a \notin Range(accounts)
  <2>1. a \notin O
    BY <1>5 DEF PrimaryInv
  <2>2. /\ DOMAIN accounts' = 1 .. Len(accounts) + 1
        /\ accounts'[Len(accounts) + 1] = a
        /\ \A m \in DOMAIN accounts : accounts'[m] = accounts[m]
    BY <1>1, <1>5, AppendFacts DEF TypeOK, StoreTypeOK
  <2>3. DOMAIN accounts = 1 .. Len(accounts) /\ Len(accounts) \in Nat
    BY DEF TypeOK, StoreTypeOK
  <2> HIDE DEF O
  <2>4. ASSUME NEW b \in O
        PROVE  (\E m \in DOMAIN accounts' :
                  accounts'[m] = b /\ \A k \in DOMAIN accounts' : accounts'[k] \in O => k <= m)
               <=> (\E m \in DOMAIN accounts :
                  accounts[m] = b /\ \A k \in DOMAIN accounts : accounts[k] \in O => k <= m)
    BY <2>1, <2>2, <2>3, <2>4
  <2> QED BY <1>2, <1>3, <2>4 DEF MostRecent
<1> QED BY <1>4, <1>5

\* A new reel either leaves the primary account or makes its own account it.
LEMMA NewReelIsPrimary ==
  ASSUME TypeOK, PrimaryInv, NEW r \in Reels, UpsertReel(r), UNCHANGED accounts,
         Owner[r] \in Range(accounts), MostRecentWithReels # {},
         MostRecentWithReels' # MostRecentWithReels
  PROVE  r \in Stored' \ Stored /\ MostRecentWithReels' = {Owner[r]}
<1> DEFINE o == Owner[r]
           O == {Owner[s] : s \in Stored}
<1>1. Stored' = Stored \cup {r}
  BY StoredGrows
<1>2. O' = O \cup {o}
  BY <1>1
<1>3. MostRecentWithReels = MostRecent(O) /\ MostRecentWithReels' = MostRecent(O \cup {o})
  BY <1>2 DEF MostRecentWithReels, MostRecent
<1>4. r \notin Stored
  BY <1>3 DEF MostRecentWithReels
<1>5. StoreTypeOK /\ DOMAIN accounts \subseteq Nat
  BY DEF TypeOK, StoreTypeOK
<1> HIDE DEF O, o
<1>6. PICK b \in O : b \in MostRecent(O)
  BY <1>3 DEF MostRecent
<1>7. PICK m \in DOMAIN accounts :
        accounts[m] = b /\ \A k \in DOMAIN accounts : accounts[k] \in O => k <= m
  BY <1>6 DEF MostRecent
<1>8. PICK n \in DOMAIN accounts : accounts[n] = o
  BY DEF Range, o
<1>9. \A k \in DOMAIN accounts : accounts[k] = o => k = n
  BY <1>8 DEF PrimaryInv
<1>10. CASE n <= m
  <2>1. b \in MostRecent(O \cup {o})
    BY <1>6, <1>7, <1>9, <1>10 DEF MostRecent
  <2>2. MostRecent(O \cup {o}) = {b} /\ MostRecent(O) = {b}
    BY <1>5, <1>6, <2>1, MostRecentUnique
  <2> QED BY <1>3, <2>2
<1>11. CASE m <= n
  <2>1. \A k \in DOMAIN accounts : accounts[k] \in O \cup {o} => k <= n
    BY <1>5, <1>7, <1>9, <1>11
  <2>2. o \in MostRecent(O \cup {o})
    BY <1>8, <2>1 DEF MostRecent
  <2> QED BY <1>1, <1>3, <1>4, <1>5, <2>2, MostRecentUnique DEF o
<1> QED BY <1>5, <1>10, <1>11

\* The primary account moves only by the storing of a reel of the new one: an
\* ingestion that stops before its first reel leaves no trace in it.
THEOREM PrimaryMovesWithReels == CatalogSpec => PartialIngestionKeepsPrimary
<1>1. ASSUME TypeOK, PrimaryInv, [CatalogNext]_vars,
             MostRecentWithReels # {}, MostRecentWithReels' # MostRecentWithReels
      PROVE  \E r \in Stored' \ Stored : MostRecentWithReels' = {Owner[r]}
  <2>1. ~ UNCHANGED <<accounts, reels>>
    BY <1>1 DEF MostRecentWithReels, MostRecent, Stored
  <2>2. IngestionStep
    BY <1>1, <2>1, OnlyIngestionStores
  <2>3. PICK i \in Ingesters : StoreAccount(i) \/ StoreClip(i)
    BY <2>1, <2>2 DEF IngestionStep, IngestionNext, IngestionGoesOn, HikerCounts,
       StartIngestion, SnapshotAccount, FetchClips, IngestionRaises, StoreClipMetric,
       StoreComment, GiveUpClip, FinishIngestion, storeVars, accountTable, reelTable
  <2>4. StoreClip(i)
    BY <1>1, <2>3, NewAccountIsNotPrimary
  <2>5. PICK r \in ingester[i].todo : UpsertReel(r) /\ UNCHANGED accounts
    BY <2>4 DEF StoreClip, accountTable
  <2>6. r \in Reels /\ Owner[r] \in Range(accounts)
    BY <1>1, <2>4 DEF StoreClip, PrimaryInv, TypeOK, IngestionTypeOK, IngesterState
  <2> QED BY <1>1, <2>5, <2>6, NewReelIsPrimary
<1>2. TypeOK /\ PrimaryInv /\ [CatalogNext]_vars
      => [MostRecentWithReels # {} /\ MostRecentWithReels' # MostRecentWithReels
          => \E r \in Stored' \ Stored : MostRecentWithReels' = {Owner[r]}]_vars
  BY <1>1
<1> QED BY <1>2, TypeCorrect, PrimaryInvariant, PTL
        DEF CatalogSpec, PartialIngestionKeepsPrimary

-----------------------------------------------------------------------------
(* The counters a worker holds. *)

LEMMA HeldReels ==
  ASSUME TypeOK
  PROVE  /\ \A j \in Analysts : InHand(j) \subseteq Reels
         /\ \A i \in Ingesters : Fetched(i) \subseteq Reels
  BY DEF TypeOK, AnalyticsTypeOK, IngestionTypeOK, AnalystState, IngesterState,
         InHand, Fetched

\* Every quantity DriftInv compares is a number.
LEMMA HeldNumbers ==
  ASSUME TypeOK, NEW r \in Reels
  PROVE  /\ Count(r) \in Nat
         /\ live[r] \in Nat
         /\ Drift!LastRecorded(r) \in Nat
         /\ \A j \in Analysts : analyst[j].copy[r] \in Nat
         /\ \A i \in Ingesters : ingester[i].clip[r] \in Nat
<1>1. Drift!LastRecorded(r) \in Nat
  <2>1. snapshots[r] \in Seq(Nat)
    BY DEF TypeOK, StoreTypeOK
  <2> QED BY <2>1 DEF Drift!LastRecorded
<1>2. \A j \in Analysts : analyst[j].copy[r] \in Nat
  BY DEF TypeOK, AnalyticsTypeOK, AnalystState
<1>3. \A i \in Ingesters : ingester[i].clip[r] \in Nat
  BY DEF TypeOK, IngestionTypeOK, IngesterState
<1> QED BY <1>1, <1>2, <1>3, CountType DEF TypeOK, IngestionTypeOK

\* Extraction and transcription do not touch the counts.
LEMMA OtherJobs ==
  ASSUME ExtractionStep \/ TranscriptionStep \/ UNCHANGED vars
  PROVE  UNCHANGED <<snapshots, metrics, stale, raced, live, ingester, analyst>>
  BY DEF ExtractionStep, ExtractionNext, ExtractionGoesOn, StartEnrichment,
     StartIntelligence, EnrichReel, ExtractIntelligence, GiveUpExtraction,
     FinishExtraction, TranscriptionStep, TranscriptionNext, TranscriptionGoesOn,
     ResolveWithReels, ResolveMostRecent, ListReels, PassOver, StoreTranscript,
     StoreEmbedding, PassOverEmbedding, FinishTranscription, vars, analyticsVars,
     ingestVars, storeVars, metricTable

-----------------------------------------------------------------------------
(* Counts that go back, whatever the number of ingesters and analysts. *)

\* Every quantity ReportedInv compares is a number, and what it speaks of a reel.
LEMMA ReportedNumbers ==
  ASSUME TypeOK
  PROVE  /\ \A r \in Reels : Count(r) \in Nat /\ live[r] \in Nat
         /\ \A j \in Analysts, r \in Reels : analyst[j].copy[r] \in Nat
         /\ \A i \in Ingesters, r \in Reels : ingester[i].clip[r] \in Nat
         /\ \A i \in Ingesters : Fetched(i) \subseteq Reels
  BY HeldReels, HeldNumbers

\* A step without a write keeps the order of the counts when each worker keeps
\* its counts, drops them or has just read them.
LEMMA ReportedStays ==
  ASSUME TypeOK, TypeOK', ReportedInv, UNCHANGED metrics,
         \A r \in Reels : live[r] <= live'[r],
         \A j \in Analysts, r \in Reels :
           analyst'[j].copy[r] \in {analyst[j].copy[r], Count(r), 0},
         \A i \in Ingesters :
           \/ /\ ingester'[i].clip = ingester[i].clip
              /\ Fetched(i)' \subseteq Fetched(i) /\ stale'[i] = stale[i]
           \/ /\ \A r \in Reels : ingester'[i].clip[r] \in {live[r], 0}
              /\ \A r \in Fetched(i)' : ingester'[i].clip[r] = live[r]
  PROVE  ReportedInv'
<1>1. \A r \in Reels : Count(r)' = Count(r)
  BY DEF Count
<1>2. /\ \A r \in Reels : live'[r] \in Nat
      /\ \A j \in Analysts, r \in Reels : analyst'[j].copy[r] \in Nat
      /\ \A i \in Ingesters, r \in Reels : ingester'[i].clip[r] \in Nat
      /\ \A i \in Ingesters : Fetched(i)' \subseteq Reels
  <2>1. /\ live' \in [Reels -> Nat]
        /\ analyst' \in [Analysts -> AnalystState]
        /\ ingester' \in [Ingesters -> IngesterState]
    BY DEF TypeOK, StoreTypeOK, IngestionTypeOK, AnalyticsTypeOK, AnalystState,
           IngesterState
  <2>2. \A r \in Reels : live'[r] \in Nat
    BY <2>1
  <2>3. \A j \in Analysts, r \in Reels : analyst'[j].copy[r] \in Nat
    BY <2>1 DEF AnalystState
  <2>4. /\ \A i \in Ingesters, r \in Reels : ingester'[i].clip[r] \in Nat
        /\ \A i \in Ingesters : Fetched(i)' \subseteq Reels
    BY <2>1 DEF IngesterState, Fetched
  <2> QED BY <2>2, <2>3, <2>4
<1>3. \A r \in Reels : Count(r)' <= live'[r]
  BY <1>1, <1>2, ReportedNumbers DEF ReportedInv
<1>4. ASSUME NEW j \in Analysts, NEW r \in Reels
      PROVE  analyst'[j].copy[r] <= live'[r]
  <2>1. analyst[j].copy[r] <= live[r] /\ Count(r) <= live[r] /\ 0 <= live[r]
    BY ReportedNumbers DEF ReportedInv
  <2>2. analyst'[j].copy[r] <= live[r]
    BY <2>1
  <2> QED BY <1>2, <2>2, ReportedNumbers
<1>5. ASSUME NEW i \in Ingesters, NEW r \in Reels
      PROVE  ingester'[i].clip[r] <= live'[r]
  <2>1. ingester[i].clip[r] <= live[r] /\ live[r] <= live[r] /\ 0 <= live[r]
    BY ReportedNumbers DEF ReportedInv
  <2>2. ingester'[i].clip[r] <= live[r]
    BY <2>1
  <2> QED BY <1>2, <2>2, ReportedNumbers
<1>6. ASSUME NEW i \in Ingesters, NEW r \in Fetched(i)', r \notin stale'[i]
      PROVE  Count(r)' <= ingester'[i].clip[r]
  <2>1. r \in Reels
    BY <1>2
  <2>2. CASE /\ ingester'[i].clip = ingester[i].clip
             /\ Fetched(i)' \subseteq Fetched(i) /\ stale'[i] = stale[i]
    BY <1>1, <1>6, <2>1, <2>2 DEF ReportedInv
  <2>3. CASE ingester'[i].clip[r] = live[r]
    BY <1>1, <2>1, <2>3 DEF ReportedInv
  <2> QED BY <2>2, <2>3
<1> QED BY <1>3, <1>4, <1>5, <1>6 DEF ReportedInv

\* Whoever writes a count that was reported marks it for all others.
LEMMA ReportedWrite ==
  ASSUME StoreAssumption, TypeOK, ReportedInv, NEW w \in Workers, NEW r \in Reels,
         NEW v \in Nat, v <= live[r], w \in Ingesters => v = ingester[w].clip[r],
         UpsertReelMetric(w, r, v), UNCHANGED live,
         \A j \in Analysts : analyst'[j].copy = analyst[j].copy,
         \A i \in Ingesters : /\ ingester'[i].clip = ingester[i].clip
                              /\ Fetched(i)' \subseteq Fetched(i)
  PROVE  ReportedInv'
<1>1. /\ Count(r)' = v
      /\ \A s \in Reels \ {r} : Count(s)' = Count(s)
      /\ stale'[w] = stale[w]
      /\ \A i \in Ingesters \ {w} : stale'[i] = stale[i] \cup {r}
  BY MetricWrite DEF Workers
<1>2. \A s \in Reels : Count(s)' <= live'[s]
  BY <1>1 DEF ReportedInv
<1>3. ASSUME NEW i \in Ingesters, NEW s \in Fetched(i)', s \notin stale'[i]
      PROVE  Count(s)' <= ingester'[i].clip[s]
  <2>1. s \in Fetched(i) \ stale[i] /\ s \in Reels
    BY <1>1, <1>3, ReportedNumbers
  <2>2. CASE s # r
    BY <1>1, <2>1, <2>2 DEF ReportedInv
  <2>3. CASE s = r
    <3>1. i = w
      BY <1>1, <1>3, <2>3
    <3>2. ingester'[i].clip[s] = v /\ Count(s)' = v
      BY <1>1, <2>3, <3>1
    <3> QED BY <3>2
  <2> QED BY <2>2, <2>3
<1>4. /\ \A j \in Analysts, s \in Reels : analyst'[j].copy[s] <= live'[s]
      /\ \A i \in Ingesters, s \in Reels : ingester'[i].clip[s] <= live'[s]
  BY DEF ReportedInv
<1> QED BY <1>2, <1>3, <1>4 DEF ReportedInv

\* What a step of an ingester other than the write leaves of its counts.
LEMMA IngesterCounts ==
  ASSUME StoreAssumption, TypeOK, NEW i \in Ingesters, IngestionGoesOn(i),
         ~ StoreClipMetric(i)
  PROVE  /\ UNCHANGED <<metrics, live>>
         /\ \A k \in Ingesters \ {i} : ingester'[k] = ingester[k] /\ stale'[k] = stale[k]
         /\ \/ /\ ingester'[i].clip = ingester[i].clip
               /\ Fetched(i)' \subseteq Fetched(i) /\ stale'[i] = stale[i]
            \/ /\ \A r \in Reels : ingester'[i].clip[r] \in {live[r], 0}
               /\ \A r \in Fetched(i)' : ingester'[i].clip[r] = live[r]
<1> USE DEF storeVars, metricTable
<1>0. ingester[i] \in IngesterState /\ ingester \in [Ingesters -> IngesterState]
      /\ stale \in [Workers -> SUBSET Reels]
  BY DEF TypeOK, IngestionTypeOK, StoreTypeOK
<1>1. CASE StoreAccount(i) \/ SnapshotAccount(i) \/ StoreComment(i)
  <2>1. /\ UNCHANGED <<metrics, stale, live>>
        /\ \A k \in Ingesters \ {i} : ingester'[k] = ingester[k]
    BY <1>0, <1>1 DEF StoreAccount, SnapshotAccount, StoreComment
  <2>2. /\ ingester'[i].clip = ingester[i].clip
        /\ ingester'[i].todo = ingester[i].todo
        /\ ingester'[i].pc # "metric"
    BY <1>0, <1>1 DEF StoreAccount, SnapshotAccount, StoreComment, IngesterState
  <2> QED BY <2>1, <2>2 DEF Fetched
<1>2. CASE FetchClips(i)
  <2>1. PICK S \in SUBSET OwnedBy(ingester[i].account) :
          ingester' = [ingester EXCEPT ![i] =
            [@ EXCEPT !.pc = "clips", !.todo = S, !.clip = FetchedCounts(S)]]
    BY <1>2 DEF FetchClips
  <2>2. /\ ingester'[i].pc = "clips"
        /\ ingester'[i].todo = S
        /\ ingester'[i].clip = FetchedCounts(S)
        /\ \A k \in Ingesters \ {i} : ingester'[k] = ingester[k]
    BY <1>0, <2>1 DEF IngesterState
  <2>3. Fetched(i)' = S /\ S \subseteq Reels
    BY <2>2 DEF Fetched, OwnedBy
  <2>4. /\ \A r \in Reels : ingester'[i].clip[r] \in {live[r], 0}
        /\ \A r \in S : ingester'[i].clip[r] = live[r]
    BY <2>2, <2>3 DEF FetchedCounts
  <2>5. /\ UNCHANGED <<metrics, live>>
        /\ \A k \in Ingesters \ {i} : stale'[k] = stale[k]
    BY <1>0, <1>2 DEF FetchClips, Workers
  <2> QED BY <2>2, <2>3, <2>4, <2>5
<1>3. CASE IngestionRaises(i) \/ FinishIngestion(i)
  <2>1. /\ UNCHANGED <<metrics, stale, live>>
        /\ \A k \in Ingesters \ {i} : ingester'[k] = ingester[k]
        /\ ingester'[i] = NoIngestion
    BY <1>0, <1>3 DEF IngestionRaises, FinishIngestion
  <2>2. Fetched(i)' = {} /\ \A r \in Reels : ingester'[i].clip[r] = 0
    BY <2>1 DEF Fetched, NoIngestion
  <2> QED BY <2>1, <2>2
<1>4. CASE StoreClip(i)
  <2>1. PICK r \in ingester[i].todo :
          ingester' = [ingester EXCEPT ![i].pc = "metric",
                                       ![i].todo = @ \ {r},
                                       ![i].reel = r]
    BY <1>4 DEF StoreClip
  <2>2. /\ ingester'[i].clip = ingester[i].clip
        /\ ingester'[i].todo = ingester[i].todo \ {r}
        /\ ingester'[i].pc = "metric"
        /\ ingester'[i].reel = r
        /\ \A k \in Ingesters \ {i} : ingester'[k] = ingester[k]
    BY <1>0, <2>1 DEF IngesterState
  <2>3. Fetched(i)' \subseteq Fetched(i)
    BY <2>2 DEF Fetched
  <2>4. UNCHANGED <<metrics, stale, live>>
    BY <1>4 DEF StoreClip
  <2> QED BY <2>2, <2>3, <2>4
<1>5. CASE GiveUpClip(i)
  <2>1. /\ ingester'[i].clip = ingester[i].clip
        /\ ingester'[i].todo \subseteq ingester[i].todo
        /\ ingester'[i].pc # "metric"
    <3>1. ASSUME NEW r \in ingester[i].todo, ingester[i].pc = "clips",
                 ingester' = [ingester EXCEPT ![i].todo = @ \ {r}]
          PROVE  /\ ingester'[i].clip = ingester[i].clip
                 /\ ingester'[i].todo \subseteq ingester[i].todo
                 /\ ingester'[i].pc # "metric"
      BY <1>0, <3>1 DEF IngesterState
    <3>2. ASSUME ingester' = [ingester EXCEPT ![i].pc = "clips", ![i].reel = None]
          PROVE  /\ ingester'[i].clip = ingester[i].clip
                 /\ ingester'[i].todo \subseteq ingester[i].todo
                 /\ ingester'[i].pc # "metric"
      BY <1>0, <3>2 DEF IngesterState
    <3> QED BY <1>5, <3>1, <3>2 DEF GiveUpClip
  <2>2. /\ UNCHANGED <<metrics, stale, live>>
        /\ \A k \in Ingesters \ {i} : ingester'[k] = ingester[k]
    BY <1>0, <1>5 DEF GiveUpClip
  <2> QED BY <2>1, <2>2 DEF Fetched
<1> QED BY <1>1, <1>2, <1>3, <1>4, <1>5 DEF IngestionGoesOn

\* The write of an ingester: a clip in hand, with the count it was fetched with.
LEMMA IngesterWrite ==
  ASSUME TypeOK, NEW i \in Ingesters, StoreClipMetric(i)
  PROVE  \E r \in Reels :
           /\ r \in Fetched(i)
           /\ UpsertReelMetric(i, r, ingester[i].clip[r])
           /\ UNCHANGED <<live, snapshots>>
           /\ \A k \in Ingesters : /\ ingester'[k].clip = ingester[k].clip
                                   /\ Fetched(k)' \subseteq Fetched(k)
                                   /\ k # i => ingester'[k] = ingester[k]
<1>0. ingester[i] \in IngesterState /\ ingester \in [Ingesters -> IngesterState]
  BY DEF TypeOK, IngestionTypeOK
<1>1. /\ ingester'[i].clip = ingester[i].clip
      /\ ingester'[i].todo = ingester[i].todo
      /\ ingester'[i].pc = "comments"
      /\ ingester[i].reel \in Reels /\ ingester[i].pc = "metric"
  BY <1>0 DEF StoreClipMetric, IngesterState
<1>2. \A k \in Ingesters \ {i} : ingester'[k] = ingester[k]
  BY <1>0 DEF StoreClipMetric
<1>3. \A k \in Ingesters : Fetched(k)' \subseteq Fetched(k)
  BY <1>1, <1>2 DEF Fetched
<1> QED BY <1>1, <1>2, <1>3 DEF StoreClipMetric, Fetched

\* An analyst's counts are those it had, the stored ones or none.
LEMMA AnalystCounts ==
  ASSUME TypeOK, AnalyticsStep
  PROVE  /\ UNCHANGED <<live, ingester>>
         /\ \A j \in Analysts, r \in Reels :
              analyst'[j].copy[r] \in {analyst[j].copy[r], Count(r), 0}
         /\ \A i \in Ingesters : Fetched(i)' = Fetched(i)
<1>0. UNCHANGED <<live, ingester>>
  BY DEF AnalyticsStep, ingestVars
<1> PICK j \in Analysts : StartAnalytics(j) \/ StartSnapshotJob(j) \/ AnalyticsGoesOn(j)
  BY DEF AnalyticsStep, AnalyticsNext
<1>1. analyst[j] \in AnalystState /\ analyst \in [Analysts -> AnalystState]
  BY DEF TypeOK, AnalyticsTypeOK
<1>2. ASSUME NEW next \in {"metrics", "snapshots"}, ReadReels(j, next)
      PROVE  \A k \in Analysts, r \in Reels :
               analyst'[k].copy[r] \in {analyst[k].copy[r], Count(r), 0}
  BY <1>1, <1>2 DEF ReadReels
<1>3. ASSUME analyst'[j].copy = analyst[j].copy,
             \A k \in Analysts \ {j} : analyst'[k] = analyst[k]
      PROVE  \A k \in Analysts, r \in Reels :
               analyst'[k].copy[r] \in {analyst[k].copy[r], Count(r), 0}
  BY <1>3
<1>4. CASE StartAnalytics(j) \/ StartSnapshotJob(j) \/ ReadAgain(j)
  BY <1>0, <1>2, <1>4 DEF StartAnalytics, StartSnapshotJob, ReadAgain, Fetched
<1>5. CASE WriteMetrics(j) \/ WriteSnapshot(j) \/ SnapshotReel(j) \/ GiveUpReel(j)
  <2>1. /\ analyst'[j].copy = analyst[j].copy
        /\ \A k \in Analysts \ {j} : analyst'[k] = analyst[k]
    <3>1. CASE WriteMetrics(j)
      BY <1>1, <3>1 DEF WriteMetrics, AnalystState
    <3>2. CASE WriteSnapshot(j)
      BY <1>1, <3>2 DEF WriteSnapshot, AnalystState
    <3>3. CASE SnapshotReel(j)
      BY <1>1, <3>3 DEF SnapshotReel, AnalystState
    <3>4. CASE GiveUpReel(j)
      BY <1>1, <3>4 DEF GiveUpReel, AnalystState
    <3> QED BY <1>5, <3>1, <3>2, <3>3, <3>4
  <2> QED BY <1>0, <1>3, <2>1 DEF Fetched
<1>6. CASE FinishAnalytics(j)
  BY <1>0, <1>1, <1>6 DEF FinishAnalytics, NoAnalysis, Fetched
<1> QED BY <1>4, <1>5, <1>6 DEF AnalyticsGoesOn

LEMMA NextReported ==
  ASSUME StoreAssumption, TypeOK, TypeOK', ReportedInv, [CatalogNext]_vars
  PROVE  ReportedInv'
<1>0. \A r \in Reels : live[r] <= live[r]
  BY ReportedNumbers
<1>1. CASE IngestionStep
  <2>0. UNCHANGED analyst
    BY <1>1 DEF IngestionStep, analyticsVars
  <2>1. ASSUME NEW r \in Reels, HikerCounts(r)
        PROVE  ReportedInv'
    <3>1. \A s \in Reels : live[s] <= live'[s]
      BY <2>1, ReportedNumbers DEF HikerCounts, TypeOK, IngestionTypeOK
    <3>2. UNCHANGED <<metrics, stale, ingester>>
      BY <2>1 DEF HikerCounts, storeVars, metricTable
    <3> QED BY <2>0, <3>1, <3>2, ReportedStays DEF Fetched
  <2>2. ASSUME NEW i \in Ingesters, NEW a \in Accounts, StartIngestion(i, a)
        PROVE  ReportedInv'
    <3>1. /\ UNCHANGED <<metrics, stale, live>>
          /\ \A k \in Ingesters \ {i} : ingester'[k] = ingester[k]
          /\ ingester'[i] = [NoIngestion EXCEPT !.pc = "account", !.account = a]
      BY <2>2 DEF StartIngestion, storeVars, metricTable, TypeOK, IngestionTypeOK
    <3>2. Fetched(i)' = {} /\ \A r \in Reels : ingester'[i].clip[r] = 0
      BY <3>1 DEF Fetched, NoIngestion
    <3>3. \A k \in Ingesters \ {i} : Fetched(k)' = Fetched(k)
      BY <3>1 DEF Fetched
    <3> QED BY <1>0, <2>0, <3>1, <3>2, <3>3, ReportedStays
  <2>3. ASSUME NEW i \in Ingesters, IngestionGoesOn(i), ~ StoreClipMetric(i)
        PROVE  ReportedInv'
    <3>1. \A k \in Ingesters \ {i} : Fetched(k)' = Fetched(k)
      BY <2>3, IngesterCounts DEF Fetched
    <3> QED BY <1>0, <2>0, <2>3, <3>1, IngesterCounts, ReportedStays
  <2>4. ASSUME NEW i \in Ingesters, StoreClipMetric(i)
        PROVE  ReportedInv'
    <3>1. PICK r \in Reels :
            /\ UpsertReelMetric(i, r, ingester[i].clip[r])
            /\ UNCHANGED live
            /\ \A k \in Ingesters : /\ ingester'[k].clip = ingester[k].clip
                                    /\ Fetched(k)' \subseteq Fetched(k)
      BY <2>4, IngesterWrite
    <3>2. ingester[i].clip[r] \in Nat /\ ingester[i].clip[r] <= live[r]
      BY ReportedNumbers DEF ReportedInv
    <3> QED BY <2>0, <3>1, <3>2, ReportedWrite DEF Workers
  <2> QED BY <1>1, <2>1, <2>2, <2>3, <2>4 DEF IngestionStep, IngestionNext
<1>2. CASE AnalyticsStep /\ \E j \in Analysts : WriteMetrics(j)
  <2>1. PICK j \in Analysts : WriteMetrics(j)
    BY <1>2
  <2>2. PICK r \in Reels :
          /\ UpsertReelMetric(j, r, analyst[j].copy[r])
          /\ analyst' = [analyst EXCEPT ![j].pc = "snapshot",
                                        ![j].todo = @ \ {r},
                                        ![j].reel = r]
    BY <2>1 DEF WriteMetrics
  <2>3. \A k \in Analysts : analyst'[k].copy = analyst[k].copy
    BY <2>2 DEF TypeOK, AnalyticsTypeOK, AnalystState
  <2>4. analyst[j].copy[r] \in Nat /\ analyst[j].copy[r] <= live[r]
    BY ReportedNumbers DEF ReportedInv
  <2>5. /\ UNCHANGED <<live, ingester>>
        /\ \A i \in Ingesters : Fetched(i)' = Fetched(i)
    BY <1>2, AnalystCounts
  <2>6. j \in Workers /\ j \notin Ingesters
    BY DEF Workers, StoreAssumption
  <2> QED BY <2>2, <2>3, <2>4, <2>5, <2>6, ReportedWrite
<1>3. CASE AnalyticsStep /\ ~ \E j \in Analysts : WriteMetrics(j)
  <2>1. UNCHANGED metrics /\ \A i \in Ingesters : stale'[i] = stale[i]
    <3> PICK j \in Analysts : StartAnalytics(j) \/ StartSnapshotJob(j) \/ AnalyticsGoesOn(j)
      BY <1>3 DEF AnalyticsStep, AnalyticsNext
    <3>1. UNCHANGED metrics
      BY <1>3 DEF StartAnalytics, StartSnapshotJob, AnalyticsGoesOn, WriteSnapshot,
         ReadAgain, SnapshotReel, GiveUpReel, FinishAnalytics, storeVars, metricTable
    <3>2. UNCHANGED stale \/ \E next : ReadReels(j, next)
      BY <1>3 DEF StartAnalytics, StartSnapshotJob, AnalyticsGoesOn, WriteSnapshot,
         ReadAgain, SnapshotReel, GiveUpReel, FinishAnalytics, storeVars, metricTable
    <3>3. ASSUME NEW next, ReadReels(j, next), NEW i \in Ingesters
          PROVE  stale'[i] = stale[i]
      BY <3>3 DEF ReadReels, StoreAssumption, Workers, TypeOK, StoreTypeOK
    <3> QED BY <3>1, <3>2, <3>3
  <2> QED BY <1>0, <1>3, <2>1, AnalystCounts, ReportedStays
<1>4. CASE ExtractionStep \/ TranscriptionStep \/ UNCHANGED vars
  <2>1. UNCHANGED <<metrics, live, ingester, analyst>>
    BY <1>4, OtherJobs
  <2>2. UNCHANGED stale
    BY <1>4 DEF ExtractionStep, ExtractionNext, ExtractionGoesOn, StartEnrichment,
       StartIntelligence, EnrichReel, ExtractIntelligence, GiveUpExtraction,
       FinishExtraction, TranscriptionStep, TranscriptionNext, TranscriptionGoesOn,
       ResolveWithReels, ResolveMostRecent, ListReels, PassOver, StoreTranscript,
       StoreEmbedding, PassOverEmbedding, FinishTranscription, vars, storeVars,
       metricTable
  <2> QED BY <1>0, <2>1, <2>2, ReportedStays DEF Fetched
<1>5. CASE ProcessStops
  <2>1. UNCHANGED <<metrics, live>>
    BY <1>5 DEF ProcessStops, storeVars, metricTable
  <2>2. \A j \in Analysts, r \in Reels : analyst'[j].copy[r] = 0
    BY <1>5 DEF ProcessStops, NoAnalysis
  <2>3. \A i \in Ingesters :
          Fetched(i)' = {} /\ \A r \in Reels : ingester'[i].clip[r] = 0
    BY <1>5 DEF ProcessStops, NoIngestion, Fetched
  <2> QED BY <1>0, <2>1, <2>2, <2>3, ReportedStays
<1> QED BY <1>1, <1>2, <1>3, <1>4, <1>5 DEF CatalogNext

LEMMA ReportedInvariant == CatalogSpec => []ReportedInv
<1>1. ASSUME StoreAssumption, CatalogInit
      PROVE  ReportedInv
  <2>1. /\ \A r \in Reels : Count(r) = 0 /\ live[r] = 0
        /\ \A j \in Analysts, r \in Reels : analyst[j].copy[r] = 0
        /\ \A i \in Ingesters, r \in Reels : ingester[i].clip[r] = 0
        /\ \A i \in Ingesters : Fetched(i) = {}
    BY <1>1 DEF CatalogInit, StoreInit, IngestionInit, AnalyticsInit, Count, Fetched,
       NoAnalysis, NoIngestion
  <2> QED BY <2>1 DEF ReportedInv
<1>2. StoreAssumption /\ TypeOK /\ TypeOK' /\ ReportedInv /\ [CatalogNext]_vars
      => ReportedInv'
  BY NextReported
<1> QED BY <1>1, <1>2, StoreAssumption, TypeCorrect, PTL DEF CatalogSpec

\* A stored count goes back only in a row that another run has written since the
\* ingestion fetched its counts, for any number of jobs of each kind.
THEOREM StoredCountsGoBack == CatalogSpec => CountsGoBackOnlyByOverlap
<1>1. ASSUME StoreAssumption, TypeOK, ReportedInv, [CatalogNext]_vars,
             NEW i \in Ingesters, NEW r \in Reels,
             ingester'[i] # ingester[i], Count(r)' < Count(r)
      PROVE  r \in stale[i]
  <2>1. IngestionStep
    <3>1. ~ (AnalyticsStep \/ ExtractionStep \/ TranscriptionStep \/ UNCHANGED vars)
      BY <1>1 DEF AnalyticsStep, ExtractionStep, TranscriptionStep, vars, ingestVars
    <3>2. ~ ProcessStops
      <4>1. Count(r) \in Nat
        BY ReportedNumbers, <1>1
      <4> QED BY <1>1, <4>1 DEF ProcessStops, storeVars, metricTable, Count
    <3> QED BY <1>1, <3>1, <3>2 DEF CatalogNext
  <2>2. ~ UNCHANGED metrics
    <3>1. Count(r) \in Nat
      BY ReportedNumbers, <1>1
    <3> QED BY <1>1, <3>1 DEF Count
  <2>3. PICK k \in Ingesters : IngestionGoesOn(k)
    BY <2>1, <2>2 DEF IngestionStep, IngestionNext, HikerCounts, StartIngestion,
       storeVars, metricTable
  <2>4. StoreClipMetric(k)
    BY <1>1, <2>2, <2>3, IngesterCounts
  <2>5. PICK s \in Reels :
          /\ s \in Fetched(k)
          /\ UpsertReelMetric(k, s, ingester[k].clip[s])
          /\ \A m \in Ingesters : m # k => ingester'[m] = ingester[m]
    BY <1>1, <2>4, IngesterWrite
  <2>6. k = i
    BY <1>1, <2>5
  <2>7. ingester[k].clip[s] \in Nat /\ Count(r) \in Nat
    BY <1>1, ReportedNumbers
  <2>8. Count(s)' = ingester[k].clip[s] /\ \A q \in Reels \ {s} : Count(q)' = Count(q)
    BY <1>1, <2>5, <2>7, MetricWrite DEF Workers
  <2>9. s = r
    BY <1>1, <2>7, <2>8
  <2>10. ~ (Count(r) <= ingester[i].clip[r])
    BY <1>1, <2>6, <2>7, <2>8, <2>9
  <2> QED BY <1>1, <2>5, <2>6, <2>9, <2>10 DEF ReportedInv
<1>2. StoreAssumption /\ TypeOK /\ ReportedInv /\ [CatalogNext]_vars
      => [\A i \in Ingesters, r \in Reels :
            ingester'[i] # ingester[i] /\ Count(r)' < Count(r) => r \in stale[i]]_vars
  BY <1>1
<1> QED BY <1>2, StoreAssumption, TypeCorrect, ReportedInvariant, PTL
        DEF CatalogSpec, CountsGoBackOnlyByOverlap

-----------------------------------------------------------------------------
(* The snapshots the jobs write implement DriftSeries, for any number of    *)
(* ingestion and analytics runs.                                            *)

\* A step that records nothing and writes no count keeps the order of the counts
\* when each analyst keeps what it has in hand, drops it or has just read it.
LEMMA DriftStays ==
  ASSUME TypeOK, DriftInv, UNCHANGED <<snapshots, metrics, raced>>,
         \A j \in Analysts :
           \/ /\ InHand(j)' \subseteq InHand(j) /\ stale'[j] = stale[j]
              /\ analyst'[j].copy = analyst[j].copy
           \/ \A r \in InHand(j)' : r \in Reels /\ analyst'[j].copy[r] = Count(r)
  PROVE  DriftInv'
<1>1. \A r \in Reels : /\ Drift!LastRecorded(r)' = Drift!LastRecorded(r)
                       /\ Count(r)' = Count(r)
                       /\ Count(r) <= Count(r)
  BY HeldNumbers DEF Drift!LastRecorded, Count
<1>2. \A r \in Reels \ raced' : Drift!LastRecorded(r)' <= Count(r)'
  BY <1>1 DEF DriftInv
<1>3. ASSUME NEW j \in Analysts, NEW r \in InHand(j)'
      PROVE  /\ r \notin raced' => analyst'[j].copy[r] <= Count(r)'
             /\ r \notin stale'[j] => analyst'[j].copy[r] = Count(r)'
  <2>1. CASE /\ InHand(j)' \subseteq InHand(j) /\ stale'[j] = stale[j]
             /\ analyst'[j].copy = analyst[j].copy
    <3>1. r \in InHand(j) /\ r \in Reels
      BY <2>1, HeldReels
    <3> QED BY <1>1, <2>1, <3>1 DEF DriftInv
  <2>2. CASE r \in Reels /\ analyst'[j].copy[r] = Count(r)
    BY <1>1, <2>2
  <2> QED BY <2>1, <2>2
<1> QED BY <1>2, <1>3 DEF DriftInv

\* A write by a worker for whom the row is not stale puts in no smaller count; any
\* other write makes the reel a raced one.
LEMMA DriftWrite ==
  ASSUME StoreAssumption, TypeOK, DriftInv, NEW w \in Workers, NEW r \in Reels,
         NEW v \in Nat, UpsertReelMetric(w, r, v), UNCHANGED snapshots,
         r \notin stale[w] => Count(r) <= v,
         w \in Analysts => v = analyst[w].copy[r],
         \A j \in Analysts : /\ InHand(j)' \subseteq InHand(j)
                             /\ analyst'[j].copy = analyst[j].copy
  PROVE  DriftInv'
<1>1. /\ Count(r)' = v
      /\ \A s \in Reels \ {r} : Count(s)' = Count(s)
      /\ stale'[w] = stale[w]
      /\ \A u \in Workers \ {w} : stale'[u] = stale[u] \cup {r}
      /\ raced \subseteq raced'
      /\ r \in stale[w] => r \in raced'
  BY MetricWrite
<1>2. \A s \in Reels : Drift!LastRecorded(s)' = Drift!LastRecorded(s)
  BY DEF Drift!LastRecorded
<1>3. ASSUME NEW s \in Reels \ raced'
      PROVE  Count(s) <= Count(s)' /\ s \notin raced
  <2>1. CASE s = r
    BY <1>1, <2>1
  <2>2. CASE s # r
    BY <1>1, <2>2, HeldNumbers
  <2> QED BY <2>1, <2>2
<1>4. \A s \in Reels : Count(s)' \in Nat
  BY <1>1, HeldNumbers
<1>5. \A s \in Reels \ raced' : Drift!LastRecorded(s)' <= Count(s)'
  BY <1>2, <1>3, <1>4, HeldNumbers DEF DriftInv
<1>6. ASSUME NEW j \in Analysts, NEW s \in InHand(j)', s \notin raced'
      PROVE  analyst'[j].copy[s] <= Count(s)'
  <2>1. s \in InHand(j) /\ s \in Reels
    BY HeldReels
  <2>2. analyst[j].copy[s] <= Count(s) /\ Count(s) <= Count(s)'
    BY <1>3, <1>6, <2>1 DEF DriftInv
  <2> QED BY <1>4, <2>1, <2>2, HeldNumbers
<1>7. ASSUME NEW j \in Analysts, NEW s \in InHand(j)', s \notin stale'[j]
      PROVE  analyst'[j].copy[s] = Count(s)'
  <2>1. s \in InHand(j) /\ s \in Reels /\ j \in Workers
    BY HeldReels DEF Workers
  <2>2. CASE s = r
    <3>1. j = w
      BY <1>1, <1>7, <2>1, <2>2
    <3> QED BY <1>1, <2>2, <3>1
  <2>3. CASE s # r
    <3>1. s \notin stale[j]
      BY <1>1, <1>7, <2>1
    <3> QED BY <1>1, <2>1, <2>3, <3>1 DEF DriftInv
  <2> QED BY <2>2, <2>3
<1> QED BY <1>5, <1>6, <1>7 DEF DriftInv

\* The analyst that appends a snapshot of a reel it has in hand.
LEMMA DriftRecord ==
  ASSUME TypeOK, DriftInv, NEW j \in Analysts, NEW r \in InHand(j),
         InsertReelSnapshot(r, analyst[j].copy[r]),
         UNCHANGED <<metrics, stale, raced>>,
         \A k \in Analysts : /\ InHand(k)' \subseteq InHand(k)
                             /\ analyst'[k].copy = analyst[k].copy
  PROVE  DriftInv'
<1>1. PICK v \in Nat : v = analyst[j].copy[r]
  BY HeldReels, HeldNumbers
<1>2. r \in Reels /\ snapshots[r] \in Seq(Nat)
  BY HeldReels DEF TypeOK, StoreTypeOK
<1>3. /\ Drift!LastRecorded(r)' = v
      /\ \A s \in Reels \ {r} : Drift!LastRecorded(s)' = Drift!LastRecorded(s)
  <2>1. snapshots' = [snapshots EXCEPT ![r] = Append(@, v)]
    BY <1>1 DEF InsertReelSnapshot
  <2>2. Append(snapshots[r], v) # <<>>
        /\ Append(snapshots[r], v)[Len(Append(snapshots[r], v))] = v
    BY <1>2
  <2> QED BY <1>2, <2>1, <2>2 DEF Drift!LastRecorded, TypeOK, StoreTypeOK
<1>4. \A s \in Reels : Count(s)' = Count(s)
  BY DEF Count
<1>5. \A s \in Reels \ raced' : Drift!LastRecorded(s)' <= Count(s)'
  BY <1>1, <1>2, <1>3, <1>4 DEF DriftInv
<1>6. ASSUME NEW k \in Analysts, NEW s \in InHand(k)'
      PROVE  /\ s \notin raced' => analyst'[k].copy[s] <= Count(s)'
             /\ s \notin stale'[k] => analyst'[k].copy[s] = Count(s)'
  <2>1. s \in InHand(k) /\ s \in Reels
    BY HeldReels
  <2> QED BY <1>4, <2>1 DEF DriftInv
<1> QED BY <1>5, <1>6 DEF DriftInv

\* The two statements that append to "ReelSnapshot".
LEMMA SnapshotWriters ==
  ASSUME TypeOK, NEW j \in Analysts, WriteSnapshot(j) \/ SnapshotReel(j)
  PROVE  /\ \E r \in InHand(j) : InsertReelSnapshot(r, analyst[j].copy[r])
         /\ UNCHANGED metrics
         /\ analyst'[j].copy = analyst[j].copy
         /\ InHand(j)' \subseteq InHand(j)
<1> USE DEF TypeOK, AnalyticsTypeOK, metricTable
<1>1. CASE WriteSnapshot(j)
  <2>1. /\ analyst'[j].copy = analyst[j].copy
        /\ analyst'[j].todo = analyst[j].todo
        /\ analyst'[j].pc = "metrics"
    BY <1>1 DEF WriteSnapshot, AnalystState
  <2> QED BY <1>1, <2>1 DEF WriteSnapshot, InHand
<1>2. CASE SnapshotReel(j)
  <2>1. PICK r \in Reels :
          /\ r \in analyst[j].todo
          /\ InsertReelSnapshot(r, analyst[j].copy[r])
          /\ analyst' = [analyst EXCEPT ![j].todo = @ \ {r}]
    BY <1>2 DEF SnapshotReel, IsLatest
  <2>2. /\ analyst'[j].copy = analyst[j].copy
        /\ analyst'[j].todo = analyst[j].todo \ {r}
        /\ analyst'[j].pc = analyst[j].pc
        /\ analyst'[j].reel = analyst[j].reel
    BY <2>1 DEF AnalystState
  <2> QED BY <1>2, <2>1, <2>2 DEF SnapshotReel, InHand
<1> QED BY <1>1, <1>2

\* The steps of the ingesters.
LEMMA IngestionDrifts ==
  ASSUME StoreAssumption, TypeOK, ReportedInv, DriftInv, IngestionStep
  PROVE  DriftInv'
<1>0. UNCHANGED analyst /\ \A j \in Analysts : InHand(j)' = InHand(j)
  BY DEF IngestionStep, analyticsVars, InHand
<1>1. ASSUME NEW i \in Ingesters, StoreClipMetric(i)
      PROVE  DriftInv'
  <2>1. PICK r \in Reels :
          /\ r \in Fetched(i)
          /\ UpsertReelMetric(i, r, ingester[i].clip[r])
          /\ UNCHANGED snapshots
    BY <1>1, IngesterWrite
  <2>2. ingester[i].clip[r] \in Nat /\ i \in Workers /\ i \notin Analysts
    BY ReportedNumbers DEF Workers, StoreAssumption
  <2>3. r \notin stale[i] => Count(r) <= ingester[i].clip[r]
    BY <2>1 DEF ReportedInv
  <2> QED BY <1>0, <2>1, <2>2, <2>3, DriftWrite
<1>2. CASE ~ \E i \in Ingesters : StoreClipMetric(i)
  <2>1. UNCHANGED <<snapshots, metrics, raced>>
    BY <1>2 DEF IngestionStep, IngestionNext, IngestionGoesOn, HikerCounts,
       StartIngestion, StoreAccount, SnapshotAccount, FetchClips, IngestionRaises,
       StoreClip, StoreComment, GiveUpClip, FinishIngestion, storeVars, metricTable
  <2>2. UNCHANGED stale \/ \E i \in Ingesters : FetchClips(i)
    BY <1>2 DEF IngestionStep, IngestionNext, IngestionGoesOn, HikerCounts,
       StartIngestion, StoreAccount, SnapshotAccount, IngestionRaises,
       StoreClip, StoreComment, GiveUpClip, FinishIngestion, storeVars, metricTable
  <2>3. \A j \in Analysts : stale'[j] = stale[j]
    BY <2>2 DEF FetchClips, StoreAssumption, Workers, TypeOK, StoreTypeOK
  <2> QED BY <1>0, <2>1, <2>3, DriftStays
<1> QED BY <1>1, <1>2

\* The steps of the analysts.
LEMMA AnalyticsDrifts ==
  ASSUME StoreAssumption, TypeOK, DriftInv, AnalyticsStep
  PROVE  DriftInv'
<1> USE DEF storeVars, metricTable
<1> PICK j \in Analysts : StartAnalytics(j) \/ StartSnapshotJob(j) \/ AnalyticsGoesOn(j)
  BY DEF AnalyticsStep, AnalyticsNext
<1>1. analyst[j] \in AnalystState /\ analyst \in [Analysts -> AnalystState]
  BY DEF TypeOK, AnalyticsTypeOK
<1>2. ASSUME \A k \in Analysts \ {j} : analyst'[k] = analyst[k],
             analyst'[j].copy = analyst[j].copy, InHand(j)' \subseteq InHand(j)
      PROVE  \A k \in Analysts : /\ InHand(k)' \subseteq InHand(k)
                                 /\ analyst'[k].copy = analyst[k].copy
  BY <1>2 DEF InHand
<1>3. CASE StartAnalytics(j) \/ StartSnapshotJob(j) \/ ReadAgain(j)
  <2> DEFINE rows == Newest(Stored, AnalyticsLimit)
             counts == [r \in Reels |-> IF r \in rows THEN Count(r) ELSE 0]
  <2>1. PICK next \in {"metrics", "snapshots"} :
          /\ ReadReels(j, next)
          /\ UNCHANGED <<snapshots, metrics, raced>>
    BY <1>3 DEF StartAnalytics, StartSnapshotJob, ReadAgain
  <2>2. /\ analyst' = [analyst EXCEPT ![j] =
             [pc |-> next, todo |-> rows, reel |-> None, copy |-> counts]]
        /\ stale' = [stale EXCEPT ![j] = {}]
    BY <2>1 DEF ReadReels
  <2>3. rows \subseteq Reels
    BY StoredReels, QueriesSelect DEF TypeOK, StoreTypeOK
  <2>4. \A r \in rows : counts[r] = Count(r)
    BY <2>3
  <2> HIDE DEF rows, counts
  <2>5. analyst'[j] = [pc |-> next, todo |-> rows, reel |-> None, copy |-> counts]
    BY <1>1, <2>2
  <2>6. InHand(j)' = rows /\ analyst'[j].copy = counts
    BY <2>5 DEF InHand
  <2>7. \A k \in Analysts \ {j} : analyst'[k] = analyst[k] /\ stale'[k] = stale[k]
    BY <1>1, <2>2 DEF TypeOK, StoreTypeOK, Workers
  <2>8. \A k \in Analysts \ {j} : InHand(k)' = InHand(k)
    BY <2>7 DEF InHand
  <2> QED BY <2>1, <2>3, <2>4, <2>6, <2>7, <2>8, DriftStays
<1>4. CASE WriteMetrics(j)
  <2>1. PICK r \in Reels :
          /\ r \in analyst[j].todo
          /\ UpsertReelMetric(j, r, analyst[j].copy[r])
          /\ analyst' = [analyst EXCEPT ![j].pc = "snapshot",
                                        ![j].todo = @ \ {r},
                                        ![j].reel = r]
          /\ UNCHANGED snapshots
    BY <1>4 DEF WriteMetrics, IsLatest
  <2>2. /\ analyst'[j].copy = analyst[j].copy
        /\ analyst'[j].todo = analyst[j].todo \ {r}
        /\ analyst'[j].pc = "snapshot"
        /\ analyst'[j].reel = r
        /\ \A k \in Analysts \ {j} : analyst'[k] = analyst[k]
    BY <1>1, <2>1 DEF AnalystState
  <2>3. r \in InHand(j) /\ InHand(j)' \subseteq InHand(j)
    BY <2>1, <2>2 DEF InHand
  <2>4. analyst[j].copy[r] \in Nat /\ Count(r) \in Nat /\ j \in Workers
    BY HeldNumbers DEF Workers
  <2>5. r \notin stale[j] => Count(r) <= analyst[j].copy[r]
    BY <2>3, <2>4 DEF DriftInv
  <2> QED BY <1>2, <2>1, <2>2, <2>3, <2>4, <2>5, DriftWrite
<1>5. CASE WriteSnapshot(j) \/ SnapshotReel(j)
  <2>1. /\ UNCHANGED <<stale, raced>>
        /\ \A k \in Analysts \ {j} : analyst'[k] = analyst[k]
    BY <1>1, <1>5 DEF WriteSnapshot, SnapshotReel
  <2> QED BY <1>2, <1>5, <2>1, SnapshotWriters, DriftRecord
<1>6. CASE GiveUpReel(j)
  <2>1. /\ analyst'[j].copy = analyst[j].copy
        /\ InHand(j)' \subseteq InHand(j)
    <3>1. ASSUME NEW r \in Reels, analyst[j].pc \in {"metrics", "snapshots"},
                 analyst' = [analyst EXCEPT ![j].todo = @ \ {r}]
          PROVE  /\ analyst'[j].copy = analyst[j].copy
                 /\ analyst'[j].todo \subseteq analyst[j].todo
                 /\ analyst'[j].pc # "snapshot"
      BY <1>1, <3>1 DEF AnalystState
    <3>2. ASSUME analyst' = [analyst EXCEPT ![j].pc = "metrics", ![j].reel = None]
          PROVE  /\ analyst'[j].copy = analyst[j].copy
                 /\ analyst'[j].todo \subseteq analyst[j].todo
                 /\ analyst'[j].pc # "snapshot"
      BY <1>1, <3>2 DEF AnalystState
    <3> QED BY <1>6, <3>1, <3>2 DEF GiveUpReel, InHand
  <2>2. /\ UNCHANGED <<snapshots, metrics, stale, raced>>
        /\ \A k \in Analysts \ {j} : analyst'[k] = analyst[k]
    BY <1>1, <1>6 DEF GiveUpReel
  <2> QED BY <1>2, <2>1, <2>2, DriftStays
<1>7. CASE FinishAnalytics(j)
  <2>1. /\ UNCHANGED <<snapshots, metrics, stale, raced>>
        /\ \A k \in Analysts \ {j} : analyst'[k] = analyst[k]
        /\ analyst'[j] = NoAnalysis
    BY <1>1, <1>7 DEF FinishAnalytics
  <2>2. InHand(j)' = {} /\ \A k \in Analysts \ {j} : InHand(k)' = InHand(k)
    BY <2>1 DEF InHand, NoAnalysis
  <2> QED BY <2>1, <2>2, DriftStays
<1> QED BY <1>3, <1>4, <1>5, <1>6, <1>7 DEF AnalyticsGoesOn

LEMMA NextDrifts ==
  ASSUME StoreAssumption, TypeOK, ReportedInv, DriftInv, [CatalogNext]_vars
  PROVE  DriftInv'
<1>1. CASE ExtractionStep \/ TranscriptionStep \/ UNCHANGED vars
  <2>1. UNCHANGED <<snapshots, metrics, stale, raced, analyst>>
    BY <1>1, OtherJobs
  <2>2. \A j \in Analysts : InHand(j)' = InHand(j)
    BY <2>1 DEF InHand
  <2> QED BY <2>1, <2>2, DriftStays
<1>2. CASE ProcessStops
  <2>1. UNCHANGED <<snapshots, metrics, raced>>
    BY <1>2 DEF ProcessStops, storeVars, metricTable
  <2>2. \A j \in Analysts : InHand(j)' = {}
    BY <1>2 DEF ProcessStops, InHand, NoAnalysis
  <2> QED BY <2>1, <2>2, DriftStays
<1> QED BY <1>1, <1>2, IngestionDrifts, AnalyticsDrifts DEF CatalogNext

\* Each step of the jobs lets an upstream counter grow, records one count of a
\* reel, which is no less than the last one unless the reel is disputed, or is
\* invisible.
LEMMA StepSimulates ==
  ASSUME StoreAssumption, TypeOK, ReportedInv, DriftInv, [CatalogNext]_vars
  PROVE  [Drift!DriftNext]_(Drift!driftVars)
<1> USE DEF storeVars
<1>1. CASE UNCHANGED <<snapshots, live>>
  BY <1>1 DEF Drift!driftVars
<1>2. ASSUME NEW r \in Reels, HikerCounts(r)
      PROVE  Drift!DriftNext
  BY <1>2 DEF HikerCounts, Drift!DriftNext, Drift!Grow
<1>3. ASSUME NEW j \in Analysts, WriteSnapshot(j) \/ SnapshotReel(j), UNCHANGED live
      PROVE  Drift!DriftNext
  <2>1. PICK r \in InHand(j) : InsertReelSnapshot(r, analyst[j].copy[r])
    BY <1>3, SnapshotWriters
  <2>2. PICK v \in Nat : v = analyst[j].copy[r]
    BY <2>1, HeldReels, HeldNumbers
  <2>3. r \in Reels /\ v \in 0 .. live[r]
    BY <2>2, HeldReels, HeldNumbers DEF ReportedInv
  <2>4. r \in Disputed \/ v >= Drift!LastRecorded(r)
    <3> SUFFICES ASSUME r \notin Disputed PROVE v >= Drift!LastRecorded(r)
      OBVIOUS
    <3>1. r \notin raced /\ r \notin stale[j]
      BY <2>1 DEF Disputed
    <3>2. v = Count(r) /\ Drift!LastRecorded(r) <= Count(r)
      BY <2>2, <2>3, <3>1 DEF DriftInv
    <3> QED BY <2>3, <3>2, HeldNumbers
  <2>5. snapshots' = [snapshots EXCEPT ![r] = Append(@, v)]
    BY <2>1, <2>2 DEF InsertReelSnapshot
  <2>6. Drift!Record(r)
    BY <1>3, <2>3, <2>4, <2>5 DEF Drift!Record
  <2> QED BY <2>3, <2>6 DEF Drift!DriftNext
<1>4. CASE IngestionStep
  <2>1. UNCHANGED <<snapshots, live>> \/ \E r \in Reels : HikerCounts(r)
    BY <1>4 DEF IngestionStep, IngestionNext, IngestionGoesOn, StartIngestion,
       StoreAccount, SnapshotAccount, FetchClips, IngestionRaises, StoreClip,
       StoreClipMetric, StoreComment, GiveUpClip, FinishIngestion
  <2> QED BY <1>1, <1>2, <2>1
<1>5. CASE AnalyticsStep
  <2>1. UNCHANGED live
    BY <1>5 DEF AnalyticsStep, ingestVars
  <2>2. UNCHANGED snapshots \/ \E j \in Analysts : WriteSnapshot(j) \/ SnapshotReel(j)
    BY <1>5 DEF AnalyticsStep, AnalyticsNext, AnalyticsGoesOn, StartAnalytics,
       StartSnapshotJob, WriteMetrics, ReadAgain, GiveUpReel, FinishAnalytics
  <2> QED BY <1>1, <1>3, <2>1, <2>2
<1>6. CASE ExtractionStep \/ TranscriptionStep \/ UNCHANGED vars
  BY <1>1, <1>6, OtherJobs
<1>7. CASE ProcessStops
  BY <1>1, <1>7 DEF ProcessStops
<1> QED BY <1>4, <1>5, <1>6, <1>7 DEF CatalogNext

\* For any number of ingestion and analytics runs, whatever statements fail and
\* wherever the process stops, the snapshots of a reel are readings of a counter
\* that only grows, never ahead of it, and in order until two workers overlap on
\* the reel.
THEOREM SnapshotsAreReadings == CatalogSpec => SnapshotsFollowUpstream
<1>1. ASSUME StoreAssumption, CatalogInit
      PROVE  DriftInv /\ Drift!DriftInit
  <2>1. Drift!DriftInit
    BY <1>1 DEF CatalogInit, StoreInit, IngestionInit, Drift!DriftInit
  <2>2. \A r \in Reels : Drift!LastRecorded(r) = 0 /\ Count(r) = 0
    BY <1>1 DEF CatalogInit, StoreInit, Drift!LastRecorded, Count
  <2>3. \A j \in Analysts : InHand(j) = {}
    BY <1>1 DEF CatalogInit, AnalyticsInit, InHand, NoAnalysis
  <2> QED BY <2>1, <2>2, <2>3 DEF DriftInv
<1>2. StoreAssumption /\ TypeOK /\ ReportedInv /\ DriftInv /\ [CatalogNext]_vars
      => DriftInv'
  BY NextDrifts
<1>3. StoreAssumption /\ TypeOK /\ ReportedInv /\ DriftInv /\ [CatalogNext]_vars
      => [Drift!DriftNext]_(Drift!driftVars)
  BY StepSimulates
<1> QED BY <1>1, <1>2, <1>3, StoreAssumption, TypeCorrect, ReportedInvariant, PTL
        DEF CatalogSpec, SnapshotsFollowUpstream, Drift!DriftSpec

-----------------------------------------------------------------------------
(* A job's steps run out, whatever the other jobs do.                       *)

LEMMA ReelCardinalities ==
  ASSUME IsFiniteSet(Reels)
  PROVE  /\ Cardinality({}) = 0
         /\ Cardinality(Reels) \in Nat
         /\ \A S \in SUBSET Reels :
              /\ Cardinality(S) \in Nat
              /\ Cardinality(S) <= Cardinality(Reels)
              /\ \A r \in S : Cardinality(S \ {r}) = Cardinality(S) - 1
<1>1. \A S \in SUBSET Reels : IsFiniteSet(S) /\ Cardinality(S) <= Cardinality(Reels)
  BY FS_Subset
<1>. QED
  BY <1>1, FS_EmptySet, FS_CardinalityType, FS_RemoveElement

\* A step of an ingester brings it nearer to its end.
LEMMA IngestionNearsEnd ==
  ASSUME IsFiniteSet(Reels), TypeOK, NEW i \in Ingesters, IngestionGoesOn(i)
  PROVE  /\ IngestionLeft(i)' < IngestionLeft(i)
         /\ \A k \in Ingesters \ {i} : ingester'[k] = ingester[k]
<1>1. ingester \in [Ingesters -> IngesterState]
  BY DEF TypeOK, IngestionTypeOK
<1>2. /\ ingester[i].todo \in SUBSET Reels
      /\ ingester[i].pc \in {"idle", "account", "snapshot", "fetch", "clips",
                             "metric", "comments"}
  BY <1>1 DEF IngesterState
<1>3. \A k \in Ingesters \ {i} : ingester'[k] = ingester[k]
  BY <1>1 DEF IngestionGoesOn, StoreAccount, SnapshotAccount, FetchClips,
     IngestionRaises, StoreClip, StoreClipMetric, StoreComment, GiveUpClip,
     FinishIngestion
<1>4. CASE StoreAccount(i)
  <2>1. /\ ingester[i].pc = "account" /\ ingester'[i].pc = "snapshot"
        /\ ingester'[i].todo = ingester[i].todo
    BY <1>1, <1>4 DEF StoreAccount, IngesterState
  <2> QED BY <1>2, <1>3, <2>1, ReelCardinalities DEF IngestionLeft
<1>5. CASE SnapshotAccount(i)
  <2>1. /\ ingester[i].pc = "snapshot" /\ ingester'[i].pc = "fetch"
        /\ ingester'[i].todo = ingester[i].todo
    BY <1>1, <1>5 DEF SnapshotAccount, IngesterState
  <2> QED BY <1>2, <1>3, <2>1, ReelCardinalities DEF IngestionLeft
<1>6. CASE FetchClips(i)
  <2>1. /\ ingester[i].pc = "fetch" /\ ingester'[i].pc = "clips"
        /\ ingester'[i].todo \in SUBSET Reels
    BY <1>1, <1>6 DEF FetchClips, IngesterState, OwnedBy
  <2> QED BY <1>2, <1>3, <2>1, ReelCardinalities DEF IngestionLeft
<1>7. CASE StoreClip(i)
  <2>1. PICK r \in ingester[i].todo :
          /\ ingester[i].pc = "clips" /\ ingester'[i].pc = "metric"
          /\ ingester'[i].todo = ingester[i].todo \ {r}
    BY <1>1, <1>7 DEF StoreClip, IngesterState
  <2> QED BY <1>2, <1>3, <2>1, ReelCardinalities DEF IngestionLeft
<1>8. CASE StoreClipMetric(i)
  <2>1. /\ ingester[i].pc = "metric" /\ ingester'[i].pc = "comments"
        /\ ingester'[i].todo = ingester[i].todo
    BY <1>1, <1>8 DEF StoreClipMetric, IngesterState
  <2> QED BY <1>2, <1>3, <2>1, ReelCardinalities DEF IngestionLeft
<1>9. CASE StoreComment(i) \/ (GiveUpClip(i) /\ ingester[i].pc # "clips")
  <2>1. /\ ingester[i].pc \in {"metric", "comments"} /\ ingester'[i].pc = "clips"
        /\ ingester'[i].todo = ingester[i].todo
    BY <1>1, <1>9 DEF StoreComment, GiveUpClip, IngesterState
  <2> QED BY <1>2, <1>3, <2>1, ReelCardinalities DEF IngestionLeft
<1>10. CASE GiveUpClip(i) /\ ingester[i].pc = "clips"
  <2>1. PICK r \in ingester[i].todo :
          /\ ingester'[i].pc = "clips"
          /\ ingester'[i].todo = ingester[i].todo \ {r}
    BY <1>1, <1>10 DEF GiveUpClip, IngesterState
  <2> QED BY <1>2, <1>3, <1>10, <2>1, ReelCardinalities DEF IngestionLeft
<1>11. CASE IngestionRaises(i) \/ FinishIngestion(i)
  <2>1. ingester[i].pc # "idle" /\ ingester'[i].pc = "idle" /\ ingester'[i].todo = {}
    BY <1>1, <1>11 DEF IngestionRaises, FinishIngestion, NoIngestion
  <2> QED BY <1>2, <1>3, <2>1, ReelCardinalities DEF IngestionLeft
<1>. QED
  BY <1>4, <1>5, <1>6, <1>7, <1>8, <1>9, <1>10, <1>11 DEF IngestionGoesOn

\* A step of an analyst brings it nearer to its end, the second query included.
LEMMA AnalyticsNearsEnd ==
  ASSUME IsFiniteSet(Reels), TypeOK, NEW j \in Analysts, AnalyticsGoesOn(j)
  PROVE  /\ AnalyticsLeft(j)' < AnalyticsLeft(j)
         /\ \A k \in Analysts \ {j} : analyst'[k] = analyst[k]
<1>1. analyst \in [Analysts -> AnalystState]
  BY DEF TypeOK, AnalyticsTypeOK
<1>2. /\ analyst[j].todo \in SUBSET Reels
      /\ analyst[j].pc \in {"idle", "metrics", "snapshot", "snapshots"}
  BY <1>1 DEF AnalystState
<1>3. \A k \in Analysts \ {j} : analyst'[k] = analyst[k]
  BY <1>1 DEF AnalyticsGoesOn, WriteMetrics, WriteSnapshot, ReadAgain, ReadReels,
     SnapshotReel, GiveUpReel, FinishAnalytics
<1>4. CASE WriteMetrics(j)
  <2>1. PICK r \in analyst[j].todo :
          /\ analyst[j].pc = "metrics" /\ analyst'[j].pc = "snapshot"
          /\ analyst'[j].todo = analyst[j].todo \ {r}
    BY <1>1, <1>4 DEF WriteMetrics, AnalystState, IsLatest
  <2> QED BY <1>2, <1>3, <2>1, ReelCardinalities DEF AnalyticsLeft
<1>5. CASE WriteSnapshot(j) \/ (GiveUpReel(j) /\ analyst[j].pc = "snapshot")
  <2>1. /\ analyst[j].pc = "snapshot" /\ analyst'[j].pc = "metrics"
        /\ analyst'[j].todo = analyst[j].todo
    BY <1>1, <1>5 DEF WriteSnapshot, GiveUpReel, AnalystState
  <2> QED BY <1>2, <1>3, <2>1, ReelCardinalities DEF AnalyticsLeft
<1>6. CASE ReadAgain(j)
  <2>1. /\ analyst[j].pc = "metrics" /\ analyst'[j].pc = "snapshots"
        /\ analyst'[j].todo = Newest(Stored, AnalyticsLimit)
    BY <1>1, <1>6 DEF ReadAgain, ReadReels
  <2>2. analyst'[j].todo \in SUBSET Reels
    BY <2>1, QueriesSelect, StoredReels DEF TypeOK, StoreTypeOK
  <2> QED BY <1>2, <1>3, <2>1, <2>2, ReelCardinalities DEF AnalyticsLeft
<1>7. CASE SnapshotReel(j) \/ (GiveUpReel(j) /\ analyst[j].pc # "snapshot")
  <2>1. PICK r \in analyst[j].todo :
          /\ analyst[j].pc \in {"metrics", "snapshots"}
          /\ analyst'[j].pc = analyst[j].pc
          /\ analyst'[j].todo = analyst[j].todo \ {r}
    BY <1>1, <1>7 DEF SnapshotReel, GiveUpReel, AnalystState, IsLatest
  <2> QED BY <1>2, <1>3, <2>1, ReelCardinalities DEF AnalyticsLeft
<1>8. CASE FinishAnalytics(j)
  <2>1. analyst[j].pc # "idle" /\ analyst'[j].pc = "idle" /\ analyst'[j].todo = {}
    BY <1>1, <1>8 DEF FinishAnalytics, NoAnalysis
  <2> QED BY <1>2, <1>3, <2>1, ReelCardinalities DEF AnalyticsLeft
<1>. QED
  BY <1>4, <1>5, <1>6, <1>7, <1>8 DEF AnalyticsGoesOn

\* A step of an extractor brings it nearer to its end.
LEMMA ExtractionNearsEnd ==
  ASSUME IsFiniteSet(Reels), TypeOK, NEW x \in Extractors, ExtractionGoesOn(x)
  PROVE  /\ ExtractionLeft(x)' < ExtractionLeft(x)
         /\ \A k \in Extractors \ {x} : extractor'[k] = extractor[k]
<1>1. extractor \in [Extractors -> ExtractorState]
  BY DEF TypeOK, ExtractionTypeOK
<1>2. extractor[x].todo \in SUBSET Reels
  BY <1>1 DEF ExtractorState
<1>3. \A k \in Extractors \ {x} : extractor'[k] = extractor[k]
  BY <1>1 DEF ExtractionGoesOn, EnrichReel, ExtractIntelligence, GiveUpExtraction,
     FinishExtraction
<1>4. CASE EnrichReel(x) \/ ExtractIntelligence(x) \/ GiveUpExtraction(x)
  <2>1. \E r \in extractor[x].todo :
          /\ extractor[x].pc # "idle" /\ extractor'[x].pc = extractor[x].pc
          /\ extractor'[x].todo = extractor[x].todo \ {r}
    <3>1. CASE EnrichReel(x)
      <4>1. PICK r \in extractor[x].todo :
              extractor' = [extractor EXCEPT ![x].todo = @ \ {r}]
        BY <3>1 DEF EnrichReel, IsEarliest
      <4>2. extractor[x].pc # "idle"
        BY <3>1 DEF EnrichReel
      <4> QED BY <1>1, <4>1, <4>2 DEF ExtractorState
    <3>2. CASE ExtractIntelligence(x) \/ GiveUpExtraction(x)
      <4>1. PICK r \in extractor[x].todo :
              /\ extractor[x].pc # "idle"
              /\ extractor' = [extractor EXCEPT ![x].todo = @ \ {r}]
        BY <3>2 DEF ExtractIntelligence, GiveUpExtraction, IsEarliest, IsLatest
      <4> QED BY <1>1, <4>1 DEF ExtractorState
    <3> QED BY <1>4, <3>1, <3>2
  <2> QED BY <1>2, <1>3, <2>1, ReelCardinalities DEF ExtractionLeft
<1>5. CASE FinishExtraction(x)
  <2>1. /\ extractor[x].pc # "idle" /\ extractor'[x].pc = "idle"
        /\ extractor'[x].todo = {}
    BY <1>1, <1>5 DEF FinishExtraction, NoExtraction
  <2> QED BY <1>2, <1>3, <2>1, ReelCardinalities DEF ExtractionLeft
<1>. QED
  BY <1>4, <1>5 DEF ExtractionGoesOn

\* A step of a request that transcribes brings it nearer to its end.
LEMMA TranscriptionNearsEnd ==
  ASSUME IsFiniteSet(Reels), TypeOK, NEW t \in Transcribers, TranscriptionGoesOn(t)
  PROVE  /\ TranscriptionLeft(t)' < TranscriptionLeft(t)
         /\ \A k \in Transcribers \ {t} : transcriber'[k] = transcriber[k]
<1>1. transcriber \in [Transcribers -> TranscriberState]
  BY DEF TypeOK, TranscriptionTypeOK
<1>2. /\ transcriber[t].todo \in SUBSET Reels
      /\ transcriber[t].pc \in {"idle", "fallback", "list", "reels", "embed"}
  BY <1>1 DEF TranscriberState
<1>3. \A k \in Transcribers \ {t} : transcriber'[k] = transcriber[k]
  BY <1>1 DEF TranscriptionGoesOn, ResolveMostRecent, ListReels, PassOver,
     StoreTranscript, StoreEmbedding, PassOverEmbedding, FinishTranscription
<1>4. CASE ResolveMostRecent(t) /\ transcriber'[t].pc = "list"
  <2>1. /\ transcriber[t].pc = "fallback"
        /\ transcriber'[t].todo = transcriber[t].todo
    BY <1>1, <1>4 DEF ResolveMostRecent, TranscriberState, NoTranscription
  <2> QED BY <1>2, <1>3, <1>4, <2>1, ReelCardinalities DEF TranscriptionLeft
<1>5. CASE ListReels(t)
  <2>1. /\ transcriber[t].pc = "list" /\ transcriber'[t].pc = "reels"
        /\ \E n \in ReelCounts :
             transcriber'[t].todo =
               Newest(Stored \cap OwnedBy(transcriber[t].account), n)
    BY <1>1, <1>5 DEF ListReels, TranscriberState
  <2>2. transcriber'[t].todo \in SUBSET Reels
    BY <2>1, QueriesSelect, StoredReels DEF TypeOK, StoreTypeOK
  <2>3. transcriber[t].pc = "list" /\ transcriber'[t].pc = "reels"
    BY <2>1
  <2> QED BY <1>2, <1>3, <2>2, <2>3, ReelCardinalities DEF TranscriptionLeft
<1>6. CASE PassOver(t) \/ StoreTranscript(t)
  <2>1. PICK r \in transcriber[t].todo :
          /\ transcriber[t].pc = "reels"
          /\ transcriber'[t].pc = "reels" \/ transcriber'[t].pc = "embed"
          /\ transcriber'[t].todo = transcriber[t].todo \ {r}
    <3>1. CASE PassOver(t)
      BY <1>1, <3>1 DEF PassOver, TranscriberState, IsLatest
    <3>2. CASE StoreTranscript(t)
      BY <1>1, <3>2 DEF StoreTranscript, TranscriberState, IsLatest
    <3> QED BY <1>6, <3>1, <3>2
  <2> QED BY <1>2, <1>3, <2>1, ReelCardinalities DEF TranscriptionLeft
<1>7. CASE StoreEmbedding(t) \/ PassOverEmbedding(t)
  <2>1. /\ transcriber[t].pc = "embed" /\ transcriber'[t].pc = "reels"
        /\ transcriber'[t].todo = transcriber[t].todo
    BY <1>1, <1>7 DEF StoreEmbedding, PassOverEmbedding, TranscriberState
  <2> QED BY <1>2, <1>3, <2>1, ReelCardinalities DEF TranscriptionLeft
<1>8. CASE \/ FinishTranscription(t)
           \/ ResolveMostRecent(t) /\ transcriber'[t].pc # "list"
  <2>1. /\ transcriber[t].pc # "idle" /\ transcriber'[t].pc = "idle"
        /\ transcriber'[t].todo = {}
    BY <1>1, <1>8 DEF FinishTranscription, ResolveMostRecent, NoTranscription,
       TranscriberState
  <2> QED BY <1>2, <1>3, <2>1, ReelCardinalities DEF TranscriptionLeft
<1>. QED
  BY <1>4, <1>5, <1>6, <1>7, <1>8 DEF TranscriptionGoesOn

\* A job that the process takes down with it has no step left.
LEMMA StoppingEnds ==
  ASSUME IsFiniteSet(Reels), TypeOK, ProcessStops
  PROVE  /\ \A i \in Ingesters : ingester[i].pc # "idle" =>
              IngestionLeft(i)' < IngestionLeft(i)
         /\ \A j \in Analysts : analyst[j].pc # "idle" =>
              AnalyticsLeft(j)' < AnalyticsLeft(j)
         /\ \A x \in Extractors : extractor[x].pc # "idle" =>
              ExtractionLeft(x)' < ExtractionLeft(x)
         /\ \A t \in Transcribers : transcriber[t].pc # "idle" =>
              TranscriptionLeft(t)' < TranscriptionLeft(t)
<1>1. ASSUME NEW i \in Ingesters, ingester[i].pc # "idle"
      PROVE  IngestionLeft(i)' < IngestionLeft(i)
  <2>1. /\ ingester[i].todo \in SUBSET Reels
        /\ ingester[i].pc \in {"idle", "account", "snapshot", "fetch", "clips",
                               "metric", "comments"}
    BY DEF TypeOK, IngestionTypeOK, IngesterState
  <2>2. ingester'[i].pc = "idle" /\ ingester'[i].todo = {}
    BY DEF ProcessStops, NoIngestion
  <2> QED BY <1>1, <2>1, <2>2, ReelCardinalities DEF IngestionLeft
<1>2. ASSUME NEW j \in Analysts, analyst[j].pc # "idle"
      PROVE  AnalyticsLeft(j)' < AnalyticsLeft(j)
  <2>1. /\ analyst[j].todo \in SUBSET Reels
        /\ analyst[j].pc \in {"idle", "metrics", "snapshot", "snapshots"}
    BY DEF TypeOK, AnalyticsTypeOK, AnalystState
  <2>2. analyst'[j].pc = "idle" /\ analyst'[j].todo = {}
    BY DEF ProcessStops, NoAnalysis
  <2> QED BY <1>2, <2>1, <2>2, ReelCardinalities DEF AnalyticsLeft
<1>3. ASSUME NEW x \in Extractors, extractor[x].pc # "idle"
      PROVE  ExtractionLeft(x)' < ExtractionLeft(x)
  <2>1. extractor[x].todo \in SUBSET Reels
    BY DEF TypeOK, ExtractionTypeOK, ExtractorState
  <2>2. extractor'[x].pc = "idle" /\ extractor'[x].todo = {}
    BY DEF ProcessStops, NoExtraction
  <2> QED BY <1>3, <2>1, <2>2, ReelCardinalities DEF ExtractionLeft
<1>4. ASSUME NEW t \in Transcribers, transcriber[t].pc # "idle"
      PROVE  TranscriptionLeft(t)' < TranscriptionLeft(t)
  <2>1. /\ transcriber[t].todo \in SUBSET Reels
        /\ transcriber[t].pc \in {"idle", "fallback", "list", "reels", "embed"}
    BY DEF TypeOK, TranscriptionTypeOK, TranscriberState
  <2>2. transcriber'[t].pc = "idle" /\ transcriber'[t].todo = {}
    BY DEF ProcessStops, NoTranscription
  <2> QED BY <1>4, <2>1, <2>2, ReelCardinalities DEF TranscriptionLeft
<1>. QED
  BY <1>1, <1>2, <1>3, <1>4

\* With finitely many reels, the steps of every job run out, whatever fails and
\* whatever the other jobs do meanwhile.
THEOREM JobsRunOutOfSteps ==
  ASSUME IsFiniteSet(Reels)
  PROVE  CatalogSpec => StepsRunOut
<1>1. ASSUME TypeOK, [CatalogNext]_vars
      PROVE  [NearerToEnd]_vars
  <2>1. CASE IngestionStep
    <3>1. ASSUME NEW k \in Ingesters,
                 IngestionGoesOn(k) \/ \E a \in Accounts : StartIngestion(k, a),
                 NEW i \in Ingesters, ingester'[i] # ingester[i],
                 ingester[i].pc # "idle"
          PROVE  IngestionLeft(i)' < IngestionLeft(i)
      <4>1. IngestionGoesOn(k)
        BY <1>1, <3>1 DEF StartIngestion, TypeOK, IngestionTypeOK
      <4> QED BY <1>1, <3>1, <4>1, IngestionNearsEnd
    <3>2. ASSUME NEW r \in Reels, HikerCounts(r)
          PROVE  UNCHANGED ingester
      BY <3>2 DEF HikerCounts
    <3>3. UNCHANGED <<analyst, extractor, transcriber>>
      BY <2>1 DEF IngestionStep, analyticsVars
    <3> QED BY <2>1, <3>1, <3>2, <3>3 DEF IngestionStep, IngestionNext, NearerToEnd
  <2>2. CASE AnalyticsStep
    <3>1. ASSUME NEW k \in Analysts,
                 AnalyticsGoesOn(k) \/ StartAnalytics(k) \/ StartSnapshotJob(k),
                 NEW j \in Analysts, analyst'[j] # analyst[j], analyst[j].pc # "idle"
          PROVE  AnalyticsLeft(j)' < AnalyticsLeft(j)
      <4>1. AnalyticsGoesOn(k)
        BY <1>1, <3>1 DEF StartAnalytics, StartSnapshotJob, ReadReels, TypeOK,
           AnalyticsTypeOK
      <4> QED BY <1>1, <3>1, <4>1, AnalyticsNearsEnd
    <3>2. UNCHANGED <<ingester, extractor, transcriber>>
      BY <2>2 DEF AnalyticsStep, ingestVars
    <3> QED BY <2>2, <3>1, <3>2 DEF AnalyticsStep, AnalyticsNext, NearerToEnd
  <2>3. CASE ExtractionStep
    <3>1. ASSUME NEW k \in Extractors,
                 ExtractionGoesOn(k) \/ StartEnrichment(k) \/ StartIntelligence(k),
                 NEW x \in Extractors, extractor'[x] # extractor[x],
                 extractor[x].pc # "idle"
          PROVE  ExtractionLeft(x)' < ExtractionLeft(x)
      <4>1. ExtractionGoesOn(k)
        BY <1>1, <3>1 DEF StartEnrichment, StartIntelligence, TypeOK, ExtractionTypeOK
      <4> QED BY <1>1, <3>1, <4>1, ExtractionNearsEnd
    <3>2. UNCHANGED <<ingester, analyst, transcriber>>
      BY <2>3 DEF ExtractionStep, ingestVars, analyticsVars
    <3> QED BY <2>3, <3>1, <3>2 DEF ExtractionStep, ExtractionNext, NearerToEnd
  <2>4. CASE TranscriptionStep
    <3>1. ASSUME NEW k \in Transcribers, TranscriptionGoesOn(k) \/ ResolveWithReels(k),
                 NEW t \in Transcribers, transcriber'[t] # transcriber[t],
                 transcriber[t].pc # "idle"
          PROVE  TranscriptionLeft(t)' < TranscriptionLeft(t)
      <4>1. TranscriptionGoesOn(k)
        BY <1>1, <3>1 DEF ResolveWithReels, TypeOK, TranscriptionTypeOK
      <4> QED BY <1>1, <3>1, <4>1, TranscriptionNearsEnd
    <3>2. UNCHANGED <<ingester, analyst, extractor>>
      BY <2>4 DEF TranscriptionStep, ingestVars, analyticsVars
    <3> QED BY <2>4, <3>1, <3>2
            DEF TranscriptionStep, TranscriptionNext, NearerToEnd
  <2>5. CASE ProcessStops
    BY <1>1, <2>5, StoppingEnds DEF NearerToEnd
  <2> QED BY <1>1, <2>1, <2>2, <2>3, <2>4, <2>5 DEF CatalogNext
<1> QED BY <1>1, TypeCorrect, PTL DEF CatalogSpec, StepsRunOut
=============================================================================
