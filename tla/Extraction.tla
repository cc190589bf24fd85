----------------------------- MODULE Extraction -----------------------------
(***************************************************************************)
(* The ENRICHMENT and INTELLIGENCE stages.  enrich_pending_reels walks the *)
(* reels that lack a transcript or overlays, oldest row first, and calls   *)
(* enrich_reel, which chooses modalities, runs the chosen ones it has      *)
(* input for, and stores a rule-based "ContentIntelligence" row; the       *)
(* INTELLIGENCE stage walks the newest reels and stores that row again.    *)
(* An extractor is one run of either stage.                                *)
(*                                                                         *)
(* Scores and thresholds are in hundredths.                                *)
(***************************************************************************)
EXTENDS Store

CONSTANTS
  Extractors,         \* concurrent runs of the two stages
  EnrichmentLimit,    \* LIMIT of get_reels_pending_enrichment
  IntelligenceLimit   \* LIMIT of get_reels_with_metrics in this stage

VARIABLE extractor    \* extractor[x]: the local variables of the run

Modalities == {"transcription", "ocr", "clip"}

NoExtraction == [pc |-> "idle", todo |-> {}, spoken |-> {}]

ExtractorState ==
  [pc : {"idle", "enrich", "intelligence"},
   todo : SUBSET Reels,          \* rows of the result set not taken yet
   spoken : SUBSET Reels]        \* history: rows read that had a transcript

ExtractionTypeOK == extractor \in [Extractors -> ExtractorState]

ExtractionInit == extractor = [x \in Extractors |-> NoExtraction]

-----------------------------------------------------------------------------
(* selector.py *)

SpeechThreshold == 10
TextThreshold == 15
VisualChangeThreshold == 5

DecideModalities(speech, text, change) ==
  {m \in Modalities :
     \/ m = "transcription" /\ speech >= SpeechThreshold
     \/ m = "ocr" /\ (text >= TextThreshold \/ speech < SpeechThreshold)
     \/ m = "clip" /\ change >= VisualChangeThreshold
     \/ m = "clip" /\ speech = 0 /\ text = 0 /\ change = 0}

-----------------------------------------------------------------------------
(* The batch calls enrich_reel with neither audio_bytes nor frames nor a   *)
(* caption, so every score keeps its initial 0.                            *)

BatchInputs == {}

BatchSelected == DecideModalities(0, 0, 0)

\* A chosen modality runs only `if ... and audio_bytes`, `... and frames`.
BatchRan == {m \in BatchSelected : m \in BatchInputs}

\* Both extractors answer null for every field when they have no input.
Intelligence(inputs) == IF inputs = {} THEN "empty" ELSE "content"

\* What process_single_reel_intelligence looks up in its row, of the columns
\* that get_reels_with_metrics selects: none of "transcript", "caption",
\* "textOverlays", "visualTopics", "visualSummary" is among them.
SelectedColumns == {"id", "instagramReelId", "videoUrl", "durationSec", "postedAt"}
IntelligenceInputs ==
  SelectedColumns \cap
    {"transcript", "caption", "textOverlays", "visualTopics", "visualSummary"}

StartEnrichment(x) ==
  /\ extractor[x].pc = "idle"
  /\ extractor' = [extractor EXCEPT
       ![x] = [NoExtraction EXCEPT !.pc = "enrich",
                                   !.todo = Oldest(Pending, EnrichmentLimit)]]
  /\ UNCHANGED storeVars

\* Without input only the last statement of enrich_reel is executed.
EnrichReel(x) ==
  /\ extractor[x].pc = "enrich"
  /\ \E r \in Reels :
       /\ IsEarliest(r, extractor[x].todo)
       /\ transcript' = [transcript EXCEPT ![r] = @ \/ "transcription" \in BatchRan]
       /\ overlays' = [overlays EXCEPT ![r] = @ \/ "ocr" \in BatchRan]
       /\ UpsertContentIntelligence(r, Intelligence(BatchRan))
       /\ extractor' = [extractor EXCEPT ![x].todo = @ \ {r}]
  /\ UNCHANGED <<accountTable, reels, embedding, rewritten, metricTable,
                 snapshots, commentRows>>

StartIntelligence(x) ==
  /\ extractor[x].pc = "idle"
  /\ LET rows == Newest(Stored, IntelligenceLimit) IN
     extractor' = [extractor EXCEPT
       ![x] = [NoExtraction EXCEPT !.pc = "intelligence",
                                   !.todo = rows,
                                   !.spoken = {r \in rows : transcript[r]}]]
  /\ UNCHANGED storeVars

ExtractIntelligence(x) ==
  /\ extractor[x].pc = "intelligence"
  /\ \E r \in Reels :
       /\ IsLatest(r, extractor[x].todo)
       /\ UpsertContentIntelligence(r, Intelligence(IntelligenceInputs))
       /\ extractor' = [extractor EXCEPT ![x].todo = @ \ {r}]
  /\ UNCHANGED <<accountTable, reelTable, metricTable, snapshots, commentRows>>

\* The except clauses of the two loops.
GiveUpExtraction(x) ==
  /\ \E r \in Reels :
       /\ \/ extractor[x].pc = "enrich" /\ IsEarliest(r, extractor[x].todo)
          \/ extractor[x].pc = "intelligence" /\ IsLatest(r, extractor[x].todo)
       /\ extractor' = [extractor EXCEPT ![x].todo = @ \ {r}]
  /\ UNCHANGED storeVars

FinishExtraction(x) ==
  /\ extractor[x].pc # "idle"
  /\ extractor[x].todo = {}
  /\ extractor' = [extractor EXCEPT ![x] = NoExtraction]
  /\ UNCHANGED storeVars

ExtractionGoesOn(x) ==
  \/ EnrichReel(x)
  \/ ExtractIntelligence(x)
  \/ GiveUpExtraction(x)
  \/ FinishExtraction(x)

ExtractionNext ==
  \E x \in Extractors : StartEnrichment(x) \/ StartIntelligence(x) \/ ExtractionGoesOn(x)
=============================================================================
