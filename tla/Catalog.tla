------------------------------ MODULE Catalog ------------------------------
(***************************************************************************)
(* The jobs of the catalogue side by side on the same tables.  Ingestion,  *)
(* analytics, extraction and on-demand transcription are started by two    *)
(* scheduler loops, by HTTP requests and by the command line; no lock, no  *)
(* transaction and no single-flight guard orders them, so any statement of *)
(* one may fall between two statements of another.                         *)
(***************************************************************************)
EXTENDS Ingestion, Analytics, Extraction, Transcription

vars ==
  <<storeVars, ingestVars, analyticsVars, extractor, transcriber>>

CatalogInit ==
  /\ StoreInit
  /\ IngestionInit
  /\ AnalyticsInit
  /\ ExtractionInit
  /\ TranscriptionInit

IngestionStep ==
  IngestionNext /\ UNCHANGED <<analyticsVars, extractor, transcriber>>

AnalyticsStep ==
  AnalyticsNext /\ UNCHANGED <<ingestVars, extractor, transcriber>>

ExtractionStep ==
  ExtractionNext /\ UNCHANGED <<ingestVars, analyticsVars, transcriber>>

TranscriptionStep ==
  TranscriptionNext /\ UNCHANGED <<ingestVars, analyticsVars, extractor>>

\* The process dies, or the lifespan's shutdown cancels the scheduler tasks:
\* every job is lost at the await it is in, and the tables stay.
ProcessStops ==
  /\ ingester' = [i \in Ingesters |-> NoIngestion]
  /\ analyst' = [j \in Analysts |-> NoAnalysis]
  /\ extractor' = [x \in Extractors |-> NoExtraction]
  /\ transcriber' = [t \in Transcribers |-> NoTranscription]
  /\ UNCHANGED <<storeVars, live, ingestions, analyses>>

CatalogNext ==
  \/ IngestionStep
  \/ AnalyticsStep
  \/ ExtractionStep
  \/ TranscriptionStep
  \/ ProcessStops

CatalogSpec == CatalogInit /\ [][CatalogNext]_vars

-----------------------------------------------------------------------------
(* A started job is a coroutine that the event loop resumes whenever its   *)
(* statement or request answers or fails, so each job is fair to itself.   *)
(* Nothing is assumed of the starts of jobs.                               *)

CatalogFairness ==
  /\ \A i \in Ingesters :
       WF_vars(IngestionGoesOn(i) /\ UNCHANGED <<analyticsVars, extractor, transcriber>>)
  /\ \A j \in Analysts :
       WF_vars(AnalyticsGoesOn(j) /\ UNCHANGED <<ingestVars, extractor, transcriber>>)
  /\ \A x \in Extractors :
       WF_vars(ExtractionGoesOn(x) /\ UNCHANGED <<ingestVars, analyticsVars, transcriber>>)
  /\ \A t \in Transcribers :
       WF_vars(TranscriptionGoesOn(t) /\ UNCHANGED <<ingestVars, analyticsVars, extractor>>)

FairCatalogSpec == CatalogSpec /\ CatalogFairness

-----------------------------------------------------------------------------
(* Properties. *)

\* Every variable has its type.
TypeOK ==
  /\ StoreTypeOK
  /\ IngestionTypeOK
  /\ AnalyticsTypeOK
  /\ ExtractionTypeOK
  /\ TranscriptionTypeOK

\* The ANALYTICS stage recomputes rates; the counters it writes back are the
\* stored ones, so that a step of an analyst changes the count of a reel only
\* when somebody wrote it after the analyst's read (process_single_reel writes
\* every raw counter it was given along with the rates).
AnalyticsKeepsCounts ==
  [][\A j \in Analysts, r \in Reels :
       analyst'[j] # analyst[j] /\ Count(r)' # Count(r) => r \in stale[j]]_vars

\* The reels whose counts a worker has read and has still to record.
InHand(j) ==
  analyst[j].todo \cup IF analyst[j].pc = "snapshot" THEN {analyst[j].reel} ELSE {}
Fetched(i) ==
  ingester[i].todo \cup IF ingester[i].pc = "metric" THEN {ingester[i].reel} ELSE {}

\* The reels on which two workers have overlapped: one wrote the metric row over
\* another's write that it had not read, or is about to append such a reading.
Disputed == raced \cup UNION {InHand(j) \cap stale[j] : j \in Analysts}

\* However many runs of ingestion and analytics there are at a time, whatever
\* statements fail and wherever the process stops, the snapshots of a reel never
\* exceed what Instagram reports, and never go down, unless two workers have
\* overlapped on that reel: what compute_metric_decay and the drift charts read
\* into them.
Drift == INSTANCE DriftSeries
         WITH series <- snapshots, upstream <- live, disputed <- Disputed
SnapshotsFollowUpstream == Drift!DriftSpec

\* HikerAPI's counts only grow, but each ingestion stores the ones it fetched
\* earlier: a stored count goes back only when another run has written the row
\* between the fetch and the store (upsert_reel_metric compares nothing).
CountsGoBackOnlyByOverlap ==
  [][\A i \in Ingesters, r \in Reels :
       ingester'[i] # ingester[i] /\ Count(r)' < Count(r) => r \in stale[i]]_vars

\* A reel that has an embedding and no transcript lost its transcript to a
\* re-ingestion: hybrid search then still finds the reel by text that the
\* prompt can no longer quote.
EmbeddingOnlyAfterErasure ==
  \A r \in Reels : embedding[r] /\ ~ transcript[r] => r \in rewritten

\* get_primary_account_id: as long as some reel is stored, an ingestion that
\* has not stored a reel yet does not change which account is the primary one,
\* wherever it fails.  The account changes to a only by storing a reel of a.
PartialIngestionKeepsPrimary ==
  [][ MostRecentWithReels # {} /\ MostRecentWithReels' # MostRecentWithReels
      => \E r \in Stored' \ Stored : MostRecentWithReels' = {Owner[r]} ]_vars

\* The steps that a running job has still before it at most, if every result set
\* it has not read yet holds all reels.
IngestionLeft(i) ==
  3 * Cardinality(ingester[i].todo) +
  CASE ingester[i].pc = "idle" -> 0
    [] ingester[i].pc = "account" -> 3 * Cardinality(Reels) + 4
    [] ingester[i].pc = "snapshot" -> 3 * Cardinality(Reels) + 3
    [] ingester[i].pc = "fetch" -> 3 * Cardinality(Reels) + 2
    [] ingester[i].pc = "clips" -> 1
    [] ingester[i].pc = "metric" -> 3
    [] ingester[i].pc = "comments" -> 2

AnalyticsLeft(j) ==
  2 * Cardinality(analyst[j].todo) +
  CASE analyst[j].pc = "idle" -> 0
    [] analyst[j].pc = "metrics" -> 2 * Cardinality(Reels) + 2
    [] analyst[j].pc = "snapshot" -> 2 * Cardinality(Reels) + 3
    [] analyst[j].pc = "snapshots" -> 1

ExtractionLeft(x) ==
  Cardinality(extractor[x].todo) + IF extractor[x].pc = "idle" THEN 0 ELSE 1

TranscriptionLeft(t) ==
  2 * Cardinality(transcriber[t].todo) +
  CASE transcriber[t].pc = "idle" -> 0
    [] transcriber[t].pc = "fallback" -> 2 * Cardinality(Reels) + 3
    [] transcriber[t].pc = "list" -> 2 * Cardinality(Reels) + 2
    [] transcriber[t].pc = "reels" -> 1
    [] transcriber[t].pc = "embed" -> 2

\* Every step of a job, its failures included, brings it nearer to its end: a
\* reel that fails is given up and not tried again, and no other job can give it
\* more to do.
NearerToEnd ==
  /\ \A i \in Ingesters :
       ingester'[i] # ingester[i] /\ ingester[i].pc # "idle" =>
         IngestionLeft(i)' < IngestionLeft(i)
  /\ \A j \in Analysts :
       analyst'[j] # analyst[j] /\ analyst[j].pc # "idle" =>
         AnalyticsLeft(j)' < AnalyticsLeft(j)
  /\ \A x \in Extractors :
       extractor'[x] # extractor[x] /\ extractor[x].pc # "idle" =>
         ExtractionLeft(x)' < ExtractionLeft(x)
  /\ \A t \in Transcribers :
       transcriber'[t] # transcriber[t] /\ transcriber[t].pc # "idle" =>
         TranscriptionLeft(t)' < TranscriptionLeft(t)

\* A job never has more to do than its result sets had rows: process_single_reel,
\* ingest_reels and the other loops give up what fails and go on.
StepsRunOut == [][NearerToEnd]_vars

\* No job runs for ever: what is started comes to its end.
JobsFinish ==
  /\ \A i \in Ingesters : ingester[i].pc # "idle" ~> ingester[i].pc = "idle"
  /\ \A j \in Analysts : analyst[j].pc # "idle" ~> analyst[j].pc = "idle"
  /\ \A x \in Extractors : extractor[x].pc # "idle" ~> extractor[x].pc = "idle"
  /\ \A t \in Transcribers :
       transcriber[t].pc # "idle" ~> transcriber[t].pc = "idle"

-----------------------------------------------------------------------------
(* The inductive invariants behind these properties.                        *)

\* What the jobs know about transcripts: only stored reels have text, and a
\* transcriber about to store an embedding has stored the transcript, which
\* only a rewriting of the row can have taken away since.
TextInv ==
  /\ EmbeddingOnlyAfterErasure
  /\ \A r \in Reels : transcript[r] \/ embedding[r] => r \in Stored
  /\ \A t \in Transcribers : transcriber[t].todo \subseteq Stored
  /\ \A t \in Transcribers : transcriber[t].pc = "embed" =>
       LET r == transcriber[t].reel
       IN  r \in Stored /\ (transcript[r] \/ r \in rewritten)

\* A count an analyst still has to write back is the stored one, unless the
\* row was written after the read.
CopyInv ==
  \A j \in Analysts, r \in Reels :
    r \in analyst[j].todo \ stale[j] => analyst[j].copy[r] = Count(r)

\* The accounts a row of "Reel" can point to, and that ingesters hold.
PrimaryInv ==
  /\ \A i, k \in DOMAIN accounts : accounts[i] = accounts[k] => i = k
  /\ \A r \in Stored : Owner[r] \in Range(accounts)
  /\ \A i \in Ingesters :
       /\ ingester[i].pc \notin {"idle", "account"} =>
            ingester[i].account \in Range(accounts)
       /\ \A r \in ingester[i].todo : Owner[r] = ingester[i].account

\* No count that is stored or held is ahead of the live one, and what an ingester
\* has still to store is no less than what is stored, unless the row was written
\* after the fetch.
ReportedInv ==
  /\ \A r \in Reels : Count(r) <= live[r]
  /\ \A j \in Analysts, r \in Reels : analyst[j].copy[r] <= live[r]
  /\ \A i \in Ingesters, r \in Reels : ingester[i].clip[r] <= live[r]
  /\ \A i \in Ingesters : \A r \in Fetched(i) \ stale[i] :
       Count(r) <= ingester[i].clip[r]

\* The counts of a reel that is not raced are ordered: the last snapshot, and the
\* copy of any analyst, are no greater than the stored count.  The copy of an
\* analyst for whom the reel is not stale is the stored count.
DriftInv ==
  /\ \A r \in Reels \ raced : Drift!LastRecorded(r) <= Count(r)
  /\ \A j \in Analysts : \A r \in InHand(j) \ raced : analyst[j].copy[r] <= Count(r)
  /\ \A j \in Analysts : \A r \in InHand(j) \ stale[j] : analyst[j].copy[r] = Count(r)

-----------------------------------------------------------------------------
(* What a document of the repository says, and the code does not do.        *)

\* docs/pipelines.md, "Intelligence Stage Detail": the transcript is an input
\* of the extraction, so a reel that has one is not given an empty row.
IntelligenceReadsTranscript ==
  [][\A x \in Extractors, r \in Reels :
       /\ ExtractIntelligence(x)
       /\ r \in extractor[x].todo \ extractor'[x].todo
       /\ r \in extractor[x].spoken
       => intelligence'[r] = "content"]_vars
=============================================================================
