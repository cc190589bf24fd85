----------------------------- MODULE Analytics -----------------------------
(***************************************************************************)
(* The ANALYTICS stage: run_analytics_pipeline, which recomputes the       *)
(* metric row of each reel from the counters it read, and appends a        *)
(* snapshot, then snapshot_all_metrics, which reads the reels again and    *)
(* appends one more snapshot of each.  An analyst is one run of the stage: *)
(* the hourly scheduler, POST /pipeline/run, POST /ingest/account and the  *)
(* start-up jobs each start one, with nothing between them.                *)
(***************************************************************************)
EXTENDS Store

CONSTANTS
  AnalyticsLimit,  \* LIMIT of get_reels_with_metrics
  MaxAnalyses      \* bound: runs of one analyst

VARIABLES
  analyst,   \* analyst[j]: the local variables of the run
  analyses   \* analyses[j]: runs started

analyticsVars == <<analyst, analyses>>

NoAnalysis ==
  [pc |-> "idle", todo |-> {}, reel |-> None, copy |-> [r \in Reels |-> 0]]

AnalystState ==
  {w \in [pc : {"idle", "metrics", "snapshot", "snapshots"},
          todo : SUBSET Reels,       \* rows of the result set not taken yet
          reel : Reels \cup {None},  \* the reel in process_single_reel
          copy : [Reels -> Nat]] :   \* counters as read
     w.pc = "snapshot" => w.reel \in Reels}

AnalyticsTypeOK ==
  /\ analyst \in [Analysts -> AnalystState]
  /\ analyses \in [Analysts -> Nat]

AnalyticsInit ==
  /\ analyst = [j \in Analysts |-> NoAnalysis]
  /\ analyses = [j \in Analysts |-> 0]

-----------------------------------------------------------------------------
\* Mutant of ReadReels: no counts are passed on, so every one is 0.
ReadReelsAsZeros(j, next) ==
  /\ analyst' = [analyst EXCEPT ![j] =
       [pc |-> next, todo |-> Newest(Stored, AnalyticsLimit), reel |-> None,
        copy |-> [r \in Reels |-> 0]]]
  /\ stale' = [stale EXCEPT ![j] = {}]

\* get_reels_with_metrics: one query, whose rows the loop then walks.
ReadReels(j, next) ==
  LET rows == Newest(Stored, AnalyticsLimit) IN
  /\ analyst' = [analyst EXCEPT ![j] =
       [pc |-> next, todo |-> rows, reel |-> None,
        copy |-> [r \in Reels |-> IF r \in rows THEN Count(r) ELSE 0]]]
  /\ stale' = [stale EXCEPT ![j] = {}]

StartAnalytics(j) ==
  /\ analyst[j].pc = "idle"
  /\ analyses[j] < MaxAnalyses
  /\ ReadReels(j, "metrics")
  /\ analyses' = [analyses EXCEPT ![j] = @ + 1]
  /\ UNCHANGED <<accountTable, reelTable, metrics, raced, snapshots,
                 intelligence, commentRows>>

\* The start-up job calls snapshot_all_metrics by itself.
StartSnapshotJob(j) ==
  /\ analyst[j].pc = "idle"
  /\ analyses[j] < MaxAnalyses
  /\ ReadReels(j, "snapshots")
  /\ analyses' = [analyses EXCEPT ![j] = @ + 1]
  /\ UNCHANGED <<accountTable, reelTable, metrics, raced, snapshots,
                 intelligence, commentRows>>

\* process_single_reel, first statement: the counters go back as they were
\* read, with the rates recomputed from them.
WriteMetrics(j) ==
  /\ analyst[j].pc = "metrics"
  /\ \E r \in Reels :
       /\ IsLatest(r, analyst[j].todo)
       /\ UpsertReelMetric(j, r, analyst[j].copy[r])
       /\ analyst' = [analyst EXCEPT ![j].pc = "snapshot",
                                     ![j].todo = @ \ {r},
                                     ![j].reel = r]
  /\ UNCHANGED <<accountTable, reelTable, snapshots, intelligence,
                 commentRows, analyses>>

\* process_single_reel, second statement.
WriteSnapshot(j) ==
  /\ analyst[j].pc = "snapshot"
  /\ InsertReelSnapshot(analyst[j].reel, analyst[j].copy[analyst[j].reel])
  /\ analyst' = [analyst EXCEPT ![j].pc = "metrics", ![j].reel = None]
  /\ UNCHANGED <<accountTable, reelTable, metricTable, intelligence,
                 commentRows, analyses>>

\* run_analytics_stage goes on with snapshot_all_metrics.
ReadAgain(j) ==
  /\ analyst[j].pc = "metrics"
  /\ analyst[j].todo = {}
  /\ ReadReels(j, "snapshots")
  /\ UNCHANGED <<accountTable, reelTable, metrics, raced, snapshots,
                 intelligence, commentRows, analyses>>

SnapshotReel(j) ==
  /\ analyst[j].pc = "snapshots"
  /\ \E r \in Reels :
       /\ IsLatest(r, analyst[j].todo)
       /\ InsertReelSnapshot(r, analyst[j].copy[r])
       /\ analyst' = [analyst EXCEPT ![j].todo = @ \ {r}]
  /\ UNCHANGED <<accountTable, reelTable, metricTable, intelligence,
                 commentRows, analyses>>

\* Mutant of GiveUpReel: a reel whose snapshot failed is put back in the queue.
RetryReel(j) ==
  /\ analyst[j].pc = "snapshot"
  /\ analyst' = [analyst EXCEPT ![j].pc = "metrics",
                                ![j].todo = @ \cup {analyst[j].reel},
                                ![j].reel = None]
  /\ UNCHANGED <<storeVars, analyses>>

\* The except clauses of the two loops: the statement raised, the reel is
\* counted as failed and the loop goes on.
GiveUpReel(j) ==
  /\ \/ /\ analyst[j].pc \in {"metrics", "snapshots"}
        /\ \E r \in Reels :
             /\ IsLatest(r, analyst[j].todo)
             /\ analyst' = [analyst EXCEPT ![j].todo = @ \ {r}]
     \/ /\ analyst[j].pc = "snapshot"
        /\ analyst' = [analyst EXCEPT ![j].pc = "metrics", ![j].reel = None]
  /\ UNCHANGED <<storeVars, analyses>>

\* The stage returns: after the second loop, or because the second query
\* raised.
FinishAnalytics(j) ==
  /\ analyst[j].pc \in {"metrics", "snapshots"}
  /\ analyst[j].todo = {}
  /\ analyst' = [analyst EXCEPT ![j] = NoAnalysis]
  /\ UNCHANGED <<storeVars, analyses>>

AnalyticsGoesOn(j) ==
  \/ WriteMetrics(j)
  \/ WriteSnapshot(j)
  \/ ReadAgain(j)
  \/ SnapshotReel(j)
  \/ GiveUpReel(j)
  \/ FinishAnalytics(j)

AnalyticsNext ==
  \E j \in Analysts : StartAnalytics(j) \/ StartSnapshotJob(j) \/ AnalyticsGoesOn(j)
=============================================================================
