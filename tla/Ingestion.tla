----------------------------- MODULE Ingestion -----------------------------
(***************************************************************************)
(* The ingestion of one creator: IngestionOrchestrator.ingest_creator with *)
(* the database client of hiker_ingestion.  An ingester is one run of it,  *)
(* started by the INGESTION stage, by POST /ingest/account or by the       *)
(* command line; nothing stops several from running at the same time, on   *)
(* the same creator included.                                              *)
(*                                                                         *)
(* A clip's counters are those HikerAPI answered when the clips were       *)
(* fetched, so they may be old by the time they are stored.                *)
(***************************************************************************)
EXTENDS Store

CONSTANTS
  MaxViews,       \* bound: the largest view count Instagram reports
  MaxIngestions   \* bound: runs of one ingester

VARIABLES
  live,        \* live[r]: the view count HikerAPI reports now
  ingester,    \* ingester[i]: the local variables of the run
  ingestions   \* ingestions[i]: runs started

ingestVars == <<live, ingester, ingestions>>

NoIngestion ==
  [pc |-> "idle", account |-> None, todo |-> {}, reel |-> None,
   clip |-> [r \in Reels |-> 0]]

IngesterState ==
  {w \in [pc : {"idle", "account", "snapshot", "fetch", "clips", "metric", "comments"},
          account : Accounts \cup {None},  \* the creator
          todo : SUBSET Reels,             \* clips not taken yet
          reel : Reels \cup {None},        \* the clip being stored
          clip : [Reels -> Nat]] :         \* play_count of each fetched clip
     /\ w.pc # "idle" => w.account \in Accounts
     /\ w.pc \in {"metric", "comments"} => w.reel \in Reels}

IngestionTypeOK ==
  /\ live \in [Reels -> Nat]
  /\ ingester \in [Ingesters -> IngesterState]
  /\ ingestions \in [Ingesters -> Nat]

IngestionInit ==
  /\ live = [r \in Reels |-> 0]
  /\ ingester = [i \in Ingesters |-> NoIngestion]
  /\ ingestions = [i \in Ingesters |-> 0]

\* Instagram: a reel's counters grow.
HikerCounts(r) ==
  /\ live[r] < MaxViews
  /\ live' = [live EXCEPT ![r] = @ + 1]
  /\ UNCHANGED <<storeVars, ingester, ingestions>>

-----------------------------------------------------------------------------
\* fetch_user_by_username answered with a profile.  When it raises, or the
\* profile has no pk, the run ends before it has written anything.
StartIngestion(i, a) ==
  /\ ingester[i].pc = "idle"
  /\ ingestions[i] < MaxIngestions
  /\ ingester' = [ingester EXCEPT ![i] =
                    [NoIngestion EXCEPT !.pc = "account", !.account = a]]
  /\ ingestions' = [ingestions EXCEPT ![i] = @ + 1]
  /\ UNCHANGED <<storeVars, live>>

StoreAccount(i) ==
  /\ ingester[i].pc = "account"
  /\ UpsertAccount(ingester[i].account)
  /\ ingester' = [ingester EXCEPT ![i].pc = "snapshot"]
  /\ UNCHANGED <<accountSnapshots, reelTable, metricTable, snapshots,
                 intelligence, commentRows, live, ingestions>>

SnapshotAccount(i) ==
  /\ ingester[i].pc = "snapshot"
  /\ InsertAccountSnapshot(ingester[i].account)
  /\ ingester' = [ingester EXCEPT ![i].pc = "fetch"]
  /\ UNCHANGED <<accounts, reelTable, metricTable, snapshots, intelligence,
                 commentRows, live, ingestions>>

FetchedCounts(S) == [r \in Reels |-> IF r \in S THEN live[r] ELSE 0]

\* fetch_user_clips_all: the reels HikerAPI returns, which need not be all of
\* the creator's.  Clips that are not reels are passed over without a write.
FetchClips(i) ==
  /\ ingester[i].pc = "fetch"
  /\ \E S \in SUBSET OwnedBy(ingester[i].account) :
       ingester' = [ingester EXCEPT ![i] =
         [@ EXCEPT !.pc = "clips", !.todo = S, !.clip = FetchedCounts(S)]]
  /\ stale' = [stale EXCEPT ![i] = {}]
  /\ UNCHANGED <<accountTable, reelTable, metrics, raced, snapshots,
                 intelligence, commentRows, live, ingestions>>

\* upsert_account, insert_account_snapshot or the fetch raises: the exception
\* leaves ingest_creator and what is stored stays.
IngestionRaises(i) ==
  /\ ingester[i].pc \in {"account", "snapshot", "fetch"}
  /\ ingester' = [ingester EXCEPT ![i] = NoIngestion]
  /\ UNCHANGED <<storeVars, live, ingestions>>

\* The order of the clips is HikerAPI's.
StoreClip(i) ==
  /\ ingester[i].pc = "clips"
  /\ \E r \in ingester[i].todo :
       /\ UpsertReel(r)
       /\ ingester' = [ingester EXCEPT ![i].pc = "metric",
                                       ![i].todo = @ \ {r},
                                       ![i].reel = r]
  /\ UNCHANGED <<accountTable, metricTable, snapshots, intelligence,
                 commentRows, live, ingestions>>

\* Mutant of StoreClipMetric: the counts default to 0 in the DO UPDATE arm too.
StoreClipMetricDefault(i) ==
  /\ ingester[i].pc = "metric"
  /\ \E views \in {0, ingester[i].clip[ingester[i].reel]} :
       UpsertReelMetric(i, ingester[i].reel, views)
  /\ ingester' = [ingester EXCEPT ![i].pc = "comments"]
  /\ UNCHANGED <<accountTable, reelTable, snapshots, intelligence,
                 commentRows, live, ingestions>>

StoreClipMetric(i) ==
  /\ ingester[i].pc = "metric"
  /\ UpsertReelMetric(i, ingester[i].reel, ingester[i].clip[ingester[i].reel])
  /\ ingester' = [ingester EXCEPT ![i].pc = "comments"]
  /\ UNCHANGED <<accountTable, reelTable, snapshots, intelligence,
                 commentRows, live, ingestions>>

\* ingest_comments: one comment stands for all.
StoreComment(i) ==
  /\ ingester[i].pc = "comments"
  /\ InsertComment(ingester[i].reel)
  /\ ingester' = [ingester EXCEPT ![i].pc = "clips", ![i].reel = None]
  /\ UNCHANGED <<accountTable, reelTable, metricTable, snapshots,
                 intelligence, live, ingestions>>

\* Mutant of GiveUpClip: a clip that failed half-way is put back in the queue.
RetryClip(i) ==
  /\ ingester[i].pc \in {"metric", "comments"}
  /\ ingester' = [ingester EXCEPT ![i].pc = "clips",
                                  ![i].todo = @ \cup {ingester[i].reel},
                                  ![i].reel = None]
  /\ UNCHANGED <<storeVars, live, ingestions>>

\* The except clauses of the loops: a clip whose row cannot be written, or
\* whose metric cannot be, or a comment that cannot be fetched or written, is
\* given up and the loop goes on.
GiveUpClip(i) ==
  /\ \/ /\ ingester[i].pc = "clips"
        /\ \E r \in ingester[i].todo :
             ingester' = [ingester EXCEPT ![i].todo = @ \ {r}]
     \/ /\ ingester[i].pc \in {"metric", "comments"}
        /\ ingester' = [ingester EXCEPT ![i].pc = "clips", ![i].reel = None]
  /\ UNCHANGED <<storeVars, live, ingestions>>

FinishIngestion(i) ==
  /\ ingester[i].pc = "clips"
  /\ ingester[i].todo = {}
  /\ ingester' = [ingester EXCEPT ![i] = NoIngestion]
  /\ UNCHANGED <<storeVars, live, ingestions>>

IngestionGoesOn(i) ==
  \/ StoreAccount(i)
  \/ SnapshotAccount(i)
  \/ FetchClips(i)
  \/ IngestionRaises(i)
  \/ StoreClip(i)
  \/ StoreClipMetric(i)
  \/ StoreComment(i)
  \/ GiveUpClip(i)
  \/ FinishIngestion(i)

IngestionNext ==
  \/ \E r \in Reels : HikerCounts(r)
  \/ \E i \in Ingesters : \/ \E a \in Accounts : StartIngestion(i, a)
                          \/ IngestionGoesOn(i)
=============================================================================
