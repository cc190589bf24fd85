------------------------------- MODULE Store -------------------------------
(***************************************************************************)
(* The PostgreSQL tables that every background job of the catalogue reads  *)
(* and writes.  No job opens a transaction: each asyncpg call commits by   *)
(* itself, so each operator below is one SQL statement and therefore one   *)
(* atomic step.  A job is a sequence of such steps with an await between   *)
(* any two, which is where the steps of the other jobs come in.            *)
(*                                                                         *)
(* The five raw counters of a reel (views, likes, comments, saves, shares) *)
(* always travel together, so one number, its views, stands for them; the  *)
(* rates derived from them are those of Metrics.                           *)
(***************************************************************************)
EXTENDS Integers, Sequences, FiniteSets, Functions

CONSTANTS
  Accounts,   \* Instagram creators
  Reels,      \* Instagram reel ids ("Reel"."instagramReelId")
  Owner,      \* Owner[r]: the account a reel belongs to
  PostedAt,   \* PostedAt[r]: when the reel was published
  Analysts,   \* concurrent runs of the analytics stage
  Ingesters,  \* concurrent ingestion runs
  None        \* SQL NULL, Python None, a missing row

ASSUME StoreAssumption ==
  /\ Owner \in [Reels -> Accounts]
  /\ PostedAt \in [Reels -> Nat]
  /\ \A r, s \in Reels : PostedAt[r] = PostedAt[s] => r = s
  /\ None \notin Nat
  /\ None \notin Reels
  /\ None \notin Accounts
  /\ Analysts \cap Ingesters = {}

\* Who reads the counts of a reel in one step and stores them in a later one.
Workers == Analysts \cup Ingesters

VARIABLES
  accounts,          \* the rows of "Account", oldest createdAt first
  accountSnapshots,  \* accountSnapshots[a]: rows of "AccountSnapshot"
  reels,             \* the rows of "Reel", oldest createdAt first
  transcript,        \* transcript[r]: "transcript" IS NOT NULL
  overlays,          \* overlays[r]: "textOverlays" <> '{}'
  embedding,         \* embedding[r]: "transcriptEmbedding" IS NOT NULL
  metrics,           \* metrics[r]: the "ReelMetric" row, or None
  snapshots,         \* snapshots[r]: the "ReelSnapshot" rows in order
  intelligence,      \* intelligence[r]: the "ContentIntelligence" row
  commentRows,       \* commentRows[r]: rows that hold one given comment
  rewritten,         \* history: reels whose row an ingestion has rewritten
  stale,             \* history: stale[w], the reels whose metric row another
                     \* worker has written since w last read counts
  raced              \* history: reels whose metric row was written by a
                     \* worker for whom it was stale

reelTable == <<reels, transcript, overlays, embedding, rewritten>>
accountTable == <<accounts, accountSnapshots>>
metricTable == <<metrics, stale, raced>>
storeVars ==
  <<accountTable, reelTable, metricTable, snapshots, intelligence, commentRows>>

Intelligences == {"absent", "empty", "content"}

StoreTypeOK ==
  /\ accounts \in Seq(Accounts)
  /\ accountSnapshots \in [Accounts -> Nat]
  /\ reels \in Seq(Reels)
  /\ transcript \in [Reels -> BOOLEAN]
  /\ overlays \in [Reels -> BOOLEAN]
  /\ embedding \in [Reels -> BOOLEAN]
  /\ metrics \in [Reels -> Nat \cup {None}]
  /\ snapshots \in [Reels -> Seq(Nat)]
  /\ intelligence \in [Reels -> Intelligences]
  /\ commentRows \in [Reels -> Nat]
  /\ rewritten \in SUBSET Reels
  /\ stale \in [Workers -> SUBSET Reels]
  /\ raced \in SUBSET Reels

StoreInit ==
  /\ accounts = <<>>
  /\ accountSnapshots = [a \in Accounts |-> 0]
  /\ reels = <<>>
  /\ transcript = [r \in Reels |-> FALSE]
  /\ overlays = [r \in Reels |-> FALSE]
  /\ embedding = [r \in Reels |-> FALSE]
  /\ metrics = [r \in Reels |-> None]
  /\ snapshots = [r \in Reels |-> <<>>]
  /\ intelligence = [r \in Reels |-> "absent"]
  /\ commentRows = [r \in Reels |-> 0]
  /\ rewritten = {}
  /\ stale = [w \in Workers |-> {}]
  /\ raced = {}

-----------------------------------------------------------------------------
(* Queries. *)

Stored == Range(reels)

OwnedBy(a) == {r \in Reels : Owner[r] = a}

\* ORDER BY "postedAt" DESC LIMIT n
Newest(S, n) ==
  {r \in S : Cardinality({s \in S : PostedAt[s] > PostedAt[r]}) < n}

\* The row a loop over an ORDER BY "postedAt" DESC result takes next.
IsLatest(r, S) == r \in S /\ \A s \in S : PostedAt[s] <= PostedAt[r]

CreatedBefore(s, r) ==
  \E i, k \in DOMAIN reels : i < k /\ reels[i] = s /\ reels[k] = r

\* ORDER BY "createdAt" ASC LIMIT n
Oldest(S, n) == {r \in S : Cardinality({s \in S : CreatedBefore(s, r)}) < n}

IsEarliest(r, S) == r \in S /\ \A s \in S : ~ CreatedBefore(s, r)

\* get_reels_pending_enrichment: the WHERE clause.
Pending == {r \in Stored : ~ transcript[r] \/ ~ overlays[r]}

\* Mutant of Count: the `or 0` forgotten.
CountOrNull(r) == metrics[r]

\* The LEFT JOIN on "ReelMetric", read with `or 0` by every caller.
Count(r) == IF metrics[r] = None THEN 0 ELSE metrics[r]

\* ORDER BY "createdAt" DESC LIMIT 1 over the accounts of S: at most one row
MostRecent(S) ==
  {a \in S : \E i \in DOMAIN accounts :
               /\ accounts[i] = a
               /\ \A k \in DOMAIN accounts : accounts[k] \in S => k <= i}

MostRecentAccount == MostRecent(Accounts)

\* Mutant of MostRecentWithReels: the plain most recent account.
MostRecentIgnoringReels == MostRecentAccount

\* get_primary_account_id is two queries: this one, and MostRecentAccount
\* when this one finds no row.
MostRecentWithReels == MostRecent({Owner[r] : r \in Stored})

-----------------------------------------------------------------------------
(* Statements.  Each one says what it does to the tables it writes; its    *)
(* caller leaves the others alone.                                         *)

UpsertAccount(a) ==
  accounts' = IF a \in Range(accounts) THEN accounts ELSE Append(accounts, a)

InsertAccountSnapshot(a) ==
  accountSnapshots' = [accountSnapshots EXCEPT ![a] = @ + 1]

\* The DO UPDATE arm sets "transcript" and "textOverlays" from EXCLUDED, which
\* map_reel never fills, and leaves "transcriptEmbedding" as it was.
UpsertReel(r) ==
  /\ reels' = IF r \in Stored THEN reels ELSE Append(reels, r)
  /\ rewritten' = IF r \in Stored THEN rewritten \cup {r} ELSE rewritten
  /\ transcript' = [transcript EXCEPT ![r] = FALSE]
  /\ overlays' = [overlays EXCEPT ![r] = FALSE]
  /\ UNCHANGED embedding

\* What a write of the metric row of r by w means for those who read it before.
MarkWrite(w, r) ==
  /\ stale' = [v \in Workers |-> IF v = w THEN stale[v] ELSE stale[v] \cup {r}]
  /\ raced' = IF r \in stale[w] THEN raced \cup {r} ELSE raced

\* Mutant of UpsertReelMetric: DO UPDATE adds to the stored count.
AddToReelMetric(w, r, views) ==
  /\ metrics' = [metrics EXCEPT ![r] = Count(r) + views]
  /\ MarkWrite(w, r)

UpsertReelMetric(w, r, views) ==
  /\ metrics' = [metrics EXCEPT ![r] = views]
  /\ MarkWrite(w, r)

InsertReelSnapshot(r, views) ==
  snapshots' = [snapshots EXCEPT ![r] = Append(@, views)]

UpsertContentIntelligence(r, content) ==
  intelligence' = [intelligence EXCEPT ![r] = content]

\* "Comment" has no unique key, so ON CONFLICT DO NOTHING never applies.
InsertComment(r) == commentRows' = [commentRows EXCEPT ![r] = @ + 1]

UpdateReelTranscript(r) == transcript' = [transcript EXCEPT ![r] = TRUE]

UpdateReelTranscriptEmbedding(r) == embedding' = [embedding EXCEPT ![r] = TRUE]
=============================================================================
