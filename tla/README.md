# Vid's Clone: a TLA+ development of the backend

The repository is a FastAPI backend that ingests Instagram reels from HikerAPI
into PostgreSQL, enriches them, computes metrics and insights from them, and
answers questions about them through a LangGraph agent. This directory models
what is hard to test in it: several jobs, none of which holds a lock or opens a
transaction, reading and writing the same tables one SQL statement at a time. The
same holds of the Reel Bot, a service of its own within the backend. Beside the
jobs it models what is decided by arithmetic: the rates of a metric row, the
confidence of an answer, and the topics a profile recommends.

## 1. The system

### Components, their state and operations

| Component | Code | State | Operations |
|---|---|---|---|
| Tables | `prisma/schema.prisma`, `app/db.py`, `hiker_ingestion/db.py` | Account, AccountSnapshot, Reel, ReelMetric, ReelSnapshot, ContentIntelligence, Comment, CreatorProfile, CompetitorInsight, TrendStore, ChatSession, ChatMessage, SystemPrompt | upserts, inserts and queries; each call commits by itself |
| Ingestion | `hiker_ingestion/orchestrator.py`, `mapper.py` | local variables of a run | `ingest_creator`: account, account snapshot, clips, and per clip its row, metric, comments |
| HikerAPI client | `hiker_ingestion/client.py` | rate limiter, connection | requests with retries, paging |
| Analytics | `app/analytics.py`, `app/metrics.py` | local variables of a run | recompute metric rows, append snapshots, measure decay |
| Enrichment, intelligence | `app/enrichment.py`, `selector.py`, `content_engine.py`, `llm_intelligence.py` | local variables of a run | choose and run modalities, store a ContentIntelligence row |
| On-demand transcription | `app/on_demand_enrichment.py`, `app/routes/agent.py` | local variables of a request | transcribe the newest reels of the primary account |
| Pipeline, scheduler | `app/pipeline.py`, `app/scheduler.py`, `app/main.py`, `app/routes/pipeline.py`, `app/routes/ingest.py` | status of a run, failure counters | sequence of stages; start of the process; two endless loops; two requests that run stages |
| Knowledge | `app/creator_pipeline.py`, `patterns.py`, `insights.py`, `competitor_integration.py` | CreatorProfile and insight tables, `_LAST_RUN` | patterns over all reels, profile of the primary account |
| Agent | `app/graph/*`, `app/reranker.py`, `app/routes/agent.py` | graph state of a turn; Session, ChatMessage | plan, retrieve, rerank, weigh, answer, update memory |
| Sessions and their cache | `app/routes/session.py`, `app/cache.py` | Session, ChatMessage, Redis keys | create, read through the cache, edit and invalidate |
| Prompts | `app/prompts.py`, `app/routes/admin_prompts.py` | SystemPrompt, an in-process dictionary | edit, refresh, load at the start |
| Reel Bot | `app/reel_bot/*`, `frontend/src/app/reel-bot/page.tsx` | ReelBotReel, ReelBotSession, ReelBotChatMessage, module-level clients, the tab's session id | ingest with a freshness window, chat, list and open past sessions |
| Frontend, infrastructure, monitoring | `frontend/`, `infra/`, `grafana/`, `prometheus/` | - | clients and deployment |

### How they interact

All interaction between jobs is through the tables. A job is a coroutine on one
event loop, and it can be resumed or overtaken at each `await`, that is between
any two SQL statements. Jobs are started by two scheduler loops
(`pipeline_update_loop`, hourly; `creator_update_loop`, daily), by HTTP requests
(`POST /pipeline/run`, `POST /ingest/account`, `POST /agent/chat`), by start-up
jobs, and by the ingestion command line in a process of its own. The image starts
four workers (`Dockerfile:50`) and the deployments have replicas, each of them a process
with loops, caches and counters of its own on the same tables. Nothing makes
two runs of the same job exclude each other. A turn of the agent reads the memory
of its session before it thinks and stores question, answer and summary after,
while other turns, readers and editors use the same session, and Redis holds
copies of it. The Reel Bot shares neither tables nor
clients with the rest; its requests meet in its own three tables and in the
database client that the first of them creates.

### What is hard about it

- Values read in one statement are written back by a later one (analytics).
- A reel is spread over five tables, written by up to six statements, and a
  failure or a stop of the process may fall between any two; every loop catches
  the exception and goes on with the next reel.
- Re-ingestion updates some columns of a row and leaves others, so columns that
  belong together (a transcript and its embedding) can part.
- "The" account of a chat request or a knowledge run is derived from what
  happens to be stored at that moment.
- A check (is there a pool? is the handle fresh?) and what it leads to are awaits
  apart, minutes in the case of the Reel Bot's ingestion.
- Series that other code differentiates (snapshots) come from several writers.
- The columns of a metric row have two authors, each with formulas of its own, and
  "unknown" is sometimes null and sometimes 0.
- Whether the agent may answer at all is a sum of points from sources of which any
  may have failed.
- The callers of the knowledge stage read up to limits of their own, and the caches of
  prompts are one per worker.
- A loop must survive whatever an iteration raises, and its counter is all that
  health checks and alerts see of it.

### What makes each component correct

| Component | Property |
|---|---|
| Ingestion | A run that fails half-way leaves the primary account alone; repeated runs add no duplicates of what they stored; a run ends whatever fails |
| Analytics | Writing rates back never changes a count nobody else changed; the snapshots of a reel are successive readings of Instagram's counter, unless two workers overlapped on it |
| Enrichment, intelligence | What is selected runs; what is known of a reel reaches the extraction |
| On-demand transcription | An embedding is stored only for a stored transcript |
| Pipeline, scheduler | The status of a run is that of its worst stage; failures are counted until a run succeeds |
| Knowledge | An ingestion that reports success leaves a profile of its account, built from all that was stored or as many reels as a run may read; a profile goes back only to a smaller limit or when runs overlap, and does not advise both for and against a topic |
| Agent | A full answer rests on data of the creator; a session holds a prefix of what each turn stores, and nothing of a failed one |
| Sessions, prompts | A cached copy is older than the last invalidation only through an overlap; a process answers with its own prompt updates, and with those of other workers up to its last refresh |
| Metric rows | Rates are those of the counts beside them; recomputation changes nothing the two authors agree on |
| Reel Bot | Credits are spent only on expired handles, and old counts come back only by overlapping ingestions; answers follow their questions in the table and in the window; what the model sees is one piece of the session; a failed first turn leaves no tab in an empty session |

PROJECT.json lists the hazards, each at its line, with the properties that cover it.

## 2. Modules

```
Store            the tables and the statements on them
  Ingestion      one run of ingest_creator
  Analytics      one run of the ANALYTICS stage
  Extraction     one run of the ENRICHMENT or INTELLIGENCE stage
  Transcription  one chat request that transcribes
     Catalog     all of them interleaved, the process stopping; properties
        MCCatalog         constants for TLC
        Catalog_proofs    the theorems
DriftSeries      what the snapshots promise to whoever measures drift

ReelPool         the Reel Bot's database client, created on first use
  ReelIngest     ingest requests of one handle
  ReelChat       chat requests and the tabs that send them
     ReelBot     both interleaved, the process stopping; properties and invariants
        MCReelBot        the handles of the sessions for TLC
        ReelBot_proofs   the theorems
Conversation     what ReelBot and Agent each promise of the messages of a session

Patterns         what the knowledge stage makes of the reels (operators)
  Patterns_proofs     rankings, and when both lists share a topic
  Pipeline       runs of the pipeline and of its knowledge stage
Prompts          the prompt table and the cache in memory
     Background  start, loops, requests and stops around both; properties
        MCBackground      reels, stages and symmetry for TLC
        Background_proofs the theorems (uses Patterns_proofs)

Reranker         fusing, scoring and cutting the rows of a search (operators)
  AgentGraph     a turn between its accesses to the session (operators)
     Graph_proofs      what the reranker keeps; a full answer has data of the creator
Sessions         sessions, messages and their copies in Redis
     Agent       turns of the agent in those sessions; properties
        MCAgent        search results for TLC
        Agent_proofs   the theorems (uses Graph_proofs)

Metrics          the derived columns of a metric row and their two writers
   MCMetrics       clips for TLC
   Metrics_proofs  the theorems

Orders_proofs    lemmas on orders of finite sets and the places in them, for the
                 rankings of Patterns_proofs and Graph_proofs
```

**Store.** One variable per table column that a property tells apart. `reels`
and `accounts` are sequences, because `createdAt` order decides queries. Each
operator is one SQL statement. `metrics[r]` is one number for the five counters
(views, likes, comments, saves, shares), which every statement reads and writes
together; rates are functions of them and are left out. `transcript`, `overlays`
and `embedding` say whether the column is filled. `rewritten` (reels whose row an
ingestion has replaced), `stale` (per worker, that is per analyst and per ingester: the
reels whose metric row another worker has written since it last read or fetched counts)
and `raced` (reels whose metric row was written by a worker for whom it was stale) are
history variables: no guard reads them.

**Ingestion.** `ingester[i].pc` names the next statement of a run:
`account` -> `snapshot` -> `fetch` -> `clips`, then for each clip `StoreClip`
-> `metric` -> `comments` -> back. `GiveUpClip` is the `except` clause of the loop
in `ingest_reels`, at each statement in it; `IngestionRaises` is an exception
outside that loop, which leaves `ingest_creator`. HikerAPI is external: the step
`HikerCounts` lets a reel's count grow, and `FetchClips` returns the counts of
any subset of the creator's reels.

**Analytics.** An analyst reads up to `AnalyticsLimit` newest reels with their
counts into `copy`, then per reel writes the metric row and a snapshot, then reads
again and appends one more snapshot per reel (`run_analytics_stage`); or does
only the second part (the start-up job).

**Extraction.** The scheduler's batch calls `enrich_reel` without audio and
frames, so the selection of modalities is computed from zero scores by the
thresholds of `selector.py`, and a modality runs only if selected and if there is
input for it: none does. Up to its last statement `enrich_reel` then executes nothing, so
a reel is one step. `IntelligenceInputs` is the intersection of the columns the
query selects and those the extraction looks up.

**Transcription.** The two queries of `get_primary_account_id` are two steps.
`PassOver` is every early return before the first write of
`transcribe_reel_on_demand`.

**Catalog.** `CatalogNext` is the interleaving of the four, and `ProcessStops`,
which loses all jobs at the await they are in: a crash, or the cancellation of
tasks by the shutdown in `lifespan`.

**DriftSeries.** A series of readings per reel that never runs ahead of a growing counter
and never goes down, but where it is told that writers `disputed` the reel. The
catalogue implements it, with the reels that are `raced`, or that an analyst holds and
another worker has written since, as the disputed ones.

**ReelPool.** `_get_db` and `_ensure_pool` look for the pool and await its creation
if there is none; up to that await a request runs without interruption, so
`FirstStep` decides on arrival. `opened[q]` counts the pools created on behalf of
`q` since the process started; no guard reads it.

**ReelIngest.** `ingest[i].pc` names the next await of `ingest_reels`: `connect` ->
`freshness` -> `cached`, or -> `user` -> `clips` -> `process` -> `upsert`, the last
of them once per row. `IngestFails` is its `except` clauses, the unknown handle and
the account of which no reel could be processed. Handles share no rows, so one
stands for all. `newer[i]` is a history variable: the reels stored by anyone since
`i` looked at the freshness.

**ReelChat.** `chat[c].pc` goes `session` (only without a session id) -> `history`
-> `llm` -> `user` -> `assistant` -> `answer`; `known[c]` is the page's `sessionId`.
A message is its role and its turn; the rows of a session are in `createdAt` order.
Each session has a handle (`HandleOf`), and `Previewed(h)` is what `list_sessions` shows
of `h`. `Connect`, `NewChat` and `OpenPastSession` are the rest of the page, which stays
usable while an answer is awaited; a late answer may put a tab back in a session of
the handle it has left.

**ReelBot.** `BotNext` interleaves both and lets the process stop (`BotStops`): the
requests and the pool are lost, the tables and the tabs stay.

**Conversation.** The abstract specification of both chats: a log per session that only
grows at its end, in which a turn asks once, in one session, and is answered at most once,
there, after it asked; `Post` is a message of no turn. `ReelBot` maps a request to a turn
and never posts; in `Agent` `POST /sessions/{id}/messages` is a post, of any role that the
client names. Everything between the two statements of a turn is a stutter.

**Patterns.** Pure operators. `Ranked` is Python's stable sort by the mean
engagement (or the frequency) of the values of an attribute, cut at `TOP_N`; means
are compared by cross-multiplication, so nothing is rounded. `CreatorProfile` is
what `persist_creator_profile` stores after `merge_competitor_trends`.

**Pipeline.** `runs[p].pc` names the next await of a run of task `p`: `stage` for
each stage but KNOWLEDGE, which goes `resolve` -> (`resolve any` ->) (`again` -> (`again
any` ->)) `read` -> `write`, one step per query of the two calls of
`get_primary_account_id`. A run reads the newest reels of all accounts up to its `limit`,
which its caller gives: `StartupLimit`, `RunLimit` or `IngestLimit` (100, 200 and 1000 in
the code).
`Fold` is how `run_pipeline` folds a stage's result into the status. A run that the
scheduler or the start of the process begins without `run_pipeline` is `alone`, and
its status is what `run_creator_intelligence_pipeline` returns, or `raised`.
`ingested` and `overtaken` are history: the reels stored when the request began the
run, and whether another run wrote the same profile since this one read; a profile keeps
the `limit` of its run and, as `raced`, whether that run was overtaken.

**Prompts.** The table and the cache are each the number of updates they contain,
since `refresh` reads all rows and replaces the whole cache. `UpsertPrompt`,
`SelectPrompts` and `InstallPrompts` are the three moments of a PUT between which
others run. The cache is that of one worker; `UpsertElsewhere` is an update that another
worker has stored, which this cache does not see before its next refresh. `promptsOwn`
and `promptsLag` are history: the last update this worker has stored, and why its cache
may lag behind the table.

**Background.** `phase` is the life of the process through `lifespan`. `Iterate(l)` and
`CountOutcome(l)` are the two ends of an iteration of a loop in `scheduler.py`,
`RequestRun` and `RequestIngest` the two requests; `IngestFails` is each error path
of `POST /ingest/account` before its pipeline run. `outcomes[l]` is history: which
iterations of a loop were good. The clients in `Elsewhere` are served by other workers,
which are up when this one is not; `RunElsewhere` is a run that another worker starts on
its own, in a loop or at its start, and `EditElsewhere` a PUT it serves.

**Reranker, AgentGraph.** The nodes between loading and storing the memory touch only
the state of their own turn, so they are operators: `Plans` is what
`query_understanding` and `retrieval_planner` can come to, `HybridSearch` what the
searches and their fallback return, `Answer` the nodes from `parallel_retrieval`
to `citation_builder`. A row keeps the numbers and flags a score or a branch reads.
Scores are integers in units of 10^-4, to which the code rounds them. `Answers[n]`
is every turn that can come out when `n` reels were transcribed for the request.

**Sessions.** A session row is its summary (the writers it tells of) and `writes`, by
which copies of different age are told apart. A GET is `StartGet` -> `ReadTable` ->
`FillCache`, a PUT `StartPut` -> `UpdateSummary` -> `Invalidate`, and each access to
Redis may fail without the request failing. `overlapped` is history: the key was
deleted while the GET was under way. The roles a client may post are `PostedRoles`.

**Agent.** `turns[w].pc` goes `messages` -> `session` -> `think` -> `question` ->
`answer` -> `summary`: the two queries of `get_conversation_memory`, the graph, and
the three statements of `memory_update_node`. `StoringFails` is its `except` clause,
which skips what is left. `Disconnect` is a client of the stream that goes away,
`AgentStops` a stop of the process.

**Metrics.** One metric row with its counts and derived columns told apart. `MapMetric` is
`map_metric`, `ComputeReelMetrics` is `compute_reel_metrics`; `Ratio` rounds as both do.
`row.of` is history: for how many followers the row was computed. It refines nothing of
`Store`, where one number stands for the counts: it asks another question of the same
statements.

## 3. Runs

| Run | Instance | Checks |
|---|---|---|
| `catalog_counts` | 1 account, 1 reel, 2 ingesters and 2 analysts with a run each, count up to 1 | `TypeOK`. `AnalyticsKeepsCounts`: a step of an analyst changes the stored count of a reel only if the row was written after the analyst read it. `CountsGoBackOnlyByOverlap`: an ingestion stores a lower count only over a row that was written since it fetched. `SnapshotsFollowUpstream`: the catalogue implements `DriftSeries`. `StepsRunOut`: each step of a running job leaves fewer steps before it |
| `catalog_jobs` | 2 accounts with a reel each, an ingester with 2 runs, an extractor, a chat request | `EmbeddingOnlyAfterErasure`: an embedding without a transcript is left only by a re-ingestion. `PartialIngestionKeepsPrimary`: while some reel is stored, the primary account changes to an account only by storing a reel of it. `StepsRunOut`. `JobsFinish`: every started job ends |
| `intelligence_transcript` | 1 reel, 1 extractor, 1 chat request | shows that the INTELLIGENCE stage stores an empty row for a transcribed reel |
| `reelbot_ingest` | 2 ingest requests at a time, 2 reels, a window of 1 h, 1 h, count up to 1 | `BotTypeOK`. `OnePoolEach`: no request opens a second pool. `SpendsOnlyWhenExpired`: HikerAPI is asked only if each row had expired when the request looked, or was stored since. `CountsGoBackOnlyWhenRaced`: a lower count is stored only over a row that somebody stored since the request looked. `RequestsFinish`: every request ends |
| `reelbot_chat` | 2 tabs, 2 handles with 1 and 2 sessions, 2 turns, a window of 2 | `AnswersFollowQuestions`: an answer comes after its question, and the remembered window is an unbroken piece of its session. `KnownSessionsPreviewed`: a tab holds only the id of a session that the history of its handle shows. `SessionsAreConversations`: the messages implement `Conversation`. `RequestsFinish` |
| `reelbot_window` | 1 tab, 1 session, 3 turns, a window of 2 | shows that the window holds the first messages, not the last |
| `agent_turns` | 2 tabs with a turn each, a reader, an editor, a post, 1 session, memory of 1 message, search results on both sides of each threshold | `AgentTypeOK`. `FullAnswersAreGrounded`: a full answer rests on the profile, the analytics or a pinned transcript, and cites something. `TurnsAreStoredInOrder`: an answer only behind its question, a summary only with both. `FailedTurnsLeaveNoTrace`: a turn answered with an error has stored nothing. `StaleOnlyByOverlap`: a copy from before an invalidation is cached only by a GET that overlapped with it. `SessionsAreConversations` |
| `agent_summary` | 1 tab with 2 turns in 1 session | shows that a turn replaces the summary of the session by one of itself alone |
| `background_profiles` | 2 accounts, 2 reels, limits of 1 and 2, 2 clients, one of them elsewhere, and 2 prompt editors with 3 requests, no loops in this worker | `IngestedAccountHasProfile`: an ingestion whose run succeeded left a profile of its account, built from no fewer reels than were stored, or from as many as the run that wrote it last might read, unless that was overtaken. `ProfilesFollowReels`: a profile shrinks only to the limit of its writer, or by an overtaken run. `AdviceIsConsistent`: a profile recommends and advises against one topic only with too few topics or a tie. `PromptsFollowOwnUpdates`: a process has the updates it stored, and those of the others up to its last refresh, unless that failed or overlapped with an update of its own |
| `background_loops` | the startup jobs, both loops with 2 iterations, 1 request | `BackgroundTypeOK`. `RunStatusIsWorst`: the status of a run is that of its worst stage. `CountersCountFailures`: a counter is the number of failures in a row of its own loop. `LoopsGoOn`: whatever fails, each loop goes through its iterations |
| `metrics_rows` | 36 clips with unknown, zero and small counts, 0 or 3 followers, 2 ingesters, 2 analysts, 2 ingestions | `RatesFitCounts`: the rates of a row on which both programs agree are those of the counts beside them, and the virality is that of the rates. `FullQualityIsComplete`: a FULL row has its saves and shares. `RecomputationKeepsRates`: analytics recomputes an unchanged row to the same counts and rates, but for the one per follower |
| `metrics_followers` | the same clips, 1 ingestion, 1 analytics run | shows that analytics replaces the views per follower by a hundredth of them |

The four runs that "show" something check what a document or a comment of the
repository says and the code does not do; PROJECT.json quotes the lines under
"findings".

**Bounds.** `MaxViews` bounds the growth of a count, `MaxIngestions` the runs of an
ingester, `MaxAnalyses` those of an analyst; `ReelCounts` is the set of requested
counts. A lost update needs one read, one foreign write and one write back; an older
count that replaces a newer one, or a snapshot that goes down, needs two workers and one
growth of the count between their reads. One run of each of two ingesters and two
analysts, on one reel, has all of them. In `catalog_jobs` the second run of the ingester
makes re-ingestion happen and stores the other account; two accounts and two reels give
each ordering of `createdAt` and each "first with reels" case. Extractors and transcribers
are unbounded, because a finished run leaves them where they started. No single run has
all jobs with all bounds, which would not finish; the theorems have them. In particular
no run checks that an analyst ends under fairness; that its steps run out is checked in
`catalog_counts` and proved.

For the Reel Bot, `MaxClock` bounds the hours (one, the length of the window, so that a
row is fresh and expires), `MaxViews` the counts, `MaxTurns` the chat requests and the
number of `Sessions` the sessions ever created. Two ingest requests overlap in every order
and may start again without bound. A window of 2 holds one turn, or the halves of two:
the turns of two tabs in one session interleave in every order, and a window that is
not a piece of its session would show. With two handles a tab may be put back in a session
of the one it has left.

Around the pipeline, `MaxIterations` bounds the iterations of a loop in one life of
the process: with two, a counter grows to 2, or is cleared, and the loop starts again
after its sleep. `MaxRequests` bounds the requests of all clients and editors, those
elsewhere included; with three, two ingestions of different accounts and a run overlap, or
two edits and an update elsewhere. `MaxReels` bounds the table; two reels are more than
the smaller limit and as many as the larger, and with two reels of two topics the ends of the
ranking meet, tie, and part. The two runs split the system because together they
would not finish; the theorems do not split it. For the agent `MaxTurns`, `MaxEdits`
and `MaxPosts` bound what is sent; the posted message has the role "assistant", the one by
which a post could be taken for an answer. The limits of the memory (50), of the summary
(1000 characters) and of the search (20) are constants, given small values so that
they are reached; the thresholds and points of the confidence are those of the code.
For the metric rows `MaxIngestions` = 2 lets counts change under an analyst. Four cfgs
have a SYMMETRY: `agent_turns` over tabs; `background_profiles` over clients of this
worker, accounts and prompt editors; `catalog_counts` and `metrics_rows` over ingesters and
analysts. No constant or action distinguishes these, and none of the four runs checks
liveness.

**Fairness.** `FairCatalogSpec`, `FairBotSpec` and `FairBackgroundSpec` have some, the
others none. In the first two each job that was started takes its
next step eventually, because the event loop resumes a coroutine when its statement
or request answers, fails or times out. Failing is one of these steps, so fairness
never promises success. Starts of jobs are not fair, and neither are the arrivals of
requests, time and Instagram. In the Reel Bot the clients of HikerAPI and of the model
retry a bounded number of times, each try with a time limit, and the list of clips that
HikerAPI pages through is assumed to end.
`FairBackgroundSpec` says the same of the task that starts the process, which goes on
with `lifespan`, and of the task of each loop, including the start of its next
iteration: `asyncio.sleep` ends. Requests, stops and the boot of a stopped process are
not fair.

**Abstractions that the properties rest on.** A count at HikerAPI only grows, and HikerAPI
reports it for every reel (a clip without `play_count` is stored as 0). Publication times
are distinct. One comment stands for the comments of a reel. A stored transcript is not
the empty string. In the Reel Bot, the times that `append_message` takes right before its
insert are in the order of the inserts; the limit of 20 on the list of sessions (a tab may
show an older list), and transcripts, are left out, and the sessions of an instance are
given their handles beforehand. Around the pipeline, stages other than KNOWLEDGE succeed
or fail without touching the tables (what they do is in Catalog), and accounts are never
deleted. Other workers' loops and starts are requests that nobody waits for, and count as
requests. In the agent, the sessions are those of one user, a message has no citations,
BM25 and vector scores are given in percent, and the texts of prompts and answers are left
out; a model that fails or answers nonsense is one of its answers. In the metric rows a
tie in the last digit is rounded up, where Python rounds the binary fraction; the
properties allow either.

### Where the code differs from what is written about it

Four differences have a run (see "findings" in PROJECT.json). Others came up while
modelling; the models follow the code.

- Metric rows. `map_metric` multiplies views per follower by 100 and
  `compute_reel_metrics` does not (`metrics_followers`), so that the analytics stage
  overwrites the virality score by another number as well.
  `saveRate` and `shareRate` of unknown counts are 0.0 from the ingestion, as the
  reel-metrics spec has it (spec.md:47, :58), and null from analytics. A row whose
  views, likes or comments were unknown is PARTIAL after an ingestion and FULL after
  analytics. `RatesFitCounts` is about the rates on which both agree.
- Enrichment. `docs/pipelines.md:88` has "Run selected modalities in parallel"; the batch
  passes `enrich_reel` neither audio nor frames (`app/enrichment.py:195`), the zero scores
  select CLIP by default, and `if decision.run_clip and frames` keeps it from running:
  nothing is extracted and the reel stays pending.
- Comments are inserted again by each ingestion: `ON CONFLICT DO NOTHING` on a table
  whose only key is a fresh id, where `docs/pipelines.md` has "upsert Comment".
- Analytics writes counts back that an ingestion may have replaced since they were read
  (`app/analytics.py:81`); `AnalyticsKeepsCounts` states the exact extent.
- Memory of the agent. `get_conversation_memory` has no key `summary`, so the summary
  that `docs/langgraph.md` has concatenated starts anew with each turn (`agent_summary`),
  and the update never finds it unchanged. It returns the first 50 messages of the
  session, not the last.
- Cache of the sessions. `docs/deployment.md` has "invalidate-on-write"; the
  agent's update of a summary deletes no key, and nothing deletes the key of the list.
- Agent. Finding more can lower the confidence, because a retrieval score replaces
  the points for breadth. `search_reels_hybrid` drops the sparse row of a reel that
  both searches found. The empty record of `get_analytics` counts as evidence. Pinned
  transcripts are never cited. A stored reel without a caption makes the citation
  builder raise.
- Pipeline. No caller passes usernames, so INGESTION is always skipped and a run of all
  stages is at best `partial`. `docs/pipelines.md` leaves KNOWLEDGE out of the hourly
  loop and counts exceptions only. On an empty database the creator loop fails, since
  the account `default` does not exist. The gauge `pipeline_stage_status` keeps the
  series of each status it ever had.
- Knowledge. A profile of an account is built from the reels of all accounts, the newest
  100 at the start of a process (`app/main.py:142`, `:167`), 200 in the loops and
  `POST /pipeline/run` (`app/scheduler.py:36`, `:103`) and 1000 after an ingestion
  (`app/routes/ingest.py:98`): the profile of an ingestion of more than 200 reels is
  replaced by one of fewer within the hour, without any overlap. With few
  topics, the best and the worst are the same. Nothing calls the update of the trend
  store.
- Ingestion. A 402 of HikerAPI within the comments of a clip is swallowed like
  any other error, where the design document of the ingestion lets it abort the run;
  timeouts that outlast their retries make `POST /ingest/account` answer 500.
  That document also counts a 200 whose body has `exc_type` as exhausted credits; the
  client looks at bodies of 402 only, and takes such a page for the end of the list.
  The Reel Bot's paging counts only reels towards its limit, so that pages without any
  are asked for as long as HikerAPI has more of them.
- Prompts. `app/prompts.py:4-6` says that the cache is refreshed whenever a prompt is
  edited; the PUT refreshes it in the one of the four workers (`Dockerfile:50`), and of the
  replicas, that serves it, and the others keep the old prompt until they serve a PUT or
  start again. Also, a PUT may leave its own process with an older selection when two of
  them overlap.
- Reel Bot. A re-ingestion whose transcription fails this time erases the stored one.

## 4. Proofs

The theorems hold for every value of the constants that satisfies the assumptions of the
modules: `StoreAssumption` (an owner and a distinct time for each reel, `None` outside the
data, analysts and ingesters are different); for the Reel Bot `PoolAssumption` (ingest and
chat requests are different), `IngestAssumption` and `ChatAssumption` (limits are natural
numbers, `None` is not a session, each session has a handle); around the pipeline
`PatternsAssumption`, `PipelineAssumption` and `BackgroundAssumption` (a reel's engagement
rate is an integer in some unit, or missing; the tasks are the loops, the startup and the
clients, of whom any may be served elsewhere; the limits are natural numbers; the sentinel
`default` is not an account); for the agent `RerankerAssumption` and `GraphAssumption`
(limits, and what the searches return are rows), `SessionsAssumption` and
`AgentAssumption` (the key of the list is not a session, turns and editors are different);
and `MetricsAssumption` (counts are natural numbers or unknown).

| Theorem | Says | Argument |
|---|---|---|
| `TypeCorrect` | `CatalogSpec => []TypeOK` | `TypeOK` is inductive; one step lemma per job |
| `AnalyticsKeepsCountsOfRows` | `CatalogSpec => AnalyticsKeepsCounts`, any number of jobs | `CopyInv`: what an analyst still has to write equals the stored count unless the row was written since the read. `AnalyticsKeepsCounts` says nothing about copies, so it is not inductive by itself |
| `ErasureOnlyByIngestion` | `CatalogSpec => []EmbeddingOnlyAfterErasure` | `TextInv`: a request about to store an embedding has stored the transcript, and only a rewriting can have taken it away; it needs that text and requests concern stored reels only |
| `PrimaryMovesWithReels` | `CatalogSpec => PartialIngestionKeepsPrimary` | `PrimaryInv`: account rows are unique, every stored reel has its account's row, and what an ingester has fetched belongs to its account; then adding an account row cannot change which is the latest with a reel |
| `StoredCountsGoBack` | `CatalogSpec => CountsGoBackOnlyByOverlap`, any number of jobs | `ReportedInv`: no stored or held count is ahead of the live one, so that a new fetch is no less than what is stored; and it stays so until somebody writes the row. The first part needs the copies of the analysts too, which are written back |
| `JobsRunOutOfSteps` | for a finite set of reels, `CatalogSpec => StepsRunOut`, any number of jobs | a bound on the steps a job has left (`IngestionLeft`, `AnalyticsLeft`, ...: a weight per reel in `todo`, plus the place of `pc`) falls with every step, since a result set is never larger than the table and a reel that fails is dropped |
| `SnapshotsAreReadings` | `CatalogSpec => SnapshotsFollowUpstream`, any number of jobs | `DriftInv`: last snapshot and every analyst's copy <= stored count, but where a worker has written over what it had not seen; and the copy of an analyst for whom the reel is not stale is the stored count. Each step of the catalogue is then a step of `DriftSeries` or leaves its variables alone |
| `BotTypeCorrect` | `BotSpec => []BotTypeOK` | `BotTypeOK` is inductive; the type of a chat request includes that it has a session from `history` on |
| `OnePool` | `BotSpec => []OnePoolEach` | `PoolInv`: nobody has opened a pool while there is none, and who is about to open one has not done so |
| `CreditsSpent` | `BotSpec => SpendsOnlyWhenExpired` | `ExpiryInv`: the property's condition holds from the check on, since rows change only by being stored and ages only grow |
| `CountsGoBack` | `BotSpec => CountsGoBackOnlyWhenRaced` | `ReadingInv`: stored and fetched counts are readings of a growing counter, and a fetched count is at least the stored one until somebody stores the row |
| `QuestionsFirst`, `TabsInPreviewedSessions` | `BotSpec => []AnswersFollowQuestions`, `BotSpec => []KnownSessionsPreviewed` | `DialogueInv` joins both: a request about to store or deliver an answer has its question in its session. What is remembered is a piece of the log when it is read, and stays one, since a log only grows at its end |
| `BotSpeaksConversations` | `BotSpec => SessionsAreConversations` | `OnceInv`: a request that has not stored its question or its answer yet has none in any session, nor has a request still to come; each step then asks, answers or stutters |
| `BackgroundTypeCorrect`, `StatusIsWorst`, `CountersRight`, `PromptsFollow` | `BackgroundSpec =>` the four invariants | `BackgroundInv` joins six parts. `RunsOK`: the status of a run is the worst of the results it has recorded, for any list of stages. `LoopsOK`: the counter is the length of the run of failures at the end of the outcomes. `PromptsOK`: what an editor selected, or installed, has every update of this process unless it is marked as overlapped, and is the whole table unless it is marked at all |
| `IngestionLeavesProfile` | `BackgroundSpec => []IngestedAccountHasProfile`, any limits | `IngestsOK`: a run of an ingestion that has not failed either has the knowledge stage before it, or has read at least `ingested` reels up to its limit, or its profile is stored; a later writer read up to its own limit, or read before that write and is marked overtaken by it |
| `RankedIsSorted`, `BothListsNeedTie` | for any rows, a ranking has `TopN` values or all, each once, and none behind a later one or one left out; and a topic in both lists of a profile has a rival with the same average, unless there are fewer than `2 * TopN` topics | the sums of rates are shown to be integers although they are folds over sets (`SumExists`: partial sums as a function exist for every finite set, by a least counterexample), and comparing means by cross-multiplication is then a weak order. With the stable tie-break it is total, and of a finite total order each place is taken once |
| `AdviceConsistent` | `BackgroundSpec => []AdviceIsConsistent` | the lemma above for every table, and from `BackgroundInv` that a profile is of a table of at most `MaxReels` reels |
| `ProfilesGoBack` | `BackgroundSpec => ProfilesFollowReels`, any limits | by `ProfilesOK`: what a run that is not overtaken has read is no less than the stored profile's reels, up to its limit |
| `RerankedAreBest` | for any results of the searches, what the reranker keeps is one row of each id, `RERANKER_TOP_K` of them or all, and no row left out is better than one kept | the scores are numbers, so "better" is a weak order, made total by the place in the fused list (`StableIsTotal`, as for the topics) |
| `FullAnswersNeedOwnData` | a full answer in `Answers[n]` has data of the creator and a citation | without own data the score is at most 7000 of 8000: half of a retrieval score, or the points for breadth. That scores have a highest one and that the n-th row of those kept exists are proved by a well-founded minimum, in place of an induction |
| `FullAnswersGrounded` | `AgentSpec => []FullAnswersAreGrounded` | the lemma above, with the type of `pinned` from `AgentInv` |
| `AgentTypeCorrect`, `TurnsStoredInOrder`, `FailedTurnsTraceless` | `AgentSpec =>` the three invariants | `AgentInv`, of which `TurnsOK` says what a turn at each `pc` holds and `HistoryOK` what it has stored: nothing before `question`, its question after that, both at `summary`, and that an ended or future turn is not running |
| `AgentSpeaksConversations` | `AgentSpec => SessionsAreConversations` | `OnceOK`: a turn at `question` has no message anywhere, and one at `answer` no answer; with `HistoryOK` for the question the answer follows |
| `StaleCopiesOverlap` | `AgentSpec => []StaleOnlyByOverlap` | `CopiesOK`: the copy of a GET under way is no older than the last deletion of its key, unless it is marked as overlapped; `SessionsExist` gives the PUT its row |
| `StoredRatesFit`, `FullRowsAreComplete` | `MetricsSpec =>` the two invariants | `MetricsInv`: the stored row is a row of one of the two authors (`IsRow`). The arithmetic is two lemmas: `Ratio` is within half a unit of the quotient, and `Virality` of the weighted sum |
| `RecomputedRowsAgree` | `MetricsSpec => RecomputationKeepsRates` | each column of `ComputeReelMetrics` of a row equals that of the row, whoever wrote it |

The number of requests, tabs, sessions, reels, the window and the bounds are
arbitrary in the theorems about the Reel Bot, and none of them rests on a bound. The
same holds of the tasks, accounts, stages, editors, search results, clips and limits
in the others.

No theorem assumes that two runs of a job exclude each other: where an overlap breaks what
one would like to have, the property names the overlap by the history it leaves (`stale`,
`raced`, `newer`, `overtaken`, `overlapped`), and the theorem says that nothing else does.

Only model-checked: `JobsFinish`, `RequestsFinish` and `LoopsGoOn` (liveness under
fairness, which the prover does not handle; of `JobsFinish`, `StepsRunOut` is the part
that is proved, and that a running job can always take a step is left to TLC), and the
four violations. Every other property of the runs is a theorem.

## 5. Not modelled

Model and media wrappers (Whisper, EasyOCR, CLIP, embeddings, LLM) are answers
chosen nondeterministically where they are called. The rule-based text classifiers
of `intelligence.py` are heuristics without state. Authentication, middleware,
configuration, logging, monitoring, infrastructure and the frontend, but for the
Reel Bot's page, keep no state that the jobs share. Of the Reel Bot, the
transcription, the text analysis and the prompt are left out. Of the knowledge stage,
the texts of `insights.py`, `detect_seasonal_trends` and `find_content_gaps` are
returned and stored nowhere. The retries, the rate limit and the paging of the
HikerAPI client are local to a call: a call is one step that answers or raises.
The tables CompetitorInsight and TrendStore have no writer in the program.

## 6. What is left

In order of importance:

1. Liveness of the agent's turns and of the requests around the pipeline, under the
   fairness of the event loop, as for the catalogue and the Reel Bot (TLC only).
2. `Metrics` as a refinement of the writers of `Store`: its rows, with the counts
   taken together, are the rows of `Store`; the theorem needs no new run.
3. `HikerClient`: retries with back-off, rate limit, paging with a cursor; abstract
   specification: a fixed number of requests per call, and pages without repetition.
4. `Catalog` and `Pipeline` composed: the stages of a run as the jobs of the
   catalogue, so that a profile is built from reels whose metrics are being written.
