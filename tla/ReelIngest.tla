----------------------------- MODULE ReelIngest -----------------------------
(***************************************************************************)
(* POST /reel-bot/ingest for one Instagram handle.  The request serves the *)
(* stored reels when the freshest of them is younger than CacheHours;      *)
(* otherwise it fetches the reels from HikerAPI, transcribes them in       *)
(* parallel, and upserts them row by row, all with the time at which the   *)
(* upserts began.  Handles share no rows, so one stands for all.           *)
(*                                                                         *)
(* As in the catalogue, one number stands for a reel's counters, and each  *)
(* statement commits by itself.  Transcripts and what is computed from     *)
(* them are left out.                                                      *)
(***************************************************************************)
EXTENDS ReelPool

CONSTANTS
  Reels,       \* Instagram reel ids of the handle
  MaxReels,    \* REEL_BOT_MAX_REELS
  CacheHours,  \* REEL_BOT_CACHE_HOURS
  MaxViews,    \* bound: the largest view count Instagram reports
  MaxClock     \* bound: hours modelled

ASSUME IngestAssumption == CacheHours \in Nat /\ MaxReels \in Nat

VARIABLES
  clock,   \* hours
  live,    \* live[r]: the view count HikerAPI reports now
  rows,    \* rows[r]: the "ReelBotReel" row of r, or None
  ingest,  \* ingest[i]: the local variables of the request
  newer    \* history: newer[i], reels stored since i looked at the freshness

tableVars == <<rows, newer>>
ingestVars == <<clock, live, rows, ingest, newer>>

Row == [views : Nat, updatedAt : Nat]

StoredReels == {r \in Reels : rows[r] # None}

NoIngest ==
  [pc |-> "idle", todo |-> {}, clip |-> [r \in Reels |-> 0], now |-> 0]

IngestState ==
  [pc : {"idle", "connect", "freshness", "cached", "user", "clips", "process", "upsert"},
   todo : SUBSET Reels,    \* reels fetched and not stored yet
   clip : [Reels -> Nat],  \* play_count of each fetched reel
   now : Nat]              \* upsert_reels: datetime.now() at its start

IngestTypeOK ==
  /\ clock \in Nat
  /\ live \in [Reels -> Nat]
  /\ rows \in [Reels -> Row \cup {None}]
  /\ ingest \in [Ingesters -> IngestState]
  /\ newer \in [Ingesters -> SUBSET Reels]

IngestInit ==
  /\ clock = 0
  /\ live = [r \in Reels |-> 0]
  /\ rows = [r \in Reels |-> None]
  /\ ingest = [i \in Ingesters |-> NoIngest]
  /\ newer = [i \in Ingesters |-> {}]

Tick ==
  /\ clock < MaxClock
  /\ clock' = clock + 1
  /\ UNCHANGED <<poolVars, live, tableVars, ingest>>

\* Instagram: a reel's counters grow.
HikerCounts(r) ==
  /\ live[r] < MaxViews
  /\ live' = [live EXCEPT ![r] = @ + 1]
  /\ UNCHANGED <<poolVars, clock, tableVars, ingest>>

Age(r) == clock - rows[r].updatedAt

\* Mutant of HandleFresh: the oldest row decides.
OldestRowFresh ==
  StoredReels # {} /\ \A r \in StoredReels : Age(r) < CacheHours

\* get_reels_freshness is the greatest "updatedAt", and its age is compared.
HandleFresh == \E r \in StoredReels : Age(r) < CacheHours

-----------------------------------------------------------------------------
StartIngest(i) ==
  /\ ingest[i].pc = "idle"
  /\ ingest' = [ingest EXCEPT ![i].pc = FirstStep("freshness")]
  /\ UNCHANGED <<poolVars, clock, live, tableVars>>

ConnectForIngest(i) ==
  /\ ingest[i].pc = "connect"
  /\ ConnectPool(i)
  /\ ingest' = [ingest EXCEPT ![i].pc = "freshness"]
  /\ UNCHANGED <<clock, live, tableVars>>

CheckFreshness(i) ==
  /\ ingest[i].pc = "freshness"
  /\ ingest' = [ingest EXCEPT ![i].pc = IF HandleFresh THEN "cached" ELSE "user"]
  /\ newer' = [newer EXCEPT ![i] = {}]
  /\ UNCHANGED <<poolVars, clock, live, rows>>

AnswerCached(i) ==
  /\ ingest[i].pc = "cached"
  /\ ingest' = [ingest EXCEPT ![i] = NoIngest]
  /\ UNCHANGED <<poolVars, clock, live, tableVars>>

FetchUser(i) ==
  /\ ingest[i].pc = "user"
  /\ ingest' = [ingest EXCEPT ![i].pc = "clips"]
  /\ UNCHANGED <<poolVars, clock, live, tableVars>>

\* Mutant of FetchClips: play_count read without its default.
FetchClipsWithoutDefault(i) ==
  /\ ingest[i].pc = "clips"
  /\ \E S \in SUBSET Reels :
       /\ Cardinality(S) <= MaxReels
       /\ ingest' = [ingest EXCEPT ![i].pc = "process",
                                   ![i].todo = S,
                                   ![i].clip = [r \in Reels |-> None]]
  /\ UNCHANGED <<poolVars, clock, live, tableVars>>

\* Mutant of FetchClips: a failed page starts over without limit.
FetchClipsForEver(i) ==
  /\ ingest[i].pc = "clips"
  /\ \/ \E S \in SUBSET Reels :
          /\ Cardinality(S) <= MaxReels
          /\ ingest' = [ingest EXCEPT
               ![i].pc = "process",
               ![i].todo = S,
               ![i].clip = [r \in Reels |-> IF r \in S THEN live[r] ELSE 0]]
     \/ ingest' = [ingest EXCEPT ![i].pc = "user"]
  /\ UNCHANGED <<poolVars, clock, live, tableVars>>

\* The first MaxReels reels of those that HikerAPI returns, page by page.
FetchClips(i) ==
  /\ ingest[i].pc = "clips"
  /\ \E S \in SUBSET Reels :
       /\ Cardinality(S) <= MaxReels
       /\ ingest' = [ingest EXCEPT
            ![i].pc = "process",
            ![i].todo = S,
            ![i].clip = [r \in Reels |-> IF r \in S THEN live[r] ELSE 0]]
  /\ UNCHANGED <<poolVars, clock, live, tableVars>>

\* asyncio.gather over _process_single_reel: it answers None for a reel it
\* cannot read.
ProcessReels(i) ==
  /\ ingest[i].pc = "process"
  /\ \E kept \in SUBSET ingest[i].todo :
       /\ kept # {}
       /\ ingest' = [ingest EXCEPT ![i].pc = "upsert",
                                   ![i].todo = kept,
                                   ![i].now = clock]
  /\ UNCHANGED <<poolVars, clock, live, tableVars>>

\* Mutant of StoreRow: the DO UPDATE arm sets the counters to their default.
StoreRowDefault(i) ==
  /\ ingest[i].pc = "upsert"
  /\ \E r \in ingest[i].todo :
       /\ rows' = [rows EXCEPT ![r] =
            [views |-> IF rows[r] = None THEN ingest[i].clip[r] ELSE 0,
             updatedAt |-> ingest[i].now]]
       /\ ingest' = [ingest EXCEPT ![i].todo = @ \ {r}]
       /\ newer' = [k \in Ingesters |-> newer[k] \cup {r}]
  /\ UNCHANGED <<poolVars, clock, live>>

\* The DO UPDATE arm sets the counters and "updatedAt".
StoreRow(i) ==
  /\ ingest[i].pc = "upsert"
  /\ \E r \in ingest[i].todo :
       /\ rows' = [rows EXCEPT ![r] = [views |-> ingest[i].clip[r],
                                       updatedAt |-> ingest[i].now]]
       /\ ingest' = [ingest EXCEPT ![i].todo = @ \ {r}]
       /\ newer' = [k \in Ingesters |-> newer[k] \cup {r}]
  /\ UNCHANGED <<poolVars, clock, live>>

AnswerStored(i) ==
  /\ ingest[i].pc = "upsert"
  /\ ingest[i].todo = {}
  /\ ingest' = [ingest EXCEPT ![i] = NoIngest]
  /\ UNCHANGED <<poolVars, clock, live, tableVars>>

\* Any await raises, or the handle is unknown, or no reel is left after
\* processing: an HTTP error, and the rows stored so far stay.
IngestFails(i) ==
  /\ ingest[i].pc # "idle"
  /\ ingest[i].pc = "upsert" => ingest[i].todo # {}
  /\ ingest' = [ingest EXCEPT ![i] = NoIngest]
  /\ UNCHANGED <<poolVars, clock, live, tableVars>>

IngestGoesOn(i) ==
  \/ ConnectForIngest(i)
  \/ CheckFreshness(i)
  \/ AnswerCached(i)
  \/ FetchUser(i)
  \/ FetchClips(i)
  \/ ProcessReels(i)
  \/ StoreRow(i)
  \/ AnswerStored(i)
  \/ IngestFails(i)

IngestNext ==
  \/ Tick
  \/ \E r \in Reels : HikerCounts(r)
  \/ \E i \in Ingesters : StartIngest(i) \/ IngestGoesOn(i)
=============================================================================
