--------------------------- MODULE Transcription ---------------------------
(***************************************************************************)
(* On-demand transcription: POST /agent/chat with a reel_count resolves    *)
(* the primary account, reads its newest reels and transcribes, one after  *)
(* the other, those that had no transcript when they were read.  It is the *)
(* only code that gives a reel a transcript and an embedding.  A           *)
(* transcriber is one such request; two users' requests may overlap.       *)
(***************************************************************************)
EXTENDS Store

CONSTANTS
  Transcribers,  \* concurrent chat requests
  ReelCounts     \* bound: the values of reel_count that are requested

VARIABLE transcriber  \* transcriber[t]: the local variables of the request

NoTranscription ==
  [pc |-> "idle", account |-> None, todo |-> {}, had |-> {}, reel |-> None]

TranscriberState ==
  {w \in [pc : {"idle", "fallback", "list", "reels", "embed"},
          account : Accounts \cup {None},  \* account_id
          todo : SUBSET Reels,             \* rows of the result set not taken yet
          had : SUBSET Reels,              \* rows read with a transcript
          reel : Reels \cup {None}] :      \* the reel being transcribed
     w.pc = "embed" => w.reel \in Reels}

TranscriptionTypeOK == transcriber \in [Transcribers -> TranscriberState]

TranscriptionInit == transcriber = [t \in Transcribers |-> NoTranscription]

-----------------------------------------------------------------------------
\* get_primary_account_id, first query.
ResolveWithReels(t) ==
  /\ transcriber[t].pc = "idle"
  /\ \/ \E a \in MostRecentWithReels :
          transcriber' = [transcriber EXCEPT ![t].pc = "list", ![t].account = a]
     \/ /\ MostRecentWithReels = {}
        /\ transcriber' = [transcriber EXCEPT ![t].pc = "fallback"]
  /\ UNCHANGED storeVars

\* get_primary_account_id, second query; without any account the request
\* transcribes nothing.
ResolveMostRecent(t) ==
  /\ transcriber[t].pc = "fallback"
  /\ \/ \E a \in MostRecentAccount :
          transcriber' = [transcriber EXCEPT ![t].pc = "list", ![t].account = a]
     \/ /\ MostRecentAccount = {}
        /\ transcriber' = [transcriber EXCEPT ![t] = NoTranscription]
  /\ UNCHANGED storeVars

\* get_reels_by_account
ListReels(t) ==
  /\ transcriber[t].pc = "list"
  /\ \E n \in ReelCounts :
       LET rows == Newest(Stored \cap OwnedBy(transcriber[t].account), n) IN
       transcriber' = [transcriber EXCEPT
         ![t].pc = "reels",
         ![t].todo = rows,
         ![t].had = {r \in rows : transcript[r]}]
  /\ UNCHANGED storeVars

\* transcribe_reel_on_demand returns before its first write: the reel had a
\* transcript, or the download, the audio or Whisper failed, or the update did.
PassOver(t) ==
  /\ transcriber[t].pc = "reels"
  /\ \E r \in Reels :
       /\ IsLatest(r, transcriber[t].todo)
       /\ transcriber' = [transcriber EXCEPT ![t].todo = @ \ {r}]
  /\ UNCHANGED storeVars

\* Mutant of StoreTranscript: a failed update goes on to the embedding.
LoseTranscript(t) ==
  /\ transcriber[t].pc = "reels"
  /\ \E r \in Reels :
       /\ IsLatest(r, transcriber[t].todo)
       /\ r \notin transcriber[t].had
       /\ transcriber' = [transcriber EXCEPT ![t].pc = "embed",
                                             ![t].todo = @ \ {r},
                                             ![t].reel = r]
  /\ UNCHANGED storeVars

StoreTranscript(t) ==
  /\ transcriber[t].pc = "reels"
  /\ \E r \in Reels :
       /\ IsLatest(r, transcriber[t].todo)
       /\ r \notin transcriber[t].had
       /\ UpdateReelTranscript(r)
       /\ transcriber' = [transcriber EXCEPT ![t].pc = "embed",
                                             ![t].todo = @ \ {r},
                                             ![t].reel = r]
  /\ UNCHANGED <<accountTable, reels, overlays, embedding, rewritten,
                 metricTable, snapshots, intelligence, commentRows>>

StoreEmbedding(t) ==
  /\ transcriber[t].pc = "embed"
  /\ UpdateReelTranscriptEmbedding(transcriber[t].reel)
  /\ transcriber' = [transcriber EXCEPT ![t].pc = "reels", ![t].reel = None]
  /\ UNCHANGED <<accountTable, reels, transcript, overlays, rewritten,
                 metricTable, snapshots, intelligence, commentRows>>

\* Mutant of PassOverEmbedding: a reel without embedding is queued again.
RetryEmbedding(t) ==
  /\ transcriber[t].pc = "embed"
  /\ transcriber' = [transcriber EXCEPT ![t].pc = "reels",
                                        ![t].todo = @ \cup {transcriber[t].reel},
                                        ![t].reel = None]
  /\ UNCHANGED storeVars

\* embed_text answers None or raises: the transcript stays without a vector.
PassOverEmbedding(t) ==
  /\ transcriber[t].pc = "embed"
  /\ transcriber' = [transcriber EXCEPT ![t].pc = "reels", ![t].reel = None]
  /\ UNCHANGED storeVars

\* The loop ends, or one of the queries before it raised and the chat goes on
\* without pinned transcripts.
FinishTranscription(t) ==
  /\ \/ transcriber[t].pc \in {"fallback", "list"}
     \/ transcriber[t].pc = "reels" /\ transcriber[t].todo = {}
  /\ transcriber' = [transcriber EXCEPT ![t] = NoTranscription]
  /\ UNCHANGED storeVars

TranscriptionGoesOn(t) ==
  \/ ResolveMostRecent(t)
  \/ ListReels(t)
  \/ PassOver(t)
  \/ StoreTranscript(t)
  \/ StoreEmbedding(t)
  \/ PassOverEmbedding(t)
  \/ FinishTranscription(t)

TranscriptionNext ==
  \E t \in Transcribers : ResolveWithReels(t) \/ TranscriptionGoesOn(t)
=============================================================================
