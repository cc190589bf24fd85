------------------------------ MODULE ReelBot ------------------------------
(***************************************************************************)
(* The Reel Bot: ingest and chat requests on one process and its pool.     *)
(***************************************************************************)
EXTENDS ReelIngest, ReelChat

botVars == <<poolVars, ingestVars, chatVars>>

BotInit == PoolInit /\ IngestInit /\ ChatInit

IngestStep == IngestNext /\ UNCHANGED chatVars

ChatStep == ChatNext /\ UNCHANGED ingestVars

\* The process dies and is started again: the requests and the pool are lost,
\* the tables and the tabs stay.
BotStops ==
  /\ pool' = FALSE
  /\ opened' = [q \in Requests |-> 0]
  /\ ingest' = [i \in Ingesters |-> NoIngest]
  /\ chat' = [c \in Clients |-> NoChat]
  /\ UNCHANGED <<clock, live, tableVars, sessions, messages, handle, known, turns>>

BotNext == IngestStep \/ ChatStep \/ BotStops

BotSpec == BotInit /\ [][BotNext]_botVars

\* A request is a coroutine that the event loop resumes when what it waits for
\* answers, fails or times out; httpx and asyncpg calls all have a time limit
\* or end with their connection.  Arrivals, Instagram and time are not fair.
BotFairness ==
  /\ \A i \in Ingesters : WF_botVars(IngestGoesOn(i) /\ UNCHANGED chatVars)
  /\ \A c \in Clients : WF_botVars(ChatGoesOn(c) /\ UNCHANGED ingestVars)

FairBotSpec == BotSpec /\ BotFairness

-----------------------------------------------------------------------------
(* Properties. *)

\* Every variable has its type.
BotTypeOK == PoolTypeOK /\ IngestTypeOK /\ ChatTypeOK

\* However many requests arrive before there is a pool, none of them makes the
\* process open more than one pool on its behalf, and none opens another once
\* there is one (_get_db, _ensure_pool): with n requests at a time the process
\* holds at most n pools.
OnePoolEach == \A q \in Requests : opened[q] <= 1

\* HikerAPI credits are spent on a handle (the comment of get_reels_freshness)
\* only when each of its rows had expired, or was stored by another request
\* while this one was on its way from the check to HikerAPI.
SpendsOnlyWhenExpired ==
  [][\A i \in Ingesters : FetchUser(i) =>
       \A r \in StoredReels : r \in newer[i] \/ Age(r) >= CacheHours]_botVars

\* The counts of a row go back only when two ingestions of the handle overlap:
\* whoever stores a lower count than the stored one is behind a request that
\* stored the row after this one had found the handle expired (upsert_reels
\* stores the counts that were fetched before the transcription).
CountsGoBackOnlyWhenRaced ==
  [][\A i \in Ingesters, r \in Reels :
       ingest'[i] # ingest[i] /\ rows[r] # None /\ rows'[r].views < rows[r].views
         => r \in newer[i]]_botVars

\* Each answer in a list of messages comes after the question it answers.
Answered(log) ==
  \A k \in DOMAIN log : log[k].role = "assistant" =>
    \E q \in 1 .. k - 1 : log[q] = [role |-> "user", turn |-> log[k].turn]

\* What is remembered of a list: messages that stand next to each other in it, in
\* their order.
RemembersOf(history, log) ==
  \E start \in 0 .. Len(log) :
    /\ start + Len(history) <= Len(log)
    /\ \A k \in DOMAIN history : history[k] = log[start + k]

\* Whatever requests share a session, and whatever fails, an answer is stored
\* after its own question; and what a request remembers stays an unbroken piece
\* of its session, whatever is stored while the model is asked.
AnswersFollowQuestions ==
  /\ \A s \in Sessions : Answered(messages[s])
  /\ \A c \in Clients : chat[c].history # <<>> =>
       RemembersOf(chat[c].history, messages[chat[c].session])

\* The messages of a session are a conversation, whatever requests share it and
\* whatever fails: nothing that is stored changes or goes, and a request stores
\* its question once and its answer at most once, after it, in the same session.
Talk == INSTANCE Conversation
          WITH Turns <- 1 .. MaxTurns, PostedRoles <- {}, log <- messages

SessionsAreConversations == Talk!Spec

\* A tab holds a session id only of a session that has a question to preview in
\* the history of its handle: no failure leaves it in a session that the history
\* passes over (the id is sent with the answer, after both messages are stored).
KnownSessionsPreviewed ==
  \A c \in Clients : known[c] # None => known[c] \in Previewed(HandleOf[known[c]])

\* Every request is answered.
RequestsFinish ==
  /\ \A i \in Ingesters : ingest[i].pc # "idle" ~> ingest[i].pc = "idle"
  /\ \A c \in Clients : chat[c].pc # "idle" ~> chat[c].pc = "idle"

-----------------------------------------------------------------------------
(* The inductive invariants behind these properties.                        *)

\* While there is no pool, nobody has opened one; a request that is about to
\* open one has not opened one before.
PoolInv ==
  /\ OnePoolEach
  /\ ~ pool => \A q \in Requests : opened[q] = 0
  /\ \A i \in Ingesters : ingest[i].pc = "connect" => opened[i] = 0
  /\ \A c \in Clients : chat[c].pc = "connect" => opened[c] = 0

\* A request on its way to HikerAPI has found every row expired, but for those
\* that were stored since.
ExpiryInv ==
  \A i \in Ingesters : ingest[i].pc = "user" =>
    \A r \in StoredReels : r \in newer[i] \/ Age(r) >= CacheHours

\* Stored counts are readings of the live ones, and a fetched count is at
\* least the stored one unless the row was stored since.
ReadingInv ==
  /\ \A r \in StoredReels : rows[r].views <= live[r]
  /\ \A i \in Ingesters : ingest[i].pc \in {"process", "upsert"} =>
       \A r \in ingest[i].todo :
         /\ ingest[i].clip[r] <= live[r]
         /\ r \in StoredReels \ newer[i] => rows[r].views <= ingest[i].clip[r]

\* A session with messages exists, a tab's session has its messages, and a
\* request that is about to store an answer has stored its question.
DialogueInv ==
  /\ AnswersFollowQuestions
  /\ KnownSessionsPreviewed
  /\ \A c \in Clients :
       /\ chat[c].session # None => chat[c].session \in sessions
       /\ chat[c].history # <<>> =>
            chat[c].session # None /\ chat[c].pc \notin {"connect", "session"}
       /\ chat[c].pc \in {"assistant", "answer"} =>
            \E k \in DOMAIN messages[chat[c].session] :
              messages[chat[c].session][k] = [role |-> "user", turn |-> chat[c].turn]

Unsaid(role, turn) ==
  \A s \in Sessions : \A k \in DOMAIN messages[s] :
    messages[s][k] # [role |-> role, turn |-> turn]

Asking == {"connect", "session", "history", "llm", "user"}

\* The requests under way are turns of their own, and of a turn nothing is stored
\* before it begins, nor twice.
OnceInv ==
  /\ turns \in 0 .. MaxTurns
  /\ \A n \in turns + 1 .. MaxTurns : Unsaid("user", n) /\ Unsaid("assistant", n)
  /\ \A c \in Clients : chat[c].pc # "idle" =>
       /\ chat[c].turn \in 1 .. turns
       /\ \A d \in Clients \ {c} : chat[d].pc # "idle" => chat[d].turn # chat[c].turn
       /\ chat[c].pc \in Asking => Unsaid("user", chat[c].turn)
       /\ chat[c].pc \in Asking \cup {"assistant"} => Unsaid("assistant", chat[c].turn)

-----------------------------------------------------------------------------
(* What a comment of the repository says, and the code does not do.         *)

\* reel_session_memory.py: "recent messages in sliding window format (last N
\* messages)".
LastMessages(log) ==
  SubSeq(log, IF Len(log) > Window THEN Len(log) - Window + 1 ELSE 1, Len(log))

LastMessagesRemembered ==
  [][\A c \in Clients : ReadHistory(c) =>
       chat'[c].history = LastMessages(messages[chat[c].session])]_botVars
=============================================================================
