--------------------------- MODULE ReelBot_proofs ---------------------------
(***************************************************************************)
(* Theorems about the Reel Bot, for any reels, sessions, tabs and requests.*)
(***************************************************************************)
EXTENDS ReelBot, SequenceTheorems, TLAPS

-----------------------------------------------------------------------------
(* Type correctness. *)

\* The remembered messages are messages of the session, in their places.
LEMMA RememberedPrefix ==
  ASSUME ChatAssumption, NEW log \in Seq(Message)
  PROVE  /\ Remembered(log) \in Seq(Message)
         /\ Len(Remembered(log)) <= Len(log)
         /\ \A k \in DOMAIN Remembered(log) : Remembered(log)[k] = log[k]
<1> DEFINE n == IF Len(log) > Window THEN Window ELSE Len(log)
<1>1. n \in Nat /\ n <= Len(log)
  BY DEF ChatAssumption
<1>2. /\ SubSeq(log, 1, n) \in Seq(Message)
      /\ Len(SubSeq(log, 1, n)) = n
      /\ \A k \in 1 .. n : SubSeq(log, 1, n)[k] = log[k]
  BY <1>1
<1> QED BY <1>1, <1>2 DEF Remembered

\* What a request may hold that has fetched, and then processed, its reels.
LEMMA IngestMoves ==
  ASSUME NEW w \in IngestState, NEW S \in SUBSET Reels
  PROVE  /\ \A clip \in [Reels -> Nat] :
              [w EXCEPT !.pc = "process", !.todo = S, !.clip = clip] \in IngestState
         /\ \A n \in Nat :
              [w EXCEPT !.pc = "upsert", !.todo = S, !.now = n] \in IngestState
  BY DEF IngestState

\* An ingest request keeps the types of the tables and of its variables.
LEMMA IngestTypes ==
  ASSUME BotTypeOK, IngestNext
  PROVE  PoolTypeOK' /\ IngestTypeOK'
<1> USE DEF BotTypeOK, PoolTypeOK, IngestTypeOK, IngestState, NoIngest, Row
<1> USE DEF poolVars, tableVars, Requests
<1>1. CASE Tick
  BY <1>1 DEF Tick
<1>2. ASSUME NEW r \in Reels, HikerCounts(r)
      PROVE  PoolTypeOK' /\ IngestTypeOK'
  BY <1>2 DEF HikerCounts
<1>3. ASSUME NEW i \in Ingesters, StartIngest(i)
      PROVE  PoolTypeOK' /\ IngestTypeOK'
  BY <1>3 DEF StartIngest, FirstStep
<1>4. ASSUME NEW i \in Ingesters, IngestGoesOn(i)
      PROVE  PoolTypeOK' /\ IngestTypeOK'
  <2>1. CASE ConnectForIngest(i)
    <3>1. PoolTypeOK'
      BY <2>1 DEF ConnectForIngest, ConnectPool
    <3>2. IngestTypeOK'
      BY <2>1 DEF ConnectForIngest
    <3> QED BY <3>1, <3>2
  <2>2. CASE CheckFreshness(i)
    BY <2>2 DEF CheckFreshness
  <2>3. CASE AnswerCached(i)
    BY <2>3 DEF AnswerCached
  <2>4. CASE FetchUser(i)
    BY <2>4 DEF FetchUser
  <2>5. CASE FetchClips(i)
    <3>1. PICK S \in SUBSET Reels :
            ingest' = [ingest EXCEPT
              ![i].pc = "process",
              ![i].todo = S,
              ![i].clip = [r \in Reels |-> IF r \in S THEN live[r] ELSE 0]]
      BY <2>5 DEF FetchClips
    <3> DEFINE clip == [r \in Reels |-> IF r \in S THEN live[r] ELSE 0]
    <3>2. clip \in [Reels -> Nat]
      OBVIOUS
    <3> DEFINE w == [ingest[i] EXCEPT !.pc = "process", !.todo = S, !.clip = clip]
    <3>3. ingest' = [ingest EXCEPT ![i] = w]
      BY <3>1
    <3> HIDE DEF clip, IngestState
    <3>4. w \in IngestState
      BY <3>2, IngestMoves
    <3> HIDE DEF w
    <3> QED BY <2>5, <3>3, <3>4 DEF FetchClips
  <2>6. CASE ProcessReels(i)
    <3>1. PICK kept \in SUBSET ingest[i].todo :
            ingest' = [ingest EXCEPT ![i].pc = "upsert",
                                     ![i].todo = kept,
                                     ![i].now = clock]
      BY <2>6 DEF ProcessReels
    <3>2. kept \in SUBSET Reels
      BY <3>1
    <3> DEFINE w == [ingest[i] EXCEPT !.pc = "upsert", !.todo = kept, !.now = clock]
    <3>3. ingest' = [ingest EXCEPT ![i] = w]
      BY <3>1
    <3> HIDE DEF IngestState
    <3>4. w \in IngestState
      BY <3>2, IngestMoves
    <3> HIDE DEF w
    <3> QED BY <2>6, <3>3, <3>4 DEF ProcessReels
  <2>7. CASE StoreRow(i)
    BY <2>7 DEF StoreRow
  <2>8. CASE AnswerStored(i)
    BY <2>8 DEF AnswerStored
  <2>9. CASE IngestFails(i)
    BY <2>9 DEF IngestFails
  <2> QED
    BY <1>4, <2>1, <2>2, <2>3, <2>4, <2>5, <2>6, <2>7, <2>8, <2>9 DEF IngestGoesOn
<1> QED BY <1>1, <1>2, <1>3, <1>4 DEF IngestNext

\* What a request with a session may hold.
LEMMA ChatWithSession ==
  ASSUME NEW w \in ChatState, NEW s \in Sessions,
         NEW pc \in {"history", "llm", "user", "assistant", "answer"}
  PROVE  [w EXCEPT !.pc = pc, !.session = s] \in ChatState
  BY DEF ChatState

\* What a request may hold when it arrives.
LEMMA NewRequest ==
  ASSUME NEW w \in ChatState, NEW pc \in {"connect", "session", "history"},
         NEW h \in Handles, NEW s \in Sessions \cup {None}, NEW n \in Nat,
         pc = "history" => s \in Sessions
  PROVE  [w EXCEPT !.pc = pc, !.handle = h, !.session = s, !.turn = n] \in ChatState
  BY DEF ChatState

\* Inserting a message keeps the type of the messages.
LEMMA AppendTypes ==
  ASSUME messages \in [Sessions -> Seq(Message)], NEW s \in Sessions,
         NEW role \in {"user", "assistant"}, NEW n \in Nat,
         AppendMessage(s, role, n)
  PROVE  messages' \in [Sessions -> Seq(Message)]
<1> DEFINE m == [role |-> role, turn |-> n]
<1>1. m \in Message
  BY DEF Message
<1>2. messages' = [messages EXCEPT ![s] = Append(messages[s], m)]
  BY DEF AppendMessage
<1> HIDE DEF m
<1>3. Append(messages[s], m) \in Seq(Message)
  BY <1>1
<1> QED BY <1>2, <1>3

\* A chat step keeps the types of the tables, the tabs and the requests.
LEMMA ChatTypes ==
  ASSUME ChatAssumption, BotTypeOK, ChatNext
  PROVE  PoolTypeOK' /\ ChatTypeOK'
<1> USE DEF BotTypeOK, PoolTypeOK, ChatTypeOK, poolVars, Requests
<1>1. PICK c \in Clients :
        \/ StartChat(c) \/ ChatGoesOn(c) \/ NewChat(c) \/ OpenPastSession(c)
        \/ \E h \in Handles : Connect(c, h)
  BY DEF ChatNext
<1>2. chat[c] \in ChatState /\ NoChat \in ChatState
  BY DEF ChatState, NoChat
<1>3. CASE StartChat(c)
  <2> DEFINE first == FirstStep(IF known[c] = None THEN "session" ELSE "history")
             w == [NoChat EXCEPT !.pc = first, !.handle = handle[c],
                                 !.session = known[c], !.turn = turns + 1]
  <2>1. /\ first \in {"connect", "session", "history"}
        /\ first = "history" => known[c] \in Sessions
    BY DEF FirstStep
  <2>2. chat' = [chat EXCEPT ![c] = w] /\ turns' = turns + 1
    BY <1>3 DEF StartChat
  <2> HIDE DEF first
  <2>3. known[c] \in Sessions \cup {None} /\ handle[c] \in Handles /\ turns + 1 \in Nat
    OBVIOUS
  <2>4. w \in ChatState
    BY <1>2, <2>1, <2>3, NewRequest
  <2> HIDE DEF w
  <2> QED BY <1>3, <2>2, <2>3, <2>4 DEF StartChat
<1>4. CASE ConnectForChat(c)
  <2>1. PoolTypeOK'
    BY <1>4 DEF ConnectForChat, ConnectPool
  <2>2. ChatTypeOK'
    BY <1>2, <1>4 DEF ConnectForChat, ChatState
  <2> QED BY <2>1, <2>2
<1>5. CASE CreateSession(c)
  <2>1. PICK s \in Sessions :
          /\ sessions' = sessions \cup {s}
          /\ chat' = [chat EXCEPT ![c].pc = "history", ![c].session = s]
    BY <1>5 DEF CreateSession
  <2> DEFINE w == [chat[c] EXCEPT !.pc = "history", !.session = s]
  <2>2. w \in ChatState
    BY <1>2, ChatWithSession
  <2>3. chat' = [chat EXCEPT ![c] = w]
    BY <2>1
  <2> HIDE DEF w
  <2>4. sessions' \in SUBSET Sessions /\ chat' \in [Clients -> ChatState]
    BY <2>1, <2>2, <2>3
  <2> QED BY <1>5, <2>4 DEF CreateSession
<1>6. CASE ReadHistory(c)
  <2>1. Remembered(messages[chat[c].session]) \in Seq(Message)
    BY <1>2, <1>6, RememberedPrefix DEF ReadHistory, ChatState
  <2> QED BY <1>2, <1>6, <2>1 DEF ReadHistory, ChatState
<1>7. CASE AskModel(c)
  BY <1>2, <1>7 DEF AskModel, ChatState
<1>8. CASE StoreQuestion(c)
  <2>1. chat[c].session \in Sessions /\ chat[c].turn \in Nat
    BY <1>2, <1>8 DEF StoreQuestion, ChatState
  <2>2. messages' \in [Sessions -> Seq(Message)]
    BY <1>8, <2>1, AppendTypes DEF StoreQuestion
  <2>3. [chat[c] EXCEPT !.pc = "assistant"] \in ChatState
    BY <1>2, <2>1 DEF ChatState
  <2> QED BY <1>8, <2>2, <2>3 DEF StoreQuestion
<1>9. CASE StoreAnswer(c)
  <2>1. chat[c].session \in Sessions /\ chat[c].turn \in Nat
    BY <1>2, <1>9 DEF StoreAnswer, ChatState
  <2>2. messages' \in [Sessions -> Seq(Message)]
    BY <1>9, <2>1, AppendTypes DEF StoreAnswer
  <2>3. [chat[c] EXCEPT !.pc = "answer"] \in ChatState
    BY <1>2, <2>1 DEF ChatState
  <2> QED BY <1>9, <2>2, <2>3 DEF StoreAnswer
<1>10. CASE ReceiveAnswer(c)
  BY <1>2, <1>10 DEF ReceiveAnswer, ChatState
<1>11. CASE ChatFails(c)
  BY <1>2, <1>11 DEF ChatFails
<1>12. CASE NewChat(c)
  BY <1>12 DEF NewChat
<1>13. CASE OpenPastSession(c)
  BY <1>13 DEF OpenPastSession, Previewed
<1>14. ASSUME NEW h \in Handles, Connect(c, h)
       PROVE  PoolTypeOK' /\ ChatTypeOK'
  BY <1>14 DEF Connect
<1> QED
  BY <1>1, <1>3, <1>4, <1>5, <1>6, <1>7, <1>8, <1>9, <1>10, <1>11, <1>12, <1>13, <1>14
  DEF ChatGoesOn

LEMMA IdleRequests == NoIngest \in IngestState /\ NoChat \in ChatState
  BY DEF IngestState, ChatState, NoIngest, NoChat

LEMMA InitBotTypes == BotInit => BotTypeOK
<1> SUFFICES ASSUME BotInit PROVE BotTypeOK
  OBVIOUS
<1>1. PoolTypeOK /\ IngestTypeOK
  BY IdleRequests DEF BotInit, PoolInit, IngestInit, PoolTypeOK, IngestTypeOK
<1>2. ChatTypeOK
  BY IdleRequests DEF BotInit, ChatInit, ChatTypeOK
<1> QED BY <1>1, <1>2 DEF BotTypeOK

LEMMA NextBotTypes ==
  ASSUME ChatAssumption, BotTypeOK, [BotNext]_botVars
  PROVE  BotTypeOK'
<1>1. CASE IngestStep
  BY <1>1, IngestTypes DEF IngestStep, BotTypeOK, chatVars, ChatTypeOK
<1>2. CASE ChatStep
  BY <1>2, ChatTypes DEF ChatStep, BotTypeOK, ingestVars, IngestTypeOK
<1>3. CASE BotStops
  BY <1>3, IdleRequests DEF BotStops, BotTypeOK, PoolTypeOK, IngestTypeOK,
                            ChatTypeOK, tableVars
<1>4. CASE UNCHANGED botVars
  BY <1>4 DEF botVars, poolVars, ingestVars, chatVars, BotTypeOK, PoolTypeOK,
              IngestTypeOK, ChatTypeOK
<1> QED BY <1>1, <1>2, <1>3, <1>4 DEF BotNext

\* In every reachable state each variable has its type, and a chat request
\* past its first statements has a session.
THEOREM BotTypeCorrect == BotSpec => []BotTypeOK
<1>1. BotTypeOK /\ [BotNext]_botVars => BotTypeOK'
  BY NextBotTypes, ChatAssumption
<1> QED BY <1>1, InitBotTypes, PTL DEF BotSpec

-----------------------------------------------------------------------------
(* The pool. *)

\* An ingest request that does not connect, look at the freshness or store a
\* row changes only its own variables, and goes neither to connect nor to ask
\* HikerAPI for the user.
LEMMA IngestOthers ==
  ASSUME BotTypeOK, NEW i \in Ingesters, IngestGoesOn(i),
         ~ ConnectForIngest(i), ~ CheckFreshness(i), ~ StoreRow(i)
  PROVE  /\ UNCHANGED <<poolVars, clock, live, tableVars>>
         /\ \A k \in Ingesters \ {i} : ingest'[k] = ingest[k]
         /\ ingest'[i].pc \notin {"connect", "user"}
<1> USE DEF BotTypeOK, IngestTypeOK, IngestState, NoIngest
<1>1. CASE AnswerCached(i) \/ AnswerStored(i) \/ IngestFails(i)
  BY <1>1 DEF AnswerCached, AnswerStored, IngestFails
<1>2. CASE FetchUser(i)
  BY <1>2 DEF FetchUser
<1>3. CASE FetchClips(i)
  BY <1>3 DEF FetchClips
<1>4. CASE ProcessReels(i)
  BY <1>4 DEF ProcessReels
<1> QED BY <1>1, <1>2, <1>3, <1>4 DEF IngestGoesOn

\* Apart from connecting, an ingest request leaves the pool alone, and goes to
\* connect only when there is none.
LEMMA IngestPool ==
  ASSUME BotTypeOK, IngestNext
  PROVE  \/ \E i \in Ingesters : ConnectForIngest(i)
         \/ /\ UNCHANGED poolVars
            /\ \A i \in Ingesters :
                 ingest'[i].pc = "connect" => ingest[i].pc = "connect" \/ ~ pool
<1> USE DEF BotTypeOK, IngestTypeOK, IngestState, NoIngest
<1>1. CASE Tick
  BY <1>1 DEF Tick
<1>2. ASSUME NEW r \in Reels, HikerCounts(r)
      PROVE  UNCHANGED <<poolVars, ingest>>
  BY <1>2 DEF HikerCounts
<1>3. ASSUME NEW i \in Ingesters, StartIngest(i)
      PROVE  /\ UNCHANGED poolVars
             /\ \A k \in Ingesters :
                  ingest'[k].pc = "connect" => ingest[k].pc = "connect" \/ ~ pool
  BY <1>3 DEF StartIngest, FirstStep
<1>4. ASSUME NEW i \in Ingesters, IngestGoesOn(i), ~ ConnectForIngest(i)
      PROVE  /\ UNCHANGED poolVars
             /\ \A k \in Ingesters :
                  ingest'[k].pc = "connect" => ingest[k].pc = "connect"
  <2>1. CASE CheckFreshness(i)
    BY <2>1 DEF CheckFreshness
  <2>2. CASE StoreRow(i)
    BY <2>2 DEF StoreRow
  <2> HIDE DEF BotTypeOK
  <2> QED BY <1>4, <2>1, <2>2, IngestOthers
<1> QED BY <1>1, <1>2, <1>3, <1>4 DEF IngestNext

\* The same of a chat request.
LEMMA ChatPool ==
  ASSUME BotTypeOK, ChatNext
  PROVE  \/ \E c \in Clients : ConnectForChat(c)
         \/ /\ UNCHANGED poolVars
            /\ \A c \in Clients :
                 chat'[c].pc = "connect" => chat[c].pc = "connect" \/ ~ pool
<1> USE DEF BotTypeOK, ChatTypeOK, ChatState
<1>1. ASSUME NEW c \in Clients, StartChat(c)
      PROVE  /\ UNCHANGED poolVars
             /\ \A d \in Clients :
                  chat'[d].pc = "connect" => chat[d].pc = "connect" \/ ~ pool
  BY <1>1 DEF StartChat, FirstStep, NoChat
<1>2. ASSUME NEW c \in Clients, ChatGoesOn(c), ~ ConnectForChat(c)
      PROVE  /\ UNCHANGED poolVars
             /\ \A d \in Clients :
                  chat'[d].pc = "connect" => chat[d].pc = "connect"
  <2>1. CASE CreateSession(c)
    BY <2>1 DEF CreateSession
  <2>2. CASE ReadHistory(c)
    BY <2>2 DEF ReadHistory
  <2>3. CASE AskModel(c)
    BY <2>3 DEF AskModel
  <2>4. CASE StoreQuestion(c)
    BY <2>4 DEF StoreQuestion
  <2>5. CASE StoreAnswer(c)
    BY <2>5 DEF StoreAnswer
  <2>6. CASE ReceiveAnswer(c) \/ ChatFails(c)
    <3>1. NoChat.pc # "connect"
      BY DEF NoChat
    <3> QED BY <2>6, <3>1 DEF ReceiveAnswer, ChatFails
  <2> QED BY <1>2, <2>1, <2>2, <2>3, <2>4, <2>5, <2>6 DEF ChatGoesOn
<1>3. ASSUME NEW c \in Clients,
             NewChat(c) \/ OpenPastSession(c) \/ \E h \in Handles : Connect(c, h)
      PROVE  UNCHANGED <<poolVars, chat>>
  BY <1>3 DEF NewChat, OpenPastSession, Connect
<1> QED BY <1>1, <1>2, <1>3 DEF ChatNext

\* PoolInv is kept by every step.
LEMMA NextPool ==
  ASSUME PoolAssumption, BotTypeOK, PoolInv, [BotNext]_botVars
  PROVE  PoolInv'
<1> USE DEF PoolInv, OnePoolEach, poolVars, Requests
<1>1. CASE IngestStep
  <2>1. UNCHANGED chat
    BY <1>1 DEF IngestStep, chatVars
  <2>2. ASSUME NEW i \in Ingesters, ConnectForIngest(i)
        PROVE  PoolInv'
    BY <2>1, <2>2, PoolAssumption DEF ConnectForIngest, ConnectPool, BotTypeOK,
       PoolTypeOK, IngestTypeOK, IngestState
  <2> QED BY <1>1, <2>1, <2>2, IngestPool DEF IngestStep
<1>2. CASE ChatStep
  <2>1. UNCHANGED ingest
    BY <1>2 DEF ChatStep, ingestVars
  <2>2. ASSUME NEW c \in Clients, ConnectForChat(c)
        PROVE  PoolInv'
    BY <2>1, <2>2, PoolAssumption DEF ConnectForChat, ConnectPool, BotTypeOK,
       PoolTypeOK, ChatTypeOK, ChatState
  <2> QED BY <1>2, <2>1, <2>2, ChatPool DEF ChatStep
<1>3. CASE BotStops
  BY <1>3 DEF BotStops, NoIngest, NoChat
<1>4. CASE UNCHANGED botVars
  BY <1>4 DEF botVars, ingestVars, chatVars
<1> QED BY <1>1, <1>2, <1>3, <1>4 DEF BotNext

\* However the requests interleave, each makes the process open at most one
\* pool.
THEOREM OnePool == BotSpec => []OnePoolEach
<1>1. BotInit => PoolInv
  BY DEF BotInit, PoolInit, IngestInit, ChatInit, PoolInv, OnePoolEach, NoIngest,
         NoChat, Requests
<1>2. BotTypeOK /\ PoolInv /\ [BotNext]_botVars => PoolInv'
  BY NextPool, PoolAssumption
<1>3. PoolInv => OnePoolEach
  BY DEF PoolInv
<1> QED BY <1>1, <1>2, <1>3, BotTypeCorrect, PTL DEF BotSpec

-----------------------------------------------------------------------------
(* Ingestion. *)

\* ExpiryInv is kept by every step.
LEMMA NextExpiry ==
  ASSUME IngestAssumption, BotTypeOK, ExpiryInv, [BotNext]_botVars
  PROVE  ExpiryInv'
<1> USE DEF ExpiryInv, StoredReels, Age, BotTypeOK, IngestTypeOK, IngestState,
            Row, NoIngest, IngestAssumption
<1>1. CASE IngestNext
  <2>1. CASE Tick
    BY <2>1 DEF Tick, tableVars
  <2>2. ASSUME NEW r \in Reels, HikerCounts(r)
        PROVE  ExpiryInv'
    BY <2>2 DEF HikerCounts, tableVars
  <2>3. ASSUME NEW i \in Ingesters, StartIngest(i)
        PROVE  ExpiryInv'
    BY <2>3 DEF StartIngest, FirstStep, tableVars
  <2>4. ASSUME NEW i \in Ingesters, CheckFreshness(i)
        PROVE  ExpiryInv'
    BY <2>4 DEF CheckFreshness, HandleFresh
  <2>5. ASSUME NEW i \in Ingesters, StoreRow(i)
        PROVE  ExpiryInv'
    BY <2>5 DEF StoreRow
  <2>6. ASSUME NEW i \in Ingesters, ConnectForIngest(i)
        PROVE  ExpiryInv'
    BY <2>6 DEF ConnectForIngest, tableVars
  <2>7. ASSUME NEW i \in Ingesters, IngestGoesOn(i), ~ ConnectForIngest(i),
               ~ CheckFreshness(i), ~ StoreRow(i)
        PROVE  ExpiryInv'
    <3>1. /\ UNCHANGED <<clock, tableVars>>
          /\ \A k \in Ingesters :
               ingest'[k].pc = "user" => ingest[k].pc = "user"
      BY <2>7, IngestOthers
    <3> QED BY <3>1 DEF tableVars
  <2> QED BY <1>1, <2>1, <2>2, <2>3, <2>4, <2>5, <2>6, <2>7 DEF IngestNext
<1>2. CASE UNCHANGED ingestVars
  BY <1>2 DEF ingestVars, tableVars
<1>3. CASE BotStops
  BY <1>3 DEF BotStops
<1> QED BY <1>1, <1>2, <1>3 DEF BotNext, IngestStep, ChatStep, botVars

\* HikerAPI is asked about a handle only when each of its rows had expired or
\* was stored since the request looked.
THEOREM CreditsSpent == BotSpec => SpendsOnlyWhenExpired
<1>1. BotInit => ExpiryInv
  BY DEF BotInit, IngestInit, ExpiryInv, NoIngest
<1>2. BotTypeOK /\ ExpiryInv /\ [BotNext]_botVars => ExpiryInv'
  BY NextExpiry, IngestAssumption
<1>3. ExpiryInv => \A i \in Ingesters : FetchUser(i) =>
        \A r \in StoredReels : r \in newer[i] \/ Age(r) >= CacheHours
  BY DEF ExpiryInv, FetchUser
<1> QED BY <1>1, <1>2, <1>3, BotTypeCorrect, PTL DEF BotSpec, SpendsOnlyWhenExpired

\* ReadingInv is kept by every step.
LEMMA NextReading ==
  ASSUME BotTypeOK, ReadingInv, [BotNext]_botVars
  PROVE  ReadingInv'
<1> USE DEF ReadingInv, StoredReels, BotTypeOK, IngestTypeOK, IngestState, Row,
            NoIngest
<1>1. CASE IngestNext
  <2>1. CASE Tick
    BY <2>1 DEF Tick, tableVars
  <2>2. ASSUME NEW r \in Reels, HikerCounts(r)
        PROVE  ReadingInv'
    BY <2>2 DEF HikerCounts, tableVars
  <2>3. ASSUME NEW i \in Ingesters, StartIngest(i)
        PROVE  ReadingInv'
    BY <2>3 DEF StartIngest, FirstStep, tableVars
  <2>4. ASSUME NEW i \in Ingesters, IngestGoesOn(i)
        PROVE  ReadingInv'
    <3>1. CASE ConnectForIngest(i)
      BY <3>1 DEF ConnectForIngest, tableVars
    <3>2. CASE CheckFreshness(i)
      BY <3>2 DEF CheckFreshness
    <3>3. CASE AnswerCached(i) \/ AnswerStored(i) \/ IngestFails(i)
      BY <3>3 DEF AnswerCached, AnswerStored, IngestFails, tableVars
    <3>4. CASE FetchUser(i)
      BY <3>4 DEF FetchUser, tableVars
    <3>5. CASE FetchClips(i)
      BY <3>5 DEF FetchClips, tableVars
    <3>6. CASE ProcessReels(i)
      BY <3>6 DEF ProcessReels, tableVars
    <3>7. CASE StoreRow(i)
      BY <3>7 DEF StoreRow
    <3> QED BY <2>4, <3>1, <3>2, <3>3, <3>4, <3>5, <3>6, <3>7 DEF IngestGoesOn
  <2> QED BY <1>1, <2>1, <2>2, <2>3, <2>4 DEF IngestNext
<1>2. CASE UNCHANGED ingestVars
  BY <1>2 DEF ingestVars, tableVars
<1>3. CASE BotStops
  BY <1>3 DEF BotStops, tableVars
<1> QED BY <1>1, <1>2, <1>3 DEF BotNext, IngestStep, ChatStep, botVars

\* Only storing a row changes the rows.
LEMMA OnlyStoreRowWrites ==
  ASSUME BotTypeOK, [BotNext]_botVars
  PROVE  (\E i \in Ingesters : StoreRow(i)) \/ UNCHANGED rows
<1>1. ASSUME NEW i \in Ingesters, IngestGoesOn(i)
      PROVE  StoreRow(i) \/ UNCHANGED rows
  <2>1. CASE ConnectForIngest(i) \/ CheckFreshness(i)
    BY <2>1 DEF ConnectForIngest, CheckFreshness, tableVars
  <2> QED BY <1>1, <2>1, IngestOthers DEF tableVars
<1>2. IngestNext => (\E i \in Ingesters : StoreRow(i)) \/ UNCHANGED rows
  BY <1>1 DEF IngestNext, Tick, HikerCounts, StartIngest, tableVars
<1> QED BY <1>2 DEF BotNext, IngestStep, ChatStep, BotStops, botVars, ingestVars,
                    tableVars

\* A stored count goes back only in a row that was stored by another request
\* since the storing one had looked at the freshness.
THEOREM CountsGoBack == BotSpec => CountsGoBackOnlyWhenRaced
<1>1. BotInit => ReadingInv
  BY DEF BotInit, IngestInit, ReadingInv, StoredReels, NoIngest
<1>2. BotTypeOK /\ ReadingInv /\ [BotNext]_botVars => ReadingInv'
  BY NextReading
<1>3. BotTypeOK /\ ReadingInv /\ [BotNext]_botVars =>
        \A i \in Ingesters, r \in Reels :
          ingest'[i] # ingest[i] /\ rows[r] # None /\ rows'[r].views < rows[r].views
            => r \in newer[i]
  <2> SUFFICES ASSUME BotTypeOK, ReadingInv, [BotNext]_botVars,
                      NEW i \in Ingesters, NEW r \in Reels,
                      ingest'[i] # ingest[i], rows[r] # None,
                      rows'[r].views < rows[r].views
               PROVE  r \in newer[i]
    OBVIOUS
  <2> USE DEF BotTypeOK, IngestTypeOK, IngestState, Row
  <2>1. ~ UNCHANGED rows
    OBVIOUS
  <2>2. PICK k \in Ingesters : StoreRow(k)
    BY <2>1, OnlyStoreRowWrites
  <2>3. k = i
    BY <2>2 DEF StoreRow
  <2> QED BY <2>2, <2>3 DEF StoreRow, ReadingInv, StoredReels
<1> QED BY <1>1, <1>2, <1>3, BotTypeCorrect, PTL
        DEF BotSpec, CountsGoBackOnlyWhenRaced

-----------------------------------------------------------------------------
(* Chat. *)

\* The first messages of a list stand next to each other in it.
LEMMA RememberedPiece ==
  ASSUME ChatAssumption, NEW log \in Seq(Message)
  PROVE  RemembersOf(Remembered(log), log)
<1> DEFINE h == Remembered(log)
<1>1. /\ h \in Seq(Message)
      /\ Len(h) <= Len(log)
      /\ \A k \in DOMAIN h : h[k] = log[k]
  BY RememberedPrefix
<1> HIDE DEF h
<1>2. \A k \in DOMAIN h : 0 + k = k
  BY <1>1
<1>3. RemembersOf(h, log)
  BY <1>1, <1>2 DEF RemembersOf
<1> QED BY <1>3 DEF h

\* A piece of a list is a piece of any list that begins with it.
LEMMA PieceStays ==
  ASSUME NEW h \in Seq(Message), NEW log \in Seq(Message), NEW longer \in Seq(Message),
         Len(log) <= Len(longer), \A k \in DOMAIN log : longer[k] = log[k],
         RemembersOf(h, log)
  PROVE  RemembersOf(h, longer)
<1>1. PICK start \in 0 .. Len(log) :
        /\ start + Len(h) <= Len(log)
        /\ \A k \in DOMAIN h : h[k] = log[start + k]
  BY DEF RemembersOf
<1>2. start \in 0 .. Len(longer) /\ start + Len(h) <= Len(longer)
  BY <1>1
<1>3. \A k \in DOMAIN h : start + k \in DOMAIN log
  BY <1>1
<1> QED BY <1>1, <1>2, <1>3 DEF RemembersOf

\* Inserting a message keeps the messages there are, in their places.
LEMMA AppendKeeps ==
  ASSUME messages \in [Sessions -> Seq(Message)], NEW s \in Sessions,
         NEW role \in {"user", "assistant"}, NEW n \in Nat,
         AppendMessage(s, role, n)
  PROVE  /\ \A t \in Sessions : \A k \in DOMAIN messages[t] :
              k \in DOMAIN messages'[t] /\ messages'[t][k] = messages[t][k]
         /\ \A t \in Sessions : Len(messages[t]) <= Len(messages'[t])
         /\ \E k \in DOMAIN messages'[s] :
              messages'[s][k] = [role |-> role, turn |-> n]
<1> DEFINE m == [role |-> role, turn |-> n]
<1>1. m \in Message
  BY DEF Message
<1>2. messages' = [messages EXCEPT ![s] = Append(messages[s], m)]
  BY DEF AppendMessage
<1>3. messages'[s] = Append(messages[s], m)
  BY <1>2
<1> HIDE DEF m
<1>4. /\ Len(Append(messages[s], m)) = Len(messages[s]) + 1
      /\ \A k \in 1 .. Len(messages[s]) : Append(messages[s], m)[k] = messages[s][k]
      /\ Append(messages[s], m)[Len(messages[s]) + 1] = m
  BY <1>1
<1>5. DOMAIN messages[s] = 1 .. Len(messages[s])
      /\ DOMAIN messages'[s] = 1 .. Len(messages[s]) + 1
  BY <1>1, <1>3, <1>4
<1>6. \E k \in DOMAIN messages'[s] : messages'[s][k] = m
  <2>1. Len(messages[s]) + 1 \in DOMAIN messages'[s]
    BY <1>5
  <2> QED BY <2>1, <1>3, <1>4
<1>7. ASSUME NEW t \in Sessions, NEW k \in DOMAIN messages[t]
      PROVE  k \in DOMAIN messages'[t] /\ messages'[t][k] = messages[t][k]
  <2>1. CASE t = s
    BY <1>3, <1>4, <1>5, <1>7, <2>1
  <2>2. CASE t # s
    BY <1>2, <2>2
  <2> QED BY <2>1, <2>2
<1>8. ASSUME NEW t \in Sessions
      PROVE  Len(messages[t]) <= Len(messages'[t])
  <2>1. CASE t = s
    BY <1>3, <1>4, <2>1
  <2>2. CASE t # s
    BY <1>2, <2>2
  <2> QED BY <2>1, <2>2
<1> QED BY <1>6, <1>7, <1>8 DEF m

\* Inserting a question, or an answer whose question is there, keeps the lists
\* answered.
LEMMA AppendAnswered ==
  ASSUME messages \in [Sessions -> Seq(Message)], NEW s \in Sessions,
         NEW role \in {"user", "assistant"}, NEW n \in Nat,
         AppendMessage(s, role, n),
         \A t \in Sessions : Answered(messages[t]),
         role = "assistant" =>
           \E k \in DOMAIN messages[s] :
             messages[s][k] = [role |-> "user", turn |-> n]
  PROVE  \A t \in Sessions : Answered(messages'[t])
<1> DEFINE m == [role |-> role, turn |-> n]
<1>1. m \in Message
  BY DEF Message
<1>2. messages' = [messages EXCEPT ![s] = Append(messages[s], m)]
  BY DEF AppendMessage
<1>3. ASSUME NEW t \in Sessions, t # s
      PROVE  Answered(messages'[t])
  BY <1>2, <1>3
<1>4. messages'[s] = Append(messages[s], m)
  BY <1>2
<1>5. m.role = role /\ m.turn = n
  OBVIOUS
<1> HIDE DEF m
<1> DEFINE old == messages[s]
           log == Append(old, m)
<1>6. /\ old \in Seq(Message)
      /\ log \in Seq(Message)
      /\ Len(log) = Len(old) + 1
      /\ \A k \in 1 .. Len(old) : log[k] = old[k]
      /\ log[Len(old) + 1] = m
  BY <1>1
<1>7. Answered(old)
  OBVIOUS
<1>8. role = "assistant" =>
        \E k \in 1 .. Len(old) : old[k] = [role |-> "user", turn |-> n]
  BY <1>6
<1> HIDE DEF old, log
<1>9. ASSUME NEW k \in 1 .. Len(log), log[k].role = "assistant"
      PROVE  \E q \in 1 .. k - 1 : log[q] = [role |-> "user", turn |-> log[k].turn]
  <2>1. CASE k \in 1 .. Len(old)
    <3>1. k \in DOMAIN old /\ log[k] = old[k]
      BY <1>6, <2>1
    <3>2. PICK q \in 1 .. k - 1 : old[q] = [role |-> "user", turn |-> old[k].turn]
      BY <1>7, <1>9, <3>1 DEF Answered
    <3>3. q \in 1 .. Len(old)
      BY <1>6, <2>1
    <3> QED BY <1>6, <3>1, <3>2, <3>3
  <2>2. CASE k = Len(old) + 1
    <3>1. log[k] = m
      BY <1>6, <2>2
    <3>2. PICK q \in 1 .. Len(old) : old[q] = [role |-> "user", turn |-> n]
      BY <1>5, <1>8, <1>9, <3>1
    <3>3. q \in 1 .. k - 1
      BY <1>6, <2>2
    <3> QED BY <1>5, <1>6, <3>1, <3>2, <3>3
  <2> QED BY <1>6, <2>1, <2>2
<1>10. DOMAIN log = 1 .. Len(log)
  BY <1>6
<1>11. Answered(log)
  BY <1>9, <1>10 DEF Answered
<1> QED BY <1>3, <1>4, <1>11 DEF log, old

\* The session is in the history of its handle.
InHistory(s) == s \in Previewed(HandleOf[s])

\* What a request may hold: nothing, or a piece of its session.
RemembersWell(w) ==
  w.history # <<>> =>
    /\ w.session # None /\ w.pc \notin {"connect", "session"}
    /\ RemembersOf(w.history, messages[w.session])

\* Steps that store no message keep DialogueInv when each tab's session is one
\* it had, that of its request's stored answer, or one with a question, and each
\* request kept its place or holds what it should.
LEMMA QuietDialogue ==
  ASSUME BotTypeOK, DialogueInv, UNCHANGED messages, sessions \subseteq sessions',
         \A c \in Clients : known'[c] # None => InHistory(known'[c]),
         \A c \in Clients :
           \/ chat'[c] = chat[c]
           \/ /\ RemembersWell(chat'[c])
              /\ chat'[c].session # None => chat'[c].session \in sessions'
              /\ chat'[c].pc \in {"assistant", "answer"} =>
                   /\ chat[c].pc \in {"assistant", "answer"}
                   /\ chat'[c].session = chat[c].session
                   /\ chat'[c].turn = chat[c].turn
  PROVE  DialogueInv'
<1>1. AnswersFollowQuestions'
  <2>1. \A s \in Sessions : Answered(messages'[s])
    BY DEF DialogueInv, AnswersFollowQuestions, Answered
  <2>2. ASSUME NEW c \in Clients, chat'[c].history # <<>>
        PROVE  RemembersOf(chat'[c].history, messages'[chat'[c].session])
    BY <2>2 DEF DialogueInv, AnswersFollowQuestions, RemembersWell
  <2> QED BY <2>1, <2>2 DEF AnswersFollowQuestions, Answered, RemembersOf
<1>2. KnownSessionsPreviewed'
  BY DEF KnownSessionsPreviewed, InHistory, Previewed
<1>3. ASSUME NEW c \in Clients
      PROVE  /\ chat'[c].history # <<>> =>
                  chat'[c].session # None /\ chat'[c].pc \notin {"connect", "session"}
             /\ chat'[c].session # None => chat'[c].session \in sessions'
             /\ chat'[c].pc \in {"assistant", "answer"} =>
                  \E k \in DOMAIN messages'[chat'[c].session] :
                    messages'[chat'[c].session][k]
                      = [role |-> "user", turn |-> chat'[c].turn]
  BY <1>3 DEF DialogueInv, RemembersWell
<1> QED BY <1>1, <1>2, <1>3 DEF DialogueInv

\* Storing the question or the answer of a request keeps DialogueInv.
LEMMA StoringDialogue ==
  ASSUME ChatAssumption, BotTypeOK, DialogueInv, NEW c \in Clients,
         NEW role \in {"user", "assistant"}, NEW pc \in {"assistant", "answer"},
         chat[c].pc \in {"user", "assistant"},
         role = "assistant" => chat[c].pc = "assistant",
         role = "user" \/ chat[c].pc = "assistant",
         AppendMessage(chat[c].session, role, chat[c].turn),
         chat' = [chat EXCEPT ![c].pc = pc],
         UNCHANGED <<sessions, known>>
  PROVE  DialogueInv'
<1> DEFINE s == chat[c].session
           n == chat[c].turn
<1>1. /\ messages \in [Sessions -> Seq(Message)]
      /\ s \in Sessions
      /\ n \in Nat
      /\ AppendMessage(s, role, n)
  BY DEF BotTypeOK, ChatTypeOK, ChatState
<1>2. role = "assistant" =>
        \E k \in DOMAIN messages[s] : messages[s][k] = [role |-> "user", turn |-> n]
  BY DEF DialogueInv
<1>3. /\ chat'[c].pc = pc
      /\ \A d \in Clients :
           /\ chat'[d].session = chat[d].session
           /\ chat'[d].turn = chat[d].turn
           /\ chat'[d].history = chat[d].history
           /\ d # c => chat'[d].pc = chat[d].pc
           /\ chat[d].session \in Sessions \cup {None}
           /\ chat[d].history \in Seq(Message)
           /\ chat[d].pc \in {"assistant", "answer"} => chat[d].session \in Sessions
           /\ known[d] \in Sessions \cup {None}
  BY DEF BotTypeOK, ChatTypeOK, ChatState
<1> HIDE DEF s, n
<1>4. /\ \A t \in Sessions : \A k \in DOMAIN messages[t] :
           k \in DOMAIN messages'[t] /\ messages'[t][k] = messages[t][k]
      /\ \A t \in Sessions : Len(messages[t]) <= Len(messages'[t])
      /\ \E k \in DOMAIN messages'[s] : messages'[s][k] = [role |-> role, turn |-> n]
      /\ messages' \in [Sessions -> Seq(Message)]
  BY <1>1, AppendKeeps, AppendTypes
<1>5. \A t \in Sessions : Answered(messages'[t])
  BY <1>1, <1>2, AppendAnswered DEF DialogueInv, AnswersFollowQuestions
<1>6. ASSUME NEW d \in Clients, chat'[d].history # <<>>
      PROVE  RemembersOf(chat'[d].history, messages'[chat'[d].session])
  <2> DEFINE h == chat[d].history
             t == chat[d].session
  <2>1. h # <<>> /\ h \in Seq(Message)
    BY <1>3, <1>6
  <2>2. t \in Sessions /\ RemembersOf(h, messages[t])
    BY <1>3, <2>1 DEF DialogueInv, AnswersFollowQuestions
  <2> HIDE DEF h, t
  <2>3. RemembersOf(h, messages'[t])
    BY <1>1, <1>4, <2>1, <2>2, PieceStays
  <2> QED BY <1>3, <2>3 DEF h, t
<1>7. AnswersFollowQuestions'
  BY <1>5, <1>6 DEF AnswersFollowQuestions, Answered, RemembersOf
<1>8. sessions \subseteq Sessions
  BY DEF BotTypeOK, ChatTypeOK
<1>9. KnownSessionsPreviewed'
  <2>1. \A h : Previewed(h) \subseteq Previewed(h)'
    BY <1>4, <1>8 DEF Previewed
  <2>2. UNCHANGED known
    OBVIOUS
  <2>3. ASSUME NEW d \in Clients, known[d] # None
        PROVE  known[d] \in Previewed(HandleOf[known[d]])'
    BY <2>1, <2>3 DEF DialogueInv, KnownSessionsPreviewed, Previewed
  <2> QED BY <2>2, <2>3 DEF KnownSessionsPreviewed, Previewed
<1>10. \E k \in DOMAIN messages'[s] : messages'[s][k] = [role |-> "user", turn |-> n]
  BY <1>1, <1>2, <1>4
<1>11. ASSUME NEW d \in Clients, chat'[d].pc \in {"assistant", "answer"}
       PROVE  \E k \in DOMAIN messages'[chat'[d].session] :
                messages'[chat'[d].session][k]
                  = [role |-> "user", turn |-> chat'[d].turn]
  <2>1. CASE d = c
    BY <1>3, <1>10, <2>1 DEF s, n
  <2>2. CASE d # c
    <3>1. PICK k \in DOMAIN messages[chat[d].session] :
            messages[chat[d].session][k] = [role |-> "user", turn |-> chat[d].turn]
      BY <1>3, <1>11, <2>2 DEF DialogueInv
    <3>2. chat[d].session \in Sessions
      BY <1>3, <1>11, <2>2
    <3> QED BY <1>3, <1>4, <3>1, <3>2
  <2> QED BY <2>1, <2>2
<1>12. \A d \in Clients :
          /\ chat'[d].session # None => chat'[d].session \in sessions'
          /\ chat'[d].history # <<>> =>
               chat'[d].session # None /\ chat'[d].pc \notin {"connect", "session"}
  <2>1. \A d \in Clients :
          /\ chat[d].session # None => chat[d].session \in sessions
          /\ chat[d].history # <<>> =>
               chat[d].session # None /\ chat[d].pc \notin {"connect", "session"}
    BY DEF DialogueInv
  <2> QED BY <1>3, <2>1
<1> QED BY <1>7, <1>9, <1>11, <1>12 DEF DialogueInv

\* DialogueInv is kept by every step.
LEMMA NextDialogue ==
  ASSUME ChatAssumption, BotTypeOK, DialogueInv, [BotNext]_botVars
  PROVE  DialogueInv'
<1>1. /\ \A c \in Clients :
           /\ chat[c] \in ChatState
           /\ known[c] # None => InHistory(known[c]) /\ known[c] \in sessions
           /\ RemembersWell(chat[c])
           /\ chat[c].session # None => chat[c].session \in sessions
      /\ chat \in [Clients -> ChatState]
      /\ known \in [Clients -> Sessions \cup {None}]
      /\ \A h : \A s \in Previewed(h) : InHistory(s) /\ s \in sessions
      /\ None \notin Sessions
  <2>1. \A h : \A s \in Previewed(h) : InHistory(s) /\ s \in sessions
    BY DEF InHistory, Previewed
  <2>2. /\ chat \in [Clients -> ChatState]
        /\ known \in [Clients -> Sessions \cup {None}]
    BY DEF BotTypeOK, ChatTypeOK
  <2>3. \A c \in Clients :
          /\ known[c] # None => InHistory(known[c]) /\ known[c] \in sessions
          /\ RemembersWell(chat[c])
          /\ chat[c].session # None => chat[c].session \in sessions
    BY <2>1 DEF DialogueInv, AnswersFollowQuestions, KnownSessionsPreviewed, InHistory,
       RemembersWell
  <2> QED BY <2>1, <2>2, <2>3 DEF ChatAssumption
<1>2. NoChat.pc = "idle" /\ NoChat.session = None /\ NoChat.history = <<>>
  BY DEF NoChat
<1>3. ASSUME NEW c \in Clients, StartChat(c)
      PROVE  DialogueInv'
  <2> DEFINE first == FirstStep(IF known[c] = None THEN "session" ELSE "history")
             w == [NoChat EXCEPT !.pc = first, !.handle = handle[c],
                                 !.session = known[c], !.turn = turns + 1]
  <2>1. first \notin {"assistant", "answer"}
    BY DEF FirstStep
  <2>2. chat' = [chat EXCEPT ![c] = w] /\ UNCHANGED <<sessions, messages, known>>
    BY <1>3 DEF StartChat
  <2> HIDE DEF first
  <2>3. w.pc = first /\ w.session = known[c] /\ w.history = <<>>
    BY DEF NoChat
  <2> HIDE DEF w
  <2>4. \A d \in Clients : chat'[d] = IF d = c THEN w ELSE chat[d]
    BY <1>1, <2>2
  <2> QED BY <1>1, <2>1, <2>2, <2>3, <2>4, QuietDialogue DEF RemembersWell
<1>4. ASSUME NEW c \in Clients, ConnectForChat(c)
      PROVE  DialogueInv'
  BY <1>1, <1>4, QuietDialogue DEF ConnectForChat, ChatState, RemembersWell
<1>5. ASSUME NEW c \in Clients, CreateSession(c)
      PROVE  DialogueInv'
  BY <1>1, <1>5, QuietDialogue DEF CreateSession, ChatState, RemembersWell
<1>6. ASSUME NEW c \in Clients, ReadHistory(c)
      PROVE  DialogueInv'
  <2> DEFINE s == chat[c].session
             w == [chat[c] EXCEPT !.pc = "llm", !.history = Remembered(messages[s])]
  <2>1. s \in Sessions /\ messages[s] \in Seq(Message)
    BY <1>1, <1>6 DEF ReadHistory, ChatState, BotTypeOK, ChatTypeOK
  <2>2. RemembersOf(Remembered(messages[s]), messages[s])
    BY <2>1, RememberedPiece
  <2>3. /\ w.pc = "llm" /\ w.session = s
        /\ w.history = Remembered(messages[s])
    BY <1>1 DEF ChatState
  <2>4. chat' = [chat EXCEPT ![c] = w]
    BY <1>6 DEF ReadHistory
  <2> HIDE DEF w
  <2>5. \A d \in Clients : chat'[d] = IF d = c THEN w ELSE chat[d]
    BY <1>1, <2>4
  <2>6. RemembersWell(w)
    BY <1>1, <2>1, <2>2, <2>3 DEF RemembersWell
  <2> QED BY <1>1, <1>6, <2>3, <2>5, <2>6, QuietDialogue DEF ReadHistory
<1>7. ASSUME NEW c \in Clients, AskModel(c)
      PROVE  DialogueInv'
  BY <1>1, <1>7, QuietDialogue DEF AskModel, ChatState, RemembersWell
<1>8. ASSUME NEW c \in Clients, StoreQuestion(c)
      PROVE  DialogueInv'
  BY <1>8, StoringDialogue DEF StoreQuestion
<1>9. ASSUME NEW c \in Clients, StoreAnswer(c)
      PROVE  DialogueInv'
  BY <1>9, StoringDialogue DEF StoreAnswer
<1>10. ASSUME NEW c \in Clients, ReceiveAnswer(c)
       PROVE  DialogueInv'
  <2>1. InHistory(chat[c].session)
    <3>1. chat[c].session \in Sessions
      BY <1>1, <1>10 DEF ReceiveAnswer, ChatState
    <3>2. chat[c].session \in sessions
      BY <1>1, <3>1
    <3>3. PICK k \in DOMAIN messages[chat[c].session] :
            messages[chat[c].session][k] = [role |-> "user", turn |-> chat[c].turn]
      BY <1>10 DEF ReceiveAnswer, DialogueInv
    <3> QED BY <3>2, <3>3 DEF InHistory, Previewed
  <2>2. \A d \in Clients : chat'[d] = IF d = c THEN NoChat ELSE chat[d]
    BY <1>1, <1>10 DEF ReceiveAnswer
  <2>3. \A d \in Clients : known'[d] = IF d = c THEN chat[c].session ELSE known[d]
    BY <1>1, <1>10 DEF ReceiveAnswer
  <2> QED BY <1>1, <1>2, <1>10, <2>1, <2>2, <2>3, QuietDialogue
         DEF ReceiveAnswer, RemembersWell
<1>11. ASSUME NEW c \in Clients, ChatFails(c)
       PROVE  DialogueInv'
  <2>1. \A d \in Clients : chat'[d] = IF d = c THEN NoChat ELSE chat[d]
    BY <1>1, <1>11 DEF ChatFails
  <2> QED BY <1>1, <1>2, <1>11, <2>1, QuietDialogue DEF ChatFails, RemembersWell
<1>12. ASSUME NEW c \in Clients,
              NewChat(c) \/ OpenPastSession(c) \/ \E h \in Handles : Connect(c, h)
       PROVE  DialogueInv'
  BY <1>1, <1>12, QuietDialogue DEF NewChat, OpenPastSession, Connect
<1>13. CASE BotStops
  <2>1. \A d \in Clients : chat'[d] = NoChat
    BY <1>13 DEF BotStops
  <2> QED BY <1>1, <1>2, <1>13, <2>1, QuietDialogue DEF BotStops, RemembersWell
<1>14. CASE UNCHANGED chatVars
  BY <1>1, <1>14, QuietDialogue DEF chatVars
<1> QED
  BY <1>3, <1>4, <1>5, <1>6, <1>7, <1>8, <1>9, <1>10, <1>11, <1>12, <1>13, <1>14
  DEF BotNext, IngestStep, ChatStep, ChatNext, ChatGoesOn, botVars

\* DialogueInv holds in every reachable state.
LEMMA DialogueKept == BotSpec => []DialogueInv
<1>1. BotInit => DialogueInv
  BY DEF BotInit, ChatInit, DialogueInv, AnswersFollowQuestions, Answered,
         KnownSessionsPreviewed, NoChat
<1>2. BotTypeOK /\ DialogueInv /\ [BotNext]_botVars => DialogueInv'
  BY NextDialogue, ChatAssumption
<1> QED BY <1>1, <1>2, BotTypeCorrect, PTL DEF BotSpec

\* In every session an answer comes after its own question, and what the model is
\* shown is an unbroken piece of the session.
THEOREM QuestionsFirst == BotSpec => []AnswersFollowQuestions
<1>1. DialogueInv => AnswersFollowQuestions
  BY DEF DialogueInv
<1> QED BY <1>1, DialogueKept, PTL

\* A tab is only ever in a session that list_sessions does not pass over.
THEOREM TabsInPreviewedSessions == BotSpec => []KnownSessionsPreviewed
<1>1. DialogueInv => KnownSessionsPreviewed
  BY DEF DialogueInv
<1> QED BY <1>1, DialogueKept, PTL

-----------------------------------------------------------------------------
(* Questions and answers are stored once: the messages of every session are a *)
(* conversation.                                                              *)

\* A request goes on when it does not go back to what it has done.
GoesOn(c) ==
  \/ chat'[c] = chat[c]
  \/ chat'[c].pc = "idle"
  \/ /\ chat[c].pc # "idle" /\ chat'[c].turn = chat[c].turn
     /\ chat'[c].pc \in Asking => chat[c].pc \in Asking
     /\ chat'[c].pc = "assistant" => chat[c].pc \in Asking \cup {"assistant"}

LEMMA QuietOnce ==
  ASSUME BotTypeOK, OnceInv, UNCHANGED <<messages, turns>>, \A c \in Clients : GoesOn(c)
  PROVE  OnceInv'
<1>1. \A role, n : Unsaid(role, n)' <=> Unsaid(role, n)
  BY DEF Unsaid
<1>2. ASSUME NEW c \in Clients, chat'[c].pc # "idle"
      PROVE  /\ chat[c].pc # "idle" /\ chat'[c].turn = chat[c].turn
             /\ chat'[c].pc \in Asking => chat[c].pc \in Asking
             /\ chat'[c].pc = "assistant" => chat[c].pc \in Asking \cup {"assistant"}
  BY <1>2 DEF GoesOn
<1>3. ASSUME NEW c \in Clients, chat'[c].pc # "idle"
      PROVE  /\ chat'[c].turn \in 1 .. turns'
             /\ \A d \in Clients \ {c} :
                  chat'[d].pc # "idle" => chat'[d].turn # chat'[c].turn
             /\ chat'[c].pc \in Asking => Unsaid("user", chat'[c].turn)
             /\ chat'[c].pc \in Asking \cup {"assistant"} =>
                  Unsaid("assistant", chat'[c].turn)
  BY <1>2, <1>3 DEF OnceInv
<1>4. \A c \in Clients : \A role : Unsaid(role, chat[c].turn)' <=> Unsaid(role, chat'[c].turn)
  BY DEF Unsaid
<1>. QED
  BY <1>1, <1>3, <1>4 DEF OnceInv

LEMMA AppendUnsaid ==
  ASSUME messages \in [Sessions -> Seq(Message)], NEW s \in Sessions,
         NEW role \in {"user", "assistant"}, NEW n \in Nat,
         AppendMessage(s, role, n),
         NEW r, NEW m, r # role \/ m # n, Unsaid(r, m)
  PROVE  Unsaid(r, m)'
<1> DEFINE new == [role |-> role, turn |-> n]
<1>1. new \in Message /\ new # [role |-> r, turn |-> m]
  BY DEF Message
<1>2. messages' = [messages EXCEPT ![s] = Append(messages[s], new)]
  BY DEF AppendMessage
<1> HIDE DEF new
<1>3. ASSUME NEW t \in Sessions, NEW k \in DOMAIN messages'[t]
      PROVE  messages'[t][k] # [role |-> r, turn |-> m]
  <2>1. CASE t # s
    BY <1>2, <2>1 DEF Unsaid
  <2>2. CASE t = s
    <3>1. messages'[t] = Append(messages[s], new) /\ messages[s] \in Seq(Message)
      BY <1>2, <2>2
    <3>2. k \in 1 .. Len(messages[s]) + 1
      BY <1>1, <3>1
    <3>3. CASE k = Len(messages[s]) + 1
      BY <1>1, <3>1, <3>3
    <3>4. CASE k \in 1 .. Len(messages[s])
      <4>1. messages'[t][k] = messages[s][k] /\ k \in DOMAIN messages[s]
        BY <1>1, <3>1, <3>4
      <4>. QED
        BY <4>1 DEF Unsaid
    <3>. QED
      BY <3>2, <3>3, <3>4
  <2>. QED
    BY <2>1, <2>2
<1>. QED
  BY <1>3 DEF Unsaid

\* Storing the question or the answer of a request.
LEMMA StoringOnce ==
  ASSUME ChatAssumption, BotTypeOK, OnceInv, NEW c \in Clients,
         NEW role \in {"user", "assistant"},
         chat[c].pc = IF role = "user" THEN "user" ELSE "assistant",
         AppendMessage(chat[c].session, role, chat[c].turn),
         chat' = [chat EXCEPT ![c].pc = IF role = "user" THEN "assistant" ELSE "answer"],
         UNCHANGED turns
  PROVE  OnceInv'
<1> DEFINE s == chat[c].session
           n == chat[c].turn
<1>1. /\ messages \in [Sessions -> Seq(Message)]
      /\ s \in Sessions /\ n \in Nat /\ n \in 1 .. turns /\ turns \in Nat
  BY DEF BotTypeOK, ChatTypeOK, ChatState, OnceInv
<1>2. \A r, m : r # role \/ m # n => (Unsaid(r, m) => Unsaid(r, m)')
  <2> HIDE DEF s, n
  <2>1. AppendMessage(s, role, n)
    BY DEF s, n
  <2>. QED
    BY <1>1, <2>1, AppendUnsaid
<1>3. /\ chat'[c].pc = IF role = "user" THEN "assistant" ELSE "answer"
      /\ \A d \in Clients : chat'[d].turn = chat[d].turn
      /\ \A d \in Clients \ {c} : chat'[d].pc = chat[d].pc
  BY DEF BotTypeOK, ChatTypeOK, ChatState
<1>4. \A m \in turns + 1 .. MaxTurns : m # n
  BY <1>1, ChatAssumption
<1> HIDE DEF s, n
<1>5. \A m \in turns' + 1 .. MaxTurns : Unsaid("user", m)' /\ Unsaid("assistant", m)'
  BY <1>2, <1>4 DEF OnceInv
<1>6. \A d \in Clients : chat[d].pc # "idle" <=> chat'[d].pc # "idle"
  BY <1>3
<1>7. ASSUME NEW d \in Clients, chat'[d].pc # "idle"
      PROVE  /\ chat'[d].pc \in Asking => Unsaid("user", chat[d].turn)'
             /\ chat'[d].pc \in Asking \cup {"assistant"} =>
                  Unsaid("assistant", chat[d].turn)'
  <2> DEFINE m == chat[d].turn
  <2>1. m' = m
    BY <1>3
  <2>2. CASE d = c
    <3>1. chat'[d].pc \notin Asking
      BY <1>3, <2>2 DEF Asking
    <3>2. chat'[d].pc = "assistant" => role = "user" /\ Unsaid("assistant", m)
      BY <1>3, <2>2 DEF OnceInv, Asking
    <3> HIDE DEF m
    <3>3. \A x : x = m => (role = "user" /\ Unsaid("assistant", x) => Unsaid("assistant", x)')
      BY <1>2
    <3>4. chat'[d].pc = "assistant" => Unsaid("assistant", m)'
      BY <2>1, <3>2, <3>3 DEF Unsaid
    <3>. QED
      BY <1>7, <3>1, <3>4 DEF m
  <2>3. CASE d # c
    <3>1. m # n /\ chat'[d].pc = chat[d].pc
      BY <1>3, <1>7, <2>3 DEF OnceInv, n
    <3>2. /\ chat[d].pc \in Asking => Unsaid("user", m)
          /\ chat[d].pc \in Asking \cup {"assistant"} => Unsaid("assistant", m)
      BY <1>7, <3>1 DEF OnceInv
    <3> HIDE DEF m
    <3>3. \A x, r : x = m => (Unsaid(r, x) => Unsaid(r, x)')
      BY <1>2, <3>1
    <3>4. \A r : Unsaid(r, m) => Unsaid(r, m)'
      BY <2>1, <3>3 DEF Unsaid
    <3>. QED
      BY <3>1, <3>2, <3>4 DEF m
  <2>. QED
    BY <2>2, <2>3
<1>. QED
  BY <1>1, <1>3, <1>5, <1>6, <1>7 DEF OnceInv

LEMMA StartingOnce ==
  ASSUME ChatAssumption, BotTypeOK, OnceInv, NEW c \in Clients, StartChat(c)
  PROVE  OnceInv'
<1> DEFINE first == FirstStep(IF known[c] = None THEN "session" ELSE "history")
           w == [NoChat EXCEPT !.pc = first, !.handle = handle[c],
                               !.session = known[c], !.turn = turns + 1]
<1>1. first \in Asking
  BY DEF FirstStep, Asking
<1>2. /\ chat' = [chat EXCEPT ![c] = w] /\ UNCHANGED messages
      /\ turns' = turns + 1 /\ turns < MaxTurns /\ chat[c].pc = "idle"
  BY DEF StartChat
<1> HIDE DEF first
<1>3. w.pc = first /\ w.turn = turns + 1
  BY DEF NoChat
<1> HIDE DEF w
<1>4. \A d \in Clients : chat'[d] = IF d = c THEN w ELSE chat[d]
  BY <1>2 DEF BotTypeOK, ChatTypeOK
<1>5. turns \in Nat /\ turns' \in 0 .. MaxTurns /\ turns + 1 \in turns + 1 .. MaxTurns
      /\ 1 .. turns \subseteq 1 .. turns' /\ turns + 1 \notin 1 .. turns
      /\ turns + 1 \in 1 .. turns'
      /\ turns' + 1 .. MaxTurns \subseteq turns + 1 .. MaxTurns
  BY <1>2, ChatAssumption DEF OnceInv
<1>6. \A role, n : Unsaid(role, n)' <=> Unsaid(role, n)
  BY <1>2 DEF Unsaid
<1>7. \A n \in turns' + 1 .. MaxTurns : Unsaid("user", n)' /\ Unsaid("assistant", n)'
  BY <1>5, <1>6 DEF OnceInv
<1>8. ASSUME NEW d \in Clients, chat'[d].pc # "idle"
      PROVE  /\ chat'[d].turn \in 1 .. turns'
             /\ d # c => chat'[d].turn # turns + 1
             /\ chat'[d].pc \in Asking => Unsaid("user", chat'[d].turn)
             /\ chat'[d].pc \in Asking \cup {"assistant"} =>
                  Unsaid("assistant", chat'[d].turn)
  <2>1. CASE d = c
    BY <1>3, <1>4, <1>5, <2>1 DEF OnceInv
  <2>2. CASE d # c
    BY <1>4, <1>5, <1>8, <2>2 DEF OnceInv
  <2>. QED
    BY <2>1, <2>2
<1>9. ASSUME NEW d \in Clients, chat'[d].pc # "idle",
             NEW e \in Clients \ {d}, chat'[e].pc # "idle"
      PROVE  chat'[e].turn # chat'[d].turn
  <2>1. CASE d = c \/ e = c
    BY <1>3, <1>4, <1>8, <1>9, <2>1
  <2>2. CASE d # c /\ e # c
    BY <1>4, <1>9, <2>2 DEF OnceInv
  <2>. QED
    BY <2>1, <2>2
<1>10. \A d \in Clients : \A role : Unsaid(role, chat[d].turn)' <=> Unsaid(role, chat'[d].turn)
  BY <1>2 DEF Unsaid
<1>. QED
  BY <1>5, <1>7, <1>8, <1>9, <1>10 DEF OnceInv

LEMMA NextOnce ==
  ASSUME ChatAssumption, BotTypeOK, OnceInv, [BotNext]_botVars
  PROVE  OnceInv'
<1>1. chat \in [Clients -> ChatState] /\ NoChat.pc = "idle"
  BY DEF BotTypeOK, ChatTypeOK, NoChat
<1>2. ASSUME NEW c \in Clients, StartChat(c)
      PROVE  OnceInv'
  BY <1>2, StartingOnce
<1>3. ASSUME NEW c \in Clients, ConnectForChat(c) \/ CreateSession(c) \/ ReadHistory(c)
                                  \/ AskModel(c)
      PROVE  OnceInv'
  <2>1. \A d \in Clients \ {c} : chat'[d] = chat[d]
    BY <1>1, <1>3 DEF ConnectForChat, CreateSession, ReadHistory, AskModel
  <2>2. /\ chat[c].pc \in Asking /\ chat'[c].pc \in Asking
        /\ chat'[c].turn = chat[c].turn
    BY <1>1, <1>3 DEF ConnectForChat, CreateSession, ReadHistory, AskModel, ChatState,
       Asking
  <2>3. chat[c].pc # "idle" /\ chat'[c].pc # "assistant"
    BY <2>2 DEF Asking
  <2>4. \A d \in Clients : GoesOn(d)
    BY <2>1, <2>2, <2>3 DEF GoesOn
  <2>5. UNCHANGED <<messages, turns>>
    BY <1>3 DEF ConnectForChat, CreateSession, ReadHistory, AskModel
  <2>. QED
    BY <2>4, <2>5, QuietOnce
<1>4. ASSUME NEW c \in Clients, StoreQuestion(c)
      PROVE  OnceInv'
  BY <1>4, StoringOnce DEF StoreQuestion
<1>5. ASSUME NEW c \in Clients, StoreAnswer(c)
      PROVE  OnceInv'
  BY <1>5, StoringOnce DEF StoreAnswer
<1>6. ASSUME NEW c \in Clients, ReceiveAnswer(c) \/ ChatFails(c)
      PROVE  OnceInv'
  <2>1. \A d \in Clients : chat'[d] = IF d = c THEN NoChat ELSE chat[d]
    BY <1>1, <1>6 DEF ReceiveAnswer, ChatFails
  <2>2. \A d \in Clients : GoesOn(d)
    BY <1>1, <2>1 DEF GoesOn
  <2>. QED
    BY <1>6, <2>2, QuietOnce DEF ReceiveAnswer, ChatFails
<1>7. ASSUME NEW c \in Clients,
             NewChat(c) \/ OpenPastSession(c) \/ \E h \in Handles : Connect(c, h)
      PROVE  OnceInv'
  BY <1>7, QuietOnce DEF NewChat, OpenPastSession, Connect, GoesOn
<1>8. CASE BotStops
  <2>1. \A d \in Clients : chat'[d] = NoChat
    BY <1>8 DEF BotStops
  <2>2. \A d \in Clients : GoesOn(d)
    BY <1>1, <2>1 DEF GoesOn
  <2>. QED
    BY <1>8, <2>2, QuietOnce DEF BotStops
<1>9. CASE UNCHANGED chatVars
  BY <1>9, QuietOnce DEF chatVars, GoesOn
<1>. QED
  BY <1>2, <1>3, <1>4, <1>5, <1>6, <1>7, <1>8, <1>9
  DEF BotNext, IngestStep, ChatStep, ChatNext, ChatGoesOn, botVars

LEMMA OnceKept == BotSpec => []OnceInv
<1>1. BotInit => OnceInv
  BY ChatAssumption DEF BotInit, ChatInit, OnceInv, Unsaid, NoChat
<1>2. BotTypeOK /\ OnceInv /\ [BotNext]_botVars => OnceInv'
  BY NextOnce, ChatAssumption
<1>. QED
  BY <1>1, <1>2, BotTypeCorrect, PTL DEF BotSpec

\* Only these store a message.
LEMMA StoringSteps ==
  ASSUME [BotNext]_botVars
  PROVE  UNCHANGED messages \/ \E c \in Clients : StoreQuestion(c) \/ StoreAnswer(c)
<1>1. ASSUME NEW c \in Clients,
             \/ StartChat(c) \/ ConnectForChat(c) \/ CreateSession(c) \/ ReadHistory(c)
             \/ AskModel(c) \/ ReceiveAnswer(c) \/ ChatFails(c) \/ NewChat(c)
             \/ OpenPastSession(c) \/ \E h \in Handles : Connect(c, h)
      PROVE  UNCHANGED messages
  BY <1>1 DEF StartChat, ConnectForChat, CreateSession, ReadHistory, AskModel,
     ReceiveAnswer, ChatFails, NewChat, OpenPastSession, Connect
<1>2. CASE BotStops \/ UNCHANGED chatVars
  BY <1>2 DEF BotStops, chatVars
<1>. QED
  BY <1>1, <1>2 DEF BotNext, IngestStep, ChatStep, ChatNext, ChatGoesOn, botVars

LEMMA BotTalkStep ==
  ASSUME BotTypeOK, DialogueInv, OnceInv, [BotNext]_botVars
  PROVE  [Talk!Next]_messages
<1>1. ASSUME NEW c \in Clients, StoreQuestion(c)
      PROVE  Talk!Next
  <2> DEFINE s == chat[c].session
             n == chat[c].turn
  <2>1. /\ s \in Sessions /\ n \in 1 .. MaxTurns
        /\ Unsaid("user", n) /\ Unsaid("assistant", n)
    <3>1. /\ s \in Sessions /\ n \in 1 .. turns /\ turns \in 0 .. MaxTurns
          /\ Unsaid("user", n) /\ Unsaid("assistant", n)
      BY <1>1 DEF StoreQuestion, BotTypeOK, ChatTypeOK, ChatState, OnceInv, Asking
    <3>. QED
      BY <3>1, ChatAssumption
  <2>2. Talk!Say(s, "user", n)
    BY <1>1 DEF StoreQuestion, AppendMessage, Talk!Say
  <2> HIDE DEF s, n
  <2>3. Talk!Ask(s, n)
    BY <2>1, <2>2 DEF Talk!Ask, Talk!Speakers, Talk!SaidAnywhere, Talk!Said, Unsaid
  <2>. QED
    BY <2>1, <2>3 DEF Talk!Next
<1>2. ASSUME NEW c \in Clients, StoreAnswer(c)
      PROVE  Talk!Next
  <2> DEFINE s == chat[c].session
             n == chat[c].turn
  <2>1. s \in Sessions /\ n \in 1 .. MaxTurns /\ Unsaid("assistant", n)
    <3>1. /\ s \in Sessions /\ n \in 1 .. turns /\ turns \in 0 .. MaxTurns
          /\ Unsaid("assistant", n)
      BY <1>2 DEF StoreAnswer, BotTypeOK, ChatTypeOK, ChatState, OnceInv, Asking
    <3>. QED
      BY <3>1, ChatAssumption
  <2>2. Talk!Said(s, "user", n)
    BY <1>2 DEF StoreAnswer, DialogueInv, Talk!Said
  <2>3. Talk!Say(s, "assistant", n)
    BY <1>2 DEF StoreAnswer, AppendMessage, Talk!Say
  <2> HIDE DEF s, n
  <2>4. Talk!Answer(s, n)
    BY <2>1, <2>2, <2>3 DEF Talk!Answer, Talk!SaidAnywhere, Talk!Said, Unsaid
  <2>. QED
    BY <2>1, <2>4 DEF Talk!Next
<1>. QED
  BY <1>1, <1>2, StoringSteps

\* The messages of the sessions are a conversation, for any tabs, sessions,
\* requests and window.
THEOREM BotSpeaksConversations == BotSpec => SessionsAreConversations
<1>1. BotInit => Talk!Init
  BY DEF BotInit, ChatInit, Talk!Init
<1>2. BotTypeOK /\ DialogueInv /\ OnceInv /\ [BotNext]_botVars => [Talk!Next]_messages
  BY BotTalkStep
<1>. QED
  BY <1>1, <1>2, BotTypeCorrect, DialogueKept, OnceKept, PTL
     DEF BotSpec, SessionsAreConversations, Talk!Spec
=============================================================================
