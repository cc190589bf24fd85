------------------------------- MODULE Agent -------------------------------
(***************************************************************************)
(* A turn of the agent (routes/agent.py): POST /agent/chat, its stream and *)
(* the web socket check the session and run the conversation graph, which   *)
(* loads the memory of the session first, works on its own state, and       *)
(* stores the question, the answer and the summary last.  Turns share the   *)
(* session with each other and with the routes of Sessions.                 *)
(***************************************************************************)
EXTENDS AgentGraph, Sessions

CONSTANTS
  Tabs,         \* clients of the agent; each waits for its answer
  MaxTurns,     \* bound: turns of a tab
  MemoryLimit,  \* the 50 of get_conversation_memory
  SummaryLimit  \* the 1000 characters of _build_summary, in parts

Turns == Tabs \X (1 .. MaxTurns)

SessionRow == [summary : Seq(Turns \cup Editors), writes : Nat]

ASSUME AgentAssumption ==
  /\ MaxTurns \in Nat /\ MemoryLimit \in Nat /\ SummaryLimit \in Nat \ {0}
  /\ Turns \cap Editors = {} /\ None \notin Turns /\ None \notin SessionRow

VARIABLES
  turns,  \* turns[w]: the state of the graph in the turn of w
  ended   \* ended[t]: how turn t ended

agentVars == <<sessionVars, turns, ended>>

Endings == {"not yet", "answered", "canned", "error", "cut"}

NoMemory == [messages |-> <<>>]

NoTurn(n) == [pc |-> "idle", number |-> n, stream |-> FALSE, session |-> None,
              pinned |-> 0, memory |-> NoMemory, summary |-> <<>>]

TurnOf(w) == <<w, turns[w].number>>

AgentInit ==
  /\ SessionsInit
  /\ turns = [w \in Tabs |-> NoTurn(0)]
  /\ ended = [t \in Turns |-> "not yet"]

\* dict.get
Get(record, key, default) ==
  IF key \in DOMAIN record THEN record[key] ELSE default

\* Mutant of ConversationMemory: the messages are left out.
MemoryWithoutLog(log, row) == [session |-> row]

\* get_conversation_memory: the first messages of the session and its row.  The
\* summary is inside the row, not a key of the memory.
ConversationMemory(log, row) == [session |-> row, messages |-> log]

\* _build_summary: the existing summary, then this turn, cut at the end.
BuildSummary(existing, turn) == AtMost(SummaryLimit, existing \o <<turn>>)

-----------------------------------------------------------------------------
Finish(w, ending) ==
  /\ turns' = [turns EXCEPT ![w] = NoTurn(turns[w].number)]
  /\ ended' = [ended EXCEPT ![TurnOf(w)] = ending]

\* _validate_session, and the transcription of the reels that POST /agent/chat
\* may ask for, of which some have a transcript.  The web socket runs the graph
\* as POST /agent/chat does without reels.
StartTurn(w, s) ==
  /\ turns[w].pc = "idle"
  /\ turns[w].number < MaxTurns
  /\ sessions[s] # None
  /\ \E stream \in BOOLEAN, pinned \in 0 .. MaxPinned :
       /\ stream => pinned = 0
       /\ turns' = [turns EXCEPT ![w] =
            [NoTurn(turns[w].number + 1) EXCEPT
               !.pc = "messages", !.stream = stream, !.session = s,
               !.pinned = pinned]]
  /\ UNCHANGED <<sessionVars, ended>>

\* Mutant of ReadMessages: the question is stored when the turn begins.
ReadMessagesStoring(w) ==
  /\ turns[w].pc = "messages"
  /\ StoreMessage(turns[w].session, "user", TurnOf(w))
  /\ turns' = [turns EXCEPT ![w].pc = "session",
       ![w].memory.messages = AtMost(MemoryLimit, messages[turns[w].session])]
  /\ UNCHANGED <<sessions, cache, gets, puts, edits, posts, invalidated, ended>>

\* get_conversation_memory is two queries.
ReadMessages(w) ==
  /\ turns[w].pc = "messages"
  /\ turns' = [turns EXCEPT ![w].pc = "session",
       ![w].memory.messages = AtMost(MemoryLimit, messages[turns[w].session])]
  /\ UNCHANGED <<sessionVars, ended>>

ReadSession(w) ==
  /\ turns[w].pc = "session"
  /\ turns' = [turns EXCEPT ![w].pc = "think",
       ![w].memory = ConversationMemory(@.messages, sessions[turns[w].session])]
  /\ UNCHANGED <<sessionVars, ended>>

\* The graph raises in a query of the memory, or in the citation builder: a
\* RuntimeError is answered with a canned text, anything else with an error.
TurnRaises(w) ==
  /\ turns[w].pc \in {"messages", "session"}
  /\ Finish(w, "canned") \/ Finish(w, "error")
  /\ UNCHANGED sessionVars

\* The nodes from query_understanding to citation_builder, and the summary that
\* memory_update_node builds before it stores anything.
Think(w) ==
  LET existing == Get(turns[w].memory, "summary", <<>>)
  IN  /\ turns[w].pc = "think"
      /\ \E answer \in Answers[turns[w].pinned] :
           IF answer.mode = "raises" THEN Finish(w, "error")
           ELSE /\ turns' = [turns EXCEPT ![w] =
                     [@ EXCEPT !.pc = "question",
                               !.pinned = 0, !.memory = NoMemory,
                               !.summary = BuildSummary(existing, TurnOf(w))]]
                /\ UNCHANGED ended
      /\ UNCHANGED sessionVars

\* memory_update_node: three statements in one try block.  An exception skips
\* the rest; the answer is given all the same.
StoreQuestion(w) ==
  /\ turns[w].pc = "question"
  /\ StoreMessage(turns[w].session, "user", TurnOf(w))
  /\ turns' = [turns EXCEPT ![w].pc = "answer"]
  /\ UNCHANGED <<sessions, cache, gets, puts, edits, posts, invalidated, ended>>

\* Mutant of StoreAnswer: the statement is tried again when it seems to have failed.
StoreAnswerRetried(w) ==
  /\ turns[w].pc = "answer"
  /\ StoreMessage(turns[w].session, "assistant", TurnOf(w))
  /\ \E next \in {"answer", "summary"} : turns' = [turns EXCEPT ![w].pc = next]
  /\ UNCHANGED <<sessions, cache, gets, puts, edits, posts, invalidated, ended>>

StoreAnswer(w) ==
  /\ turns[w].pc = "answer"
  /\ StoreMessage(turns[w].session, "assistant", TurnOf(w))
  /\ turns' = [turns EXCEPT ![w].pc = "summary"]
  /\ UNCHANGED <<sessions, cache, gets, puts, edits, posts, invalidated, ended>>

\* The summary is compared with the one of the memory, which is never there, so
\* every turn stores its own.
UpdateMemory(w) ==
  /\ turns[w].pc = "summary"
  /\ StoreSummary(turns[w].session, turns[w].summary)
  /\ Finish(w, "answered")
  /\ UNCHANGED <<messages, cache, gets, puts, edits, posts, invalidated>>

\* Mutant of StoringFails: the failed statement is passed over.
StoringGoesOn(w) ==
  /\ turns[w].pc \in {"question", "answer", "summary"}
  /\ IF turns[w].pc = "summary" THEN Finish(w, "answered")
     ELSE /\ turns' = [turns EXCEPT ![w].pc =
                IF @ = "question" THEN "answer" ELSE "summary"]
          /\ UNCHANGED ended
  /\ UNCHANGED sessionVars

StoringFails(w) ==
  /\ turns[w].pc \in {"question", "answer", "summary"}
  /\ Finish(w, "answered")
  /\ UNCHANGED sessionVars

\* The client of a stream goes away and the server cancels its generator.
Disconnect(w) ==
  /\ turns[w].pc # "idle" /\ turns[w].stream
  /\ Finish(w, "cut")
  /\ UNCHANGED sessionVars

\* The process stops and is started again: requests are lost, the tables and
\* Redis stay.
AgentStops ==
  LET running == {w \in Tabs : turns[w].pc # "idle"}
  IN  /\ turns' = [w \in Tabs |-> NoTurn(turns[w].number)]
      /\ ended' = [t \in Turns |->
           IF \E w \in running : t = TurnOf(w) THEN "cut" ELSE ended[t]]
      /\ gets' = [r \in Readers |-> NoGet]
      /\ puts' = [e \in Editors |-> NoPut]
      /\ UNCHANGED <<sessions, messages, cache, edits, posts, invalidated>>

TurnGoesOn(w) ==
  \/ ReadMessages(w)
  \/ ReadSession(w)
  \/ TurnRaises(w)
  \/ Think(w)
  \/ StoreQuestion(w)
  \/ StoreAnswer(w)
  \/ UpdateMemory(w)
  \/ StoringFails(w)

AgentNext ==
  \/ SessionsNext /\ UNCHANGED <<turns, ended>>
  \/ \E w \in Tabs :
       \/ \E s \in SessionIds : StartTurn(w, s)
       \/ TurnGoesOn(w)
       \/ Disconnect(w)
  \/ AgentStops

AgentSpec == AgentInit /\ [][AgentNext]_agentVars

-----------------------------------------------------------------------------
(* Properties. *)

Message == [role : {"user", "assistant"} \cup PostedRoles, turn : Turns \cup {None}]

Memory == [session : SessionRow, messages : Seq(Message)]

\* Every variable has its type.
AgentTypeOK ==
  /\ sessions \in [SessionIds -> SessionRow \cup {None}]
  /\ messages \in [SessionIds -> Seq(Message)]
  /\ \A k \in Keys : cache[k] # None =>
       /\ cache[k].copy \in [Covered(k) -> SessionRow \cup {None}]
       /\ cache[k].overlapped \in BOOLEAN
  /\ \A r \in Readers :
       /\ gets[r].pc \in {"idle", "read", "fill"}
       /\ gets[r].key \in Keys
       /\ gets[r].pc = "fill" =>
            gets[r].copy \in [Covered(gets[r].key) -> SessionRow \cup {None}]
  /\ puts \in [Editors -> [pc : {"idle", "update", "delete"},
                           session : SessionIds \cup {None}, wrote : Nat]]
  /\ edits \in 0 .. MaxEdits
  /\ posts \in 0 .. MaxPosts
  /\ invalidated \in [SessionIds -> Nat]
  /\ \A w \in Tabs :
       /\ turns[w].pc \in {"idle", "messages", "session", "think", "question",
                           "answer", "summary"}
       /\ turns[w].number \in 0 .. MaxTurns
       /\ turns[w].pc # "idle" => turns[w].session \in SessionIds
       /\ turns[w].pc = "think" => turns[w].memory \in Memory
       /\ turns[w].summary \in Seq(Turns)
  /\ ended \in [Turns -> Endings]

\* A turn answers with full confidence only about the creator: on the profile,
\* the analytics or a transcript the user pinned, whatever the model takes the
\* query for, whatever sources fail and however much the searches find; and it
\* cites at least one source.
FullAnswersAreGrounded ==
  \A w \in Tabs : turns[w].pc = "think" =>
    \A answer \in Answers[turns[w].pinned] :
      answer.mode = "full" => answer.own /\ answer.cited

Position(s, role, t) ==
  {k \in DOMAIN messages[s] : messages[s][k] = [role |-> role, turn |-> t]}

\* Whatever fails or is cut off, a session holds a prefix of what a turn
\* stores: the answer only after its question, and a summary of the turn only
\* with both.
TurnsAreStoredInOrder ==
  \A s \in SessionIds, t \in Turns :
    /\ \A a \in Position(s, "assistant", t) :
         \E q \in Position(s, "user", t) : q < a
    /\ sessions[s] # None /\ (\E k \in DOMAIN sessions[s].summary :
                                sessions[s].summary[k] = t) =>
         Position(s, "assistant", t) # {}

\* The messages of a session are a conversation, whatever turns, posts, failures
\* and restarts share it: nothing that is stored changes or goes, and a turn
\* stores its question once and its answer at most once, after it, in the same
\* session.
Talk == INSTANCE Conversation WITH Sessions <- SessionIds, log <- messages

SessionsAreConversations == Talk!Spec

\* A turn that is answered with an error or with the canned text leaves no
\* trace in the session: it can be sent again.
FailedTurnsLeaveNoTrace ==
  \A s \in SessionIds, t \in Turns : ended[t] \in {"canned", "error"} =>
    Position(s, "user", t) \cup Position(s, "assistant", t) = {}

\* Once a PUT has deleted the key of a session, a copy of the row from before
\* that PUT is in the cache only if the GET that stored it overlapped with the
\* deletion.  (Turns write the summary without deleting the key: those writes
\* are not counted here.)
StaleOnlyByOverlap ==
  \A s \in SessionIds :
    cache[s] # None /\ cache[s].copy[s] # None
      /\ cache[s].copy[s].writes < invalidated[s] => cache[s].overlapped

-----------------------------------------------------------------------------
(* What the documentation says, and the code does not do.                   *)

\* docs/langgraph.md, "Memory Update": "Concatenates existing summary,
\* preferences, query snippet, response preview (max 1000 chars)".
SummariesAccumulate ==
  [][\A w \in Tabs : UpdateMemory(w) =>
       LET s == turns[w].session
       IN  sessions'[s].summary = BuildSummary(sessions[s].summary, TurnOf(w))
    ]_agentVars
=============================================================================
