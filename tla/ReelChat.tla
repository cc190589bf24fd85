------------------------------ MODULE ReelChat ------------------------------
(***************************************************************************)
(* POST /reel-bot/chat and the browser tabs that send it.  A request       *)
(* creates a session when it has none, reads the reels and the remembered  *)
(* messages, asks the model, and only then stores the question and the     *)
(* answer, by two statements.  A tab learns the session id from a          *)
(* successful answer or from the list of past sessions, so several tabs    *)
(* may talk in one session at the same time.  (A tab that gives up on a    *)
(* request the server still works on is two tabs to the tables: one that   *)
(* never learns of the answer, one that goes on.)                          *)
(*                                                                         *)
(* A message is its role and the turn it belongs to.  Rows are kept in the *)
(* order of "createdAt", which is taken right before the insert.           *)
(***************************************************************************)
EXTENDS ReelPool

CONSTANTS
  Handles,   \* Instagram handles that the tabs connect to
  Sessions,  \* "ReelBotSession" ids; their number bounds the sessions created
  HandleOf,  \* HandleOf[s]: the handle s is created for, if it is created
  Window,    \* REEL_BOT_MEMORY_WINDOW
  MaxTurns   \* bound: chat requests

ASSUME ChatAssumption ==
  /\ None \notin Sessions
  /\ HandleOf \in [Sessions -> Handles]
  /\ Window \in Nat
  /\ MaxTurns \in Nat

VARIABLES
  sessions,  \* the rows of "ReelBotSession"
  messages,  \* messages[s]: the "ReelBotChatMessage" rows of s
  handle,    \* handle[c]: the handle the tab is connected to
  known,     \* known[c]: sessionId of the tab, or None
  chat,      \* chat[c]: the local variables of the request
  turns      \* requests sent

chatVars == <<sessions, messages, handle, known, chat, turns>>

Message == [role : {"user", "assistant"}, turn : Nat]

NoChat ==
  [pc |-> "idle", handle |-> None, session |-> None, turn |-> 0, history |-> <<>>]

ChatState ==
  {w \in [pc : {"idle", "connect", "session", "history", "llm", "user",
                "assistant", "answer"},
          handle : Handles \cup {None},    \* instagram_handle
          session : Sessions \cup {None},  \* session_id
          turn : Nat,                      \* the turn this request is
          history : Seq(Message)] :        \* memory.get_recent
     w.pc \in {"history", "llm", "user", "assistant", "answer"} =>
       w.session \in Sessions}

ChatTypeOK ==
  /\ sessions \in SUBSET Sessions
  /\ messages \in [Sessions -> Seq(Message)]
  /\ handle \in [Clients -> Handles]
  /\ known \in [Clients -> Sessions \cup {None}]
  /\ chat \in [Clients -> ChatState]
  /\ turns \in Nat

\* A tab is followed from its first connection on.
ChatInit ==
  /\ sessions = {}
  /\ messages = [s \in Sessions |-> <<>>]
  /\ handle \in [Clients -> Handles]
  /\ known = [c \in Clients |-> None]
  /\ chat = [c \in Clients |-> NoChat]
  /\ turns = 0

\* list_sessions: the sessions of a handle but those without a user message.
\* (It answers the newest 20; the list that a tab shows may be an older one.)
Previewed(h) ==
  {s \in sessions : /\ HandleOf[s] = h
                    /\ \E k \in DOMAIN messages[s] : messages[s][k].role = "user"}

\* get_recent_messages: ORDER BY "createdAt" ASC LIMIT Window
Remembered(log) ==
  SubSeq(log, 1, IF Len(log) > Window THEN Window ELSE Len(log))

AppendMessage(s, role, turn) ==
  messages' = [messages EXCEPT ![s] = Append(@, [role |-> role, turn |-> turn])]

-----------------------------------------------------------------------------
\* The tab sends one message at a time.
StartChat(c) ==
  /\ chat[c].pc = "idle"
  /\ turns < MaxTurns
  /\ turns' = turns + 1
  /\ chat' = [chat EXCEPT ![c] =
       [NoChat EXCEPT
          !.pc = FirstStep(IF known[c] = None THEN "session" ELSE "history"),
          !.handle = handle[c],
          !.session = known[c],
          !.turn = turns + 1]]
  /\ UNCHANGED <<poolVars, sessions, messages, handle, known>>

ConnectForChat(c) ==
  /\ chat[c].pc = "connect"
  /\ ConnectPool(c)
  /\ chat' = [chat EXCEPT
       ![c].pc = IF chat[c].session = None THEN "session" ELSE "history"]
  /\ UNCHANGED <<sessions, messages, handle, known, turns>>

\* Mutant of CreateSession: the tab knows the session before its first answer.
CreateSessionKnown(c) ==
  /\ chat[c].pc = "session"
  /\ \E s \in Sessions \ sessions :
       /\ HandleOf[s] = chat[c].handle
       /\ sessions' = sessions \cup {s}
       /\ chat' = [chat EXCEPT ![c].pc = "history", ![c].session = s]
       /\ known' = [known EXCEPT ![c] = s]
  /\ UNCHANGED <<poolVars, messages, handle, turns>>

CreateSession(c) ==
  /\ chat[c].pc = "session"
  /\ \E s \in Sessions \ sessions :
       /\ HandleOf[s] = chat[c].handle
       /\ sessions' = sessions \cup {s}
       /\ chat' = [chat EXCEPT ![c].pc = "history", ![c].session = s]
  /\ UNCHANGED <<poolVars, messages, handle, known, turns>>

\* get_recent_reels, whose result is not followed here, then the messages.
ReadHistory(c) ==
  /\ chat[c].pc = "history"
  /\ chat' = [chat EXCEPT ![c].pc = "llm",
                          ![c].history = Remembered(messages[chat[c].session])]
  /\ UNCHANGED <<poolVars, sessions, messages, handle, known, turns>>

\* Mutant of AskModel: a failed call starts over without limit.
AskModelForEver(c) ==
  /\ chat[c].pc = "llm"
  /\ \E next \in {"history", "user"} :
       chat' = [chat EXCEPT ![c].pc = next]
  /\ UNCHANGED <<poolVars, sessions, messages, handle, known, turns>>

AskModel(c) ==
  /\ chat[c].pc = "llm"
  /\ chat' = [chat EXCEPT ![c].pc = "user"]
  /\ UNCHANGED <<poolVars, sessions, messages, handle, known, turns>>

\* Mutant of StoreQuestion: a failed insert is logged and the request goes on.
StoreQuestionOrGoOn(c) ==
  /\ chat[c].pc = "user"
  /\ \/ AppendMessage(chat[c].session, "user", chat[c].turn)
     \/ UNCHANGED messages
  /\ chat' = [chat EXCEPT ![c].pc = "assistant"]
  /\ UNCHANGED <<poolVars, sessions, handle, known, turns>>

\* Mutant of StoreQuestion: the statement is tried again when it seems to have failed.
StoreQuestionRetried(c) ==
  /\ chat[c].pc = "user"
  /\ AppendMessage(chat[c].session, "user", chat[c].turn)
  /\ \E next \in {"user", "assistant"} : chat' = [chat EXCEPT ![c].pc = next]
  /\ UNCHANGED <<poolVars, sessions, handle, known, turns>>

StoreQuestion(c) ==
  /\ chat[c].pc = "user"
  /\ AppendMessage(chat[c].session, "user", chat[c].turn)
  /\ chat' = [chat EXCEPT ![c].pc = "assistant"]
  /\ UNCHANGED <<poolVars, sessions, handle, known, turns>>

StoreAnswer(c) ==
  /\ chat[c].pc = "assistant"
  /\ AppendMessage(chat[c].session, "assistant", chat[c].turn)
  /\ chat' = [chat EXCEPT ![c].pc = "answer"]
  /\ UNCHANGED <<poolVars, sessions, handle, known, turns>>

\* The answer reaches the tab.
ReceiveAnswer(c) ==
  /\ chat[c].pc = "answer"
  /\ known' = [known EXCEPT ![c] = chat[c].session]
  /\ chat' = [chat EXCEPT ![c] = NoChat]
  /\ UNCHANGED <<poolVars, sessions, messages, handle, turns>>

\* Any await raises, or the answer is lost on its way: the tab shows an error
\* and keeps the session id it had; what was stored stays.
ChatFails(c) ==
  /\ chat[c].pc # "idle"
  /\ chat' = [chat EXCEPT ![c] = NoChat]
  /\ UNCHANGED <<poolVars, sessions, messages, handle, known, turns>>

\* New chat.  The sidebar works while a request is under way, so the tab may have
\* left a session when the answer puts it back there.
NewChat(c) ==
  /\ known' = [known EXCEPT ![c] = None]
  /\ UNCHANGED <<poolVars, sessions, messages, handle, chat, turns>>

\* New account, and the connection to a handle: likewise.
Connect(c, h) ==
  /\ handle' = [handle EXCEPT ![c] = h]
  /\ known' = [known EXCEPT ![c] = None]
  /\ UNCHANGED <<poolVars, sessions, messages, chat, turns>>

\* A late answer of list_sessions shows the sessions of a handle that the tab has
\* left, and so does a late answer for the messages of the session chosen.
OpenPastSession(c) ==
  /\ \E h \in Handles : \E s \in Previewed(h) : known' = [known EXCEPT ![c] = s]
  /\ UNCHANGED <<poolVars, sessions, messages, handle, chat, turns>>

ChatGoesOn(c) ==
  \/ ConnectForChat(c)
  \/ CreateSession(c)
  \/ ReadHistory(c)
  \/ AskModel(c)
  \/ StoreQuestion(c)
  \/ StoreAnswer(c)
  \/ ReceiveAnswer(c)
  \/ ChatFails(c)

ChatNext ==
  \E c \in Clients :
    \/ StartChat(c)
    \/ ChatGoesOn(c)
    \/ NewChat(c)
    \/ \E h \in Handles : Connect(c, h)
    \/ OpenPastSession(c)
=============================================================================
