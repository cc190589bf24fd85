------------------------------ MODULE Sessions ------------------------------
(***************************************************************************)
(* Chat sessions: the "Session" and "ChatMessage" tables, the routes over   *)
(* them (routes/session.py), and the cache-aside copies in Redis (cache.py) *)
(* that GET answers from.  There are two kinds of keys: one per session,    *)
(* deleted by PUT /sessions/{id}/summary, and the list of the user's        *)
(* sessions, which nothing deletes.  The sessions are those of one user: a  *)
(* request of another user is refused and changes nothing.                  *)
(*                                                                         *)
(* A row is its summary, the writers it tells of, and the number of times   *)
(* it was written, by which copies of different age are told apart.         *)
(***************************************************************************)
EXTENDS Integers, Sequences

CONSTANTS
  None,
  SessionIds,
  PostedRoles,  \* what a client may give as the role of a message: any string
  Readers,      \* clients that send GET /sessions and GET /sessions/{id}
  Editors,      \* clients that send PUT /sessions/{id}/summary
  MaxEdits,     \* bound: PUT requests
  MaxPosts      \* bound: POST /sessions/{id}/messages

ListKey == "list"

ASSUME SessionsAssumption ==
  /\ ListKey \notin SessionIds
  /\ MaxEdits \in Nat /\ MaxPosts \in Nat

VARIABLES
  sessions,     \* sessions[s]: the row of s, or None
  messages,     \* messages[s]: the "ChatMessage" rows of s, by "createdAt"
  cache,        \* cache[k]: the entry of k in Redis, or None
  gets,         \* gets[r]: the local variables of a GET
  puts,         \* puts[e]: the local variables of a PUT
  edits,        \* PUT requests sent
  posts,        \* messages posted
  invalidated   \* invalidated[s]: the write that a PUT last deleted the key for

sessionVars ==
  <<sessions, messages, cache, gets, puts, edits, posts, invalidated>>

Keys == SessionIds \cup {ListKey}

Covered(k) == IF k = ListKey THEN SessionIds ELSE {k}

NoGet == [pc |-> "idle", key |-> ListKey, copy |-> None, overlapped |-> FALSE]

NoPut == [pc |-> "idle", session |-> None, wrote |-> 0]

\* What SELECT answers for a key.
CopyOf(k) == [s \in Covered(k) |-> sessions[s]]

SessionsInit ==
  /\ sessions = [s \in SessionIds |-> None]
  /\ messages = [s \in SessionIds |-> <<>>]
  /\ cache = [k \in Keys |-> None]
  /\ gets = [r \in Readers |-> NoGet]
  /\ puts = [e \in Editors |-> NoPut]
  /\ edits = 0
  /\ posts = 0
  /\ invalidated = [s \in SessionIds |-> 0]

\* update_session_summary
StoreSummary(s, summary) ==
  sessions' = [sessions EXCEPT ![s] =
                 [summary |-> summary, writes |-> sessions[s].writes + 1]]

\* create_chat_message
StoreMessage(s, role, turn) ==
  messages' = [messages EXCEPT ![s] = Append(@, [role |-> role, turn |-> turn])]

-----------------------------------------------------------------------------
\* POST /sessions
CreateSession(s) ==
  /\ sessions[s] = None
  /\ sessions' = [sessions EXCEPT ![s] = [summary |-> <<>>, writes |-> 0]]
  /\ UNCHANGED <<messages, cache, gets, puts, edits, posts, invalidated>>

\* POST /sessions/{id}/messages stores whatever role the request names.
PostMessage(s) ==
  /\ sessions[s] # None
  /\ posts < MaxPosts
  /\ posts' = posts + 1
  /\ \E role \in PostedRoles : StoreMessage(s, role, None)
  /\ UNCHANGED <<sessions, cache, gets, puts, edits, invalidated>>

-----------------------------------------------------------------------------
\* GET: an answer from the cache changes nothing.  The other requests go on to
\* the table: there is no entry, or Redis did not answer.
StartGet(r, k) ==
  /\ gets[r].pc = "idle"
  /\ gets' = [gets EXCEPT ![r] = [NoGet EXCEPT !.pc = "read", !.key = k]]
  /\ UNCHANGED <<sessions, messages, cache, puts, edits, posts, invalidated>>

\* A session that does not exist is answered 404.
ReadTable(r) ==
  /\ gets[r].pc = "read"
  /\ gets' = [gets EXCEPT ![r] =
       IF gets[r].key # ListKey /\ sessions[gets[r].key] = None THEN NoGet
       ELSE [gets[r] EXCEPT !.pc = "fill", !.copy = CopyOf(gets[r].key)]]
  /\ UNCHANGED <<sessions, messages, cache, puts, edits, posts, invalidated>>

\* cache_set, which swallows its errors; the request is answered.
FillCache(r) ==
  /\ gets[r].pc = "fill"
  /\ \/ cache' = [cache EXCEPT ![gets[r].key] =
          [copy |-> gets[r].copy, overlapped |-> gets[r].overlapped]]
     \/ UNCHANGED cache
  /\ gets' = [gets EXCEPT ![r] = NoGet]
  /\ UNCHANGED <<sessions, messages, puts, edits, posts, invalidated>>

GetFails(r) ==
  /\ gets[r].pc = "read"
  /\ gets' = [gets EXCEPT ![r] = NoGet]
  /\ UNCHANGED <<sessions, messages, cache, puts, edits, posts, invalidated>>

\* setex: Redis drops an entry after its time to live.
Expire(k) ==
  /\ cache[k] # None
  /\ cache' = [cache EXCEPT ![k] = None]
  /\ UNCHANGED <<sessions, messages, gets, puts, edits, posts, invalidated>>

-----------------------------------------------------------------------------
\* PUT: the session exists.
StartPut(e, s) ==
  /\ puts[e].pc = "idle"
  /\ edits < MaxEdits
  /\ sessions[s] # None
  /\ edits' = edits + 1
  /\ puts' = [puts EXCEPT ![e] = [NoPut EXCEPT !.pc = "update", !.session = s]]
  /\ UNCHANGED <<sessions, messages, cache, gets, posts, invalidated>>

\* Mutant of DeleteKey: the key of another cache is deleted.
DeleteListKey(s, wrote) ==
  /\ cache' = [cache EXCEPT ![ListKey] = None]
  /\ invalidated' = [invalidated EXCEPT ![s] = IF wrote > @ THEN wrote ELSE @]
  /\ gets' = [r \in Readers |->
       [gets[r] EXCEPT !.overlapped = @ \/ gets[r].key = s]]

\* cache_delete after the row was written for the "wrote"th time.  A GET of the
\* key that is under way has overlapped with the PUT.
DeleteKey(s, wrote) ==
  /\ cache' = [cache EXCEPT ![s] = None]
  /\ invalidated' = [invalidated EXCEPT ![s] = IF wrote > @ THEN wrote ELSE @]
  /\ gets' = [r \in Readers |->
       [gets[r] EXCEPT !.overlapped = @ \/ gets[r].key = s]]

UpdateSummary(e) ==
  LET s == puts[e].session
  IN  /\ puts[e].pc = "update"
      /\ StoreSummary(s, <<e>>)
      /\ puts' = [puts EXCEPT ![e].pc = "delete",
                              ![e].wrote = sessions[s].writes + 1]
      /\ UNCHANGED <<messages, cache, gets, edits, posts, invalidated>>

\* cache_delete swallows its errors; the request is answered either way.
Invalidate(e) ==
  /\ puts[e].pc = "delete"
  /\ \/ DeleteKey(puts[e].session, puts[e].wrote)
     \/ UNCHANGED <<cache, invalidated, gets>>
  /\ puts' = [puts EXCEPT ![e] = NoPut]
  /\ UNCHANGED <<sessions, messages, edits, posts>>

PutFails(e) ==
  /\ puts[e].pc = "update"
  /\ puts' = [puts EXCEPT ![e] = NoPut]
  /\ UNCHANGED <<sessions, messages, cache, gets, edits, posts, invalidated>>

GetGoesOn(r) == ReadTable(r) \/ FillCache(r) \/ GetFails(r)

PutGoesOn(e) == UpdateSummary(e) \/ Invalidate(e) \/ PutFails(e)

SessionsNext ==
  \/ \E s \in SessionIds : CreateSession(s) \/ PostMessage(s)
  \/ \E r \in Readers : GetGoesOn(r) \/ \E k \in Keys : StartGet(r, k)
  \/ \E e \in Editors : PutGoesOn(e) \/ \E s \in SessionIds : StartPut(e, s)
  \/ \E k \in Keys : Expire(k)
=============================================================================
