---------------------------- MODULE Agent_proofs ----------------------------
(***************************************************************************)
(* Theorems about the turns of the agent and the sessions they share with  *)
(* the routes, for any sessions, clients and numbers of requests.          *)
(***************************************************************************)
EXTENDS Agent, Graph_proofs

-----------------------------------------------------------------------------
(* The rows of "Session" and their copies. *)

Rows == SessionRow \cup {None}

Copies == {None} \cup UNION {[Covered(k) -> Rows] : k \in Keys}

GetRecord == [pc : {"idle", "read", "fill"}, key : Keys, copy : Copies,
              overlapped : BOOLEAN]

PutRecord == [pc : {"idle", "update", "delete"}, session : SessionIds \cup {None},
              wrote : Nat]

\* A row is written at least as often as the last deletion of its key knows.
RowsOK ==
  /\ sessions \in [SessionIds -> Rows]
  /\ puts \in [Editors -> PutRecord]
  /\ edits \in 0 .. MaxEdits
  /\ posts \in 0 .. MaxPosts
  /\ invalidated \in [SessionIds -> Nat]
  /\ \A e \in Editors :
       puts[e].pc # "idle" =>
         /\ puts[e].session \in SessionIds
         /\ sessions[puts[e].session] # None
         /\ puts[e].pc = "delete" => puts[e].wrote <= sessions[puts[e].session].writes
  /\ \A s \in SessionIds :
       /\ sessions[s] = None => invalidated[s] = 0
       /\ sessions[s] # None => invalidated[s] <= sessions[s].writes

\* A copy that is older than the last deletion belongs to a GET that overlapped.
CopiesOK ==
  /\ gets \in [Readers -> GetRecord]
  /\ \A r \in Readers :
       gets[r].pc = "fill" =>
         /\ gets[r].copy \in [Covered(gets[r].key) -> Rows]
         /\ gets[r].key # ListKey =>
              /\ gets[r].copy[gets[r].key] # None
              /\ gets[r].copy[gets[r].key].writes < invalidated[gets[r].key] =>
                   gets[r].overlapped
  /\ cache = [k \in Keys |-> cache[k]]
  /\ \A k \in Keys : cache[k] # None =>
       /\ cache[k].copy \in [Covered(k) -> Rows]
       /\ cache[k].overlapped \in BOOLEAN
  /\ StaleOnlyByOverlap

\* The turns of a session that exists.
SessionsExist ==
  \A w \in Tabs : turns[w].pc # "idle" =>
    turns[w].session \in SessionIds /\ sessions[turns[w].session] # None

LEMMA RowFields ==
  /\ \A row \in SessionRow : row.writes \in Nat /\ row.summary \in Seq(Turns \cup Editors)
                             /\ row # None
  /\ \A x \in Seq(Turns \cup Editors), n \in Nat :
       LET row == [summary |-> x, writes |-> n]
       IN  row \in SessionRow /\ row.summary = x /\ row.writes = n
BY AgentAssumption DEF SessionRow

\* A summary is stored in a row that exists.
LEMMA StoredSummary ==
  ASSUME sessions \in [SessionIds -> Rows], NEW s \in SessionIds, sessions[s] # None,
         NEW x \in Seq(Turns \cup Editors), StoreSummary(s, x)
  PROVE  /\ sessions' \in [SessionIds -> Rows]
         /\ sessions'[s] \in SessionRow /\ sessions'[s] # None
         /\ sessions'[s].summary = x /\ sessions'[s].writes = sessions[s].writes + 1
         /\ \A r \in SessionIds \ {s} : sessions'[r] = sessions[r]
<1>1. sessions[s] \in SessionRow /\ sessions[s].writes \in Nat
  BY RowFields DEF Rows
<1> DEFINE row == [summary |-> x, writes |-> sessions[s].writes + 1]
<1>2. row \in SessionRow /\ row.summary = x /\ row.writes = sessions[s].writes + 1
  <2>1. sessions[s].writes + 1 \in Nat
    BY <1>1
  <2>. QED
    BY <2>1, RowFields, Zenon
<1>3. sessions' = [sessions EXCEPT ![s] = row]
  BY DEF StoreSummary
<1> HIDE DEF row
<1>. QED
  BY <1>2, <1>3, RowFields DEF Rows

\* A row is only written, by one more, or created.
RowKept(s) ==
  sessions[s] # None =>
    sessions'[s] # None /\ sessions'[s].writes >= sessions[s].writes

LEMMA RowsOKStore ==
  ASSUME RowsOK, NEW s \in SessionIds, sessions[s] # None,
         NEW x \in Seq(Turns \cup Editors), StoreSummary(s, x),
         UNCHANGED <<puts, edits, posts, invalidated>>
  PROVE  RowsOK'
<1>1. /\ sessions' \in [SessionIds -> Rows] /\ sessions'[s] # None
      /\ sessions'[s].writes = sessions[s].writes + 1
      /\ \A r \in SessionIds \ {s} : sessions'[r] = sessions[r]
  BY StoredSummary DEF RowsOK
<1>2. sessions[s].writes \in Nat
  BY RowFields DEF RowsOK, Rows
<1>3. \A e \in Editors : puts[e].wrote \in Nat
  BY DEF RowsOK, PutRecord
<1>4. \A e \in Editors :
        puts[e].pc # "idle" =>
          /\ puts[e].session \in SessionIds
          /\ sessions'[puts[e].session] # None
          /\ puts[e].pc = "delete" => puts[e].wrote <= sessions'[puts[e].session].writes
  <2> SUFFICES ASSUME NEW e \in Editors, puts[e].pc # "idle"
               PROVE  /\ puts[e].session \in SessionIds
                      /\ sessions'[puts[e].session] # None
                      /\ puts[e].pc = "delete" =>
                           puts[e].wrote <= sessions'[puts[e].session].writes
    OBVIOUS
  <2>1. CASE puts[e].session = s
    BY <1>1, <1>2, <1>3, <2>1 DEF RowsOK
  <2>2. CASE puts[e].session # s
    BY <1>1, <2>2 DEF RowsOK
  <2>. QED
    BY <2>1, <2>2
<1>5. \A r \in SessionIds :
        /\ sessions'[r] = None => invalidated[r] = 0
        /\ sessions'[r] # None => invalidated[r] <= sessions'[r].writes
  BY <1>1, <1>2 DEF RowsOK
<1>. QED
  BY <1>1, <1>4, <1>5 DEF RowsOK

LEMMA RowsOKNext ==
  ASSUME RowsOK, SessionsExist, [AgentNext]_agentVars,
         \A w \in Tabs : turns[w].summary \in Seq(Turns)
  PROVE  RowsOK'
<1>1. CASE UNCHANGED <<sessions, puts, edits, posts, invalidated>>
  BY <1>1 DEF RowsOK
<1>2. ASSUME NEW s \in SessionIds, CreateSession(s)
      PROVE  RowsOK'
  <2>1. sessions' = [sessions EXCEPT ![s] = [summary |-> <<>>, writes |-> 0]]
        /\ sessions[s] = None /\ UNCHANGED <<puts, edits, posts, invalidated>>
    BY <1>2 DEF CreateSession
  <2>2. <<>> \in Seq(Turns \cup Editors) /\ 0 \in Nat
    OBVIOUS
  <2> DEFINE row == [summary |-> <<>>, writes |-> 0]
  <2>3. row \in SessionRow /\ row.writes = 0 /\ row # None
    BY <2>2, RowFields
  <2> HIDE DEF row
  <2>4. sessions' = [sessions EXCEPT ![s] = row]
    BY <2>1 DEF row
  <2>. QED
    BY <2>1, <2>3, <2>4 DEF RowsOK, Rows
<1>3. ASSUME NEW s \in SessionIds, PostMessage(s)
      PROVE  RowsOK'
  BY <1>3, SessionsAssumption DEF PostMessage, RowsOK
<1>4. ASSUME NEW e \in Editors, NEW s \in SessionIds, StartPut(e, s)
      PROVE  RowsOK'
  <2> DEFINE x == [NoPut EXCEPT !.pc = "update", !.session = s]
  <2>1. /\ puts' = [puts EXCEPT ![e] = x]
        /\ sessions[s] # None /\ UNCHANGED <<sessions, posts, invalidated>>
        /\ edits' = edits + 1 /\ edits < MaxEdits
    BY <1>4 DEF StartPut
  <2>2. edits' \in 0 .. MaxEdits
    BY <2>1, SessionsAssumption DEF RowsOK
  <2>3. x \in PutRecord /\ x.pc = "update" /\ x.session = s
    <3>1. NoPut \in PutRecord
      BY DEF NoPut, PutRecord
    <3>. QED
      BY <3>1 DEF PutRecord
  <2> HIDE DEF x
  <2>. QED
    BY <2>1, <2>2, <2>3 DEF RowsOK
<1>5. ASSUME NEW e \in Editors, UpdateSummary(e)
      PROVE  RowsOK'
  <2> DEFINE s == puts[e].session
             n == sessions[s].writes + 1
  <2>1. /\ s \in SessionIds /\ sessions[s] # None /\ puts[e].pc = "update"
        /\ <<e>> \in Seq(Turns \cup Editors)
        /\ StoreSummary(s, <<e>>)
        /\ puts' = [puts EXCEPT ![e] = [puts[e] EXCEPT !.pc = "delete", !.wrote = n]]
        /\ UNCHANGED <<edits, posts, invalidated>>
    <3>1. /\ s \in SessionIds /\ sessions[s] # None /\ puts[e].pc = "update"
          /\ StoreSummary(s, <<e>>) /\ UNCHANGED <<edits, posts, invalidated>>
      BY <1>5 DEF UpdateSummary, RowsOK
    <3>2. <<e>> \in Seq(Turns \cup Editors)
      OBVIOUS
    <3>3. puts' = [puts EXCEPT ![e] = [puts[e] EXCEPT !.pc = "delete", !.wrote = n]]
      BY <1>5 DEF UpdateSummary, RowsOK, PutRecord
    <3>. QED
      BY <3>1, <3>2, <3>3
  <2>2. n \in Nat /\ sessions[s].writes \in Nat
    BY <2>1, RowFields DEF RowsOK, Rows
  <2>3. /\ sessions' \in [SessionIds -> Rows] /\ sessions'[s] # None
        /\ sessions'[s].writes = n
        /\ \A r \in SessionIds \ {s} : sessions'[r] = sessions[r]
    BY <2>1, StoredSummary DEF RowsOK
  <2> HIDE DEF n
  <2>4. puts' \in [Editors -> PutRecord]
    BY <2>1, <2>2 DEF RowsOK, PutRecord
  <2>5. /\ puts'[e].pc = "delete" /\ puts'[e].session = s /\ puts'[e].wrote = n
        /\ \A d \in Editors \ {e} : puts'[d] = puts[d]
    BY <2>1 DEF RowsOK, PutRecord
  <2>6. ASSUME NEW d \in Editors, puts'[d].pc # "idle"
        PROVE  /\ puts'[d].session \in SessionIds
               /\ sessions'[puts'[d].session] # None
               /\ puts'[d].pc = "delete" =>
                    puts'[d].wrote <= sessions'[puts'[d].session].writes
    <3>1. CASE d = e
      BY <2>1, <2>2, <2>3, <2>5, <3>1
    <3>2. CASE d # e /\ puts[d].session = s
      <4>1. puts[d].wrote \in Nat /\ puts'[d] = puts[d] /\ puts[d].pc # "idle"
        BY <2>5, <2>6, <3>2 DEF RowsOK, PutRecord
      <4>2. puts[d].pc = "delete" => puts[d].wrote <= sessions[s].writes
        BY <3>2, <4>1 DEF RowsOK
      <4>. QED
        BY <2>1, <2>2, <2>3, <3>2, <4>1, <4>2 DEF n
    <3>3. CASE d # e /\ puts[d].session # s
      BY <2>3, <2>5, <2>6, <3>3 DEF RowsOK
    <3>. QED
      BY <3>1, <3>2, <3>3
  <2>7. \A r \in SessionIds :
          /\ sessions'[r] = None => invalidated[r] = 0
          /\ sessions'[r] # None => invalidated[r] <= sessions'[r].writes
    BY <2>1, <2>2, <2>3 DEF RowsOK, n
  <2>. QED
    BY <2>1, <2>3, <2>4, <2>6, <2>7 DEF RowsOK
<1>6. ASSUME NEW e \in Editors, Invalidate(e)
      PROVE  RowsOK'
  <2> DEFINE s == puts[e].session
  <2>1. /\ s \in SessionIds /\ sessions[s] # None /\ puts[e].wrote <= sessions[s].writes
        /\ puts[e].wrote \in Nat /\ puts' = [puts EXCEPT ![e] = NoPut]
        /\ UNCHANGED <<sessions, edits, posts>>
    BY <1>6 DEF Invalidate, RowsOK, PutRecord
  <2>2. \/ invalidated' = invalidated
        \/ invalidated' = [invalidated EXCEPT ![s] =
             IF puts[e].wrote > invalidated[s] THEN puts[e].wrote ELSE invalidated[s]]
    BY <1>6 DEF Invalidate, DeleteKey, RowsOK
  <2>3. invalidated' \in [SessionIds -> Nat]
    BY <2>1, <2>2 DEF RowsOK
  <2>4. \A r \in SessionIds :
          /\ sessions[r] = None => invalidated'[r] = 0
          /\ sessions[r] # None => invalidated'[r] <= sessions[r].writes
    BY <2>1, <2>2 DEF RowsOK
  <2>. QED
    BY <2>1, <2>3, <2>4 DEF RowsOK, NoPut, PutRecord
<1>7. ASSUME NEW e \in Editors, PutFails(e)
      PROVE  RowsOK'
  BY <1>7 DEF PutFails, RowsOK, NoPut, PutRecord
<1>8. ASSUME NEW r \in Readers, GetGoesOn(r) \/ \E k \in Keys : StartGet(r, k)
      PROVE  RowsOK'
  BY <1>1, <1>8 DEF GetGoesOn, ReadTable, FillCache, GetFails, StartGet
<1>9. ASSUME NEW k \in Keys, Expire(k)
      PROVE  RowsOK'
  BY <1>1, <1>9 DEF Expire
<1>10. ASSUME NEW w \in Tabs, TurnGoesOn(w) \/ Disconnect(w) \/ \E s \in SessionIds : StartTurn(w, s)
       PROVE  RowsOK'
  <2>1. CASE UpdateMemory(w)
    <3>1. turns[w].summary \in Seq(Turns \cup Editors)
      OBVIOUS
    <3>. QED
      BY <2>1, <3>1, RowsOKStore DEF UpdateMemory, SessionsExist
  <2>2. CASE ~ UpdateMemory(w)
    BY <1>1, <1>10, <2>2 DEF TurnGoesOn, Disconnect, StartTurn, ReadMessages, ReadSession,
       TurnRaises, Think, StoreQuestion, StoreAnswer, StoringFails, sessionVars
  <2>. QED
    BY <2>1, <2>2
<1>11. CASE AgentStops
  BY <1>11 DEF AgentStops, RowsOK, NoPut, PutRecord
<1>12. CASE UNCHANGED agentVars
  BY <1>1, <1>12 DEF agentVars, sessionVars
<1>. QED
  BY <1>2, <1>3, <1>4, <1>5, <1>6, <1>7, <1>8, <1>9, <1>10, <1>11, <1>12
     DEF AgentNext, SessionsNext, PutGoesOn

-----------------------------------------------------------------------------
(* The copies in Redis. *)

\* How a step may treat the rows and the deletions that copies are compared with.
LEMMA CopyTypes ==
  /\ \A k \in Keys : [Covered(k) -> Rows] \subseteq Copies
  /\ \A s \in SessionIds : s \in Keys /\ s # ListKey /\ Covered(s) = {s}
  /\ \A k \in Keys : k # ListKey => k \in SessionIds
  /\ ListKey \in Keys
BY SessionsAssumption DEF Copies, Keys, Covered

LEMMA ReadTableOK ==
  ASSUME RowsOK, CopiesOK, NEW r \in Readers, ReadTable(r)
  PROVE  CopiesOK'
<1> DEFINE k == gets[r].key
           c == CopyOf(k)
           g == [gets[r] EXCEPT !.pc = "fill", !.copy = c]
<1>1. gets[r] \in GetRecord /\ k \in Keys
  BY DEF CopiesOK, GetRecord
<1>2. UNCHANGED <<sessions, cache, invalidated>>
  BY DEF ReadTable
<1>3. CASE gets' = [gets EXCEPT ![r] = NoGet]
  <2>1. NoGet \in GetRecord /\ NoGet.pc = "idle"
    BY CopyTypes DEF NoGet, GetRecord, Copies
  <2> HIDE DEF k
  <2>. QED
    BY <1>2, <1>3, <2>1 DEF CopiesOK, StaleOnlyByOverlap
<1>4. CASE gets' = [gets EXCEPT ![r] = g] /\ ~ (k # ListKey /\ sessions[k] = None)
  <2>1. c \in [Covered(k) -> Rows]
    <3>1. Covered(k) \subseteq SessionIds
      BY <1>1 DEF Covered, Keys
    <3>. QED
      BY <3>1 DEF CopyOf, RowsOK
  <2>2. k # ListKey => k \in SessionIds /\ c[k] = sessions[k] /\ c[k] # None
                       /\ ~ (c[k].writes < invalidated[k])
    <3> SUFFICES ASSUME k # ListKey
                 PROVE  k \in SessionIds /\ c[k] = sessions[k] /\ c[k] # None
                        /\ ~ (c[k].writes < invalidated[k])
      OBVIOUS
    <3>1. k \in SessionIds /\ c[k] = sessions[k] /\ sessions[k] # None
      BY <1>1, <1>4, CopyTypes DEF CopyOf
    <3>2. invalidated[k] <= sessions[k].writes /\ invalidated[k] \in Nat
          /\ sessions[k].writes \in Nat
      BY <3>1, RowFields DEF RowsOK, Rows
    <3>. QED
      BY <3>1, <3>2
  <2> HIDE DEF c
  <2>3. g \in GetRecord /\ g.pc = "fill" /\ g.key = k /\ g.copy = c
    BY <1>1, <2>1, CopyTypes DEF GetRecord
  <2> HIDE DEF g, k
  <2>4. gets' \in [Readers -> GetRecord]
    BY <1>4, <2>3 DEF CopiesOK
  <2>5. gets'[r] = g /\ \A q \in Readers \ {r} : gets'[q] = gets[q]
    BY <1>4 DEF CopiesOK
  <2>6. \A q \in Readers :
          gets'[q].pc = "fill" =>
            /\ gets'[q].copy \in [Covered(gets'[q].key) -> Rows]
            /\ gets'[q].key # ListKey =>
                 /\ gets'[q].copy[gets'[q].key] # None
                 /\ gets'[q].copy[gets'[q].key].writes < invalidated'[gets'[q].key] =>
                      gets'[q].overlapped
    <3> SUFFICES ASSUME NEW q \in Readers, gets'[q].pc = "fill"
                 PROVE  /\ gets'[q].copy \in [Covered(gets'[q].key) -> Rows]
                        /\ gets'[q].key # ListKey =>
                             /\ gets'[q].copy[gets'[q].key] # None
                             /\ gets'[q].copy[gets'[q].key].writes
                                    < invalidated'[gets'[q].key] => gets'[q].overlapped
      OBVIOUS
    <3>1. CASE q = r
      BY <1>2, <2>1, <2>2, <2>3, <2>5, <3>1
    <3>2. CASE q # r
      BY <1>2, <2>5, <3>2 DEF CopiesOK
    <3>. QED
      BY <3>1, <3>2
  <2>. QED
    BY <1>2, <2>4, <2>6 DEF CopiesOK, StaleOnlyByOverlap
<1>. QED
  BY <1>3, <1>4 DEF ReadTable

LEMMA FillCacheOK ==
  ASSUME RowsOK, CopiesOK, NEW r \in Readers, FillCache(r)
  PROVE  CopiesOK'
<1> DEFINE k == gets[r].key
           x == [copy |-> gets[r].copy, overlapped |-> gets[r].overlapped]
<1>1. /\ gets[r] \in GetRecord /\ k \in Keys /\ gets[r].pc = "fill"
      /\ gets[r].overlapped \in BOOLEAN /\ gets[r].copy \in [Covered(k) -> Rows]
  BY DEF CopiesOK, GetRecord, FillCache
<1>2. UNCHANGED <<sessions, invalidated>>
  BY DEF FillCache
<1>3. /\ gets' \in [Readers -> GetRecord] /\ gets'[r].pc = "idle"
      /\ \A q \in Readers \ {r} : gets'[q] = gets[q]
  <2>1. NoGet \in GetRecord /\ NoGet.pc = "idle"
    BY CopyTypes DEF NoGet, GetRecord, Copies
  <2>2. gets' = [gets EXCEPT ![r] = NoGet]
    BY DEF FillCache
  <2>. QED
    BY <2>1, <2>2 DEF CopiesOK
<1>4. CASE cache' = cache
  BY <1>2, <1>3, <1>4 DEF CopiesOK, StaleOnlyByOverlap
<1>5. CASE cache' = [cache EXCEPT ![k] = x]
  <2>1. x.copy = gets[r].copy /\ x.overlapped = gets[r].overlapped
    OBVIOUS
  <2> HIDE DEF x
  <2>2. cache' = [j \in Keys |-> cache'[j]] /\ cache'[k] = x
        /\ \A j \in Keys \ {k} : cache'[j] = cache[j]
    BY <1>1, <1>5 DEF CopiesOK
  <2>3. \A j \in Keys : cache'[j] # None =>
          cache'[j].copy \in [Covered(j) -> Rows] /\ cache'[j].overlapped \in BOOLEAN
    BY <1>1, <2>1, <2>2 DEF CopiesOK
  <2>4. StaleOnlyByOverlap'
    <3> SUFFICES ASSUME NEW s \in SessionIds, cache'[s] # None, cache'[s].copy[s] # None,
                        cache'[s].copy[s].writes < invalidated'[s]
                 PROVE  cache'[s].overlapped
      BY DEF StaleOnlyByOverlap
    <3>1. CASE s = k
      BY <1>1, <1>2, <2>1, <2>2, <3>1, CopyTypes DEF CopiesOK
    <3>2. CASE s # k
      BY <1>2, <2>2, <3>2, CopyTypes DEF CopiesOK, StaleOnlyByOverlap
    <3>. QED
      BY <3>1, <3>2
  <2>. QED
    BY <1>2, <1>3, <2>2, <2>3, <2>4 DEF CopiesOK
<1>. QED
  BY <1>4, <1>5 DEF FillCache

\* Deleting the key of s marks the GETs of s that are under way.
LEMMA DeleteKeyOK ==
  ASSUME RowsOK, CopiesOK, NEW s \in SessionIds, NEW n \in Nat, DeleteKey(s, n)
  PROVE  CopiesOK'
<1>1. /\ cache' = [cache EXCEPT ![s] = None]
      /\ \A r \in SessionIds \ {s} : invalidated'[r] = invalidated[r]
  BY DEF DeleteKey, RowsOK
<1>2. /\ \A r \in Readers :
           /\ gets'[r] \in GetRecord
           /\ gets'[r].pc = gets[r].pc /\ gets'[r].key = gets[r].key
           /\ gets'[r].copy = gets[r].copy
           /\ gets'[r].overlapped = (gets[r].overlapped \/ gets[r].key = s)
      /\ gets' \in [Readers -> GetRecord]
  <2>1. ASSUME NEW r \in Readers
        PROVE  /\ gets'[r] \in GetRecord
               /\ gets'[r].pc = gets[r].pc /\ gets'[r].key = gets[r].key
               /\ gets'[r].copy = gets[r].copy
               /\ gets'[r].overlapped = (gets[r].overlapped \/ gets[r].key = s)
    <3> DEFINE o == gets[r].overlapped \/ gets[r].key = s
    <3>1. gets[r] \in GetRecord /\ o \in BOOLEAN
      BY DEF CopiesOK
    <3>2. gets'[r] = [gets[r] EXCEPT !.overlapped = o]
      BY <3>1 DEF DeleteKey, GetRecord
    <3> HIDE DEF o
    <3>3. /\ gets'[r] \in GetRecord
          /\ gets'[r].pc = gets[r].pc /\ gets'[r].key = gets[r].key
          /\ gets'[r].copy = gets[r].copy /\ gets'[r].overlapped = o
      BY <3>1, <3>2 DEF GetRecord
    <3>. QED
      BY <3>3 DEF o
  <2>2. gets' = [r \in Readers |-> gets'[r]]
    BY DEF DeleteKey
  <2>. QED
    BY <2>1, <2>2
<1>3. \A r \in Readers :
        gets'[r].pc = "fill" =>
          /\ gets'[r].copy \in [Covered(gets'[r].key) -> Rows]
          /\ gets'[r].key # ListKey =>
               /\ gets'[r].copy[gets'[r].key] # None
               /\ gets'[r].copy[gets'[r].key].writes < invalidated'[gets'[r].key] =>
                    gets'[r].overlapped
  <2> SUFFICES ASSUME NEW r \in Readers, gets'[r].pc = "fill"
               PROVE  /\ gets'[r].copy \in [Covered(gets'[r].key) -> Rows]
                      /\ gets'[r].key # ListKey =>
                           /\ gets'[r].copy[gets'[r].key] # None
                           /\ gets'[r].copy[gets'[r].key].writes < invalidated'[gets'[r].key] =>
                                gets'[r].overlapped
    OBVIOUS
  <2>1. gets[r].key \in Keys
    BY DEF CopiesOK, GetRecord
  <2>2. CASE gets[r].key = s
    BY <1>2, <2>2 DEF CopiesOK
  <2>3. CASE gets[r].key # s
    <3>1. gets[r].key # ListKey => invalidated'[gets[r].key] = invalidated[gets[r].key]
      BY <1>1, <2>1, <2>3, CopyTypes
    <3>2. gets[r].overlapped => gets'[r].overlapped
      BY <1>2, Zenon
    <3>3. /\ gets'[r].pc = gets[r].pc /\ gets'[r].key = gets[r].key
          /\ gets'[r].copy = gets[r].copy
      BY <1>2
    <3>. QED
      BY <3>1, <3>2, <3>3 DEF CopiesOK
  <2>. QED
    BY <2>2, <2>3
<1>4. cache' = [k \in Keys |-> cache'[k]] /\ cache'[s] = None
      /\ \A k \in Keys \ {s} : cache'[k] = cache[k]
  BY <1>1, CopyTypes DEF CopiesOK
<1>5. StaleOnlyByOverlap'
  BY <1>1, <1>4, CopyTypes DEF CopiesOK, StaleOnlyByOverlap
<1>. QED
  BY <1>2, <1>3, <1>4, <1>5 DEF CopiesOK

LEMMA CopiesOKNext ==
  ASSUME RowsOK, CopiesOK, [AgentNext]_agentVars
  PROVE  CopiesOK'
<1>1. CASE UNCHANGED <<gets, cache, invalidated>>
  BY <1>1 DEF CopiesOK, StaleOnlyByOverlap
<1>2. ASSUME NEW r \in Readers, NEW k \in Keys, StartGet(r, k)
      PROVE  CopiesOK'
  <2> DEFINE g == [NoGet EXCEPT !.pc = "read", !.key = k]
  <2>1. g \in GetRecord /\ g.pc = "read"
    BY CopyTypes DEF NoGet, GetRecord, Copies
  <2>2. gets' = [gets EXCEPT ![r] = g] /\ UNCHANGED <<cache, invalidated>>
    BY <1>2 DEF StartGet
  <2> HIDE DEF g
  <2>. QED
    BY <2>1, <2>2 DEF CopiesOK, StaleOnlyByOverlap
<1>3. ASSUME NEW r \in Readers, GetFails(r)
      PROVE  CopiesOK'
  <2>1. NoGet \in GetRecord /\ NoGet.pc = "idle"
    BY CopyTypes DEF NoGet, GetRecord, Copies
  <2>2. gets' = [gets EXCEPT ![r] = NoGet] /\ UNCHANGED <<cache, invalidated>>
    BY <1>3 DEF GetFails
  <2>. QED
    BY <2>1, <2>2 DEF CopiesOK, StaleOnlyByOverlap
<1>4. ASSUME NEW r \in Readers, GetGoesOn(r)
      PROVE  CopiesOK'
  BY <1>3, <1>4, ReadTableOK, FillCacheOK DEF GetGoesOn
<1>5. ASSUME NEW k \in Keys, Expire(k)
      PROVE  CopiesOK'
  <2>1. /\ cache' = [j \in Keys |-> cache'[j]] /\ cache'[k] = None
        /\ \A j \in Keys \ {k} : cache'[j] = cache[j]
        /\ UNCHANGED <<gets, invalidated>>
    BY <1>5 DEF Expire, CopiesOK
  <2>2. StaleOnlyByOverlap'
    BY <2>1, CopyTypes DEF CopiesOK, StaleOnlyByOverlap
  <2>. QED
    BY <2>1, <2>2 DEF CopiesOK
<1>6. ASSUME NEW e \in Editors, Invalidate(e)
      PROVE  CopiesOK'
  <2>1. puts[e].session \in SessionIds /\ puts[e].wrote \in Nat
    BY <1>6 DEF Invalidate, RowsOK, PutRecord
  <2>. QED
    BY <1>1, <1>6, <2>1, DeleteKeyOK DEF Invalidate
<1>7. ASSUME NEW e \in Editors,
             UpdateSummary(e) \/ PutFails(e) \/ \E s \in SessionIds : StartPut(e, s)
      PROVE  CopiesOK'
  BY <1>1, <1>7 DEF UpdateSummary, PutFails, StartPut
<1>8. ASSUME NEW s \in SessionIds, CreateSession(s) \/ PostMessage(s)
      PROVE  CopiesOK'
  BY <1>1, <1>8 DEF CreateSession, PostMessage
<1>9. ASSUME NEW w \in Tabs,
             TurnGoesOn(w) \/ Disconnect(w) \/ \E s \in SessionIds : StartTurn(w, s)
      PROVE  CopiesOK'
  BY <1>1, <1>9 DEF TurnGoesOn, Disconnect, StartTurn, ReadMessages, ReadSession, TurnRaises,
     Think, StoreQuestion, StoreAnswer, UpdateMemory, StoringFails, sessionVars
<1>10. CASE AgentStops
  <2>1. NoGet \in GetRecord /\ NoGet.pc = "idle"
    BY CopyTypes DEF NoGet, GetRecord, Copies
  <2>2. gets' = [r \in Readers |-> NoGet] /\ UNCHANGED <<cache, invalidated>>
    BY <1>10 DEF AgentStops
  <2>. QED
    BY <2>1, <2>2 DEF CopiesOK, StaleOnlyByOverlap
<1>11. CASE UNCHANGED agentVars
  BY <1>1, <1>11 DEF agentVars, sessionVars
<1>. QED
  BY <1>2, <1>4, <1>5, <1>6, <1>7, <1>8, <1>9, <1>10, <1>11
     DEF AgentNext, SessionsNext, PutGoesOn

-----------------------------------------------------------------------------
(* Turns. *)

TurnRecord ==
  [pc : {"idle", "messages", "session", "think", "question", "answer", "summary"},
   number : 0 .. MaxTurns, stream : BOOLEAN, session : SessionIds \cup {None},
   pinned : 0 .. MaxPinned, memory : Memory \cup [messages : Seq(Message)],
   summary : Seq(Turns)]

\* What a turn has in memory at each of its steps; it builds a summary of itself.
TurnOK(w, t) ==
  /\ t \in TurnRecord
  /\ t.pc # "idle" => t.session \in SessionIds /\ t.number # 0
  /\ t.pc \in {"messages", "session"} => t.memory \in [messages : Seq(Message)]
  /\ t.pc = "think" => t.memory \in Memory
  /\ t.pc \in {"question", "answer", "summary"} => t.summary = << <<w, t.number>> >>

TurnsOK ==
  /\ turns = [w \in Tabs |-> turns[w]]
  /\ \A w \in Tabs : TurnOK(w, turns[w])
  /\ messages \in [SessionIds -> Seq(Message)]
  /\ ended \in [Turns -> Endings]

LEMMA NoTurnFields ==
  ASSUME NEW n \in 0 .. MaxTurns
  PROVE  LET t == NoTurn(n)
         IN  t \in TurnRecord /\ t.pc = "idle" /\ t.number = n /\ t.summary = <<>>
             /\ t.memory = NoMemory
<1>1. <<>> \in Seq(Message) /\ <<>> \in Seq(Turns)
  OBVIOUS
<1>2. NoMemory \in [messages : Seq(Message)]
  BY <1>1 DEF NoMemory
<1>3. 0 \in 0 .. MaxPinned
  BY GraphAssumption
<1> HIDE DEF NoMemory
<1>. QED
  BY <1>1, <1>2, <1>3 DEF NoTurn, TurnRecord

LEMMA MemoryFields ==
  ASSUME NEW log \in Seq(Message), NEW row \in SessionRow
  PROVE  ConversationMemory(log, row) \in Memory
BY DEF ConversationMemory, Memory

LEMMA MemoryStarts ==
  ASSUME NEW m \in [messages : Seq(Message)], NEW log \in Seq(Message)
  PROVE  [m EXCEPT !.messages = log] \in [messages : Seq(Message)]
OBVIOUS

\* Without a summary in the memory, the summary is that of the turn alone.
LEMMA SummaryOfTurn ==
  ASSUME NEW t
  PROVE  BuildSummary(<<>>, t) = <<t>>
<1>1. <<>> \o <<t>> = <<t>> /\ Len(<<t>>) = 1
  <2>1. <<t>> \in Seq({t})
    OBVIOUS
  <2>2. <<>> \o <<t>> = <<t>>
    BY <2>1, ConcatEmptySeq
  <2>. QED
    BY <2>2
<1>2. (IF 1 < SummaryLimit THEN 1 ELSE SummaryLimit) = 1
  BY AgentAssumption
<1>3. SubSeq(<<t>>, 1, 1) = <<t>>
  <2>1. <<t>> \in Seq({t}) /\ Len(<<t>>) = 1 /\ <<t>>[1] = t
    OBVIOUS
  <2>2. SubSeq(<<t>>, 1, 1) = <<t>> \o SubSeq(<<t>>, 2, 1)
    BY <2>1, SubSeqRecursiveFirst
  <2>3. SubSeq(<<t>>, 2, 1) = <<>>
    BY SubSeqEmpty
  <2>. QED
    BY <2>1, <2>2, <2>3, ConcatEmptySeq
<1>. QED
  BY <1>1, <1>2, <1>3 DEF BuildSummary, AtMost

LEMMA MemoryHasNoSummary ==
  ASSUME NEW memory \in Memory, NEW default
  PROVE  Get(memory, "summary", default) = default
BY DEF Memory, Get

LEMMA ReplacedTurnOK ==
  ASSUME TurnsOK, NEW w \in Tabs, NEW t, TurnOK(w, t), turns' = [turns EXCEPT ![w] = t],
         messages' \in [SessionIds -> Seq(Message)], ended' \in [Turns -> Endings]
  PROVE  TurnsOK'
BY DEF TurnsOK, TurnOK

LEMMA StoredMessageType ==
  ASSUME TurnsOK, NEW s \in SessionIds,
         NEW role \in {"user", "assistant"} \cup PostedRoles,
         NEW t \in Turns \cup {None}, StoreMessage(s, role, t)
  PROVE  messages' \in [SessionIds -> Seq(Message)]
<1> DEFINE m == [role |-> role, turn |-> t]
<1>1. m \in Message
  BY DEF Message
<1>2. messages' = [messages EXCEPT ![s] = Append(messages[s], m)]
  BY DEF StoreMessage, TurnsOK
<1> HIDE DEF m
<1>. QED
  BY <1>1, <1>2 DEF TurnsOK

LEMMA FinishOK ==
  ASSUME TurnsOK, NEW w \in Tabs, NEW ending \in Endings, Finish(w, ending),
         messages' = messages
  PROVE  TurnsOK'
<1> DEFINE t == NoTurn(turns[w].number)
<1>1. turns[w].number \in 0 .. MaxTurns
  BY DEF TurnsOK, TurnOK, TurnRecord
<1>2. t \in TurnRecord /\ t.pc = "idle"
  BY <1>1, NoTurnFields
<1>3. turns' = [turns EXCEPT ![w] = t] /\ ended' \in [Turns -> Endings]
  BY DEF Finish, TurnsOK
<1> HIDE DEF t
<1>4. TurnOK(w, t)
  BY <1>2 DEF TurnOK
<1>. QED
  BY <1>3, <1>4, ReplacedTurnOK DEF TurnsOK

\* A turn goes on to "pc" without anything else of it that matters.
LEMMA NextPcOK ==
  ASSUME TurnsOK, NEW w \in Tabs,
         NEW pc \in {"answer", "summary"}, turns[w].pc \in {"question", "answer"},
         turns' = [turns EXCEPT ![w].pc = pc],
         messages' \in [SessionIds -> Seq(Message)], ended' = ended
  PROVE  TurnsOK'
<1> DEFINE t == [turns[w] EXCEPT !.pc = pc]
<1>1. TurnOK(w, turns[w]) /\ turns[w] \in TurnRecord
  BY DEF TurnsOK, TurnOK
<1>2. /\ t \in TurnRecord /\ t.pc = pc /\ t.session = turns[w].session
      /\ t.number = turns[w].number /\ t.summary = turns[w].summary
  BY <1>1 DEF TurnRecord
<1>3. turns' = [turns EXCEPT ![w] = t]
  BY DEF TurnsOK
<1> HIDE DEF t
<1>4. TurnOK(w, t)
  BY <1>1, <1>2 DEF TurnOK
<1>. QED
  BY <1>3, <1>4, ReplacedTurnOK DEF TurnsOK

\* A turn that runs has a number of its own.
LEMMA TurnOfType ==
  ASSUME TurnsOK, NEW w \in Tabs, turns[w].pc # "idle"
  PROVE  TurnOf(w) \in Turns
BY DEF TurnsOK, TurnOK, TurnRecord, TurnOf, Turns

\* How a step treats the rows: who stores what.
RowChange(s) ==
  \/ sessions'[s] = sessions[s]
  \/ sessions[s] = None /\ sessions'[s] # None /\ sessions'[s].summary = <<>>
  \/ /\ sessions[s] # None /\ sessions'[s] # None
     /\ \E e \in Editors : sessions'[s].summary = <<e>>
  \/ /\ sessions[s] # None /\ sessions'[s] # None
     /\ \E w \in Tabs : /\ turns[w].pc = "summary" /\ turns[w].session = s
                       /\ sessions'[s].summary = turns[w].summary

LEMMA RowChanges ==
  ASSUME RowsOK, SessionsExist, TurnsOK, [AgentNext]_agentVars
  PROVE  \A s \in SessionIds : RowChange(s)
<1>1. CASE UNCHANGED sessions
  BY <1>1 DEF RowChange
<1>2. ASSUME NEW r \in SessionIds, CreateSession(r)
      PROVE  \A s \in SessionIds : RowChange(s)
  <2> DEFINE row == [summary |-> <<>>, writes |-> 0]
  <2>1. <<>> \in Seq(Turns \cup Editors) /\ 0 \in Nat
    OBVIOUS
  <2>2. row \in SessionRow /\ row.summary = <<>> /\ row # None
    BY <2>1, RowFields
  <2>3. sessions' = [sessions EXCEPT ![r] = row] /\ sessions[r] = None
    BY <1>2 DEF CreateSession
  <2> HIDE DEF row
  <2>. QED
    BY <2>2, <2>3 DEF RowsOK, RowChange
<1>3. ASSUME NEW e \in Editors, UpdateSummary(e)
      PROVE  \A s \in SessionIds : RowChange(s)
  <2>1. /\ puts[e].session \in SessionIds /\ sessions[puts[e].session] # None
        /\ StoreSummary(puts[e].session, <<e>>)
    BY <1>3 DEF UpdateSummary, RowsOK
  <2>2. <<e>> \in Seq(Turns \cup Editors)
    OBVIOUS
  <2>3. /\ sessions'[puts[e].session] # None /\ sessions'[puts[e].session].summary = <<e>>
        /\ \A s \in SessionIds \ {puts[e].session} : sessions'[s] = sessions[s]
    BY <2>1, <2>2, StoredSummary DEF RowsOK
  <2>. QED
    BY <2>1, <2>3 DEF RowChange
<1>4. ASSUME NEW w \in Tabs, UpdateMemory(w)
      PROVE  \A s \in SessionIds : RowChange(s)
  <2>1. /\ turns[w].pc = "summary" /\ StoreSummary(turns[w].session, turns[w].summary)
        /\ turns[w].session \in SessionIds /\ sessions[turns[w].session] # None
    BY <1>4 DEF UpdateMemory, SessionsExist
  <2>2. turns[w].summary \in Seq(Turns \cup Editors)
    <3>1. turns[w].summary \in Seq(Turns)
      BY DEF TurnsOK, TurnOK, TurnRecord
    <3>. QED
      BY <3>1
  <2>3. /\ sessions'[turns[w].session] # None
        /\ sessions'[turns[w].session].summary = turns[w].summary
        /\ \A s \in SessionIds \ {turns[w].session} : sessions'[s] = sessions[s]
    BY <2>1, <2>2, StoredSummary DEF RowsOK
  <2>. QED
    BY <2>1, <2>3 DEF RowChange
<1>5. ASSUME NEW w \in Tabs,
             TurnGoesOn(w) \/ Disconnect(w) \/ \E s \in SessionIds : StartTurn(w, s),
             ~ UpdateMemory(w)
      PROVE  sessions' = sessions
  BY <1>5 DEF TurnGoesOn, Disconnect, StartTurn, ReadMessages, ReadSession, TurnRaises,
     Think, StoreQuestion, StoreAnswer, StoringFails, sessionVars
<1>6. ASSUME NEW e \in Editors,
             Invalidate(e) \/ PutFails(e) \/ \E s \in SessionIds : StartPut(e, s)
      PROVE  sessions' = sessions
  BY <1>6 DEF Invalidate, PutFails, StartPut
<1>7. ASSUME NEW r \in Readers, GetGoesOn(r) \/ \E k \in Keys : StartGet(r, k)
      PROVE  sessions' = sessions
  BY <1>7 DEF GetGoesOn, ReadTable, FillCache, GetFails, StartGet
<1>8. ASSUME NEW k \in Keys, Expire(k)
      PROVE  sessions' = sessions
  BY <1>8 DEF Expire
<1>9. ASSUME NEW s \in SessionIds, PostMessage(s)
      PROVE  sessions' = sessions
  BY <1>9 DEF PostMessage
<1>10. CASE AgentStops \/ UNCHANGED agentVars
  BY <1>1, <1>10 DEF AgentStops, agentVars, sessionVars
<1>. QED
  BY <1>1, <1>2, <1>3, <1>4, <1>5, <1>6, <1>7, <1>8, <1>9, <1>10
     DEF AgentNext, SessionsNext, PutGoesOn

LEMMA ThinkOK ==
  ASSUME TurnsOK, NEW w \in Tabs, Think(w)
  PROVE  TurnsOK'
<1>1. TurnOK(w, turns[w]) /\ turns[w] \in TurnRecord /\ turns[w].pc = "think"
  BY DEF TurnsOK, TurnOK, Think
<1>2. messages' = messages
  BY DEF Think, sessionVars
<1> DEFINE x == BuildSummary(Get(turns[w].memory, "summary", <<>>), TurnOf(w))
           t == [turns[w] EXCEPT !.pc = "question", !.pinned = 0, !.memory = NoMemory,
                                 !.summary = x]
<1>3. x = << <<w, turns[w].number>> >>
  BY <1>1, MemoryHasNoSummary, SummaryOfTurn DEF TurnOK, TurnOf
<1>4. CASE Finish(w, "error")
  BY <1>2, <1>4, FinishOK DEF Endings
<1>5. CASE turns' = [turns EXCEPT ![w] = t] /\ ended' = ended
  <2>1. x \in Seq(Turns)
    <3>1. <<w, turns[w].number>> \in Turns
      BY <1>1, TurnOfType DEF TurnOf
    <3>. QED
      BY <1>3, <3>1
  <2>2. NoMemory \in [messages : Seq(Message)]
    <3>1. <<>> \in Seq(Message)
      OBVIOUS
    <3>. QED
      BY <3>1 DEF NoMemory
  <2>3. 0 \in 0 .. MaxPinned
    BY GraphAssumption
  <2> HIDE DEF x, NoMemory
  <2>4. /\ t \in TurnRecord /\ t.pc = "question" /\ t.summary = x
        /\ t.session = turns[w].session /\ t.number = turns[w].number
    BY <1>1, <2>1, <2>2, <2>3 DEF TurnRecord
  <2> HIDE DEF t
  <2>5. TurnOK(w, t)
    BY <1>1, <1>3, <2>4 DEF TurnOK
  <2>. QED
    BY <1>2, <1>5, <2>5, ReplacedTurnOK DEF TurnsOK
<1>. QED
  BY <1>4, <1>5 DEF Think

LEMMA TurnsOKNext ==
  ASSUME TurnsOK, RowsOK, SessionsExist, [AgentNext]_agentVars
  PROVE  TurnsOK'
<1>1. CASE UNCHANGED <<turns, messages, ended>>
  BY <1>1 DEF TurnsOK
<1>2. ASSUME NEW w \in Tabs, NEW s \in SessionIds, StartTurn(w, s)
      PROVE  TurnsOK'
  <2> DEFINE n == turns[w].number + 1
  <2>1. n \in 0 .. MaxTurns /\ n # 0
    BY <1>2, AgentAssumption DEF StartTurn, TurnsOK, TurnOK, TurnRecord
  <2>2. PICK stream \in BOOLEAN, pinned \in 0 .. MaxPinned :
          turns' = [turns EXCEPT ![w] =
            [NoTurn(n) EXCEPT !.pc = "messages", !.stream = stream, !.session = s,
                              !.pinned = pinned]]
    BY <1>2 DEF StartTurn
  <2> HIDE DEF n
  <2> DEFINE t == [NoTurn(n) EXCEPT !.pc = "messages", !.stream = stream, !.session = s,
                                    !.pinned = pinned]
  <2>3. /\ t \in TurnRecord /\ t.pc = "messages" /\ t.session = s /\ t.number = n
        /\ t.memory = NoMemory
    <3> DEFINE idle == NoTurn(n)
    <3>1. idle \in TurnRecord /\ idle.number = n /\ idle.memory = NoMemory
      BY <2>1, NoTurnFields
    <3> HIDE DEF idle
    <3>2. LET u == [idle EXCEPT !.pc = "messages", !.stream = stream, !.session = s,
                                !.pinned = pinned]
          IN  /\ u \in TurnRecord /\ u.pc = "messages" /\ u.session = s
              /\ u.number = idle.number /\ u.memory = idle.memory
      BY <3>1 DEF TurnRecord
    <3>. QED
      BY <3>1, <3>2 DEF idle
  <2>4. turns' = [turns EXCEPT ![w] = t] /\ messages' = messages /\ ended' = ended
    BY <1>2, <2>2 DEF StartTurn, sessionVars
  <2> HIDE DEF t
  <2>5. NoMemory \in [messages : Seq(Message)]
    <3>1. <<>> \in Seq(Message)
      OBVIOUS
    <3>. QED
      BY <3>1 DEF NoMemory
  <2>6. TurnOK(w, t)
    BY <2>1, <2>3, <2>5 DEF TurnOK
  <2>. QED
    BY <2>4, <2>6, ReplacedTurnOK DEF TurnsOK
<1>3. ASSUME NEW w \in Tabs, ReadMessages(w)
      PROVE  TurnsOK'
  <2> DEFINE log == AtMost(MemoryLimit, messages[turns[w].session])
             m == [turns[w].memory EXCEPT !.messages = log]
             t == [turns[w] EXCEPT !.pc = "session", !.memory = m]
  <2>1. TurnOK(w, turns[w]) /\ turns[w] \in TurnRecord /\ turns[w].pc = "messages"
    BY <1>3 DEF TurnsOK, TurnOK, ReadMessages
  <2>2. log \in Seq(Message)
    <3>1. messages[turns[w].session] \in Seq(Message)
      BY <2>1 DEF TurnsOK, TurnOK
    <3>. QED
      BY <3>1, FirstRows, AgentAssumption
  <2>3. turns' = [turns EXCEPT ![w] = t]
    BY <1>3, <2>1 DEF ReadMessages, TurnsOK, TurnRecord
  <2>4. messages' = messages /\ ended' = ended
    BY <1>3 DEF ReadMessages, sessionVars
  <2> HIDE DEF log
  <2>5. m \in [messages : Seq(Message)]
    BY <2>1, <2>2, MemoryStarts DEF TurnOK
  <2> HIDE DEF m
  <2>6. /\ t \in TurnRecord /\ t.pc = "session" /\ t.memory = m
        /\ t.session = turns[w].session /\ t.number = turns[w].number
    BY <2>1, <2>5 DEF TurnRecord
  <2> HIDE DEF t
  <2>7. TurnOK(w, t)
    BY <2>1, <2>5, <2>6 DEF TurnOK
  <2>. QED
    BY <2>3, <2>4, <2>7, ReplacedTurnOK DEF TurnsOK
<1>4. ASSUME NEW w \in Tabs, ReadSession(w)
      PROVE  TurnsOK'
  <2> DEFINE row == sessions[turns[w].session]
             m == ConversationMemory(turns[w].memory.messages, row)
             t == [turns[w] EXCEPT !.pc = "think", !.memory = m]
  <2>1. TurnOK(w, turns[w]) /\ turns[w] \in TurnRecord /\ turns[w].pc = "session"
    BY <1>4 DEF TurnsOK, TurnOK, ReadSession
  <2>2. row \in SessionRow
    BY <2>1 DEF SessionsExist, RowsOK, Rows
  <2>3. turns' = [turns EXCEPT ![w] = t]
    BY <1>4, <2>1 DEF ReadSession, TurnsOK, TurnRecord
  <2>4. messages' = messages /\ ended' = ended
    BY <1>4 DEF ReadSession, sessionVars
  <2>5. m \in Memory
    <3>1. turns[w].memory.messages \in Seq(Message)
      BY <2>1 DEF TurnOK
    <3>. QED
      BY <2>2, <3>1, MemoryFields
  <2> HIDE DEF m
  <2>6. /\ t \in TurnRecord /\ t.pc = "think" /\ t.memory = m
        /\ t.session = turns[w].session /\ t.number = turns[w].number
    BY <2>1, <2>5 DEF TurnRecord
  <2> HIDE DEF t
  <2>7. TurnOK(w, t)
    BY <2>1, <2>5, <2>6 DEF TurnOK
  <2>. QED
    BY <2>3, <2>4, <2>7, ReplacedTurnOK DEF TurnsOK
<1>5. ASSUME NEW w \in Tabs, TurnRaises(w) \/ StoringFails(w) \/ Disconnect(w) \/ UpdateMemory(w)
      PROVE  TurnsOK'
  <2>1. messages' = messages
    BY <1>5 DEF TurnRaises, StoringFails, Disconnect, UpdateMemory, sessionVars
  <2>2. \E ending \in Endings : Finish(w, ending)
    BY <1>5 DEF TurnRaises, StoringFails, Disconnect, UpdateMemory, Endings
  <2>. QED
    BY <2>1, <2>2, FinishOK
<1>6. ASSUME NEW w \in Tabs, StoreQuestion(w) \/ StoreAnswer(w)
      PROVE  TurnsOK'
  <2>1. turns[w].pc \in {"question", "answer"} /\ ended' = ended
    BY <1>6 DEF StoreQuestion, StoreAnswer
  <2>2. turns[w].session \in SessionIds
    BY <2>1 DEF SessionsExist
  <2>3. TurnOf(w) \in Turns
    BY <2>1, TurnOfType
  <2>4. messages' \in [SessionIds -> Seq(Message)]
    BY <1>6, <2>2, <2>3, StoredMessageType DEF StoreQuestion, StoreAnswer
  <2>. QED
    BY <1>6, <2>1, <2>4, NextPcOK DEF StoreQuestion, StoreAnswer
<1>7. ASSUME NEW w \in Tabs, Think(w)
      PROVE  TurnsOK'
  BY <1>7, ThinkOK
<1>8. CASE AgentStops
  <2>1. turns' = [w \in Tabs |-> NoTurn(turns[w].number)] /\ messages' = messages
    BY <1>8 DEF AgentStops
  <2>2. ASSUME NEW w \in Tabs
        PROVE  TurnOK(w, turns'[w])
    <3>1. turns[w].number \in 0 .. MaxTurns
      BY DEF TurnsOK, TurnOK, TurnRecord
    <3>2. turns'[w] \in TurnRecord /\ turns'[w].pc = "idle"
      BY <2>1, <3>1, NoTurnFields
    <3>. QED
      BY <3>2 DEF TurnOK
  <2>3. ended' \in [Turns -> Endings]
    BY <1>8 DEF AgentStops, TurnsOK, Endings
  <2>4. turns' = [w \in Tabs |-> turns'[w]]
    BY <2>1
  <2>. QED
    BY <2>1, <2>2, <2>3, <2>4 DEF TurnsOK
<1>9. ASSUME NEW s \in SessionIds, PostMessage(s), UNCHANGED <<turns, ended>>
      PROVE  TurnsOK'
  <2>1. messages' \in [SessionIds -> Seq(Message)]
    BY <1>9, StoredMessageType DEF PostMessage
  <2>. QED
    BY <1>9, <2>1 DEF TurnsOK
<1>10. ASSUME NEW s \in SessionIds, CreateSession(s)
       PROVE  messages' = messages
  BY <1>10 DEF CreateSession
<1>11. ASSUME NEW r \in Readers, GetGoesOn(r) \/ \E k \in Keys : StartGet(r, k)
       PROVE  messages' = messages
  BY <1>11 DEF GetGoesOn, ReadTable, FillCache, GetFails, StartGet
<1>12. ASSUME NEW e \in Editors, PutGoesOn(e) \/ \E s \in SessionIds : StartPut(e, s)
       PROVE  messages' = messages
  BY <1>12 DEF PutGoesOn, UpdateSummary, Invalidate, PutFails, StartPut
<1>13. ASSUME NEW k \in Keys, Expire(k)
       PROVE  messages' = messages
  BY <1>13 DEF Expire
<1>14. CASE UNCHANGED agentVars
  BY <1>1, <1>14 DEF agentVars, sessionVars
<1>. QED
  BY <1>1, <1>2, <1>3, <1>4, <1>5, <1>6, <1>7, <1>8, <1>9, <1>10, <1>11, <1>12, <1>13, <1>14
     DEF AgentNext, SessionsNext, TurnGoesOn

-----------------------------------------------------------------------------
(* What turns leave in the session. *)

Early == {"messages", "session", "think"}

\* What becomes of a turn in a step.
TurnChange(w) ==
  \/ turns'[w] = turns[w]
  \/ /\ turns[w].pc = "idle" /\ turns'[w].pc = "idle"
     /\ turns'[w].number = turns[w].number
  \/ /\ turns[w].pc = "idle" /\ turns'[w].pc = "messages"
     /\ turns'[w].number = turns[w].number + 1
     /\ turns'[w].session \in SessionIds /\ sessions[turns'[w].session] # None
  \/ /\ turns[w].pc \in Early /\ turns'[w].pc \in {"session", "think", "question"}
     /\ turns'[w].number = turns[w].number /\ turns'[w].session = turns[w].session
  \/ /\ StoreQuestion(w) /\ turns'[w].pc = "answer"
     /\ turns'[w].number = turns[w].number /\ turns'[w].session = turns[w].session
  \/ /\ StoreAnswer(w) /\ turns'[w].pc = "summary"
     /\ turns'[w].number = turns[w].number /\ turns'[w].session = turns[w].session
  \/ /\ turns[w].pc # "idle" /\ turns'[w].pc = "idle"
     /\ turns'[w].number = turns[w].number

\* What becomes of the ending of turn n of w.
EndChange(w, n) ==
  \/ ended'[<<w, n>>] = ended[<<w, n>>]
  \/ /\ turns[w].pc # "idle" /\ n = turns[w].number
     /\ turns'[w].pc = "idle" /\ turns'[w].number = turns[w].number
     /\ ended'[<<w, n>>] \in {"canned", "error"} => turns[w].pc \in Early

LEMMA FinishChange ==
  ASSUME TurnsOK, NEW v \in Tabs, NEW ending, Finish(v, ending), turns[v].pc # "idle",
         ending \in {"canned", "error"} => turns[v].pc \in Early,
         NEW w \in Tabs, NEW n \in 1 .. MaxTurns
  PROVE  TurnChange(w) /\ EndChange(w, n)
<1>1. turns[v].number \in 0 .. MaxTurns
  BY DEF TurnsOK, TurnOK, TurnRecord
<1> DEFINE t == NoTurn(turns[v].number)
<1>2. t.pc = "idle" /\ t.number = turns[v].number
  BY <1>1, NoTurnFields
<1>3. turns' = [turns EXCEPT ![v] = t] /\ ended' = [ended EXCEPT ![TurnOf(v)] = ending]
  BY DEF Finish
<1> HIDE DEF t
<1>4. <<w, n>> \in Turns /\ TurnOf(v) \in Turns
  BY TurnOfType DEF Turns
<1>5. CASE w = v
  <2>1. turns'[w] = t
    BY <1>3, <1>5 DEF TurnsOK
  <2>2. CASE n = turns[v].number
    <3>1. ended'[<<w, n>>] = ending
      BY <1>3, <1>4, <1>5, <2>2 DEF TurnsOK, TurnOf
    <3>. QED
      BY <1>2, <1>5, <2>1, <2>2, <3>1 DEF TurnChange, EndChange
  <2>3. CASE n # turns[v].number
    <3>1. ended'[<<w, n>>] = ended[<<w, n>>]
      BY <1>3, <1>4, <2>3 DEF TurnsOK, TurnOf
    <3>. QED
      BY <1>2, <1>5, <2>1, <3>1 DEF TurnChange, EndChange
  <2>. QED
    BY <2>2, <2>3
<1>6. CASE w # v
  BY <1>3, <1>4, <1>6 DEF TurnsOK, TurnChange, EndChange, TurnOf
<1>. QED
  BY <1>5, <1>6

LEMMA ReplacedTurnChange ==
  ASSUME TurnsOK, NEW v \in Tabs, NEW t, turns' = [turns EXCEPT ![v] = t], ended' = ended,
         NEW w \in Tabs, NEW n \in 1 .. MaxTurns, w = v => TurnChange(w)
  PROVE  TurnChange(w) /\ EndChange(w, n)
BY DEF TurnsOK, TurnChange, EndChange

LEMMA TurnChanges ==
  ASSUME TurnsOK, RowsOK, [AgentNext]_agentVars, NEW w \in Tabs, NEW n \in 1 .. MaxTurns
  PROVE  TurnChange(w) /\ EndChange(w, n)
<1> DEFINE Goal == TurnChange(w) /\ EndChange(w, n)
<1>1. CASE UNCHANGED <<turns, ended>>
  BY <1>1 DEF TurnChange, EndChange
<1>2. \A v \in Tabs : turns[v] \in TurnRecord
  BY DEF TurnsOK, TurnOK
<1>3. ASSUME NEW v \in Tabs, NEW s \in SessionIds, StartTurn(v, s)
      PROVE  Goal
  <2> DEFINE m == turns[v].number + 1
  <2>1. m \in 0 .. MaxTurns /\ turns[v].pc = "idle"
    BY <1>2, <1>3, AgentAssumption DEF StartTurn, TurnRecord
  <2>2. PICK stream \in BOOLEAN, pinned \in 0 .. MaxPinned :
          turns' = [turns EXCEPT ![v] =
            [NoTurn(m) EXCEPT !.pc = "messages", !.stream = stream, !.session = s,
                              !.pinned = pinned]]
    BY <1>3 DEF StartTurn
  <2> DEFINE idle == NoTurn(m)
             t == [idle EXCEPT !.pc = "messages", !.stream = stream, !.session = s,
                               !.pinned = pinned]
  <2>3. idle \in TurnRecord /\ idle.number = m
    BY <2>1, NoTurnFields
  <2>4. turns' = [turns EXCEPT ![v] = t] /\ ended' = ended
    BY <1>3, <2>2 DEF StartTurn
  <2> HIDE DEF m, idle
  <2>5. t.pc = "messages" /\ t.number = m /\ t.session = s
    BY <2>3 DEF TurnRecord
  <2>7. sessions[s] # None
    BY <1>3 DEF StartTurn
  <2> HIDE DEF t
  <2>6. w = v => TurnChange(w)
    <3>1. w = v => turns'[w] = t
      BY <2>4 DEF TurnsOK
    <3>. QED
      BY <2>1, <2>5, <2>7, <3>1 DEF TurnChange, m
  <2>. QED
    BY <2>4, <2>6, ReplacedTurnChange
<1>4. ASSUME NEW v \in Tabs, NEW pc \in {"session", "think"}, NEW m,
             turns[v].pc \in Early, ended' = ended,
             turns' = [turns EXCEPT ![v] = [turns[v] EXCEPT !.pc = pc, !.memory = m]]
      PROVE  Goal
  <2> DEFINE t == [turns[v] EXCEPT !.pc = pc, !.memory = m]
  <2>1. t.pc = pc /\ t.number = turns[v].number /\ t.session = turns[v].session
    BY <1>2 DEF TurnRecord
  <2>2. turns' = [turns EXCEPT ![v] = t]
    BY <1>4
  <2> HIDE DEF t
  <2>3. w = v => TurnChange(w)
    <3>1. w = v => turns'[w] = t
      BY <2>2 DEF TurnsOK
    <3>. QED
      BY <1>4, <2>1, <3>1 DEF TurnChange
  <2>. QED
    BY <1>4, <2>2, <2>3, ReplacedTurnChange
<1>5. ASSUME NEW v \in Tabs, ReadMessages(v)
      PROVE  Goal
  <2> DEFINE m == [turns[v].memory EXCEPT
                     !.messages = AtMost(MemoryLimit, messages[turns[v].session])]
  <2>1. turns' = [turns EXCEPT ![v] = [turns[v] EXCEPT !.pc = "session", !.memory = m]]
    BY <1>2, <1>5 DEF ReadMessages, TurnsOK, TurnRecord
  <2>2. turns[v].pc \in Early /\ ended' = ended
    BY <1>5 DEF ReadMessages, Early
  <2> HIDE DEF m
  <2>. QED
    BY <1>4, <2>1, <2>2, Zenon
<1>6. ASSUME NEW v \in Tabs, ReadSession(v)
      PROVE  Goal
  <2> DEFINE m == ConversationMemory(turns[v].memory.messages, sessions[turns[v].session])
  <2>1. turns' = [turns EXCEPT ![v] = [turns[v] EXCEPT !.pc = "think", !.memory = m]]
    BY <1>2, <1>6 DEF ReadSession, TurnsOK, TurnRecord
  <2>2. turns[v].pc \in Early /\ ended' = ended
    BY <1>6 DEF ReadSession, Early
  <2> HIDE DEF m
  <2>. QED
    BY <1>4, <2>1, <2>2, Zenon
<1>7. ASSUME NEW v \in Tabs, Think(v)
      PROVE  Goal
  <2>1. turns[v].pc = "think"
    BY <1>7 DEF Think
  <2>2. CASE Finish(v, "error")
    BY <2>1, <2>2, FinishChange DEF Early
  <2>3. CASE ~ Finish(v, "error")
    <3> DEFINE x == BuildSummary(Get(turns[v].memory, "summary", <<>>), TurnOf(v))
               t == [turns[v] EXCEPT !.pc = "question", !.pinned = 0, !.memory = NoMemory,
                                     !.summary = x]
    <3>1. turns' = [turns EXCEPT ![v] = t] /\ ended' = ended
      BY <1>7, <2>3 DEF Think
    <3> HIDE DEF x, NoMemory
    <3>2. /\ t.pc = "question" /\ t.number = turns[v].number
          /\ t.session = turns[v].session
      BY <1>2 DEF TurnRecord
    <3> HIDE DEF t
    <3>3. w = v => TurnChange(w)
      <4>1. w = v => turns'[w] = t
        BY <3>1 DEF TurnsOK
      <4>. QED
        BY <2>1, <3>2, <4>1 DEF TurnChange, Early
    <3>. QED
      BY <3>1, <3>3, ReplacedTurnChange
  <2>. QED
    BY <2>2, <2>3
<1>8. ASSUME NEW v \in Tabs, StoreQuestion(v) \/ StoreAnswer(v)
      PROVE  Goal
  <2> DEFINE pc == IF turns[v].pc = "question" THEN "answer" ELSE "summary"
             t == [turns[v] EXCEPT !.pc = pc]
  <2>1. turns' = [turns EXCEPT ![v] = t] /\ ended' = ended
    BY <1>2, <1>8 DEF StoreQuestion, StoreAnswer, TurnsOK, TurnRecord
  <2>2. t.pc = pc /\ t.number = turns[v].number /\ t.session = turns[v].session
    BY <1>2 DEF TurnRecord
  <2>3. StoreQuestion(v) => pc = "answer"
    BY DEF StoreQuestion
  <2>4. StoreAnswer(v) => pc = "summary"
    BY DEF StoreAnswer
  <2> HIDE DEF t, pc
  <2>5. w = v => TurnChange(w)
    <3>1. w = v => turns'[w] = t
      BY <2>1 DEF TurnsOK
    <3>. QED
      BY <1>8, <2>2, <2>3, <2>4, <3>1 DEF TurnChange
  <2>. QED
    BY <2>1, <2>5, ReplacedTurnChange
<1>9. ASSUME NEW v \in Tabs, TurnRaises(v) \/ StoringFails(v) \/ UpdateMemory(v) \/ Disconnect(v)
      PROVE  Goal
  <2>1. turns[v].pc # "idle"
    BY <1>9 DEF TurnRaises, StoringFails, UpdateMemory, Disconnect
  <2>2. \/ Finish(v, "answered") \/ Finish(v, "cut")
        \/ turns[v].pc \in Early /\ (Finish(v, "canned") \/ Finish(v, "error"))
    BY <1>9 DEF TurnRaises, StoringFails, UpdateMemory, Disconnect, Early
  <2>. QED
    BY <2>1, <2>2, FinishChange
<1>10. CASE AgentStops
  <2>1. turns[w].number \in 0 .. MaxTurns
    BY <1>2 DEF TurnRecord
  <2>2. turns'[w].pc = "idle" /\ turns'[w].number = turns[w].number
    BY <1>10, <2>1, NoTurnFields DEF AgentStops
  <2>3. <<w, n>> \in Turns
    BY DEF Turns
  <2>4. \/ ended'[<<w, n>>] = ended[<<w, n>>]
        \/ /\ turns[w].pc # "idle" /\ n = turns[w].number
           /\ ended'[<<w, n>>] = "cut"
    <3>1. ended'[<<w, n>>] =
            IF \E v \in {u \in Tabs : turns[u].pc # "idle"} : <<w, n>> = TurnOf(v)
            THEN "cut" ELSE ended[<<w, n>>]
      BY <1>10, <2>3 DEF AgentStops
    <3>. QED
      BY <3>1 DEF TurnOf
  <2>. QED
    BY <2>2, <2>4 DEF TurnChange, EndChange
<1>11. CASE UNCHANGED agentVars
  BY <1>1, <1>11 DEF agentVars
<1>. QED
  BY <1>1, <1>3, <1>5, <1>6, <1>7, <1>8, <1>9, <1>10, <1>11 DEF AgentNext, TurnGoesOn

\* What becomes of the messages of a session: w stores what it says of turn t.
Stores(w, s, role, t) ==
  /\ turns[w].session = s /\ t = TurnOf(w)
  /\ \/ role = "user" /\ StoreQuestion(w)
     \/ role = "assistant" /\ StoreAnswer(w)

LogChange(s) ==
  \/ messages'[s] = messages[s]
  \/ \E role \in {"user", "assistant"} \cup PostedRoles, t \in Turns \cup {None} :
       /\ messages'[s] = Append(messages[s], [role |-> role, turn |-> t])
       /\ t = None \/ \E w \in Tabs : Stores(w, s, role, t)

LEMMA StoreMessageChange ==
  ASSUME TurnsOK, NEW r \in SessionIds, NEW role, NEW t, StoreMessage(r, role, t)
  PROVE  /\ messages'[r] = Append(messages[r], [role |-> role, turn |-> t])
         /\ \A s \in SessionIds \ {r} : messages'[s] = messages[s]
BY DEF StoreMessage, TurnsOK

\* Only these store a message.
LEMMA LogSteps ==
  ASSUME [AgentNext]_agentVars
  PROVE  \/ UNCHANGED messages
         \/ \E w \in Tabs : StoreQuestion(w) \/ StoreAnswer(w)
         \/ \E r \in SessionIds : PostMessage(r)
<1>1. ASSUME NEW w \in Tabs,
             \/ ReadMessages(w) \/ ReadSession(w) \/ TurnRaises(w) \/ Think(w)
             \/ UpdateMemory(w) \/ StoringFails(w) \/ Disconnect(w)
             \/ \E r \in SessionIds : StartTurn(w, r)
      PROVE  messages' = messages
  BY <1>1 DEF Disconnect, StartTurn, ReadMessages, ReadSession, TurnRaises, Think,
     UpdateMemory, StoringFails, sessionVars
<1>2. ASSUME NEW r \in SessionIds, CreateSession(r)
      PROVE  messages' = messages
  BY <1>2 DEF CreateSession
<1>3. ASSUME NEW r \in Readers, GetGoesOn(r) \/ \E k \in Keys : StartGet(r, k)
      PROVE  messages' = messages
  BY <1>3 DEF GetGoesOn, ReadTable, FillCache, GetFails, StartGet
<1>4. ASSUME NEW e \in Editors, PutGoesOn(e) \/ \E r \in SessionIds : StartPut(e, r)
      PROVE  messages' = messages
  BY <1>4 DEF PutGoesOn, UpdateSummary, Invalidate, PutFails, StartPut
<1>5. ASSUME NEW k \in Keys, Expire(k)
      PROVE  messages' = messages
  BY <1>5 DEF Expire
<1>6. CASE AgentStops \/ UNCHANGED agentVars
  BY <1>6 DEF AgentStops, agentVars, sessionVars
<1>. QED
  BY <1>1, <1>2, <1>3, <1>4, <1>5, <1>6 DEF AgentNext, SessionsNext, TurnGoesOn

LEMMA LogChanges ==
  ASSUME TurnsOK, SessionsExist, [AgentNext]_agentVars, NEW s \in SessionIds
  PROVE  LogChange(s)
<1>1. CASE UNCHANGED messages
  BY <1>1 DEF LogChange
<1>2. ASSUME NEW w \in Tabs, StoreQuestion(w)
      PROVE  LogChange(s)
  <2>1. /\ turns[w].session \in SessionIds /\ TurnOf(w) \in Turns
        /\ StoreMessage(turns[w].session, "user", TurnOf(w))
    BY <1>2, TurnOfType DEF StoreQuestion, SessionsExist
  <2>. QED
    BY <1>2, <2>1, StoreMessageChange DEF LogChange, Stores
<1>3. ASSUME NEW w \in Tabs, StoreAnswer(w)
      PROVE  LogChange(s)
  <2>1. /\ turns[w].session \in SessionIds /\ TurnOf(w) \in Turns
        /\ StoreMessage(turns[w].session, "assistant", TurnOf(w))
    BY <1>3, TurnOfType DEF StoreAnswer, SessionsExist
  <2>. QED
    BY <1>3, <2>1, StoreMessageChange DEF LogChange, Stores
<1>4. ASSUME NEW r \in SessionIds, PostMessage(r)
      PROVE  LogChange(s)
  <2>1. PICK role \in PostedRoles : StoreMessage(r, role, None)
    BY <1>4 DEF PostMessage
  <2>. QED
    BY <2>1, StoreMessageChange DEF LogChange
<1>. QED
  BY <1>1, <1>2, <1>3, <1>4, LogSteps

\* Messages keep their place; a new one is the last, and is stored by its turn.
LEMMA Positions ==
  ASSUME TurnsOK, NEW s \in SessionIds, LogChange(s), NEW role, NEW t \in Turns
  PROVE  /\ Position(s, role, t) \subseteq 1 .. Len(messages[s])
         /\ Position(s, role, t) \subseteq Position(s, role, t)'
         /\ \A k \in Position(s, role, t)' :
              \/ k \in Position(s, role, t)
              \/ k = Len(messages[s]) + 1 /\ \E w \in Tabs : Stores(w, s, role, t)
<1>1. messages[s] \in Seq(Message)
  BY DEF TurnsOK
<1>2. Position(s, role, t) \subseteq 1 .. Len(messages[s])
  BY <1>1 DEF Position
<1>3. CASE messages'[s] = messages[s]
  BY <1>2, <1>3 DEF Position
<1>4. CASE messages'[s] # messages[s]
  <2>1. PICK r \in {"user", "assistant"} \cup PostedRoles, u \in Turns \cup {None} :
          /\ messages'[s] = Append(messages[s], [role |-> r, turn |-> u])
          /\ u = None \/ \E w \in Tabs : Stores(w, s, r, u)
    BY <1>4 DEF LogChange
  <2> DEFINE m == [role |-> r, turn |-> u]
             n == Len(messages[s]) + 1
  <2>2. m.role = r /\ m.turn = u
    OBVIOUS
  <2>3. m = [role |-> role, turn |-> t] => role = r /\ t = u /\ u # None
    BY <2>2, AgentAssumption
  <2> HIDE DEF m
  <2>4. /\ DOMAIN messages'[s] = 1 .. n /\ messages'[s][n] = m
        /\ \A k \in 1 .. Len(messages[s]) : messages'[s][k] = messages[s][k]
        /\ 1 .. n = (1 .. Len(messages[s])) \cup {n}
    BY <1>1, <2>1 DEF m
  <2> HIDE DEF n
  <2>5. ASSUME NEW k \in Position(s, role, t)'
        PROVE  \/ k \in Position(s, role, t)
               \/ k = n /\ \E w \in Tabs : Stores(w, s, role, t)
    <3>1. k \in 1 .. n /\ messages'[s][k] = [role |-> role, turn |-> t]
      BY <2>4 DEF Position
    <3>2. CASE k = n
      BY <2>1, <2>3, <2>4, <3>1, <3>2
    <3>3. CASE k # n
      <4>1. k \in 1 .. Len(messages[s])
        BY <2>4, <3>1, <3>3
      <4>. QED
        BY <1>1, <2>4, <3>1, <4>1 DEF Position
    <3>. QED
      BY <3>2, <3>3
  <2>6. Position(s, role, t) \subseteq Position(s, role, t)'
    BY <1>1, <1>2, <2>4 DEF Position
  <2>. QED
    BY <1>2, <2>5, <2>6 DEF n
<1>. QED
  BY <1>3, <1>4

\* What a turn stores is found in its session.
LEMMA StoredPosition ==
  ASSUME TurnsOK, SessionsExist, NEW w \in Tabs, NEW s, NEW role, NEW t,
         Stores(w, s, role, t)
  PROVE  /\ s \in SessionIds /\ Position(s, role, t)' # {}
         /\ turns[w].pc = IF role = "user" THEN "question" ELSE "answer"
<1>1. /\ turns[w].pc = IF role = "user" THEN "question" ELSE "answer"
      /\ StoreMessage(s, role, t)
  BY DEF Stores, StoreQuestion, StoreAnswer
<1>2. s \in SessionIds
  BY <1>1 DEF SessionsExist, Stores
<1> DEFINE m == [role |-> role, turn |-> t]
<1>3. messages'[s] = Append(messages[s], m) /\ messages[s] \in Seq(Message)
  BY <1>1, <1>2, StoreMessageChange DEF TurnsOK
<1> HIDE DEF m
<1>4. Len(messages[s]) + 1 \in DOMAIN messages'[s]
      /\ messages'[s][Len(messages[s]) + 1] = m
  BY <1>3
<1>. QED
  BY <1>1, <1>2, <1>4 DEF Position, m

\* A turn that has not come to its answer has left nothing and has not ended;
\* one that is at a statement has stored what the statements before it store.
NothingYet(w) ==
  \A n \in 1 .. MaxTurns :
    /\ n > turns[w].number \/ (n = turns[w].number /\ turns[w].pc # "idle") =>
         ended[<<w, n>>] = "not yet"
    /\ n > turns[w].number \/ (n = turns[w].number /\ turns[w].pc \in Early) =>
         \A s \in SessionIds, role \in {"user", "assistant"} :
           Position(s, role, <<w, n>>) = {}

StoredSoFar(w) ==
  /\ turns[w].pc = "answer" => Position(turns[w].session, "user", TurnOf(w)) # {}
  /\ turns[w].pc = "summary" => Position(turns[w].session, "assistant", TurnOf(w)) # {}

ProgressOK == \A w \in Tabs : NothingYet(w) /\ StoredSoFar(w)

HistoryOK == ProgressOK /\ TurnsAreStoredInOrder /\ FailedTurnsLeaveNoTrace

LEMMA ProgressOKNext ==
  ASSUME TurnsOK, RowsOK, SessionsExist, ProgressOK, [AgentNext]_agentVars
  PROVE  ProgressOK'
<1> SUFFICES ASSUME NEW w \in Tabs
             PROVE  NothingYet(w)' /\ StoredSoFar(w)'
  BY DEF ProgressOK
<1>1. \A n \in 1 .. MaxTurns : TurnChange(w) /\ EndChange(w, n)
  BY TurnChanges
<1>2. \A s \in SessionIds : LogChange(s)
  BY LogChanges
<1>3. turns[w].number \in 0 .. MaxTurns /\ turns[w] \in TurnRecord
      /\ (turns[w].pc # "idle" => turns[w].number \in 1 .. MaxTurns)
  BY DEF TurnsOK, TurnOK, TurnRecord
<1>4. ASSUME NEW n \in 1 .. MaxTurns,
             n > turns'[w].number \/ (n = turns'[w].number /\ turns'[w].pc # "idle")
      PROVE  ended'[<<w, n>>] = "not yet"
  <2>1. TurnChange(w) /\ EndChange(w, n)
    BY <1>1
  <2>2. n > turns[w].number \/ (n = turns[w].number /\ turns[w].pc # "idle")
    <3>1. \/ /\ turns'[w].number = turns[w].number
             /\ turns'[w].pc # "idle" => turns[w].pc # "idle"
          \/ turns'[w].number = turns[w].number + 1
      BY <2>1 DEF TurnChange, StoreQuestion, StoreAnswer, Early
    <3>2. n \in Nat /\ turns[w].number \in Nat
      BY <1>3, AgentAssumption
    <3>3. CASE turns'[w].number = turns[w].number + 1
      <4>1. n >= turns[w].number + 1
        BY <1>4, <3>2, <3>3
      <4>. QED
        BY <3>2, <4>1
    <3>. QED
      BY <1>4, <3>1, <3>3
  <2>3. ended'[<<w, n>>] = ended[<<w, n>>]
    BY <1>3, <1>4, <2>1, <2>2 DEF EndChange
  <2>. QED
    BY <2>2, <2>3 DEF ProgressOK, NothingYet
<1>5. ASSUME NEW n \in 1 .. MaxTurns,
             n > turns'[w].number \/ (n = turns'[w].number /\ turns'[w].pc \in Early),
             NEW s \in SessionIds, NEW role \in {"user", "assistant"}
      PROVE  Position(s, role, <<w, n>>)' = {}
  <2>1. TurnChange(w)
    BY <1>1, <1>5
  <2>2. n > turns[w].number \/ (n = turns[w].number /\ turns[w].pc \in Early)
    <3>1. \/ /\ turns'[w].number = turns[w].number
             /\ turns'[w].pc \in Early => turns[w].pc \in Early
          \/ turns'[w].number = turns[w].number + 1
      BY <2>1 DEF TurnChange, Early
    <3>2. n \in Nat /\ turns[w].number \in Nat
      BY <1>3, AgentAssumption
    <3>3. CASE turns'[w].number = turns[w].number + 1
      <4>1. n >= turns[w].number + 1
        BY <1>5, <3>2, <3>3
      <4>. QED
        BY <3>2, <4>1
    <3>. QED
      BY <1>5, <3>1, <3>3
  <2>3. Position(s, role, <<w, n>>) = {}
    BY <2>2 DEF ProgressOK, NothingYet
  <2>4. ASSUME NEW v \in Tabs, Stores(v, s, role, <<w, n>>)
        PROVE  FALSE
    <3>1. v = w /\ n = turns[w].number
      BY <2>4 DEF Stores, TurnOf
    <3>2. turns[w].pc \in {"question", "answer"}
      BY <2>4, <3>1, StoredPosition
    <3>. QED
      BY <1>3, <2>2, <3>1, <3>2 DEF Early
  <2>5. <<w, n>> \in Turns
    BY DEF Turns
  <2>. QED
    BY <1>2, <2>3, <2>4, <2>5, Positions
<1>6. ASSUME NEW role \in {"user", "assistant"},
             NEW pc, pc = (IF role = "user" THEN "answer" ELSE "summary"),
             turns'[w].pc = pc
      PROVE  Position(turns[w].session, role, TurnOf(w))' # {}
  <2>1. CASE turns'[w] = turns[w]
    <3>1. turns[w].pc # "idle" /\ Position(turns[w].session, role, TurnOf(w)) # {}
      BY <1>6, <2>1 DEF ProgressOK, StoredSoFar
    <3>2. turns[w].session \in SessionIds /\ TurnOf(w) \in Turns
      BY <3>1, TurnOfType DEF SessionsExist
    <3>3. Position(turns[w].session, role, TurnOf(w))
            \subseteq Position(turns[w].session, role, TurnOf(w))'
      <4> DEFINE s == turns[w].session
                 t == TurnOf(w)
      <4>1. s' = s /\ t' = t
        BY <2>1 DEF TurnOf
      <4>2. messages'[s] = messages[s] \/ messages'[s] # messages[s]
        OBVIOUS
      <4>3. LogChange(s) /\ s \in SessionIds /\ t \in Turns
        BY <1>2, <3>2
      <4>4. \A x \in SessionIds, u \in Turns :
              Position(x, role, u) \subseteq Position(x, role, u)'
        BY <1>2, Positions
      <4>. QED
        BY <4>1, <4>3, <4>4 DEF Position
    <3>. QED
      BY <3>1, <3>3
  <2>2. CASE turns'[w] # turns[w]
    <3>1. /\ IF role = "user" THEN StoreQuestion(w) ELSE StoreAnswer(w)
          /\ turns'[w].number = turns[w].number /\ turns'[w].session = turns[w].session
      <4>1. turns'[w].number \in 1 .. MaxTurns
        BY <1>6, TurnsOKNext DEF TurnsOK, TurnOK, TurnRecord
      <4>2. TurnChange(w)
        BY <1>1, <4>1
      <4>. QED
        BY <1>6, <2>2, <4>2 DEF TurnChange, Early
    <3> DEFINE s == turns[w].session
               t == TurnOf(w)
    <3>2. Stores(w, s, role, t)
      BY <3>1 DEF Stores
    <3> HIDE DEF t
    <3>3. \A x, u : x = s /\ u = t => Position(x, role, u)' # {}
      BY <3>2, StoredPosition
    <3>4. s' = s /\ TurnOf(w)' = t
      BY <3>1 DEF TurnOf, t
    <3>. QED
      BY <3>3, <3>4 DEF Position
  <2>. QED
    BY <2>1, <2>2
<1>7. NothingYet(w)'
  BY <1>4, <1>5 DEF NothingYet
<1>8. StoredSoFar(w)'
  BY <1>6 DEF StoredSoFar
<1>. QED
  BY <1>7, <1>8

\* A session is never deleted, and a turn keeps the one it starts in.
LEMMA SessionsExistNext ==
  ASSUME TurnsOK, RowsOK, SessionsExist, [AgentNext]_agentVars
  PROVE  SessionsExist'
<1> SUFFICES ASSUME NEW w \in Tabs, turns'[w].pc # "idle"
             PROVE  turns'[w].session \in SessionIds /\ sessions'[turns'[w].session] # None
  BY DEF SessionsExist
<1>1. TurnsOK'
  BY TurnsOKNext
<1>2. turns'[w].number \in 1 .. MaxTurns
  BY <1>1 DEF TurnsOK, TurnOK, TurnRecord
<1>3. TurnChange(w)
  BY <1>2, TurnChanges
<1>4. turns'[w].session \in SessionIds /\ sessions[turns'[w].session] # None
  BY <1>3 DEF TurnChange, SessionsExist, Early, StoreQuestion, StoreAnswer
<1>5. \A s \in SessionIds : sessions[s] # None => sessions'[s] # None
  BY RowChanges DEF RowChange
<1>. QED
  BY <1>4, <1>5

\* What ends in an error has stored nothing, and does not go on.
LEMMA FailedTurnsNext ==
  ASSUME TurnsOK, RowsOK, SessionsExist, ProgressOK, FailedTurnsLeaveNoTrace,
         [AgentNext]_agentVars
  PROVE  FailedTurnsLeaveNoTrace'
<1> SUFFICES ASSUME NEW s \in SessionIds, NEW w \in Tabs, NEW n \in 1 .. MaxTurns,
                    ended'[<<w, n>>] \in {"canned", "error"},
                    NEW role \in {"user", "assistant"}
             PROVE  Position(s, role, <<w, n>>)' = {}
  BY DEF FailedTurnsLeaveNoTrace, Turns
<1>1. EndChange(w, n) /\ LogChange(s) /\ <<w, n>> \in Turns
  BY TurnChanges, LogChanges DEF Turns
<1>2. Position(s, role, <<w, n>>) = {}
  <2>1. CASE ended'[<<w, n>>] = ended[<<w, n>>]
    BY <1>1, <2>1 DEF FailedTurnsLeaveNoTrace
  <2>2. CASE ended'[<<w, n>>] # ended[<<w, n>>]
    <3>1. (n = turns[w].number /\ turns[w].pc \in Early)
      BY <1>1, <2>2 DEF EndChange
    <3>. QED
      BY <3>1 DEF ProgressOK, NothingYet
  <2>. QED
    BY <2>1, <2>2
<1>3. ASSUME NEW v \in Tabs, Stores(v, s, role, <<w, n>>)
      PROVE  FALSE
  <2>1. v = w /\ n = turns[w].number
    BY <1>3 DEF Stores, TurnOf
  <2>2. turns[w].pc \in {"question", "answer"}
    BY <1>3, <2>1, StoredPosition
  <2>3. turns'[w].pc # "idle"
    <3>1. /\ turns[w] \in TurnRecord /\ turns = [u \in Tabs |-> turns[u]]
      BY DEF TurnsOK, TurnOK
    <3>. QED
      BY <1>3, <2>1, <3>1 DEF Stores, StoreQuestion, StoreAnswer, TurnRecord
  <2>4. ended[<<w, n>>] = "not yet"
    BY <2>1, <2>2 DEF ProgressOK, NothingYet
  <2>. QED
    BY <1>1, <2>3, <2>4 DEF EndChange
<1>. QED
  BY <1>1, <1>2, <1>3, Positions

\* The answer is stored behind the question, the summary when both are.
LEMMA StoredInOrderNext ==
  ASSUME TurnsOK, RowsOK, SessionsExist, ProgressOK, TurnsAreStoredInOrder,
         [AgentNext]_agentVars
  PROVE  TurnsAreStoredInOrder'
<1> SUFFICES ASSUME NEW s \in SessionIds, NEW t \in Turns
             PROVE  /\ \A a \in Position(s, "assistant", t)' :
                         \E q \in Position(s, "user", t)' : q < a
                    /\ sessions'[s] # None
                         /\ (\E k \in DOMAIN sessions'[s].summary :
                               sessions'[s].summary[k] = t) =>
                         Position(s, "assistant", t)' # {}
  BY DEF TurnsAreStoredInOrder, Position
<1>1. LogChange(s) /\ RowChange(s)
  BY LogChanges, RowChanges
<1>2. \A role : /\ Position(s, role, t) \subseteq 1 .. Len(messages[s])
               /\ Position(s, role, t) \subseteq Position(s, role, t)'
               /\ \A k \in Position(s, role, t)' :
                    \/ k \in Position(s, role, t)
                    \/ /\ k = Len(messages[s]) + 1
                       /\ \E w \in Tabs : Stores(w, s, role, t)
  BY <1>1, Positions
<1>3. ASSUME NEW a \in Position(s, "assistant", t)'
      PROVE  \E q \in Position(s, "user", t)' : q < a
  <2>1. CASE a \in Position(s, "assistant", t)
    BY <1>2, <2>1 DEF TurnsAreStoredInOrder
  <2>2. CASE a \notin Position(s, "assistant", t)
    <3>1. a = Len(messages[s]) + 1 /\ \E w \in Tabs : Stores(w, s, "assistant", t)
      BY <1>2, <2>2
    <3>2. PICK w \in Tabs : Stores(w, s, "assistant", t)
      BY <3>1
    <3>3. turns[w].pc = "answer" /\ turns[w].session = s /\ t = TurnOf(w)
      BY <3>2, StoredPosition DEF Stores
    <3>4. PICK q \in Position(s, "user", t) : TRUE
      BY <3>3 DEF ProgressOK, StoredSoFar
    <3>5. q \in 1 .. Len(messages[s]) /\ q \in Position(s, "user", t)'
      BY <1>2, <3>4
    <3>6. Len(messages[s]) \in Nat
      BY DEF TurnsOK
    <3>7. q < a
      BY <3>1, <3>5, <3>6
    <3>. QED
      BY <3>5, <3>7
  <2>. QED
    BY <2>1, <2>2
<1>4. ASSUME sessions'[s] # None,
             NEW k \in DOMAIN sessions'[s].summary, sessions'[s].summary[k] = t
      PROVE  Position(s, "assistant", t)' # {}
  <2>1. CASE sessions'[s] = sessions[s]
    BY <1>2, <1>4, <2>1 DEF TurnsAreStoredInOrder
  <2>2. CASE sessions'[s].summary = <<>>
    BY <1>4, <2>2
  <2>3. ASSUME NEW e \in Editors, sessions'[s].summary = <<e>>
        PROVE  FALSE
    <3>1. t = e
      BY <1>4, <2>3
    <3>. QED
      BY <3>1, AgentAssumption
  <2>4. ASSUME NEW w \in Tabs, turns[w].pc = "summary", turns[w].session = s,
               sessions'[s].summary = turns[w].summary
        PROVE  Position(s, "assistant", t)' # {}
    <3>1. turns[w].summary = << TurnOf(w) >>
      BY <2>4 DEF TurnsOK, TurnOK, TurnOf
    <3>2. t = TurnOf(w)
      BY <1>4, <2>4, <3>1
    <3>. QED
      BY <1>2, <2>4, <3>2 DEF ProgressOK, StoredSoFar
  <2>. QED
    BY <1>1, <2>1, <2>2, <2>3, <2>4 DEF RowChange
<1>. QED
  BY <1>3, <1>4

-----------------------------------------------------------------------------
(* Questions and answers are stored once. *)

\* A turn that is at a statement has not stored what that statement stores.
NotStoredYet(w) ==
  /\ turns[w].pc = "question" =>
       \A s \in SessionIds, role \in {"user", "assistant"} :
         Position(s, role, TurnOf(w)) = {}
  /\ turns[w].pc = "answer" =>
       \A s \in SessionIds : Position(s, "assistant", TurnOf(w)) = {}

OnceOK == \A w \in Tabs : NotStoredYet(w)

\* Nothing comes to be stored of a turn that does not store it.
LEMMA StaysEmpty ==
  ASSUME TurnsOK, SessionsExist, [AgentNext]_agentVars, NEW w \in Tabs,
         turns[w].pc # "idle", NEW role, NEW t, t = TurnOf(w),
         role = "user" => ~ StoreQuestion(w), role = "assistant" => ~ StoreAnswer(w),
         NEW s \in SessionIds, Position(s, role, t) = {}
  PROVE  Position(s, role, t)' = {}
<1>1. t \in Turns
  BY TurnOfType
<1>2. LogChange(s)
  BY LogChanges
<1>3. ASSUME NEW v \in Tabs, Stores(v, s, role, t)
      PROVE  FALSE
  <2>1. v = w
    BY <1>3 DEF Stores, TurnOf
  <2>. QED
    BY <1>3, <2>1 DEF Stores
<1>. QED
  BY <1>1, <1>2, <1>3, Positions

LEMMA OnceOKNext ==
  ASSUME TurnsOK, RowsOK, SessionsExist, ProgressOK, OnceOK, [AgentNext]_agentVars
  PROVE  OnceOK'
<1> SUFFICES ASSUME NEW w \in Tabs, NEW role \in {"user", "assistant"},
                    NEW s \in SessionIds,
                    \/ turns'[w].pc = "question"
                    \/ turns'[w].pc = "answer" /\ role = "assistant"
             PROVE  Position(s, role, TurnOf(w))' = {}
  BY DEF OnceOK, NotStoredYet
<1>1. turns'[w].number \in 1 .. MaxTurns
  BY TurnsOKNext DEF TurnsOK, TurnOK, TurnRecord
<1>2. TurnChange(w)
  BY <1>1, TurnChanges
<1>3. turns[w].pc # "idle" /\ turns'[w].number = turns[w].number
  BY <1>2 DEF TurnChange, Early, StoreQuestion, StoreAnswer
<1>4. turns[w].number \in 1 .. MaxTurns
  BY <1>1, <1>3
<1> DEFINE t == TurnOf(w)
<1>5. t' = t
  BY <1>3 DEF TurnOf
<1>6. Position(s, role, t) = {}
  <2>1. CASE turns'[w] = turns[w]
    BY <2>1 DEF OnceOK, NotStoredYet
  <2>2. CASE turns[w].pc \in Early
    BY <1>4, <2>2 DEF ProgressOK, NothingYet, TurnOf
  <2>3. CASE StoreQuestion(w)
    <3>1. turns[w].pc = "question"
      BY <2>3 DEF StoreQuestion
    <3>. QED
      BY <3>1 DEF OnceOK, NotStoredYet
  <2>. QED
    BY <1>2, <2>1, <2>2, <2>3 DEF TurnChange
<1>7. ~ StoreAnswer(w) /\ (role = "user" => ~ StoreQuestion(w))
  <2>1. StoreAnswer(w) => turns[w].pc = "answer" /\ turns'[w].pc = "summary"
    BY DEF StoreAnswer, TurnsOK, TurnOK, TurnRecord
  <2>2. StoreQuestion(w) => turns[w].pc = "question" /\ turns'[w].pc = "answer"
    BY DEF StoreQuestion, TurnsOK, TurnOK, TurnRecord
  <2>. QED
    BY <2>1, <2>2
<1>8. Position(s, role, t)' = {}
  <2> HIDE DEF t
  <2>1. \A u : u = t => Position(s, role, u)' = {}
    BY <1>3, <1>6, <1>7, StaysEmpty DEF t
  <2>. QED
    BY <1>5, <2>1 DEF Position
<1>. QED
  BY <1>8

\* A step is one of the conversation, or leaves the messages alone.
LEMMA TalkStep ==
  ASSUME TurnsOK, SessionsExist, ProgressOK, OnceOK, [AgentNext]_agentVars
  PROVE  [Talk!Next]_messages
<1>1. \A s \in SessionIds : \A role, t :
        Talk!Said(s, role, t) <=> Position(s, role, t) # {}
  BY DEF Talk!Said, Position
<1>2. ASSUME NEW w \in Tabs, StoreQuestion(w) \/ StoreAnswer(w)
      PROVE  Talk!Next
  <2> DEFINE s == turns[w].session
             t == TurnOf(w)
  <2>1. s \in SessionIds /\ t \in Turns
    BY <1>2, TurnOfType DEF StoreQuestion, StoreAnswer, SessionsExist
  <2>2. CASE StoreQuestion(w)
    <3>1. \A r \in SessionIds, role \in {"user", "assistant"} : Position(r, role, t) = {}
      BY <2>2 DEF StoreQuestion, OnceOK, NotStoredYet
    <3>2. Talk!Say(s, "user", t)
      BY <2>2 DEF StoreQuestion, StoreMessage, Talk!Say
    <3> HIDE DEF s, t
    <3>3. Talk!Ask(s, t)
      BY <1>1, <3>1, <3>2 DEF Talk!Ask, Talk!SaidAnywhere, Talk!Speakers
    <3>. QED
      BY <2>1, <3>3 DEF Talk!Next
  <2>3. CASE StoreAnswer(w)
    <3>1. \A r \in SessionIds : Position(r, "assistant", t) = {}
      BY <2>3 DEF StoreAnswer, OnceOK, NotStoredYet
    <3>2. Position(s, "user", t) # {}
      BY <2>3 DEF StoreAnswer, ProgressOK, StoredSoFar
    <3>3. Talk!Say(s, "assistant", t)
      BY <2>3 DEF StoreAnswer, StoreMessage, Talk!Say
    <3> HIDE DEF s, t
    <3>4. Talk!Answer(s, t)
      BY <1>1, <2>1, <3>1, <3>2, <3>3 DEF Talk!Answer, Talk!SaidAnywhere
    <3>. QED
      BY <2>1, <3>4 DEF Talk!Next
  <2>. QED
    BY <1>2, <2>2, <2>3
<1>3. ASSUME NEW r \in SessionIds, PostMessage(r)
      PROVE  Talk!Next
  BY <1>3 DEF PostMessage, StoreMessage, Talk!Next, Talk!Post, Talk!Say
<1>. QED
  BY <1>2, <1>3, LogSteps

-----------------------------------------------------------------------------
(* The invariant, and what follows from it. *)

AgentInv == RowsOK /\ CopiesOK /\ SessionsExist /\ TurnsOK /\ HistoryOK /\ OnceOK

LEMMA InitRows ==
  ASSUME AgentInit
  PROVE  RowsOK /\ CopiesOK /\ SessionsExist
<1>1. NoGet \in GetRecord /\ NoGet.pc = "idle"
  BY DEF NoGet, GetRecord, Keys, Copies
<1>2. NoPut \in PutRecord /\ NoPut.pc = "idle"
  BY DEF NoPut, PutRecord
<1>3. /\ sessions = [s \in SessionIds |-> None] /\ cache = [k \in Keys |-> None]
      /\ gets = [r \in Readers |-> NoGet] /\ puts = [e \in Editors |-> NoPut]
      /\ edits = 0 /\ posts = 0 /\ invalidated = [s \in SessionIds |-> 0]
      /\ turns = [w \in Tabs |-> NoTurn(0)]
  BY DEF AgentInit, SessionsInit
<1> HIDE DEF NoGet, NoPut
<1>4. RowsOK
  BY <1>2, <1>3, SessionsAssumption DEF RowsOK, Rows
<1>5. CopiesOK
  BY <1>1, <1>3 DEF CopiesOK, StaleOnlyByOverlap, Keys
<1>6. 0 \in 0 .. MaxTurns
  BY AgentAssumption
<1>7. SessionsExist
  BY <1>3, <1>6, NoTurnFields DEF SessionsExist
<1>. QED
  BY <1>4, <1>5, <1>7

LEMMA InitTurns ==
  ASSUME AgentInit
  PROVE  TurnsOK /\ HistoryOK /\ OnceOK
<1>1. 0 \in 0 .. MaxTurns
  BY AgentAssumption
<1> DEFINE idle == NoTurn(0)
<1>2. idle \in TurnRecord /\ idle.pc = "idle" /\ idle.number = 0
  BY <1>1, NoTurnFields
<1>3. /\ turns = [w \in Tabs |-> idle] /\ ended = [t \in Turns |-> "not yet"]
      /\ messages = [s \in SessionIds |-> <<>>]
      /\ sessions = [s \in SessionIds |-> None]
  BY DEF AgentInit, SessionsInit
<1> HIDE DEF idle
<1>4. TurnsOK
  <2>1. messages \in [SessionIds -> Seq(Message)]
    <3>1. <<>> \in Seq(Message)
      OBVIOUS
    <3>. QED
      BY <1>3, <3>1, Zenon
  <2>2. ended \in [Turns -> Endings]
    BY <1>3 DEF Endings
  <2>3. \A w \in Tabs : TurnOK(w, turns[w])
    BY <1>2, <1>3 DEF TurnOK
  <2>. QED
    BY <1>3, <2>1, <2>2, <2>3 DEF TurnsOK
<1>5. \A s \in SessionIds : \A role, t : Position(s, role, t) = {}
  <2>1. \A s \in SessionIds : messages[s] = <<>>
    BY <1>3, Zenon
  <2>2. DOMAIN <<>> = {}
    OBVIOUS
  <2>. QED
    BY <2>1, <2>2, Zenon DEF Position
<1>6. ProgressOK
  BY <1>2, <1>3, <1>5 DEF ProgressOK, NothingYet, StoredSoFar, Turns
<1>7. TurnsAreStoredInOrder
  BY <1>3, <1>5 DEF TurnsAreStoredInOrder
<1>8. FailedTurnsLeaveNoTrace
  BY <1>5 DEF FailedTurnsLeaveNoTrace
<1>9. OnceOK
  BY <1>2, <1>3 DEF OnceOK, NotStoredYet
<1>. QED
  BY <1>4, <1>6, <1>7, <1>8, <1>9 DEF HistoryOK

LEMMA AgentInvNext ==
  ASSUME AgentInv, [AgentNext]_agentVars
  PROVE  AgentInv'
<1>1. RowsOK /\ CopiesOK /\ SessionsExist /\ TurnsOK
      /\ ProgressOK /\ TurnsAreStoredInOrder /\ FailedTurnsLeaveNoTrace
      /\ OnceOK
  BY DEF AgentInv, HistoryOK
<1>2. \A w \in Tabs : turns[w].summary \in Seq(Turns)
  BY <1>1 DEF TurnsOK, TurnOK, TurnRecord
<1>3. RowsOK' /\ TurnsOK' /\ SessionsExist'
  BY <1>1, <1>2, RowsOKNext, TurnsOKNext, SessionsExistNext
<1>4. CopiesOK'
  BY <1>1, <1>2, <1>3, CopiesOKNext
<1>5. HistoryOK'
  BY <1>1, ProgressOKNext, StoredInOrderNext, FailedTurnsNext DEF HistoryOK
<1>6. OnceOK'
  BY <1>1, OnceOKNext
<1>. QED
  BY <1>3, <1>4, <1>5, <1>6 DEF AgentInv

LEMMA AgentInvariant == AgentSpec => []AgentInv
<1>1. AgentInit => AgentInv
  BY InitRows, InitTurns DEF AgentInv
<1>2. AgentInv /\ [AgentNext]_agentVars => AgentInv'
  BY AgentInvNext
<1>. QED
  BY <1>1, <1>2, PTL DEF AgentSpec

\* For any sessions, clients and turns, the messages of the sessions are a
\* conversation.
THEOREM AgentSpeaksConversations == AgentSpec => SessionsAreConversations
<1>1. AgentInit => Talk!Init
  BY DEF AgentInit, SessionsInit, Talk!Init
<1>2. AgentInv /\ [AgentNext]_agentVars => [Talk!Next]_messages
  BY TalkStep DEF AgentInv, HistoryOK
<1>. QED
  BY <1>1, <1>2, AgentInvariant, PTL DEF AgentSpec, SessionsAreConversations, Talk!Spec

\* The tables, the cache, the requests and the turns have their types.
THEOREM AgentTypeCorrect == AgentSpec => []AgentTypeOK
<1>1. AgentInv => AgentTypeOK
  <2> SUFFICES ASSUME AgentInv PROVE AgentTypeOK
    OBVIOUS
  <2>1. RowsOK /\ CopiesOK /\ TurnsOK
    BY DEF AgentInv
  <2>2. \A w \in Tabs :
          /\ turns[w].pc \in {"idle", "messages", "session", "think", "question",
                              "answer", "summary"}
          /\ turns[w].number \in 0 .. MaxTurns
          /\ turns[w].pc # "idle" => turns[w].session \in SessionIds
          /\ turns[w].pc = "think" => turns[w].memory \in Memory
          /\ turns[w].summary \in Seq(Turns)
    BY <2>1 DEF TurnsOK, TurnOK, TurnRecord
  <2>3. /\ sessions \in [SessionIds -> SessionRow \cup {None}]
        /\ puts \in [Editors -> [pc : {"idle", "update", "delete"},
                                 session : SessionIds \cup {None}, wrote : Nat]]
        /\ edits \in 0 .. MaxEdits /\ posts \in 0 .. MaxPosts
        /\ invalidated \in [SessionIds -> Nat]
    BY <2>1 DEF RowsOK, Rows, PutRecord
  <2>4. \A k \in Keys : cache[k] # None =>
          /\ cache[k].copy \in [Covered(k) -> SessionRow \cup {None}]
          /\ cache[k].overlapped \in BOOLEAN
    BY <2>1 DEF CopiesOK, Rows
  <2>5. \A r \in Readers :
          /\ gets[r].pc \in {"idle", "read", "fill"}
          /\ gets[r].key \in Keys
          /\ gets[r].pc = "fill" =>
               gets[r].copy \in [Covered(gets[r].key) -> SessionRow \cup {None}]
    BY <2>1 DEF CopiesOK, Rows, GetRecord
  <2>6. messages \in [SessionIds -> Seq(Message)] /\ ended \in [Turns -> Endings]
    BY <2>1 DEF TurnsOK
  <2>. QED
    BY <2>2, <2>3, <2>4, <2>5, <2>6 DEF AgentTypeOK
<1>. QED
  BY <1>1, AgentInvariant, PTL

\* However the turns of a session and the other requests interleave, and
\* wherever they are cut off, the session holds the answer of a turn only behind
\* its question, and its summary only with both.
THEOREM TurnsStoredInOrder == AgentSpec => []TurnsAreStoredInOrder
<1>1. AgentInv => TurnsAreStoredInOrder
  BY DEF AgentInv, HistoryOK
<1>. QED
  BY <1>1, AgentInvariant, PTL

\* A turn that was answered with an error has stored nothing and stores nothing
\* later.
THEOREM FailedTurnsTraceless == AgentSpec => []FailedTurnsLeaveNoTrace
<1>1. AgentInv => FailedTurnsLeaveNoTrace
  BY DEF AgentInv, HistoryOK
<1>. QED
  BY <1>1, AgentInvariant, PTL

\* A copy from before a deletion of its key is in the cache only if the GET that
\* stored it overlapped with the PUT.
THEOREM StaleCopiesOverlap == AgentSpec => []StaleOnlyByOverlap
<1>1. AgentInv => StaleOnlyByOverlap
  BY DEF AgentInv, CopiesOK
<1>. QED
  BY <1>1, AgentInvariant, PTL

\* Whatever a turn is about to answer, it answers with full confidence only on
\* data of the creator, and cites a source.
THEOREM FullAnswersGrounded == AgentSpec => []FullAnswersAreGrounded
<1>1. AgentInv => FullAnswersAreGrounded
  <2> SUFFICES ASSUME AgentInv, NEW w \in Tabs
               PROVE  \A answer \in Answers[turns[w].pinned] :
                        answer.mode = "full" => answer.own /\ answer.cited
    BY DEF FullAnswersAreGrounded
  <2>1. turns[w].pinned \in 0 .. MaxPinned
    BY DEF AgentInv, TurnsOK, TurnOK, TurnRecord
  <2>. QED
    BY <2>1, FullAnswersNeedOwnData, Zenon
<1>. QED
  BY <1>1, AgentInvariant, PTL
=============================================================================
