------------------------------ MODULE Prompts ------------------------------
(***************************************************************************)
(* The prompts that can be edited while the program runs: the rows of      *)
(* "SystemPrompt", PUT /admin/prompts/{key} (routes/admin_prompts.py) and   *)
(* the cache in memory (PromptCache of prompts.py).  refresh reads all rows *)
(* and replaces the whole cache, so the table and the cache are each told   *)
(* apart by the number of updates they contain.                            *)
(*                                                                         *)
(* There are several processes on one table (Dockerfile: 4 workers), each   *)
(* with a cache of its own that a PUT served by another one does not        *)
(* refresh.  This is the cache of one of them; of the others only the       *)
(* updates are seen.                                                       *)
(***************************************************************************)
EXTENDS Integers

CONSTANT PromptEditors  \* clients of PUT /admin/prompts/{key} of this process

VARIABLES
  promptRows,   \* updates in the table
  promptCache,  \* updates in the cache of the process
  promptEdits,  \* promptEdits[e]: the local variables of a PUT
  promptsOwn,   \* the last update that this process has stored
  promptsLag    \* why the cache may lag behind the table

promptVars == <<promptRows, promptCache, promptEdits, promptsOwn, promptsLag>>

\* The last refresh failed; it overlapped with an update by this process; or
\* another process has stored an update since it read the table.
Reasons == {"failed", "overlapped", "elsewhere"}

\* "behind": the reasons for which the rows of a refresh lag once it has read them.
NoEdit == [pc |-> "idle", rows |-> 0, behind |-> {}]

PromptsInit ==
  /\ promptRows = 0
  /\ promptCache = 0
  /\ promptEdits = [e \in PromptEditors |-> NoEdit]
  /\ promptsOwn = 0
  /\ promptsLag = {}

\* The key is known and the content is not blank.
StartEdit(e) ==
  /\ promptEdits[e].pc = "idle"
  /\ promptEdits' = [promptEdits EXCEPT ![e].pc = "upsert"]
  /\ UNCHANGED <<promptRows, promptCache, promptsOwn, promptsLag>>

\* The refreshes that have read the table before an update lag behind it.
Outdated(reason) ==
  [e \in PromptEditors |->
     IF promptEdits[e].pc # "install" THEN promptEdits[e]
     ELSE [promptEdits[e] EXCEPT !.behind = @ \cup {reason}]]

\* upsert_prompt
UpsertPrompt(e) ==
  /\ promptEdits[e].pc = "upsert"
  /\ promptRows' = promptRows + 1
  /\ promptsOwn' = promptRows + 1
  /\ promptEdits' = [Outdated("overlapped") EXCEPT ![e].pc = "select"]
  /\ UNCHANGED <<promptCache, promptsLag>>

\* upsert_prompt of a PUT that another process serves.
UpsertElsewhere ==
  /\ promptRows' = promptRows + 1
  /\ promptEdits' = Outdated("elsewhere")
  /\ promptsLag' = promptsLag \cup {"elsewhere"}
  /\ UNCHANGED <<promptCache, promptsOwn>>

UpsertFails(e) ==
  /\ promptEdits[e].pc = "upsert"
  /\ promptEdits' = [promptEdits EXCEPT ![e] = NoEdit]
  /\ UNCHANGED <<promptRows, promptCache, promptsOwn, promptsLag>>

\* refresh: get_all_prompts
SelectPrompts(e) ==
  /\ promptEdits[e].pc = "select"
  /\ promptEdits' = [promptEdits EXCEPT ![e].pc = "install", ![e].rows = promptRows]
  /\ UNCHANGED <<promptRows, promptCache, promptsOwn, promptsLag>>

\* A failed refresh keeps the cache; the PUT is answered all the same.
RefreshFails(e) ==
  /\ promptEdits[e].pc = "select"
  /\ promptEdits' = [promptEdits EXCEPT ![e] = NoEdit]
  /\ promptsLag' = promptsLag \cup {"failed"}
  /\ UNCHANGED <<promptRows, promptCache, promptsOwn>>

\* Mutant of InstallPrompts: only the first refresh fills the cache.
InstallOnce(e) ==
  /\ promptEdits[e].pc = "install"
  /\ promptCache' = IF promptCache = 0 THEN promptEdits[e].rows ELSE promptCache
  /\ promptsLag' = promptEdits[e].behind
  /\ promptEdits' = [promptEdits EXCEPT ![e] = NoEdit]
  /\ UNCHANGED <<promptRows, promptsOwn>>

InstallPrompts(e) ==
  /\ promptEdits[e].pc = "install"
  /\ promptCache' = promptEdits[e].rows
  /\ promptsLag' = promptEdits[e].behind
  /\ promptEdits' = [promptEdits EXCEPT ![e] = NoEdit]
  /\ UNCHANGED <<promptRows, promptsOwn>>

\* lifespan: the cache of a new process is empty and refreshed once, before the
\* process serves requests.
LoadPrompts ==
  \/ promptCache' = promptRows /\ promptsLag' = {}
  \/ promptCache' = 0 /\ promptsLag' = IF promptRows > 0 THEN {"failed"} ELSE {}

\* What is in memory goes with the process.
ForgetPrompts ==
  /\ promptCache' = 0
  /\ promptEdits' = [e \in PromptEditors |-> NoEdit]
  /\ promptsOwn' = 0
  /\ promptsLag' = {}

EditGoesOn(e) ==
  \/ UpsertPrompt(e)
  \/ UpsertFails(e)
  \/ SelectPrompts(e)
  \/ RefreshFails(e)
  \/ InstallPrompts(e)
=============================================================================
