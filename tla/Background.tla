----------------------------- MODULE Background -----------------------------
(***************************************************************************)
(* The process around the pipeline: its start (lifespan of main.py), the    *)
(* two loops of scheduler.py, the requests that run the pipeline            *)
(* (routes/pipeline.py, routes/ingest.py) or edit prompts, and the          *)
(* counters by which the health routes and the alerts judge the loops.  Of   *)
(* the other workers of the program, which share its tables, there are the   *)
(* requests they serve, the runs they start on their own, and their updates. *)
(***************************************************************************)
EXTENDS Pipeline, Prompts

CONSTANTS
  Clients,        \* clients that run the pipeline; each waits for its answer
  Requested,      \* the lists of stages that POST /pipeline/run may name
  SchedulersEnabled, StartupJobs,  \* SCHEDULERS_ENABLED, RUN_STARTUP_JOBS
  MaxIterations,  \* bound: iterations of a loop in one life of the process
  MaxRequests     \* bound: requests

Loops == {"creator", "pipeline"}

ASSUME BackgroundAssumption ==
  /\ Tasks = Loops \cup {"startup"} \cup Clients
  /\ Clients \cap (Loops \cup {"startup"}) = {}
  /\ Elsewhere \subseteq Clients
  /\ Requested \subseteq Seq(Stages)
  /\ SchedulersEnabled \in BOOLEAN /\ StartupJobs \in BOOLEAN
  /\ MaxIterations \in Nat /\ MaxRequests \in Nat

VARIABLES
  phase,      \* of the process: "down", "booting", "starting" or "up"
  failures,   \* _consecutive_failures, _pipeline_consecutive_failures
  outcomes,   \* outcomes[l]: which iterations of l in this process were good
  ingesting,  \* ingesting[c]: the account that POST /ingest/account of c fetches
  requests    \* requests sent

loopVars == <<failures, outcomes>>
backgroundVars == <<pipelineVars, promptVars, phase, loopVars, ingesting, requests>>

NoIngest == [pc |-> "idle", account |-> Default]

BackgroundInit ==
  /\ PipelineInit
  /\ PromptsInit
  /\ phase = "down"
  /\ failures = [l \in Loops |-> 0]
  /\ outcomes = [l \in Loops |-> <<>>]
  /\ ingesting = [c \in Clients |-> NoIngest]
  /\ requests = 0

-----------------------------------------------------------------------------
\* lifespan
Boot ==
  /\ phase = "down"
  /\ phase' = "booting"
  /\ UNCHANGED <<pipelineVars, promptVars, loopVars, ingesting, requests>>

\* The prompts are loaded, and the startup jobs run if they are enabled, the
\* creator run first.  (The snapshot before it is a job of Catalog.)
LoadAndStart ==
  /\ phase = "booting"
  /\ LoadPrompts
  /\ IF StartupJobs THEN phase' = "starting" /\ StartCreatorRun("startup", StartupLimit)
     ELSE phase' = "up" /\ UNCHANGED runs
  /\ UNCHANGED <<accounts, withReels, reels, profiles, lastRun, promptRows,
                 promptEdits, promptsOwn, loopVars, ingesting, requests>>

StartupPipeline ==
  /\ phase = "starting"
  /\ runs["startup"].pc = "ended" /\ runs["startup"].alone
  /\ StartRun("startup", Tail(AllStages), Default, StartupLimit, 0)
  /\ UNCHANGED <<accounts, withReels, reels, profiles, lastRun, promptVars, phase,
                 loopVars, ingesting, requests>>

\* Whatever came of the jobs, the process goes on to serve requests.
StartupEnds ==
  /\ phase = "starting"
  /\ runs["startup"].pc = "ended" /\ ~ runs["startup"].alone
  /\ runs' = [runs EXCEPT !["startup"] = NoRun]
  /\ phase' = "up"
  /\ UNCHANGED <<accounts, withReels, reels, profiles, lastRun, promptVars,
                 loopVars, ingesting, requests>>

\* A shutdown or a crash: the tables stay, what is in memory goes, and what other
\* workers do goes on.
Stop ==
  /\ phase # "down"
  /\ phase' = "down"
  /\ runs' = [p \in Tasks |-> IF p \in Elsewhere THEN runs[p] ELSE NoRun]
  /\ lastRun' = "never_run"
  /\ ForgetPrompts
  /\ failures' = [l \in Loops |-> 0]
  /\ outcomes' = [l \in Loops |-> <<>>]
  /\ ingesting' = [c \in Clients |->
       IF c \in Elsewhere THEN ingesting[c] ELSE NoIngest]
  /\ UNCHANGED <<accounts, withReels, reels, profiles, promptRows, requests>>

-----------------------------------------------------------------------------
\* creator_update_loop, pipeline_update_loop: an iteration, first at the start
\* of the process and then after each sleep.
Iterate(l) ==
  /\ phase = "up" /\ SchedulersEnabled
  /\ runs[l].pc = "idle"
  /\ Len(outcomes[l]) < MaxIterations
  /\ IF l = "creator" THEN StartCreatorRun(l, RunLimit)
     ELSE StartRun(l, SubSeq(AllStages, 2, 5), Default, RunLimit, 0)
  /\ UNCHANGED <<accounts, withReels, reels, profiles, lastRun, promptVars, phase,
                 loopVars, ingesting, requests>>

\* Mutant of Failed: only exceptions count.
FailedByException(status) == status = "raised"

Failed(status) == status \in {"failed", "raised"}

\* Mutant of CountOutcome: an exception is not caught and ends the loop.
CountReturned(l) ==
  /\ runs[l].pc = "ended" /\ runs[l].status # "raised"
  /\ failures' = [failures EXCEPT ![l] = IF Failed(runs[l].status) THEN @ + 1 ELSE 0]
  /\ outcomes' = [outcomes EXCEPT ![l] =
                      Append(@, runs[l].status \in {"success", "partial", "completed"})]
  /\ runs' = [runs EXCEPT ![l] = NoRun]
  /\ UNCHANGED <<accounts, withReels, reels, profiles, lastRun, promptVars, phase,
                 ingesting, requests>>

\* The iteration is counted; the loop sleeps.
CountOutcome(l) ==
  /\ runs[l].pc = "ended"
  /\ failures' = [failures EXCEPT ![l] = IF Failed(runs[l].status) THEN @ + 1 ELSE 0]
  /\ outcomes' = [outcomes EXCEPT ![l] =
                      Append(@, runs[l].status \in {"success", "partial", "completed"})]
  /\ runs' = [runs EXCEPT ![l] = NoRun]
  /\ UNCHANGED <<accounts, withReels, reels, profiles, lastRun, promptVars, phase,
                 ingesting, requests>>

-----------------------------------------------------------------------------
Send ==
  /\ requests < MaxRequests
  /\ requests' = requests + 1

\* The worker that serves c is up.
SendTo(c) == Send /\ (phase = "up" \/ c \in Elsewhere)

\* POST /pipeline/run
RequestRun(c) ==
  /\ SendTo(c)
  /\ runs[c].pc = "idle" /\ ingesting[c].pc = "idle"
  /\ \E stages \in Requested : StartRun(c, stages, Default, RunLimit, 0)
  /\ UNCHANGED <<accounts, withReels, reels, profiles, lastRun, promptVars, phase,
                 loopVars, ingesting>>

\* Another worker starts a run on its own: a loop of it, or its startup.
RunElsewhere(c) ==
  /\ Send
  /\ c \in Elsewhere
  /\ runs[c].pc = "idle" /\ ingesting[c].pc = "idle"
  /\ \/ \E limit \in {StartupLimit, RunLimit} : StartCreatorRun(c, limit)
     \/ StartRun(c, SubSeq(AllStages, 2, 5), Default, RunLimit, 0)
     \/ StartRun(c, Tail(AllStages), Default, StartupLimit, 0)
  /\ UNCHANGED <<accounts, withReels, reels, profiles, lastRun, promptVars, phase,
                 loopVars, ingesting>>

\* POST /ingest/account
RequestIngest(c, a) ==
  /\ SendTo(c)
  /\ runs[c].pc = "idle" /\ ingesting[c].pc = "idle"
  /\ ingesting' = [ingesting EXCEPT ![c] = [pc |-> "account", account |-> a]]
  /\ UNCHANGED <<pipelineVars, promptVars, phase, loopVars>>

\* ingest_creator: the account, then its reels, as many as can be stored.
StoreAccount(c) ==
  LET a == ingesting[c].account
  IN  /\ ingesting[c].pc = "account"
      /\ accounts' = IF a \in Known THEN accounts ELSE Append(accounts, a)
      /\ ingesting' = [ingesting EXCEPT ![c].pc = "reels"]
      /\ UNCHANGED <<withReels, reels, profiles, runs, lastRun, promptVars, phase,
                     loopVars, requests>>

StoreReel(c) ==
  /\ ingesting[c].pc = "reels"
  /\ reels < MaxReels
  /\ reels' = reels + 1
  /\ withReels' = withReels \cup {ingesting[c].account}
  /\ UNCHANGED <<accounts, profiles, runs, lastRun, promptVars, phase, loopVars,
                 ingesting, requests>>

\* An error of HikerAPI, or of a query: the request is answered with an error.
IngestFails(c) ==
  /\ ingesting[c].pc # "idle"
  /\ ingesting' = [ingesting EXCEPT ![c] = NoIngest]
  /\ UNCHANGED <<pipelineVars, promptVars, phase, loopVars, requests>>

\* Mutant of AnalyseIngested: the account is not passed on.
AnalyseDefault(c) ==
  /\ ingesting[c].pc = "reels"
  /\ StartRun(c, SubSeq(AllStages, 3, 5), Default, IngestLimit, reels)
  /\ ingesting' = [ingesting EXCEPT ![c].pc = "analysed"]
  /\ UNCHANGED <<accounts, withReels, reels, profiles, lastRun, promptVars, phase,
                 loopVars, requests>>

AnalyseIngested(c) ==
  /\ ingesting[c].pc = "reels"
  /\ StartRun(c, SubSeq(AllStages, 3, 5), ingesting[c].account, IngestLimit, reels)
  /\ ingesting' = [ingesting EXCEPT ![c].pc = "analysed"]
  /\ UNCHANGED <<accounts, withReels, reels, profiles, lastRun, promptVars, phase,
                 loopVars, requests>>

\* The answer, of POST /ingest/account "ok" whatever the status of the run, or the
\* end of a run that nobody waits for.
Respond(c) ==
  /\ runs[c].pc = "ended"
  /\ runs' = [runs EXCEPT ![c] = NoRun]
  /\ ingesting' = [ingesting EXCEPT ![c] = NoIngest]
  /\ UNCHANGED <<accounts, withReels, reels, profiles, lastRun, promptVars, phase,
                 loopVars, requests>>

RequestEdit(e) ==
  /\ Send
  /\ phase = "up"
  /\ StartEdit(e)
  /\ UNCHANGED <<pipelineVars, phase, loopVars, ingesting>>

\* PUT /admin/prompts/{key}, served by another worker.
EditElsewhere ==
  /\ Send
  /\ UpsertElsewhere
  /\ UNCHANGED <<pipelineVars, phase, loopVars, ingesting>>

-----------------------------------------------------------------------------
otherVars == <<promptVars, phase, loopVars, ingesting, requests>>

StartupGoesOn == LoadAndStart \/ StartupPipeline \/ StartupEnds

ClientGoesOn(c) ==
  StoreAccount(c) \/ IngestFails(c) \/ AnalyseIngested(c) \/ Respond(c)

BackgroundNext ==
  \/ Boot \/ StartupGoesOn \/ Stop
  \/ \E p \in Tasks : RunGoesOn(p) /\ UNCHANGED otherVars
  \/ \E l \in Loops : Iterate(l) \/ CountOutcome(l)
  \/ \E c \in Clients :
       \/ RequestRun(c) \/ RunElsewhere(c)
       \/ \E a \in Accounts : RequestIngest(c, a)
       \/ ClientGoesOn(c) \/ StoreReel(c)
  \/ EditElsewhere
  \/ \E e \in PromptEditors :
       \/ RequestEdit(e)
       \/ EditGoesOn(e) /\ UNCHANGED <<pipelineVars, phase, loopVars, ingesting, requests>>

BackgroundSpec == BackgroundInit /\ [][BackgroundNext]_backgroundVars

\* The event loop resumes the task of the startup whenever its await is over,
\* and those of the loops, whose sleeps end.
BackgroundFairness ==
  LET runs_on(p) == RunGoesOn(p) /\ UNCHANGED otherVars
  IN  /\ WF_backgroundVars(StartupGoesOn \/ runs_on("startup"))
      /\ \A l \in Loops :
           WF_backgroundVars(Iterate(l) \/ runs_on(l) \/ CountOutcome(l))

FairBackgroundSpec == BackgroundSpec /\ BackgroundFairness

-----------------------------------------------------------------------------
(* Properties. *)

Statuses == {"success", "partial", "failed", "completed", "raised"}

Run == [pc : {"idle", "stage", "resolve", "resolve any", "again", "again any",
              "read", "write", "ended"},
        alone : BOOLEAN, todo : Seq(Stages),
        results : SUBSET {"success", "skipped", "failed"},
        status : Statuses, asked : Accounts \cup {Default},
        account : Accounts \cup {Default}, limit : Nat, ingested : Nat, seen : Nat,
        overtaken : BOOLEAN]

\* Every variable has its type.
BackgroundTypeOK ==
  /\ accounts \in Seq(Accounts)
  /\ withReels \subseteq Known
  /\ reels \in Nat
  /\ profiles \in [Accounts -> {None} \cup Profile]
  /\ runs \in [Tasks -> Run]
  /\ lastRun \in {"never_run", "completed", "failed"}
  /\ promptRows \in Nat
  /\ promptCache \in Nat
  /\ promptEdits \in [PromptEditors -> [pc : {"idle", "upsert", "select", "install"},
                                        rows : Nat, behind : SUBSET Reasons]]
  /\ promptsOwn \in Nat
  /\ promptsLag \subseteq Reasons
  /\ phase \in {"down", "booting", "starting", "up"}
  /\ failures \in [Loops -> Nat]
  /\ outcomes \in [Loops -> Seq(BOOLEAN)]
  /\ ingesting \in [Clients -> [pc : {"idle", "account", "reels", "analysed"},
                                account : Accounts \cup {Default}]]
  /\ requests \in Nat

\* The status a pipeline run reports is that of its worst stage: a failure
\* sticks, and a skipped stage neither hides one nor is hidden by a success.
RunStatusIsWorst ==
  \A p \in Tasks : ~ runs[p].alone =>
    runs[p].status = CASE "failed" \in runs[p].results -> "failed"
                       [] "skipped" \in runs[p].results
                          /\ "failed" \notin runs[p].results -> "partial"
                       [] OTHER -> "success"

\* The counter of a loop, on which /pipeline/health, /knowledge/health and the
\* alerts decide, is the number of its last iterations in this process that
\* failed one after the other, by a status or by an exception; runs that a
\* request started neither raise nor clear it.
CountersCountFailures ==
  \A l \in Loops :
    LET n == Len(outcomes[l])
    IN  /\ failures[l] <= n
        /\ \A k \in n - failures[l] + 1 .. n : ~ outcomes[l][k]
        /\ failures[l] < n => outcomes[l][n - failures[l]]

\* Whatever fails in the startup jobs and in its iterations, a loop of a process
\* that is not stopped goes through all of them.
LoopsGoOn ==
  \A l \in Loops :
    phase # "down" /\ SchedulersEnabled ~>
      phase = "down" \/ Len(outcomes[l]) = MaxIterations

\* A run that was not overtaken builds a profile from no fewer reels than the
\* profile it replaces was built from, or from as many as its caller allows: no
\* run takes the profile back but one whose "limit" is smaller than what there
\* was, or one that another run has overtaken between its read and its write.
ProfilesFollowReels ==
  [][\A a \in Accounts :
       profiles[a] # None /\ profiles'[a] # profiles[a] =>
         \/ profiles'[a].reels >= UpTo(profiles'[a].limit, profiles[a].reels)
         \/ profiles'[a].raced]_backgroundVars

\* When POST /ingest/account reports that its pipeline succeeded, the account it
\* ingested has a profile, built from no fewer reels than were stored before the
\* pipeline began, or from as many as the run that wrote it might read, unless
\* that run was overtaken.
IngestedAccountHasProfile ==
  \A c \in Clients :
    runs[c].pc = "ended" /\ runs[c].status = "success"
      /\ ingesting[c].pc = "analysed" =>
        LET profile == profiles[ingesting[c].account]
        IN  /\ profile # None
            /\ \/ profile.reels >= UpTo(profile.limit, runs[c].ingested)
               \/ profile.raced

\* The numbers n such that no n reels make a topic both one to take and one to
\* avoid, unless there are too few topics or another one does as well.
ConsistentAdvice ==
  {n \in 0 .. MaxReels :
     \A made \in CreatorProfiles(n) :
       LET topics == ValuesOf(made.rows, "topic")
           equal(v, w) == /\ ~ LessEngaging(made.rows, "topic", v, w)
                          /\ ~ LessEngaging(made.rows, "topic", w, v)
       IN  \A t \in Range(made.profile.bestTopics)
                    \cap Range(made.profile.worstTopics) :
             \/ Cardinality(topics) < 2 * TopN
             \/ \E v \in topics \ {t} : equal(v, t)}

\* A stored profile recommends and advises against the same topic only when
\* there are too few topics for both lists or another topic does as well.
AdviceIsConsistent ==
  \A a \in Accounts : profiles[a] # None => profiles[a].reels \in ConsistentAdvice

\* When no PUT that this process serves is under way, and its last refresh
\* neither failed nor overlapped with another update by this process, it answers
\* with every update that it has stored itself, and, unless another worker has
\* stored one since, with the prompts of the table.
PromptsFollowOwnUpdates ==
  phase = "up" /\ (\A e \in PromptEditors : promptEdits[e].pc = "idle")
    /\ promptsLag \subseteq {"elsewhere"} =>
      /\ promptCache >= promptsOwn
      /\ promptsLag = {} => promptCache = promptRows
=============================================================================
