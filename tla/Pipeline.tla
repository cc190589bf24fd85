------------------------------ MODULE Pipeline ------------------------------
(***************************************************************************)
(* Runs of the pipeline (pipeline.py) and of its knowledge stage           *)
(* (creator_pipeline.py), by any task of the process: a run takes its       *)
(* stages one after the other and folds their results into a status; the    *)
(* knowledge stage finds the account, reads the newest reels of all          *)
(* accounts, as many as its caller allows, and writes the profile of that    *)
(* account.                                                                  *)
(*                                                                         *)
(* The jobs of the other stages are those of Catalog; here such a stage     *)
(* succeeds or fails.  A profile is known by the number of reels it was     *)
(* built from (CreatorProfiles of Patterns says what it then contains).     *)
(***************************************************************************)
EXTENDS Patterns

CONSTANTS
  Accounts,   \* accounts that may be ingested
  Tasks,      \* what may run the pipeline
  Elsewhere,  \* those of them that other workers of the program serve
  StartupLimit, RunLimit, IngestLimit,
              \* "limit" of the reels that a run reads: at the start of a process,
              \* in the loops and POST /pipeline/run, in POST /ingest/account
  MaxReels    \* bound: reels in the table

Default == "default"

\* A row of "CreatorProfile", and what is known of the run that wrote it: how
\* many reels it might read, and whether it was overtaken.
Profile == [reels : Nat, limit : Nat, raced : BOOLEAN]

Limits == {StartupLimit, RunLimit, IngestLimit}

ASSUME PipelineAssumption ==
  /\ Default \notin Accounts
  /\ Elsewhere \subseteq Tasks
  /\ None \notin Profile
  /\ StartupLimit \in Nat /\ RunLimit \in Nat /\ IngestLimit \in Nat
  /\ MaxReels \in Nat

VARIABLES
  accounts,   \* the rows of "Account", by "createdAt"
  withReels,  \* the accounts that have reels
  reels,      \* the number of rows of "Reel"
  profiles,   \* profiles[a]: the row of "CreatorProfile", or None
  runs,       \* runs[p]: the local variables of the run of p
  lastRun     \* _LAST_RUN["status"] of routes/creator.py

pipelineVars == <<accounts, withReels, reels, profiles, runs, lastRun>>

Stages == {"ingestion", "enrichment", "analytics", "intelligence", "knowledge",
           "agent", "retrieval"}

AllStages == <<"ingestion", "enrichment", "analytics", "intelligence",
               "knowledge", "agent", "retrieval">>

NoRun == [pc |-> "idle", alone |-> FALSE, todo |-> <<>>, results |-> {},
          status |-> "success", asked |-> Default, account |-> Default,
          limit |-> 0, ingested |-> 0, seen |-> 0, overtaken |-> FALSE]

Known == {accounts[k] : k \in DOMAIN accounts}

PipelineInit ==
  /\ accounts = <<>>
  /\ withReels = {}
  /\ reels = 0
  /\ profiles = [a \in Accounts |-> None]
  /\ runs = [p \in Tasks |-> NoRun]
  /\ lastRun = "never_run"

\* The newest of a set of accounts.
Newest(S) == accounts[Max({k \in DOMAIN accounts : accounts[k] \in S})]

\* LIMIT
UpTo(limit, n) == IF n < limit THEN n ELSE limit

\* Where a run goes on: a knowledge stage for a named account resolves nothing.
Entry(todo, asked) ==
  IF todo = <<>> THEN "ended"
  ELSE IF Head(todo) # "knowledge" THEN "stage"
  ELSE IF asked = Default THEN "resolve" ELSE "read"

\* run_pipeline; "ingested" is history: how many reels were stored when a caller
\* that has just ingested an account started the run.
StartRun(p, stages, asked, limit, ingested) ==
  runs' = [runs EXCEPT ![p] =
    [NoRun EXCEPT !.pc = Entry(stages, asked), !.todo = stages, !.asked = asked,
                  !.account = asked, !.limit = limit, !.ingested = ingested]]

\* run_creator_intelligence_pipeline called without run_pipeline
StartCreatorRun(p, limit) ==
  runs' = [runs EXCEPT ![p] =
    [NoRun EXCEPT !.pc = "again", !.alone = TRUE, !.limit = limit]]

\* Mutant of Fold: a skipped stage makes the run partial whatever it was.
FoldSkipped(status, result) ==
  CASE result = "failed" -> "failed"
    [] result = "skipped" -> "partial"
    [] OTHER -> status

Fold(status, result) ==
  CASE result = "failed" -> "failed"
    [] result = "skipped" /\ status = "success" -> "partial"
    [] OTHER -> status

\* The result of the first stage to do is recorded; the next one begins.
AfterStage(run, result) ==
  [run EXCEPT !.pc = Entry(Tail(run.todo), run.asked), !.todo = Tail(run.todo),
              !.results = @ \cup {result}, !.status = Fold(@, result),
              !.account = run.asked, !.seen = 0, !.overtaken = FALSE]

\* Mutant of AfterCreatorRun: the status of the creator run is passed on as it is.
AfterCreatorRunRaw(run, outcome) ==
  IF run.alone THEN [NoRun EXCEPT !.pc = "ended", !.alone = TRUE, !.status = outcome]
  ELSE AfterStage(run, outcome)

\* The creator run returns "completed" or "failed", or raises.
AfterCreatorRun(run, outcome) ==
  IF run.alone THEN [NoRun EXCEPT !.pc = "ended", !.alone = TRUE, !.status = outcome]
  ELSE AfterStage(run, IF outcome = "completed" THEN "success" ELSE "failed")

-----------------------------------------------------------------------------
\* No caller gives usernames to the ingestion stage, so it is skipped.
StageResults(stage) ==
  IF stage = "ingestion" THEN {"skipped"} ELSE {"success", "failed"}

StageEnds(p) ==
  /\ runs[p].pc = "stage"
  /\ \E result \in StageResults(Head(runs[p].todo)) :
       runs' = [runs EXCEPT ![p] = AfterStage(@, result)]
  /\ UNCHANGED <<accounts, withReels, reels, profiles, lastRun>>

\* get_primary_account_id, which run_knowledge_stage calls for "default" and the
\* creator run calls again if there was none: the newest account with reels, or,
\* by another query, the newest.
Resolve(p) ==
  /\ runs[p].pc \in {"resolve", "again"}
  /\ runs' = [runs EXCEPT ![p] =
       IF withReels # {} THEN [@ EXCEPT !.pc = "read", !.account = Newest(withReels)]
       ELSE [@ EXCEPT !.pc = IF runs[p].pc = "resolve" THEN "resolve any" ELSE "again any"]]
  /\ UNCHANGED <<accounts, withReels, reels, profiles, lastRun>>

\* After the second time the sentinel is taken for an id.
ResolveAny(p) ==
  /\ runs[p].pc \in {"resolve any", "again any"}
  /\ runs' = [runs EXCEPT ![p] =
       IF Known # {} THEN [@ EXCEPT !.pc = "read", !.account = Newest(Known)]
       ELSE [@ EXCEPT !.pc = IF runs[p].pc = "resolve any" THEN "again" ELSE "read"]]
  /\ UNCHANGED <<accounts, withReels, reels, profiles, lastRun>>

\* Outside the try block of the creator run, which records nothing.
ResolveFails(p) ==
  /\ runs[p].pc \in {"resolve", "again", "resolve any", "again any"}
  /\ runs' = [runs EXCEPT ![p] = AfterCreatorRun(@, "raised")]
  /\ UNCHANGED <<accounts, withReels, reels, profiles, lastRun>>

\* get_reels_with_full_intelligence: the newest reels of every account.
ReadReels(p) ==
  /\ runs[p].pc = "read"
  /\ runs' = [runs EXCEPT ![p].pc = "write", ![p].seen = UpTo(runs[p].limit, reels)]
  /\ UNCHANGED <<accounts, withReels, reels, profiles, lastRun>>

\* Each process has its own _LAST_RUN.
LastRun(p, status) == lastRun' = IF p \in Elsewhere THEN lastRun ELSE status

\* A row of "CreatorProfile" needs an account.  Other runs that are about to
\* write the same row have been overtaken.
WriteProfile(p) ==
  LET run == runs[p]
  IN  /\ run.pc = "write"
      /\ run.account \in Known
      /\ profiles' = [profiles EXCEPT ![run.account] =
           [reels |-> run.seen, limit |-> run.limit, raced |-> run.overtaken]]
      /\ runs' = [q \in Tasks |->
           IF q = p THEN AfterCreatorRun(run, "completed")
           ELSE IF runs[q].pc = "write" /\ runs[q].account = run.account
             THEN [runs[q] EXCEPT !.overtaken = TRUE]
           ELSE runs[q]]
      /\ LastRun(p, "completed")
      /\ UNCHANGED <<accounts, withReels, reels>>

\* Mutant of CreatorRunFails: the profile is written without any pattern.
CreatorRunFailsEmpty(p) ==
  /\ runs[p].pc \in {"read", "write"}
  /\ runs' = [runs EXCEPT ![p] = AfterCreatorRun(@, "failed")]
  /\ profiles' = [a \in Accounts |->
       IF a = runs[p].account
         THEN [reels |-> 0, limit |-> runs[p].limit, raced |-> FALSE]
       ELSE profiles[a]]
  /\ LastRun(p, "failed")
  /\ UNCHANGED <<accounts, withReels, reels>>

\* A query fails, or the account is not one.
CreatorRunFails(p) ==
  /\ runs[p].pc \in {"read", "write"}
  /\ runs' = [runs EXCEPT ![p] = AfterCreatorRun(@, "failed")]
  /\ LastRun(p, "failed")
  /\ UNCHANGED <<accounts, withReels, reels, profiles>>

RunGoesOn(p) ==
  \/ StageEnds(p)
  \/ Resolve(p)
  \/ ResolveAny(p)
  \/ ResolveFails(p)
  \/ ReadReels(p)
  \/ WriteProfile(p)
  \/ CreatorRunFails(p)
=============================================================================
