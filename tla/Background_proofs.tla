------------------------- MODULE Background_proofs -------------------------
(***************************************************************************)
(* Theorems about the process around the pipeline, for any accounts,       *)
(* clients, requests and numbers of iterations.                            *)
(***************************************************************************)
EXTENDS Background, Patterns_proofs, SequenceTheorems

\* Both queries of get_primary_account_id answer a stored account if they find any.
LEMMA NewestIn ==
  ASSUME accounts \in Seq(Accounts), NEW S, S \subseteq Known, S # {}
  PROVE  Newest(S) \in S /\ Newest(S) \in Accounts
<1> DEFINE T == {k \in DOMAIN accounts : accounts[k] \in S}
<1>1. T \in SUBSET (1 .. Len(accounts)) /\ T # {}
  <2>1. PICK a \in S : a \in Known
    OBVIOUS
  <2>2. DOMAIN accounts = 1 .. Len(accounts)
    OBVIOUS
  <2>. QED
    BY <2>1, <2>2 DEF Known
<1>2. Max(T) \in T
  <2> HIDE DEF T
  <2>. QED
    BY <1>1, GreatestNat, LenProperties
<1>3. Newest(S) = accounts[Max(T)]
  BY DEF Newest
<1>. QED
  BY <1>2, <1>3

LEMMA LimitsAreNat == StartupLimit \in Nat /\ RunLimit \in Nat /\ IngestLimit \in Nat
BY PipelineAssumption

LEMMA UpToType == \A limit, n \in Nat : UpTo(limit, n) \in Nat /\ UpTo(limit, n) <= n
BY DEF UpTo

LEMMA UpToGrows ==
  \A limit, m, n \in Nat : m <= n => UpTo(limit, m) <= UpTo(limit, n)
BY DEF UpTo

-----------------------------------------------------------------------------
(* Runs. *)

Worst(results) ==
  CASE "failed" \in results -> "failed"
    [] "skipped" \in results /\ "failed" \notin results -> "partial"
    [] OTHER -> "success"

\* A run under way has something to do; its status is that of its worst stage.
RunOK(r) ==
  /\ r \in Run
  /\ r.pc \notin {"idle", "ended"} /\ ~ r.alone => r.todo # <<>>
  /\ ~ r.alone => r.status = Worst(r.results)
  /\ r.alone => r.pc # "stage"

Results == {"success", "skipped", "failed"}

LEMMA NoRunFields ==
  /\ NoRun \in Run /\ NoRun.pc = "idle" /\ ~ NoRun.alone /\ NoRun.results = {}
  /\ NoRun.status = "success" /\ NoRun.todo = <<>> /\ NoRun.seen = 0
  /\ ~ NoRun.overtaken
<1>1. <<>> \in Seq(Stages)
  OBVIOUS
<1>. QED
  BY <1>1 DEF NoRun, Run, Statuses

LEMMA NoRunOK == RunOK(NoRun)
BY NoRunFields DEF RunOK, Worst

LEMMA EntryType ==
  ASSUME NEW todo \in Seq(Stages), NEW asked
  PROVE  /\ Entry(todo, asked) \in {"stage", "resolve", "read", "ended"}
         /\ todo = <<>> => Entry(todo, asked) = "ended"
BY DEF Entry

LEMMA StartedRunOK ==
  ASSUME NEW stages \in Seq(Stages), NEW asked \in Accounts \cup {Default},
         NEW m \in Nat, NEW n \in Nat
  PROVE  RunOK([NoRun EXCEPT !.pc = Entry(stages, asked), !.todo = stages,
                             !.asked = asked, !.account = asked, !.limit = m,
                             !.ingested = n])
<1> DEFINE p == Entry(stages, asked)
           r == [NoRun EXCEPT !.pc = p, !.todo = stages,
                             !.asked = asked, !.account = asked, !.limit = m,
                             !.ingested = n]
<1>1. p \in {"stage", "resolve", "read", "ended"} /\ (stages = <<>> => p = "ended")
  BY EntryType
<1> HIDE DEF p
<1>2. r \in Run
  BY <1>1, NoRunFields DEF Run
<1>3. r.pc = p /\ r.todo = stages /\ r.alone = NoRun.alone /\ r.results = NoRun.results
      /\ r.status = NoRun.status
  BY NoRunFields DEF Run
<1>. QED
  BY <1>1, <1>2, <1>3, NoRunFields DEF RunOK, Worst, p

LEMMA CreatorRunOK ==
  ASSUME NEW m \in Nat
  PROVE  RunOK([NoRun EXCEPT !.pc = "again", !.alone = TRUE, !.limit = m])
<1>1. [NoRun EXCEPT !.pc = "again", !.alone = TRUE, !.limit = m] \in Run
  BY NoRunFields DEF Run
<1>. QED
  BY <1>1, NoRunFields DEF RunOK, Run

LEMMA AfterStageOK ==
  ASSUME NEW r, RunOK(r), ~ r.alone, r.todo # <<>>, NEW result \in Results
  PROVE  RunOK(AfterStage(r, result))
<1> DEFINE t == Tail(r.todo)
           p == Entry(t, r.asked)
           s == Fold(r.status, result)
           a == AfterStage(r, result)
<1>1. r \in Run /\ r.status = Worst(r.results) /\ r.results \subseteq Results
  BY DEF RunOK, Run, Results
<1>2. t \in Seq(Stages)
  <2>1. r.todo \in Seq(Stages) /\ r.todo # <<>>
    BY <1>1 DEF Run
  <2>. QED
    BY <2>1, HeadTailProperties
<1>3. p \in {"stage", "resolve", "read", "ended"} /\ (t = <<>> => p = "ended")
  BY <1>2, EntryType
<1>4. s = Worst(r.results \cup {result}) /\ s \in Statuses
  BY <1>1 DEF Worst, Fold, Results, Statuses
<1>5. a = [r EXCEPT !.pc = p, !.todo = t, !.results = @ \cup {result}, !.status = s,
                    !.account = r.asked, !.seen = 0, !.overtaken = FALSE]
  BY <1>1 DEF AfterStage
<1> HIDE DEF t, p, s, a
<1>6. a \in Run
  BY <1>1, <1>2, <1>3, <1>4, <1>5 DEF Run, Results
<1>7. a.pc = p /\ a.todo = t /\ a.alone = r.alone /\ a.results = r.results \cup {result}
      /\ a.status = s
  BY <1>1, <1>5 DEF Run
<1>8. RunOK(a)
  BY <1>3, <1>4, <1>6, <1>7 DEF RunOK
<1>. QED
  BY <1>8 DEF a

LEMMA AfterCreatorRunOK ==
  ASSUME NEW r, RunOK(r), r.pc \notin {"idle", "stage", "ended"},
         NEW outcome \in {"completed", "failed", "raised"}
  PROVE  RunOK(AfterCreatorRun(r, outcome))
<1>1. CASE r.alone
  <2> DEFINE a == [NoRun EXCEPT !.pc = "ended", !.alone = TRUE, !.status = outcome]
  <2>1. a \in Run /\ a.pc = "ended" /\ a.alone
    BY NoRunFields DEF Run, Statuses
  <2>. QED
    BY <1>1, <2>1 DEF RunOK, AfterCreatorRun
<1>2. CASE ~ r.alone
  BY <1>2, AfterStageOK DEF RunOK, AfterCreatorRun, Results
<1>. QED
  BY <1>1, <1>2

LEMMA StageLists ==
  /\ Tail(AllStages) \in Seq(Stages)
  /\ SubSeq(AllStages, 2, 5) \in Seq(Stages)
  /\ SubSeq(AllStages, 3, 5) \in Seq(Stages)
<1>1. AllStages \in Seq(Stages) /\ Len(AllStages) = 7
  BY DEF AllStages, Stages
<1>2. AllStages # <<>>
  BY <1>1
<1>3. Tail(AllStages) \in Seq(Stages)
  BY <1>1, <1>2, HeadTailProperties
<1>4. \A i \in 2 .. 5 : AllStages[i] \in Stages
  BY <1>1, ElementOfSeq
<1>5. SubSeq(AllStages, 2, 5) \in Seq(Stages) /\ SubSeq(AllStages, 3, 5) \in Seq(Stages)
  <2>1. SubSeq(AllStages, 2, 5) \in Seq(Stages)
    BY <1>4, SubSeqProperties
  <2>2. SubSeq(AllStages, 3, 5) \in Seq(Stages)
    BY <1>4, SubSeqProperties
  <2>. QED
    BY <2>1, <2>2
<1>. QED
  BY <1>3, <1>5

-----------------------------------------------------------------------------
(* Type correctness and the status of runs. *)

RunsOK == runs \in [Tasks -> Run] /\ \A p \in Tasks : RunOK(runs[p])

TablesOK ==
  /\ accounts \in Seq(Accounts)
  /\ withReels \subseteq Known
  /\ reels \in Nat
  /\ profiles \in [Accounts -> {None} \cup Profile]
  /\ lastRun \in {"never_run", "completed", "failed"}
  /\ ingesting \in [Clients -> [pc : {"idle", "account", "reels", "analysed"},
                                account : Accounts \cup {Default}]]
  /\ \A c \in Clients :
       /\ ingesting[c].pc = "account" => ingesting[c].account \in Accounts
       /\ ingesting[c].pc \in {"reels", "analysed"} => ingesting[c].account \in Known

\* What a run has after it has read.
LEMMA ReadRun ==
  ASSUME RunsOK, NEW p \in Tasks, ReadReels(p)
  PROVE  /\ runs'[p] = [runs[p] EXCEPT !.pc = "write",
                                        !.seen = UpTo(runs[p].limit, reels)]
         /\ runs'[p].seen = UpTo(runs'[p].limit, reels)
         /\ runs'[p].limit \in Nat
         /\ UNCHANGED <<reels, profiles>>
<1> DEFINE n == UpTo(runs[p].limit, reels)
           r == [runs[p] EXCEPT !.pc = "write", !.seen = n]
<1>1. runs[p] \in Run /\ UNCHANGED <<reels, profiles>>
  BY DEF RunsOK, ReadReels
<1>2. runs'[p] = r
  BY <1>1 DEF RunsOK, ReadReels, Run
<1> HIDE DEF n
<1>3. r.seen = n /\ r.limit = runs[p].limit /\ r.limit \in Nat
  BY <1>1 DEF Run
<1>. QED
  BY <1>1, <1>2, <1>3 DEF n

\* A run that goes on stays one.
LEMMA ReplacedRunOK ==
  ASSUME RunsOK, NEW p \in Tasks, NEW r, RunOK(r), runs' = [runs EXCEPT ![p] = r]
  PROVE  RunsOK'
BY DEF RunsOK, RunOK

LEMMA RunStepRunsOK ==
  ASSUME RunsOK, TablesOK, NEW p \in Tasks, RunGoesOn(p)
  PROVE  RunsOK'
<1>1. RunOK(runs[p]) /\ runs[p] \in Run
  BY DEF RunsOK
<1>2. CASE StageEnds(p)
  <2>1. PICK result \in StageResults(Head(runs[p].todo)) :
          runs' = [runs EXCEPT ![p] = AfterStage(runs[p], result)]
    BY <1>2 DEF StageEnds, RunsOK
  <2>2. result \in Results
    BY DEF StageResults, Results
  <2>3. ~ runs[p].alone /\ runs[p].todo # <<>>
    BY <1>1, <1>2 DEF RunOK, StageEnds
  <2>. QED
    BY <1>1, <2>1, <2>2, <2>3, AfterStageOK, ReplacedRunOK
<1>3. CASE Resolve(p) \/ ResolveAny(p)
  <2>1. PICK a \in Accounts \cup {Default},
             pc \in {"resolve any", "again any", "again", "read"} :
          runs' = [runs EXCEPT ![p] = [runs[p] EXCEPT !.pc = pc, !.account = a]]
    <3>1. runs[p].account \in Accounts \cup {Default}
      BY <1>1 DEF Run
    <3>2. runs[p] = [runs[p] EXCEPT !.account = runs[p].account]
      BY <1>1 DEF Run
    <3>3. \A pc : [runs[p] EXCEPT !.pc = pc] =
                     [runs[p] EXCEPT !.pc = pc, !.account = runs[p].account]
      BY <1>1 DEF Run
    <3>4. CASE Resolve(p) /\ withReels # {}
      <4>1. Newest(withReels) \in Accounts
        BY <3>4, NewestIn DEF TablesOK
      <4>2. runs' = [runs EXCEPT ![p] =
                       [runs[p] EXCEPT !.pc = "read", !.account = Newest(withReels)]]
        BY <3>4 DEF Resolve, RunsOK
      <4>. QED
        BY <4>1, <4>2
    <3>5. CASE Resolve(p) /\ withReels = {}
      <4> DEFINE pc == IF runs[p].pc = "resolve" THEN "resolve any" ELSE "again any"
      <4>1. runs' = [runs EXCEPT ![p] = [runs[p] EXCEPT !.pc = pc]]
        BY <3>5 DEF Resolve, RunsOK
      <4>2. runs' = [runs EXCEPT ![p] =
                       [runs[p] EXCEPT !.pc = pc, !.account = runs[p].account]]
        BY <3>3, <4>1
      <4>. QED
        BY <3>1, <4>2
    <3>6. CASE ResolveAny(p) /\ Known # {}
      <4>1. Newest(Known) \in Accounts
        BY <3>6, NewestIn DEF TablesOK
      <4>2. runs' = [runs EXCEPT ![p] =
                       [runs[p] EXCEPT !.pc = "read", !.account = Newest(Known)]]
        BY <3>6 DEF ResolveAny, RunsOK
      <4>. QED
        BY <4>1, <4>2
    <3>7. CASE ResolveAny(p) /\ Known = {}
      <4> DEFINE pc == IF runs[p].pc = "resolve any" THEN "again" ELSE "read"
      <4>1. runs' = [runs EXCEPT ![p] = [runs[p] EXCEPT !.pc = pc]]
        BY <3>7 DEF ResolveAny, RunsOK
      <4>2. runs' = [runs EXCEPT ![p] =
                       [runs[p] EXCEPT !.pc = pc, !.account = runs[p].account]]
        BY <3>3, <4>1
      <4>. QED
        BY <3>1, <4>2
    <3>. QED
      BY <1>3, <3>4, <3>5, <3>6, <3>7
  <2> DEFINE r == [runs[p] EXCEPT !.pc = pc, !.account = a]
  <2>2. r \in Run
    BY <1>1 DEF Run
  <2>3. r.pc = pc /\ r.alone = runs[p].alone /\ r.todo = runs[p].todo
        /\ r.status = runs[p].status /\ r.results = runs[p].results
    BY <1>1 DEF Run
  <2>4. RunOK(r)
    BY <1>1, <1>3, <2>2, <2>3 DEF RunOK, Resolve, ResolveAny
  <2>. QED
    BY <2>1, <2>4, ReplacedRunOK
<1>4. CASE ResolveFails(p)
  <2>1. runs' = [runs EXCEPT ![p] = AfterCreatorRun(runs[p], "raised")]
    BY <1>4 DEF ResolveFails, RunsOK
  <2>. QED
    BY <1>1, <1>4, <2>1, AfterCreatorRunOK, ReplacedRunOK DEF ResolveFails
<1>5. CASE ReadReels(p)
  <2> DEFINE n == UpTo(runs[p].limit, reels)
             r == [runs[p] EXCEPT !.pc = "write", !.seen = n]
  <2>1. runs' = [runs EXCEPT ![p] = r]
    BY <1>1, <1>5 DEF ReadReels, RunsOK, Run
  <2>2. n \in Nat
    BY <1>1, UpToType DEF Run, TablesOK
  <2> HIDE DEF n
  <2>5. r \in Run
    BY <1>1, <2>2 DEF Run
  <2>3. r.pc = "write" /\ r.alone = runs[p].alone /\ r.todo = runs[p].todo
        /\ r.status = runs[p].status /\ r.results = runs[p].results
    BY <1>1 DEF Run
  <2>4. RunOK(r)
    BY <1>1, <1>5, <2>3, <2>5 DEF RunOK, ReadReels
  <2>. QED
    BY <2>1, <2>4, ReplacedRunOK
<1>6. CASE WriteProfile(p)
  <2> DEFINE o(q) == [runs[q] EXCEPT !.overtaken = TRUE]
  <2>1. \A q \in Tasks : RunOK(o(q))
    <3> SUFFICES ASSUME NEW q \in Tasks PROVE RunOK(o(q))
      OBVIOUS
    <3>1. runs[q] \in Run /\ RunOK(runs[q])
      BY DEF RunsOK
    <3>2. o(q) \in Run
      BY <3>1 DEF Run
    <3>3. o(q).pc = runs[q].pc /\ o(q).alone = runs[q].alone /\ o(q).todo = runs[q].todo
          /\ o(q).status = runs[q].status /\ o(q).results = runs[q].results
      BY <3>1 DEF Run
    <3>. QED
      BY <3>1, <3>2, <3>3 DEF RunOK
  <2>2. RunOK(AfterCreatorRun(runs[p], "completed"))
    BY <1>1, <1>6, AfterCreatorRunOK DEF WriteProfile
  <2>3. \A q \in Tasks : runs'[q] \in {AfterCreatorRun(runs[p], "completed"), o(q), runs[q]}
    BY <1>6 DEF WriteProfile
  <2>4. runs' = [q \in Tasks |-> runs'[q]]
    BY <1>6 DEF WriteProfile
  <2> HIDE DEF o
  <2>5. \A q \in Tasks : RunOK(runs'[q])
    BY <2>1, <2>2, <2>3 DEF RunsOK
  <2>. QED
    BY <2>4, <2>5 DEF RunsOK, RunOK
<1>7. CASE CreatorRunFails(p)
  <2>1. runs' = [runs EXCEPT ![p] = AfterCreatorRun(runs[p], "failed")]
    BY <1>7 DEF CreatorRunFails, RunsOK
  <2>. QED
    BY <1>1, <1>7, <2>1, AfterCreatorRunOK, ReplacedRunOK DEF CreatorRunFails
<1>. QED
  BY <1>2, <1>3, <1>4, <1>5, <1>6, <1>7 DEF RunGoesOn

\* What starting a run by StartRun or StartCreatorRun makes of the runs.
LEMMA StartRunOK ==
  ASSUME RunsOK, NEW p \in Tasks, NEW stages \in Seq(Stages),
         NEW asked \in Accounts \cup {Default}, NEW m \in Nat, NEW n \in Nat,
         StartRun(p, stages, asked, m, n)
  PROVE  RunsOK'
BY StartedRunOK, ReplacedRunOK DEF StartRun

LEMMA StartCreatorRunOK ==
  ASSUME RunsOK, NEW p \in Tasks, NEW m \in Nat, StartCreatorRun(p, m)
  PROVE  RunsOK'
BY CreatorRunOK, ReplacedRunOK DEF StartCreatorRun

LEMMA TasksAre == Loops \subseteq Tasks /\ "startup" \in Tasks /\ Clients \subseteq Tasks
BY BackgroundAssumption

LEMMA RunsOKNext ==
  ASSUME RunsOK, TablesOK, [BackgroundNext]_backgroundVars
  PROVE  RunsOK'
<1> USE TasksAre, LimitsAreNat
<1>1. CASE UNCHANGED runs
  BY <1>1 DEF RunsOK
<1>2. CASE LoadAndStart
  <2>1. "startup" \in Tasks
    OBVIOUS
  <2>2. runs' = runs \/ StartCreatorRun("startup", StartupLimit)
    BY <1>2 DEF LoadAndStart
  <2>. QED
    BY <1>1, <2>1, <2>2, StartCreatorRunOK
<1>3. CASE StartupPipeline
  BY <1>3, StartRunOK, StageLists DEF StartupPipeline
<1>4. CASE StartupEnds
  BY <1>4, NoRunOK, ReplacedRunOK DEF StartupEnds
<1>5. CASE Stop
  <2>1. runs' = [p \in Tasks |-> IF p \in Elsewhere THEN runs[p] ELSE NoRun]
    BY <1>5 DEF Stop
  <2>. QED
    BY <2>1, NoRunOK, NoRunFields DEF RunsOK
<1>6. ASSUME NEW p \in Tasks, RunGoesOn(p)
      PROVE  RunsOK'
  BY <1>6, RunStepRunsOK
<1>7. ASSUME NEW l \in Loops, Iterate(l) \/ CountOutcome(l)
      PROVE  RunsOK'
  <2>1. CASE Iterate(l)
    <3>1. \/ StartCreatorRun(l, RunLimit)
          \/ StartRun(l, SubSeq(AllStages, 2, 5), Default, RunLimit, 0)
      BY <2>1 DEF Iterate
    <3>. QED
      BY <3>1, StartRunOK, StartCreatorRunOK, StageLists
  <2>2. CASE CountOutcome(l)
    BY <2>2, NoRunOK, ReplacedRunOK DEF CountOutcome
  <2>. QED
    BY <1>7, <2>1, <2>2
<1>8. ASSUME NEW c \in Clients, RequestRun(c) \/ RunElsewhere(c)
      PROVE  RunsOK'
  <2>1. CASE RequestRun(c)
    <3>1. PICK stages \in Requested : StartRun(c, stages, Default, RunLimit, 0)
      BY <2>1 DEF RequestRun
    <3>2. stages \in Seq(Stages)
      BY BackgroundAssumption
    <3>. QED
      BY <3>1, <3>2, StartRunOK
  <2>2. CASE RunElsewhere(c)
    <3>1. \/ StartCreatorRun(c, StartupLimit)
          \/ StartCreatorRun(c, RunLimit)
          \/ StartRun(c, SubSeq(AllStages, 2, 5), Default, RunLimit, 0)
          \/ StartRun(c, Tail(AllStages), Default, StartupLimit, 0)
      BY <2>2 DEF RunElsewhere
    <3>. QED
      BY <3>1, StartRunOK, StartCreatorRunOK, StageLists
  <2>. QED
    BY <1>8, <2>1, <2>2
<1>9. ASSUME NEW c \in Clients, AnalyseIngested(c)
      PROVE  RunsOK'
  <2>1. StartRun(c, SubSeq(AllStages, 3, 5), ingesting[c].account, IngestLimit, reels)
    BY <1>9 DEF AnalyseIngested
  <2>2. ingesting[c].account \in Accounts \cup {Default} /\ reels \in Nat
    BY DEF TablesOK
  <2>. QED
    BY <2>1, <2>2, StartRunOK, StageLists
<1>10. ASSUME NEW c \in Clients, Respond(c)
       PROVE  RunsOK'
  BY <1>10, NoRunOK, ReplacedRunOK DEF Respond
<1>11. ASSUME NEW c \in Clients, StoreAccount(c) \/ StoreReel(c) \/ IngestFails(c)
       PROVE  runs' = runs
  BY <1>11 DEF StoreAccount, StoreReel, IngestFails, pipelineVars
<1>12. ASSUME NEW c \in Clients, NEW a \in Accounts, RequestIngest(c, a)
       PROVE  runs' = runs
  BY <1>12 DEF RequestIngest, pipelineVars
<1>13. ASSUME NEW e \in PromptEditors,
              RequestEdit(e) \/ UNCHANGED pipelineVars
       PROVE  runs' = runs
  BY <1>13 DEF RequestEdit, pipelineVars
<1>14. CASE Boot \/ EditElsewhere \/ UNCHANGED backgroundVars
  BY <1>1, <1>14 DEF Boot, EditElsewhere, backgroundVars, pipelineVars
<1>. QED
  BY <1>1, <1>2, <1>3, <1>4, <1>5, <1>6, <1>7, <1>8, <1>9, <1>10, <1>11, <1>12, <1>13,
     <1>14 DEF BackgroundNext, StartupGoesOn, ClientGoesOn

LEMMA KnownGrows ==
  ASSUME accounts \in Seq(Accounts), NEW a \in Accounts,
         accounts' = IF a \in Known THEN accounts ELSE Append(accounts, a)
  PROVE  accounts' \in Seq(Accounts) /\ Known \subseteq Known' /\ a \in Known'
<1>1. CASE a \in Known
  BY <1>1 DEF Known
<1>2. CASE a \notin Known
  <2>1. /\ accounts' \in Seq(Accounts)
        /\ \A k \in DOMAIN accounts : k \in DOMAIN accounts' /\ accounts'[k] = accounts[k]
        /\ Len(accounts) + 1 \in DOMAIN accounts' /\ accounts'[Len(accounts) + 1] = a
    BY <1>2
  <2>. QED
    BY <2>1 DEF Known
<1>. QED
  BY <1>1, <1>2

LEMMA TablesOKNext ==
  ASSUME RunsOK, TablesOK, [BackgroundNext]_backgroundVars
  PROVE  TablesOK'
<1> USE DEF NoIngest
<1>1. CASE UNCHANGED <<accounts, withReels, reels, profiles, lastRun, ingesting>>
  BY <1>1 DEF TablesOK, Known
<1>2. ASSUME NEW p \in Tasks, WriteProfile(p), UNCHANGED ingesting
      PROVE  TablesOK'
  <2>1. /\ runs[p].account \in Accounts /\ runs[p].seen \in Nat
        /\ runs[p].limit \in Nat /\ runs[p].overtaken \in BOOLEAN
    <3>1. runs[p] \in Run /\ runs[p].account \in Known
      BY <1>2 DEF WriteProfile, RunsOK
    <3>2. runs[p].seen \in Nat /\ runs[p].limit \in Nat /\ runs[p].overtaken \in BOOLEAN
      BY <3>1 DEF Run
    <3>. QED
      BY <3>1, <3>2 DEF Known, TablesOK
  <2>2. profiles' \in [Accounts -> {None} \cup Profile]
    BY <1>2, <2>1 DEF WriteProfile, TablesOK, Profile
  <2>3. lastRun' \in {"never_run", "completed", "failed"}
    BY <1>2 DEF WriteProfile, LastRun, TablesOK
  <2>. QED
    BY <1>2, <2>2, <2>3 DEF WriteProfile, TablesOK, Known
<1>3. ASSUME NEW p \in Tasks, CreatorRunFails(p), UNCHANGED ingesting
      PROVE  TablesOK'
  BY <1>3 DEF CreatorRunFails, LastRun, TablesOK, Known
<1>4. ASSUME NEW p \in Tasks, StageEnds(p) \/ Resolve(p) \/ ResolveAny(p) \/ ResolveFails(p)
                               \/ ReadReels(p),
             UNCHANGED ingesting
      PROVE  TablesOK'
  BY <1>1, <1>4 DEF StageEnds, Resolve, ResolveAny, ResolveFails, ReadReels
<1>5. CASE Stop
  BY <1>5 DEF Stop, TablesOK, Known
<1>6. ASSUME NEW c \in Clients, NEW a \in Accounts, RequestIngest(c, a)
      PROVE  TablesOK'
  BY <1>6 DEF RequestIngest, TablesOK, Known, pipelineVars
<1>7. ASSUME NEW c \in Clients, StoreAccount(c)
      PROVE  TablesOK'
  <2> DEFINE a == ingesting[c].account
  <2>1. a \in Accounts
    BY <1>7 DEF StoreAccount, TablesOK
  <2>2. accounts' \in Seq(Accounts) /\ Known \subseteq Known' /\ a \in Known'
    BY <1>7, <2>1, KnownGrows DEF StoreAccount, TablesOK
  <2>3. ingesting' = [ingesting EXCEPT ![c] = [ingesting[c] EXCEPT !.pc = "reels"]]
    BY <1>7 DEF StoreAccount, TablesOK
  <2>4. UNCHANGED <<withReels, reels, profiles, lastRun>>
    BY <1>7 DEF StoreAccount
  <2>. QED
    BY <2>1, <2>2, <2>3, <2>4 DEF TablesOK
<1>8. ASSUME NEW c \in Clients, StoreReel(c)
      PROVE  TablesOK'
  <2>1. ingesting[c].account \in Known
    BY <1>8 DEF StoreReel, TablesOK
  <2>. QED
    BY <1>8, <2>1 DEF StoreReel, TablesOK, Known
<1>9. ASSUME NEW c \in Clients, IngestFails(c) \/ Respond(c)
      PROVE  TablesOK'
  <2>1. /\ UNCHANGED <<accounts, withReels, reels, profiles, lastRun>>
        /\ ingesting' = [ingesting EXCEPT ![c] = NoIngest]
    BY <1>9 DEF IngestFails, Respond, pipelineVars
  <2>. QED
    BY <2>1 DEF TablesOK, Known
<1>10. ASSUME NEW c \in Clients, AnalyseIngested(c)
       PROVE  TablesOK'
  <2>1. ingesting' = [ingesting EXCEPT ![c] = [ingesting[c] EXCEPT !.pc = "analysed"]]
    BY <1>10 DEF AnalyseIngested, TablesOK
  <2>2. ingesting[c].pc = "reels" /\ UNCHANGED <<accounts, withReels, reels, profiles, lastRun>>
    BY <1>10 DEF AnalyseIngested
  <2>. QED
    BY <2>1, <2>2 DEF TablesOK, Known
<1>11. CASE Boot \/ StartupGoesOn \/ UNCHANGED backgroundVars
  BY <1>1, <1>11 DEF Boot, StartupGoesOn, LoadAndStart, StartupPipeline, StartupEnds,
     backgroundVars, pipelineVars
<1>12. ASSUME NEW l \in Loops, Iterate(l) \/ CountOutcome(l)
       PROVE  TablesOK'
  BY <1>1, <1>12 DEF Iterate, CountOutcome
<1>13. ASSUME NEW c \in Clients, RequestRun(c) \/ RunElsewhere(c)
       PROVE  TablesOK'
  BY <1>1, <1>13 DEF RequestRun, RunElsewhere
<1>14. ASSUME NEW e \in PromptEditors,
              RequestEdit(e) \/ UNCHANGED <<pipelineVars, phase, loopVars, ingesting, requests>>
       PROVE  TablesOK'
  BY <1>1, <1>14 DEF RequestEdit, pipelineVars
<1>15. CASE EditElsewhere
  BY <1>1, <1>15 DEF EditElsewhere, pipelineVars
<1>. QED
  BY <1>2, <1>3, <1>4, <1>5, <1>6, <1>7, <1>8, <1>9, <1>10, <1>11, <1>12, <1>13, <1>14,
     <1>15 DEF BackgroundNext, ClientGoesOn, RunGoesOn, otherVars

-----------------------------------------------------------------------------
(* The counters of the loops. *)

LoopsOK ==
  /\ phase \in {"down", "booting", "starting", "up"}
  /\ requests \in Nat
  /\ failures \in [Loops -> Nat]
  /\ outcomes \in [Loops -> Seq(BOOLEAN)]
  /\ CountersCountFailures

LEMMA CountOutcomeOK ==
  ASSUME RunsOK, LoopsOK, NEW l \in Loops, CountOutcome(l)
  PROVE  LoopsOK'
<1> DEFINE good == runs[l].status \in {"success", "partial", "completed"}
           n == Len(outcomes[l])
<1>1. /\ outcomes' = [outcomes EXCEPT ![l] = Append(outcomes[l], good)]
      /\ failures' = [failures EXCEPT ![l] =
           IF Failed(runs[l].status) THEN failures[l] + 1 ELSE 0]
      /\ UNCHANGED <<phase, requests>>
  BY DEF CountOutcome, LoopsOK
<1>2. good = ~ Failed(runs[l].status)
  <2>1. runs[l].status \in Statuses
    BY TasksAre DEF RunsOK, Run
  <2>. QED
    BY <2>1 DEF Statuses, Failed
<1>3. good \in BOOLEAN
  OBVIOUS
<1>4. /\ outcomes[l] \in Seq(BOOLEAN) /\ n \in Nat /\ failures[l] \in Nat /\ failures[l] <= n
      /\ \A k \in n - failures[l] + 1 .. n : ~ outcomes[l][k]
      /\ failures[l] < n => outcomes[l][n - failures[l]]
  BY DEF LoopsOK, CountersCountFailures
<1> HIDE DEF good
<1>5. /\ outcomes'[l] \in Seq(BOOLEAN) /\ Len(outcomes'[l]) = n + 1
      /\ outcomes'[l][n + 1] = good
      /\ \A k \in 1 .. n : outcomes'[l][k] = outcomes[l][k]
  <2>1. outcomes'[l] = Append(outcomes[l], good)
    BY <1>1 DEF LoopsOK
  <2>. QED
    BY <1>3, <1>4, <2>1
<1>6. CASE good
  <2>1. failures'[l] = 0
    BY <1>1, <1>2, <1>6 DEF LoopsOK
  <2>2. CountersCountFailures'
    <3> SUFFICES ASSUME NEW m \in Loops
                 PROVE  /\ failures'[m] <= Len(outcomes'[m])
                        /\ \A k \in Len(outcomes'[m]) - failures'[m] + 1 .. Len(outcomes'[m]) :
                             ~ outcomes'[m][k]
                        /\ failures'[m] < Len(outcomes'[m]) =>
                             outcomes'[m][Len(outcomes'[m]) - failures'[m]]
      BY DEF CountersCountFailures
    <3>1. CASE m = l
      <4>1. Len(outcomes'[m]) = n + 1 /\ failures'[m] = 0 /\ outcomes'[m][n + 1]
        BY <1>5, <1>6, <2>1, <3>1
      <4>2. (n + 1) - 0 + 1 .. n + 1 = {} /\ (n + 1) - 0 = n + 1 /\ 0 <= n + 1
        BY <1>4
      <4>. QED
        BY <4>1, <4>2
    <3>2. CASE m # l
      <4>1. failures'[m] = failures[m] /\ outcomes'[m] = outcomes[m]
        BY <1>1, <3>2 DEF LoopsOK
      <4>. QED
        BY <4>1 DEF LoopsOK, CountersCountFailures
    <3>. QED
      BY <3>1, <3>2
  <2>. QED
    BY <1>1, <1>3, <2>2 DEF LoopsOK
<1>7. CASE ~ good
  <2>1. failures'[l] = failures[l] + 1
    BY <1>1, <1>2, <1>7 DEF LoopsOK
  <2>2. CountersCountFailures'
    <3> SUFFICES ASSUME NEW m \in Loops
                 PROVE  /\ failures'[m] <= Len(outcomes'[m])
                        /\ \A k \in Len(outcomes'[m]) - failures'[m] + 1 .. Len(outcomes'[m]) :
                             ~ outcomes'[m][k]
                        /\ failures'[m] < Len(outcomes'[m]) =>
                             outcomes'[m][Len(outcomes'[m]) - failures'[m]]
      BY DEF CountersCountFailures
    <3>1. CASE m = l
      <4>1. Len(outcomes'[l]) - failures'[l] = n - failures[l]
        BY <1>4, <1>5, <2>1
      <4>2. \A k \in n - failures[l] + 1 .. n + 1 : ~ outcomes'[l][k]
        <5> SUFFICES ASSUME NEW k \in n - failures[l] + 1 .. n + 1
                     PROVE  ~ outcomes'[l][k]
          OBVIOUS
        <5>1. CASE k = n + 1
          BY <1>5, <1>7, <5>1
        <5>2. CASE k # n + 1
          <6>1. k \in n - failures[l] + 1 .. n /\ k \in 1 .. n
            BY <1>4, <5>2
          <6>2. outcomes'[l][k] = outcomes[l][k]
            BY <1>5, <6>1
          <6>. QED
            BY <1>4, <6>1, <6>2
        <5>. QED
          BY <5>1, <5>2
      <4>3. failures'[l] < n + 1 => outcomes'[l][n - failures[l]]
        <5> SUFFICES ASSUME failures'[l] < n + 1 PROVE outcomes'[l][n - failures[l]]
          OBVIOUS
        <5>1. failures[l] < n /\ n - failures[l] \in 1 .. n
          BY <1>4, <2>1
        <5>2. outcomes'[l][n - failures[l]] = outcomes[l][n - failures[l]]
          BY <1>5, <5>1
        <5>. QED
          BY <1>4, <5>1, <5>2
      <4>. QED
        BY <1>4, <1>5, <2>1, <3>1, <4>1, <4>2, <4>3
    <3>2. CASE m # l
      <4>1. failures'[m] = failures[m] /\ outcomes'[m] = outcomes[m]
        BY <1>1, <3>2 DEF LoopsOK
      <4>. QED
        BY <4>1 DEF LoopsOK, CountersCountFailures
    <3>. QED
      BY <3>1, <3>2
  <2>. QED
    BY <1>1, <1>3, <1>4, <2>1, <2>2 DEF LoopsOK
<1>. QED
  BY <1>6, <1>7

LEMMA LoopsOKNext ==
  ASSUME RunsOK, LoopsOK, [BackgroundNext]_backgroundVars
  PROVE  LoopsOK'
<1>1. CASE UNCHANGED <<phase, requests, loopVars>>
  BY <1>1 DEF LoopsOK, loopVars, CountersCountFailures
<1>2. ASSUME UNCHANGED loopVars, requests' \in Nat,
             phase' \in {"down", "booting", "starting", "up"}
      PROVE  LoopsOK'
  BY <1>2 DEF LoopsOK, loopVars, CountersCountFailures
<1>3. CASE Stop
  <2>1. /\ failures' = [l \in Loops |-> 0] /\ outcomes' = [l \in Loops |-> <<>>]
        /\ requests' = requests /\ phase' = "down"
    BY <1>3 DEF Stop
  <2>2. \A l \in Loops : failures'[l] = 0 /\ Len(outcomes'[l]) = 0
    BY <2>1
  <2>3. CountersCountFailures'
    BY <2>2 DEF CountersCountFailures
  <2>. QED
    BY <2>1, <2>3 DEF LoopsOK
<1>4. ASSUME NEW l \in Loops, CountOutcome(l)
      PROVE  LoopsOK'
  BY <1>4, CountOutcomeOK
<1>5. ASSUME NEW l \in Loops, Iterate(l)
      PROVE  LoopsOK'
  BY <1>1, <1>5 DEF Iterate
<1>6. CASE Boot \/ StartupGoesOn
  BY <1>2, <1>6 DEF LoopsOK, Boot, StartupGoesOn, LoadAndStart, StartupPipeline, StartupEnds
<1>7. ASSUME NEW c \in Clients, ClientGoesOn(c) \/ StoreReel(c)
      PROVE  LoopsOK'
  BY <1>1, <1>7 DEF ClientGoesOn, StoreReel, StoreAccount, IngestFails, AnalyseIngested, Respond
<1>8. ASSUME NEW c \in Clients,
             \/ RequestRun(c) \/ RunElsewhere(c)
             \/ \E a \in Accounts : RequestIngest(c, a)
      PROVE  LoopsOK'
  BY <1>2, <1>8 DEF RequestRun, RunElsewhere, RequestIngest, SendTo, Send, LoopsOK
<1>9. ASSUME NEW e \in PromptEditors, RequestEdit(e)
      PROVE  LoopsOK'
  BY <1>2, <1>9 DEF RequestEdit, Send, LoopsOK
<1>11. CASE EditElsewhere
  BY <1>2, <1>11 DEF EditElsewhere, Send, LoopsOK
<1>10. CASE UNCHANGED otherVars \/ UNCHANGED <<pipelineVars, phase, loopVars, ingesting, requests>>
            \/ UNCHANGED backgroundVars
  BY <1>1, <1>10 DEF otherVars, backgroundVars
<1>. QED
  BY <1>3, <1>4, <1>5, <1>6, <1>7, <1>8, <1>9, <1>10, <1>11 DEF BackgroundNext

-----------------------------------------------------------------------------
(* The prompts in memory. *)

PromptsTypeOK ==
  /\ promptRows \in Nat /\ promptCache \in Nat /\ promptsOwn \in Nat
  /\ promptsLag \subseteq Reasons
  /\ promptEdits \in [PromptEditors -> [pc : {"idle", "upsert", "select", "install"},
                                        rows : Nat, behind : SUBSET Reasons]]

\* Rows that are no older than what their reasons say: n of them were read.
UpToDate(n, behind) ==
  /\ "overlapped" \notin behind => n >= promptsOwn
  /\ behind = {} => n = promptRows

\* An update that the cache lacks is on its way, or the lag is known.
PromptsOK ==
  /\ PromptsTypeOK
  /\ promptsOwn <= promptRows
  /\ \A e \in PromptEditors :
       promptEdits[e].pc = "install" => UpToDate(promptEdits[e].rows, promptEdits[e].behind)
  /\ phase \in {"starting", "up"} /\ promptsLag \subseteq {"elsewhere"}
       /\ (\A e \in PromptEditors : promptEdits[e].pc \notin {"select", "install"})
     => UpToDate(promptCache, promptsLag)

\* The refreshes that an update finds after their SELECT.
LEMMA OutdatedEdits ==
  ASSUME PromptsTypeOK, NEW reason \in Reasons
  PROVE  /\ Outdated(reason) \in
              [PromptEditors -> [pc : {"idle", "upsert", "select", "install"},
                                 rows : Nat, behind : SUBSET Reasons]]
         /\ \A e \in PromptEditors :
              /\ Outdated(reason)[e].pc = promptEdits[e].pc
              /\ Outdated(reason)[e].rows = promptEdits[e].rows
              /\ promptEdits[e].pc = "install" =>
                   Outdated(reason)[e].behind = promptEdits[e].behind \cup {reason}
<1> DEFINE o(e) == [promptEdits[e] EXCEPT !.behind = promptEdits[e].behind \cup {reason}]
           x(e) == IF promptEdits[e].pc # "install" THEN promptEdits[e] ELSE o(e)
<1>1. Outdated(reason) = [e \in PromptEditors |-> x(e)]
  BY DEF Outdated, PromptsTypeOK
<1>2. \A e \in PromptEditors :
        /\ promptEdits[e] \in [pc : {"idle", "upsert", "select", "install"},
                               rows : Nat, behind : SUBSET Reasons]
        /\ promptEdits[e].behind \cup {reason} \in SUBSET Reasons
  BY DEF PromptsTypeOK
<1>3. \A e \in PromptEditors :
        /\ x(e) \in [pc : {"idle", "upsert", "select", "install"},
                     rows : Nat, behind : SUBSET Reasons]
        /\ x(e).pc = promptEdits[e].pc /\ x(e).rows = promptEdits[e].rows
        /\ promptEdits[e].pc = "install" =>
             x(e).behind = promptEdits[e].behind \cup {reason}
  BY <1>2
<1> HIDE DEF x
<1>. QED
  BY <1>1, <1>3

LEMMA UpsertPromptOK ==
  ASSUME PromptsOK, NEW e \in PromptEditors, UpsertPrompt(e), UNCHANGED phase
  PROVE  PromptsOK'
<1> DEFINE o == Outdated("overlapped")
<1>1. "overlapped" \in Reasons
  BY DEF Reasons
<1>2. /\ o \in [PromptEditors -> [pc : {"idle", "upsert", "select", "install"},
                                  rows : Nat, behind : SUBSET Reasons]]
      /\ \A d \in PromptEditors :
           o[d].pc = "install" => o[d].behind = promptEdits[d].behind \cup {"overlapped"}
  BY <1>1, OutdatedEdits DEF PromptsOK
<1>3. /\ promptEdits' = [o EXCEPT ![e] = [o[e] EXCEPT !.pc = "select"]]
      /\ promptRows' = promptRows + 1 /\ promptsOwn' = promptRows + 1
      /\ UNCHANGED <<promptCache, promptsLag>>
  BY <1>2 DEF UpsertPrompt
<1> HIDE DEF o
<1>4. PromptsTypeOK'
  BY <1>2, <1>3 DEF PromptsOK, PromptsTypeOK
<1>5. promptEdits'[e].pc = "select"
  BY <1>2, <1>3
<1>6. \A d \in PromptEditors :
        promptEdits'[d].pc = "install" =>
          UpToDate(promptEdits[d].rows, promptEdits[d].behind)' /\ d # e
            /\ "overlapped" \in promptEdits'[d].behind
  <2> SUFFICES ASSUME NEW d \in PromptEditors, promptEdits'[d].pc = "install"
               PROVE  d # e /\ "overlapped" \in promptEdits'[d].behind
                      /\ UpToDate(promptEdits[d].rows, promptEdits[d].behind)'
    OBVIOUS
  <2>1. d # e
    BY <1>5
  <2>2. promptEdits'[d] = o[d]
    BY <1>2, <1>3, <2>1
  <2>3. "overlapped" \in promptEdits'[d].behind
    BY <1>2, <2>2
  <2>. QED
    BY <2>1, <2>3 DEF UpToDate
<1>7. (promptsOwn <= promptRows)'
  BY <1>3 DEF PromptsOK, PromptsTypeOK
<1>. QED
  BY <1>4, <1>5, <1>6, <1>7 DEF PromptsOK

\* An update by another process, at any time.
LEMMA UpsertElsewhereOK ==
  ASSUME PromptsOK, UpsertElsewhere, UNCHANGED phase
  PROVE  PromptsOK'
<1> DEFINE o == Outdated("elsewhere")
<1>1. "elsewhere" \in Reasons
  BY DEF Reasons
<1>2. /\ o \in [PromptEditors -> [pc : {"idle", "upsert", "select", "install"},
                                  rows : Nat, behind : SUBSET Reasons]]
      /\ \A d \in PromptEditors :
           /\ o[d].pc = promptEdits[d].pc /\ o[d].rows = promptEdits[d].rows
           /\ o[d].pc = "install" => o[d].behind = promptEdits[d].behind \cup {"elsewhere"}
  BY <1>1, OutdatedEdits DEF PromptsOK
<1>3. /\ promptEdits' = o /\ promptRows' = promptRows + 1
      /\ promptsLag' = promptsLag \cup {"elsewhere"}
      /\ UNCHANGED <<promptCache, promptsOwn>>
  BY DEF UpsertElsewhere
<1> HIDE DEF o
<1>4. PromptsTypeOK'
  BY <1>1, <1>2, <1>3 DEF PromptsOK, PromptsTypeOK
<1>5. (promptsOwn <= promptRows)'
  BY <1>3 DEF PromptsOK, PromptsTypeOK
<1>6. ASSUME NEW d \in PromptEditors, promptEdits'[d].pc = "install"
      PROVE  UpToDate(promptEdits[d].rows, promptEdits[d].behind)'
  <2>1. UpToDate(promptEdits[d].rows, promptEdits[d].behind)
    BY <1>2, <1>3, <1>6 DEF PromptsOK
  <2>2. /\ promptEdits'[d].rows = promptEdits[d].rows
        /\ promptEdits'[d].behind = promptEdits[d].behind \cup {"elsewhere"}
    BY <1>2, <1>3, <1>6
  <2>. QED
    BY <1>3, <2>1, <2>2 DEF UpToDate
<1>7. (phase \in {"starting", "up"} /\ promptsLag \subseteq {"elsewhere"}
         /\ (\A e \in PromptEditors : promptEdits[e].pc \notin {"select", "install"})
       => UpToDate(promptCache, promptsLag))'
  <2> SUFFICES ASSUME phase' \in {"starting", "up"}, promptsLag' \subseteq {"elsewhere"},
                      \A e \in PromptEditors : promptEdits'[e].pc \notin {"select", "install"}
               PROVE  UpToDate(promptCache, promptsLag)'
    BY Zenon
  <2>1. UpToDate(promptCache, promptsLag) /\ promptsLag \subseteq {"elsewhere"}
    BY <1>2, <1>3 DEF PromptsOK
  <2>. QED
    BY <1>3, <2>1 DEF UpToDate
<1>. QED
  BY <1>4, <1>5, <1>6, <1>7 DEF PromptsOK

LEMMA PromptStepOK ==
  ASSUME PromptsOK, NEW e \in PromptEditors, EditGoesOn(e), UNCHANGED phase
  PROVE  PromptsOK'
<1> USE DEF PromptsOK, PromptsTypeOK, NoEdit, UpToDate
<1>1. CASE UpsertPrompt(e)
  BY <1>1, UpsertPromptOK
<1>2. CASE UpsertFails(e)
  BY <1>2 DEF UpsertFails
<1>3. CASE SelectPrompts(e)
  <2>1. promptEdits'[e].pc = "install" /\ promptEdits'[e].rows = promptRows
    BY <1>3 DEF SelectPrompts
  <2>. QED
    BY <1>3, <2>1 DEF SelectPrompts
<1>4. CASE RefreshFails(e)
  BY <1>4 DEF RefreshFails, Reasons
<1>5. CASE InstallPrompts(e)
  BY <1>5 DEF InstallPrompts
<1>. QED
  BY <1>1, <1>2, <1>3, <1>4, <1>5 DEF EditGoesOn

LEMMA PromptsOKNext ==
  ASSUME PromptsOK, [BackgroundNext]_backgroundVars
  PROVE  PromptsOK'
<1>1. CASE UNCHANGED <<promptVars, phase>>
  BY <1>1 DEF PromptsOK, PromptsTypeOK, UpToDate, promptVars
<1>2. CASE Boot
  BY <1>2 DEF Boot, PromptsOK, PromptsTypeOK, UpToDate, promptVars
<1>3. CASE LoadAndStart
  <2>1. UNCHANGED <<promptRows, promptEdits, promptsOwn>>
    BY <1>3 DEF LoadAndStart
  <2>2. ASSUME promptCache' \in Nat, promptsLag' \subseteq Reasons,
               \/ "failed" \in promptsLag'
               \/ promptCache' = promptRows
        PROVE  PromptsOK'
    BY <2>1, <2>2 DEF PromptsOK, PromptsTypeOK, UpToDate
  <2>3. CASE promptCache' = promptRows /\ promptsLag' = {}
    BY <2>2, <2>3 DEF PromptsOK, PromptsTypeOK
  <2>4. CASE promptCache' = 0 /\ promptsLag' = IF promptRows > 0 THEN {"failed"} ELSE {}
    <3>1. promptRows = 0 \/ promptRows > 0
      BY DEF PromptsOK, PromptsTypeOK
    <3>. QED
      BY <2>2, <2>4, <3>1 DEF Reasons
  <2>. QED
    BY <1>3, <2>3, <2>4 DEF LoadAndStart, LoadPrompts
<1>4. CASE StartupPipeline
  BY <1>1, <1>4 DEF StartupPipeline
<1>5. CASE Stop
  BY <1>5 DEF Stop, ForgetPrompts, NoEdit, PromptsOK, PromptsTypeOK
<1>6. ASSUME NEW e \in PromptEditors, RequestEdit(e)
      PROVE  PromptsOK'
  BY <1>6 DEF RequestEdit, StartEdit, PromptsOK, PromptsTypeOK, UpToDate
<1>7. ASSUME NEW e \in PromptEditors, EditGoesOn(e),
             UNCHANGED <<pipelineVars, phase, loopVars, ingesting, requests>>
      PROVE  PromptsOK'
  BY <1>7, PromptStepOK
<1>8. ASSUME NEW l \in Loops, Iterate(l) \/ CountOutcome(l)
      PROVE  PromptsOK'
  BY <1>1, <1>8 DEF Iterate, CountOutcome
<1>9. ASSUME NEW c \in Clients,
             \/ RequestRun(c) \/ RunElsewhere(c) \/ \E a \in Accounts : RequestIngest(c, a)
             \/ ClientGoesOn(c) \/ StoreReel(c)
      PROVE  PromptsOK'
  BY <1>1, <1>9 DEF RequestRun, RunElsewhere, RequestIngest, ClientGoesOn, StoreReel,
     StoreAccount, IngestFails, AnalyseIngested, Respond
<1>10. CASE UNCHANGED otherVars \/ UNCHANGED backgroundVars
  BY <1>1, <1>10 DEF otherVars, backgroundVars
<1>11. CASE StartupEnds
  BY <1>11 DEF StartupEnds, PromptsOK, PromptsTypeOK, UpToDate, promptVars
<1>12. CASE EditElsewhere
  BY <1>12, UpsertElsewhereOK DEF EditElsewhere
<1>. QED
  BY <1>2, <1>3, <1>4, <1>5, <1>6, <1>7, <1>8, <1>9, <1>10, <1>11, <1>12
     DEF BackgroundNext, StartupGoesOn

-----------------------------------------------------------------------------
(* Profiles. *)

\* No profile and no run has seen more reels than there are, and a run that was
\* not overtaken writes a profile that has seen as many as the stored one, or as
\* many as it might.
ProfilesOK ==
  /\ reels <= MaxReels
  /\ \A a \in Accounts : profiles[a] # None => profiles[a].reels <= reels
  /\ \A p \in Tasks : runs[p].pc = "write" =>
       /\ runs[p].seen <= reels
       /\ runs[p].account \in Accounts /\ ~ runs[p].overtaken
            /\ profiles[runs[p].account] # None =>
            UpTo(runs[p].limit, profiles[runs[p].account].reels) <= runs[p].seen

\* What a run becomes that has ended a stage.
LEMMA AfterStageFields ==
  ASSUME NEW r \in Run, NEW result
  PROVE  LET s == AfterStage(r, result)
         IN  /\ s.pc = Entry(Tail(r.todo), r.asked) /\ s.pc # "write"
             /\ s.todo = Tail(r.todo) /\ s.alone = r.alone /\ s.asked = r.asked
             /\ s.account = r.asked /\ s.ingested = r.ingested
             /\ s.status = Fold(r.status, result)
<1> DEFINE e == Entry(Tail(r.todo), r.asked)
           f == Fold(r.status, result)
           t == Tail(r.todo)
<1>1. e # "write"
  BY DEF Entry
<1>2. AfterStage(r, result) =
        [r EXCEPT !.pc = e, !.todo = t, !.results = r.results \cup {result}, !.status = f,
                  !.account = r.asked, !.seen = 0, !.overtaken = FALSE]
  BY DEF AfterStage, Run
<1> HIDE DEF e, f, t
<1>3. LET s == AfterStage(r, result)
      IN  /\ s.pc = e /\ s.todo = t /\ s.alone = r.alone /\ s.asked = r.asked
          /\ s.account = r.asked /\ s.ingested = r.ingested /\ s.status = f
  BY <1>2 DEF Run
<1>. QED
  BY <1>1, <1>3 DEF e, f, t

LEMMA AfterCreatorRunNotWriting ==
  ASSUME NEW r \in Run, NEW outcome
  PROVE  AfterCreatorRun(r, outcome).pc # "write"
<1>1. CASE r.alone
  <2>1. [NoRun EXCEPT !.pc = "ended", !.alone = TRUE, !.status = outcome].pc = "ended"
    BY NoRunFields DEF Run
  <2>. QED
    BY <1>1, <2>1 DEF AfterCreatorRun
<1>2. CASE ~ r.alone
  BY <1>2, AfterStageFields DEF AfterCreatorRun
<1>. QED
  BY <1>1, <1>2

\* A run that is about to write has just read, or it was so before.
WritesOn(q) ==
  /\ runs[q].pc = "write"
  /\ runs'[q].seen = runs[q].seen
  /\ runs'[q].account = runs[q].account
  /\ runs'[q].limit = runs[q].limit
  /\ runs[q].overtaken => runs'[q].overtaken

LEMMA StartedNotWriting ==
  ASSUME RunsOK, NEW p \in Tasks,
         \/ \E stages, asked, m, n : StartRun(p, stages, asked, m, n)
         \/ \E m : StartCreatorRun(p, m)
         \/ runs' = [runs EXCEPT ![p] = NoRun]
  PROVE  runs'[p].pc # "write" /\ \A q \in Tasks \ {p} : runs'[q] = runs[q]
<1>1. CASE \E stages, asked, m, n : StartRun(p, stages, asked, m, n)
  <2>1. PICK stages, asked, m, n : StartRun(p, stages, asked, m, n)
    BY <1>1
  <2> DEFINE e == Entry(stages, asked)
  <2>2. e # "write"
    BY DEF Entry
  <2> HIDE DEF e
  <2>3. runs' = [runs EXCEPT ![p] =
          [NoRun EXCEPT !.pc = e, !.todo = stages, !.asked = asked,
                        !.account = asked, !.limit = m, !.ingested = n]]
    BY <2>1 DEF StartRun, e
  <2>4. [NoRun EXCEPT !.pc = e, !.todo = stages, !.asked = asked,
                      !.account = asked, !.limit = m, !.ingested = n].pc = e
    BY NoRunFields DEF Run
  <2>. QED
    BY <2>2, <2>3, <2>4 DEF RunsOK
<1>2. CASE \E m : StartCreatorRun(p, m)
  <2>1. PICK m : StartCreatorRun(p, m)
    BY <1>2
  <2>2. [NoRun EXCEPT !.pc = "again", !.alone = TRUE, !.limit = m].pc = "again"
    BY NoRunFields DEF Run
  <2>. QED
    BY <2>1, <2>2 DEF StartCreatorRun, RunsOK
<1>3. CASE runs' = [runs EXCEPT ![p] = NoRun]
  BY <1>3, NoRunFields DEF RunsOK
<1>. QED
  BY <1>1, <1>2, <1>3

LEMMA RunStepWriters ==
  ASSUME RunsOK, NEW p \in Tasks, RunGoesOn(p), NEW q \in Tasks, runs'[q].pc = "write"
  PROVE  WritesOn(q) \/ ReadReels(q)
<1>1. runs[p] \in Run /\ runs[q] \in Run
  BY DEF RunsOK
<1>2. CASE runs' = [runs EXCEPT ![p] = runs'[p]] /\ (p = q => runs'[p].pc # "write")
  BY <1>2 DEF RunsOK, WritesOn
<1>3. CASE StageEnds(p)
  <2>1. PICK result : runs' = [runs EXCEPT ![p] = AfterStage(runs[p], result)]
    BY <1>3 DEF StageEnds, RunsOK
  <2>. QED
    BY <1>1, <1>2, <2>1, AfterStageFields DEF RunsOK
<1>4. CASE Resolve(p) \/ ResolveAny(p)
  <2>1. /\ runs'[p].pc \in {"resolve any", "again any", "again", "read"}
        /\ runs' = [runs EXCEPT ![p] = runs'[p]]
    <3>1. CASE Resolve(p)
      BY <1>1, <3>1 DEF Resolve, RunsOK, Run
    <3>2. CASE ResolveAny(p)
      BY <1>1, <3>2 DEF ResolveAny, RunsOK, Run
    <3>. QED
      BY <1>4, <3>1, <3>2
  <2>. QED
    BY <1>2, <2>1
<1>5. CASE ResolveFails(p)
  <2>1. runs' = [runs EXCEPT ![p] = AfterCreatorRun(runs[p], "raised")]
    BY <1>5 DEF ResolveFails, RunsOK
  <2>. QED
    BY <1>1, <1>2, <2>1, AfterCreatorRunNotWriting DEF RunsOK
<1>6. CASE ReadReels(p)
  <2>1. p # q => runs'[q] = runs[q]
    BY <1>6 DEF ReadReels, RunsOK
  <2>. QED
    BY <1>6, <2>1 DEF WritesOn
<1>7. CASE WriteProfile(p)
  <2>1. CASE q = p
    BY <1>1, <1>7, <2>1, AfterCreatorRunNotWriting DEF WriteProfile
  <2>2. CASE q # p
    <3>1. runs'[q] \in {runs[q], [runs[q] EXCEPT !.overtaken = TRUE]}
      BY <1>7, <2>2 DEF WriteProfile
    <3>. QED
      BY <1>1, <3>1 DEF WritesOn, Run
  <2>. QED
    BY <2>1, <2>2
<1>8. CASE CreatorRunFails(p)
  <2>1. runs' = [runs EXCEPT ![p] = AfterCreatorRun(runs[p], "failed")]
    BY <1>8 DEF CreatorRunFails, RunsOK
  <2>. QED
    BY <1>1, <1>2, <2>1, AfterCreatorRunNotWriting DEF RunsOK
<1>. QED
  BY <1>3, <1>4, <1>5, <1>6, <1>7, <1>8 DEF RunGoesOn

\* The same for every step.
LEMMA Writers ==
  ASSUME RunsOK, [BackgroundNext]_backgroundVars, NEW q \in Tasks, runs'[q].pc = "write"
  PROVE  WritesOn(q) \/ ReadReels(q)
<1> USE TasksAre
<1>1. CASE UNCHANGED runs
  BY <1>1 DEF WritesOn
<1>2. ASSUME NEW p \in Tasks,
             \/ \E stages, asked, m, n : StartRun(p, stages, asked, m, n)
             \/ \E m : StartCreatorRun(p, m)
             \/ runs' = [runs EXCEPT ![p] = NoRun]
      PROVE  WritesOn(q)
  BY <1>2, StartedNotWriting DEF WritesOn
<1>3. CASE LoadAndStart
  <2>1. "startup" \in Tasks
    OBVIOUS
  <2>. QED
    BY <1>1, <1>2, <1>3, <2>1 DEF LoadAndStart
<1>4. CASE StartupPipeline \/ StartupEnds
  <2>1. "startup" \in Tasks
    OBVIOUS
  <2>. QED
    BY <1>2, <1>4, <2>1 DEF StartupPipeline, StartupEnds
<1>5. CASE Stop
  <2>1. runs'[q] \in {NoRun, runs[q]}
    BY <1>5 DEF Stop
  <2>. QED
    BY <2>1, NoRunFields DEF WritesOn
<1>6. ASSUME NEW p \in Tasks, RunGoesOn(p)
      PROVE  WritesOn(q) \/ ReadReels(q)
  BY <1>6, RunStepWriters
<1>7. ASSUME NEW l \in Loops, Iterate(l) \/ CountOutcome(l)
      PROVE  WritesOn(q)
  BY <1>2, <1>7 DEF Iterate, CountOutcome
<1>8. ASSUME NEW c \in Clients,
             RequestRun(c) \/ RunElsewhere(c) \/ AnalyseIngested(c) \/ Respond(c)
      PROVE  WritesOn(q)
  BY <1>2, <1>8 DEF RequestRun, RunElsewhere, AnalyseIngested, Respond
<1>9. ASSUME NEW c \in Clients,
             \/ StoreAccount(c) \/ StoreReel(c) \/ IngestFails(c)
             \/ \E a \in Accounts : RequestIngest(c, a)
      PROVE  runs' = runs
  BY <1>9 DEF StoreAccount, StoreReel, IngestFails, RequestIngest, pipelineVars
<1>10. ASSUME NEW e \in PromptEditors, RequestEdit(e) \/ UNCHANGED pipelineVars
       PROVE  runs' = runs
  BY <1>10 DEF RequestEdit, pipelineVars
<1>11. CASE Boot \/ EditElsewhere \/ UNCHANGED backgroundVars
  BY <1>1, <1>11 DEF Boot, EditElsewhere, backgroundVars, pipelineVars
<1>. QED
  BY <1>1, <1>3, <1>4, <1>5, <1>6, <1>7, <1>8, <1>9, <1>10, <1>11
     DEF BackgroundNext, StartupGoesOn, ClientGoesOn

\* The table of reels only grows, and only WriteProfile changes profiles.
LEMMA TableChanges ==
  ASSUME TablesOK, [BackgroundNext]_backgroundVars
  PROVE  /\ reels' \in Nat /\ reels <= reels'
         /\ reels <= MaxReels => reels' <= MaxReels
         /\ profiles' = profiles \/ \E p \in Tasks : WriteProfile(p)
<1> DEFINE Goal == /\ reels' \in Nat /\ reels <= reels'
                   /\ reels <= MaxReels => reels' <= MaxReels
                   /\ profiles' = profiles \/ \E p \in Tasks : WriteProfile(p)
<1>1. ASSUME UNCHANGED profiles, reels' = reels \/ (reels < MaxReels /\ reels' = reels + 1)
      PROVE  Goal
  BY <1>1, PipelineAssumption DEF TablesOK
<1>2. ASSUME NEW p \in Tasks, RunGoesOn(p)
      PROVE  Goal
  <2>1. CASE WriteProfile(p)
    <3>1. reels' = reels
      BY <2>1 DEF WriteProfile
    <3>. QED
      BY <2>1, <3>1 DEF TablesOK
  <2>2. CASE ~ WriteProfile(p)
    BY <1>1, <1>2, <2>2 DEF RunGoesOn, StageEnds, Resolve, ResolveAny, ResolveFails,
       ReadReels, CreatorRunFails
  <2>. QED
    BY <2>1, <2>2
<1>3. CASE Boot \/ StartupGoesOn \/ Stop \/ EditElsewhere \/ UNCHANGED backgroundVars
  BY <1>1, <1>3 DEF Boot, StartupGoesOn, LoadAndStart, StartupPipeline, StartupEnds, Stop,
     EditElsewhere, backgroundVars, pipelineVars
<1>4. ASSUME NEW l \in Loops, Iterate(l) \/ CountOutcome(l)
      PROVE  Goal
  BY <1>1, <1>4 DEF Iterate, CountOutcome
<1>5. ASSUME NEW c \in Clients,
             \/ RequestRun(c) \/ RunElsewhere(c) \/ \E a \in Accounts : RequestIngest(c, a)
             \/ ClientGoesOn(c) \/ StoreReel(c)
      PROVE  Goal
  BY <1>1, <1>5 DEF RequestRun, RunElsewhere, RequestIngest, ClientGoesOn, StoreReel,
     StoreAccount, IngestFails, AnalyseIngested, Respond, pipelineVars
<1>6. ASSUME NEW e \in PromptEditors, RequestEdit(e) \/ UNCHANGED pipelineVars
      PROVE  Goal
  BY <1>1, <1>6 DEF RequestEdit, pipelineVars
<1>. QED
  BY <1>2, <1>3, <1>4, <1>5, <1>6 DEF BackgroundNext

\* What WriteProfile(p) writes.
LEMMA Written ==
  ASSUME RunsOK, TablesOK, NEW p \in Tasks, WriteProfile(p)
  PROVE  /\ runs[p].pc = "write" /\ runs[p].account \in Accounts
         /\ profiles'[runs[p].account] \in Profile
         /\ profiles'[runs[p].account] # None
         /\ \A a \in Accounts \ {runs[p].account} : profiles'[a] = profiles[a]
         /\ profiles'[runs[p].account].reels = runs[p].seen
         /\ profiles'[runs[p].account].limit = runs[p].limit
         /\ profiles'[runs[p].account].raced = runs[p].overtaken
<1>1. runs[p].account \in Accounts
  BY DEF WriteProfile, Known, TablesOK
<1>2. /\ profiles'[runs[p].account] =
           [reels |-> runs[p].seen, limit |-> runs[p].limit, raced |-> runs[p].overtaken]
      /\ \A a \in Accounts \ {runs[p].account} : profiles'[a] = profiles[a]
  BY <1>1 DEF WriteProfile, TablesOK
<1>3. runs[p].seen \in Nat /\ runs[p].limit \in Nat /\ runs[p].overtaken \in BOOLEAN
  BY DEF RunsOK, Run
<1>4. profiles'[runs[p].account] \in Profile
  BY <1>2, <1>3 DEF Profile
<1>. QED
  BY <1>1, <1>2, <1>4, PipelineAssumption DEF WriteProfile

LEMMA ProfilesOKNext ==
  ASSUME RunsOK, TablesOK, ProfilesOK, [BackgroundNext]_backgroundVars
  PROVE  ProfilesOK'
<1>1. /\ reels \in Nat /\ reels' \in Nat /\ reels <= reels' /\ reels' <= MaxReels
      /\ profiles' = profiles \/ \E p \in Tasks : WriteProfile(p)
  BY TableChanges DEF TablesOK, ProfilesOK
<1>2. /\ \A a \in Accounts : profiles[a] # None => profiles[a].reels \in Nat
      /\ \A p \in Tasks : runs[p].seen \in Nat
  BY DEF TablesOK, Profile, RunsOK, Run
<1>3. ASSUME NEW a \in Accounts, profiles'[a] # None
      PROVE  profiles'[a].reels <= reels'
  <2>1. CASE profiles'[a] = profiles[a]
    BY <1>1, <1>2, <1>3, <2>1 DEF ProfilesOK
  <2>2. CASE profiles'[a] # profiles[a]
    <3>1. PICK p \in Tasks : WriteProfile(p)
      BY <1>1, <2>2
    <3>2. profiles'[a].reels = runs[p].seen /\ runs[p].pc = "write"
      BY <2>2, <3>1, Written
    <3>. QED
      BY <1>1, <1>2, <3>2 DEF ProfilesOK
  <2>. QED
    BY <2>1, <2>2
<1>4. ASSUME NEW q \in Tasks, runs'[q].pc = "write"
      PROVE  /\ runs'[q].seen <= reels'
             /\ runs'[q].account \in Accounts /\ ~ runs'[q].overtaken
                  /\ profiles'[runs'[q].account] # None =>
                  UpTo(runs'[q].limit, profiles'[runs'[q].account].reels) <= runs'[q].seen
  <2>1. CASE ReadReels(q)
    <3>1. /\ runs'[q].seen = UpTo(runs'[q].limit, reels) /\ runs'[q].limit \in Nat
          /\ UNCHANGED <<reels, profiles>>
      BY <2>1, ReadRun
    <3>2. UpTo(runs'[q].limit, reels) <= reels
      BY <1>1, <3>1, UpToType
    <3>3. ASSUME runs'[q].account \in Accounts, profiles[runs'[q].account] # None
          PROVE  UpTo(runs'[q].limit, profiles[runs'[q].account].reels)
                   <= UpTo(runs'[q].limit, reels)
      BY <1>1, <1>2, <3>1, <3>3, UpToGrows DEF ProfilesOK
    <3>. QED
      BY <3>1, <3>2, <3>3
  <2>2. CASE WritesOn(q)
    <3>1. /\ runs'[q].seen <= reels'
          /\ runs'[q].seen = runs[q].seen /\ runs'[q].account = runs[q].account
          /\ runs'[q].limit = runs[q].limit
          /\ runs[q].overtaken => runs'[q].overtaken
      BY <1>1, <1>2, <2>2 DEF WritesOn, ProfilesOK
    <3>2. SUFFICES ASSUME runs[q].account \in Accounts, ~ runs'[q].overtaken,
                          profiles'[runs[q].account] # None
                   PROVE  UpTo(runs[q].limit, profiles'[runs[q].account].reels)
                            <= runs[q].seen
      BY <3>1
    <3>3. CASE profiles'[runs[q].account] = profiles[runs[q].account]
      BY <2>2, <3>1, <3>2, <3>3 DEF WritesOn, ProfilesOK
    <3>4. CASE profiles'[runs[q].account] # profiles[runs[q].account]
      <4>1. PICK p \in Tasks : WriteProfile(p)
        BY <1>1, <3>4
      <4>2. runs[q].account = runs[p].account
        BY <3>2, <3>4, <4>1, Written
      <4>3. CASE p = q
        <5>1. profiles'[runs[q].account].reels = runs[q].seen
          BY <4>1, <4>3, Written
        <5>2. runs[q].seen \in Nat /\ runs[q].limit \in Nat
          BY DEF RunsOK, Run
        <5>. QED
          BY <5>1, <5>2, UpToType
      <4>4. CASE p # q
        <5>1. runs'[q] = [runs[q] EXCEPT !.overtaken = TRUE]
          BY <2>2, <4>1, <4>2, <4>4 DEF WriteProfile, WritesOn
        <5>2. runs'[q].overtaken
          BY <5>1 DEF RunsOK, Run
        <5>. QED
          BY <3>2, <5>2
      <4>. QED
        BY <4>3, <4>4
    <3>. QED
      BY <3>3, <3>4
  <2>. QED
    BY <1>4, <2>1, <2>2, Writers
<1>. QED
  BY <1>1, <1>3, <1>4 DEF ProfilesOK

-----------------------------------------------------------------------------
(* POST /ingest/account. *)

Done(r) == r.pc = "ended" /\ r.status = "success"

\* The run that a client has started for the account it ingested.
IngestsOK ==
  \A c \in Clients :
    LET r == runs[c]
        a == ingesting[c].account
    IN  ingesting[c].pc = "analysed" =>
          /\ ~ r.alone /\ r.asked = a /\ r.ingested <= reels
          /\ r.pc \in {"stage", "read", "write", "ended"}
          /\ \E m \in 3 .. 6 :
               /\ r.todo = SubSeq(AllStages, m, 5)
               /\ r.pc = "stage" => m <= 4
               /\ r.pc \in {"read", "write"} => m = 5
          /\ r.pc \in {"read", "write"} => r.account = a
          /\ r.pc = "write" => r.seen >= UpTo(r.limit, r.ingested)
          /\ Done(r) =>
               /\ profiles[a] # None
               /\ \/ profiles[a].reels >= UpTo(profiles[a].limit, r.ingested)
                  \/ profiles[a].raced
               /\ \A q \in Tasks :
                    runs[q].pc = "write" /\ runs[q].account = a /\ ~ runs[q].overtaken =>
                      runs[q].seen >= UpTo(runs[q].limit, r.ingested)

\* The stages that are left of those run for an ingested account.
LEMMA RestOfStages ==
  /\ \A m \in 3 .. 5 : /\ SubSeq(AllStages, m, 5) # <<>>
                        /\ Head(SubSeq(AllStages, m, 5)) = AllStages[m]
                        /\ Tail(SubSeq(AllStages, m, 5)) = SubSeq(AllStages, m + 1, 5)
  /\ SubSeq(AllStages, 6, 5) = <<>>
  /\ AllStages[3] # "knowledge" /\ AllStages[4] # "knowledge"
  /\ AllStages[5] = "knowledge"
<1>1. AllStages \in Seq(Stages) /\ Len(AllStages) = 7
  BY DEF AllStages, Stages
<1>2. /\ AllStages[3] # "knowledge" /\ AllStages[4] # "knowledge"
      /\ AllStages[5] = "knowledge"
  BY DEF AllStages
<1>3. SubSeq(AllStages, 6, 5) = <<>>
  BY <1>1, SubSeqEmpty
<1>4. ASSUME NEW m \in 3 .. 5
      PROVE  /\ SubSeq(AllStages, m, 5) # <<>>
             /\ Head(SubSeq(AllStages, m, 5)) = AllStages[m]
             /\ Tail(SubSeq(AllStages, m, 5)) = SubSeq(AllStages, m + 1, 5)
  <2>1. \A i \in m .. 5 : AllStages[i] \in Stages
    <3>1. \A i \in m .. 5 : i \in 1 .. Len(AllStages)
      BY <1>1
    <3>. QED
      BY <1>1, <3>1, ElementOfSeq
  <2>2. SubSeq(AllStages, m, 5) \in Seq(Stages) /\ Len(SubSeq(AllStages, m, 5)) = 5 - m + 1
    BY <2>1, SubSeqProperties
  <2>3. SubSeq(AllStages, m, 5) # <<>>
    <3>1. Len(SubSeq(AllStages, m, 5)) # 0 /\ Len(<<>>) = 0
      BY <2>2
    <3>. QED
      BY <3>1, Zenon
  <2>4. m \in 1 .. Len(AllStages) /\ 5 \in m .. Len(AllStages)
    BY <1>1
  <2>5. /\ Head(SubSeq(AllStages, m, 5)) = AllStages[m]
        /\ Tail(SubSeq(AllStages, m, 5)) = SubSeq(AllStages, m + 1, 5)
    BY <1>1, <2>4, HeadTailOfSubSeq
  <2>. QED
    BY <2>3, <2>5
<1>. QED
  BY <1>2, <1>3, <1>4

\* The status of a run whose knowledge stage failed is not "success".
LEMMA FoldSticks ==
  ASSUME NEW status
  PROVE  Fold(status, "failed") = "failed"
BY DEF Fold

\* What may happen to the run of a client whose ingested account is analysed.
LEMMA AnalysedRuns ==
  ASSUME RunsOK, TablesOK, [BackgroundNext]_backgroundVars,
         NEW c \in Clients, ingesting'[c].pc = "analysed"
  PROVE  \/ AnalyseIngested(c)
         \/ /\ ingesting'[c] = ingesting[c]
            /\ \/ RunGoesOn(c)
               \/ runs'[c] = runs[c]
               \/ /\ runs[c].pc = "write"
                  /\ runs'[c] = [runs[c] EXCEPT !.overtaken = TRUE]
<1> DEFINE Goal == \/ AnalyseIngested(c)
                   \/ /\ ingesting'[c] = ingesting[c]
                      /\ \/ RunGoesOn(c)
                         \/ runs'[c] = runs[c]
                         \/ /\ runs[c].pc = "write"
                            /\ runs'[c] = [runs[c] EXCEPT !.overtaken = TRUE]
<1> USE TasksAre
<1>1. c \notin Loops /\ c # "startup"
  BY BackgroundAssumption
<1>2. CASE UNCHANGED <<runs, ingesting>>
  BY <1>2
<1>3. ASSUME NEW p \in Tasks \ {c}, UNCHANGED ingesting,
             \/ \E stages, asked, m, n : StartRun(p, stages, asked, m, n)
             \/ \E m : StartCreatorRun(p, m)
             \/ runs' = [runs EXCEPT ![p] = NoRun]
      PROVE  Goal
  BY <1>3, StartedNotWriting
<1>4. CASE LoadAndStart
  <2>1. "startup" \in Tasks \ {c}
    BY <1>1
  <2>. QED
    BY <1>2, <1>3, <1>4, <2>1 DEF LoadAndStart
<1>5. CASE StartupPipeline \/ StartupEnds
  <2>1. "startup" \in Tasks \ {c}
    BY <1>1
  <2>. QED
    BY <1>3, <1>5, <2>1 DEF StartupPipeline, StartupEnds
<1>6. CASE Stop
  BY <1>6, BackgroundAssumption DEF Stop, NoIngest
<1>7. ASSUME NEW p \in Tasks, RunGoesOn(p), UNCHANGED otherVars
      PROVE  Goal
  <2>1. CASE p = c
    BY <1>7, <2>1 DEF otherVars
  <2>2. CASE p # c
    <3>1. CASE WriteProfile(p)
      <4>1. \/ runs'[c] = runs[c]
            \/ runs[c].pc = "write" /\ runs'[c] = [runs[c] EXCEPT !.overtaken = TRUE]
        BY <2>2, <3>1 DEF WriteProfile
      <4>. QED
        BY <1>7, <4>1 DEF otherVars
    <3>2. CASE ~ WriteProfile(p)
      <4>1. runs'[c] = runs[c]
        BY <1>7, <2>2, <3>2 DEF RunGoesOn, StageEnds, Resolve, ResolveAny, ResolveFails,
           ReadReels, CreatorRunFails, RunsOK
      <4>. QED
        BY <1>7, <4>1 DEF otherVars
    <3>. QED
      BY <3>1, <3>2
  <2>. QED
    BY <2>1, <2>2
<1>8. ASSUME NEW l \in Loops, Iterate(l) \/ CountOutcome(l)
      PROVE  Goal
  <2>1. l \in Tasks \ {c}
    BY <1>1
  <2>. QED
    BY <1>3, <1>8, <2>1 DEF Iterate, CountOutcome
<1>9. ASSUME NEW d \in Clients,
             \/ RequestRun(d) \/ RunElsewhere(d) \/ AnalyseIngested(d) \/ Respond(d)
             \/ IngestFails(d) \/ StoreAccount(d) \/ StoreReel(d) \/ \E a \in Accounts : RequestIngest(d, a)
      PROVE  Goal
  <2>1. CASE d = c
    <3>1. CASE RequestRun(c) \/ RunElsewhere(c)
      BY <1>9, <3>1 DEF RequestRun, RunElsewhere
    <3>2. CASE Respond(c) \/ IngestFails(c)
      BY <3>2 DEF Respond, IngestFails, NoIngest, TablesOK
    <3>3. CASE StoreAccount(c) \/ \E a \in Accounts : RequestIngest(c, a)
      BY <3>3 DEF StoreAccount, RequestIngest, TablesOK
    <3>4. CASE StoreReel(c)
      BY <1>2, <3>4 DEF StoreReel
    <3>. QED
      BY <1>9, <2>1, <3>1, <3>2, <3>3, <3>4
  <2>2. CASE d # c
    <3>1. ingesting'[c] = ingesting[c]
      BY <1>9, <2>2 DEF RequestRun, RunElsewhere, AnalyseIngested, Respond, IngestFails,
         StoreAccount, StoreReel, RequestIngest, TablesOK
    <3>2. runs'[c] = runs[c]
      <4>1. CASE RequestRun(d) \/ RunElsewhere(d) \/ AnalyseIngested(d) \/ Respond(d)
        BY <2>2, <4>1, StartedNotWriting
           DEF RequestRun, RunElsewhere, AnalyseIngested, Respond
      <4>2. CASE ~ (RequestRun(d) \/ RunElsewhere(d) \/ AnalyseIngested(d) \/ Respond(d))
        BY <1>9, <4>2 DEF StoreAccount, StoreReel, IngestFails, RequestIngest, pipelineVars
      <4>. QED
        BY <4>1, <4>2
    <3>. QED
      BY <3>1, <3>2
  <2>. QED
    BY <2>1, <2>2
<1>10. ASSUME NEW e \in PromptEditors,
              \/ RequestEdit(e)
              \/ UNCHANGED <<pipelineVars, phase, loopVars, ingesting, requests>>
       PROVE  Goal
  BY <1>2, <1>10 DEF RequestEdit, pipelineVars
<1>11. CASE Boot \/ EditElsewhere \/ UNCHANGED backgroundVars
  BY <1>2, <1>11 DEF Boot, EditElsewhere, backgroundVars, pipelineVars
<1>. QED
  BY <1>4, <1>5, <1>6, <1>7, <1>8, <1>9, <1>10, <1>11
     DEF BackgroundNext, StartupGoesOn, ClientGoesOn

\* One conjunct group of IngestsOK for a client: its run, and what it left.
RunningFor(c) ==
  LET r == runs[c]
      a == ingesting[c].account
  IN  /\ ~ r.alone /\ r.asked = a /\ r.ingested <= reels
      /\ r.pc \in {"stage", "read", "write", "ended"}
      /\ \E m \in 3 .. 6 :
           /\ r.todo = SubSeq(AllStages, m, 5)
           /\ r.pc = "stage" => m <= 4
           /\ r.pc \in {"read", "write"} => m = 5
      /\ r.pc \in {"read", "write"} => r.account = a
      /\ r.pc = "write" => r.seen >= UpTo(r.limit, r.ingested)

ServedWell(c) ==
  LET r == runs[c]
      a == ingesting[c].account
  IN  Done(r) =>
        /\ profiles[a] # None
        /\ \/ profiles[a].reels >= UpTo(profiles[a].limit, r.ingested)
           \/ profiles[a].raced
        /\ \A q \in Tasks :
             runs[q].pc = "write" /\ runs[q].account = a /\ ~ runs[q].overtaken =>
               runs[q].seen >= UpTo(runs[q].limit, r.ingested)

LEMMA IngestsParts ==
  IngestsOK <=> \A c \in Clients :
                  ingesting[c].pc = "analysed" => RunningFor(c) /\ ServedWell(c)
BY DEF IngestsOK, RunningFor, ServedWell

\* The account of a finished ingestion keeps its profile, whoever writes next.
LEMMA ServedStays ==
  ASSUME RunsOK, TablesOK, [BackgroundNext]_backgroundVars, NEW c \in Clients,
         ServedWell(c), Done(runs[c]), runs'[c] = runs[c],
         ingesting[c].account \in Known, ingesting'[c] = ingesting[c],
         runs[c].ingested <= reels
  PROVE  ServedWell(c)'
<1> DEFINE a == ingesting[c].account
           n == runs[c].ingested
<1>1. a \in Accounts /\ n \in Nat /\ c \in Tasks
  <2>1. c \in Tasks /\ runs[c] \in Run
    BY TasksAre DEF RunsOK
  <2>2. n \in Nat
    BY <2>1 DEF Run
  <2>. QED
    BY <2>1, <2>2 DEF Known, TablesOK
<1>2. /\ reels \in Nat /\ reels' \in Nat /\ reels <= reels'
      /\ profiles' = profiles \/ \E p \in Tasks : WriteProfile(p)
  BY TableChanges DEF TablesOK
<1>3. /\ profiles[a] # None
      /\ profiles[a].reels >= UpTo(profiles[a].limit, n) \/ profiles[a].raced
      /\ \A q \in Tasks :
           runs[q].pc = "write" /\ runs[q].account = a /\ ~ runs[q].overtaken =>
             runs[q].seen >= UpTo(runs[q].limit, n)
  BY DEF ServedWell
<1>4. /\ profiles'[a] # None
      /\ profiles'[a].reels >= UpTo(profiles'[a].limit, n) \/ profiles'[a].raced
  <2>1. CASE profiles'[a] = profiles[a]
    BY <1>3, <2>1
  <2>2. CASE profiles'[a] # profiles[a]
    <3>1. PICK p \in Tasks : WriteProfile(p)
      BY <1>2, <2>2
    <3>2. /\ runs[p].account = a /\ runs[p].pc = "write" /\ profiles'[a] # None
          /\ profiles'[a].reels = runs[p].seen /\ profiles'[a].limit = runs[p].limit
          /\ profiles'[a].raced = runs[p].overtaken
      BY <1>1, <2>2, <3>1, Written
    <3>. QED
      BY <1>3, <3>2
  <2>. QED
    BY <2>1, <2>2
<1>5. ASSUME NEW q \in Tasks, runs'[q].pc = "write", runs'[q].account = a,
             ~ runs'[q].overtaken
      PROVE  runs'[q].seen >= UpTo(runs'[q].limit, n)
  <2>1. CASE ReadReels(q)
    <3>1. runs'[q].seen = UpTo(runs'[q].limit, reels) /\ runs'[q].limit \in Nat
      BY <2>1, ReadRun
    <3>2. UpTo(runs'[q].limit, n) <= UpTo(runs'[q].limit, reels)
      BY <1>1, <1>2, <3>1, UpToGrows
    <3>3. UpTo(runs'[q].limit, n) \in Nat /\ UpTo(runs'[q].limit, reels) \in Nat
      BY <1>1, <1>2, <3>1, UpToType
    <3>. QED
      BY <3>1, <3>2, <3>3
  <2>2. CASE WritesOn(q)
    BY <1>3, <1>5, <2>2 DEF WritesOn
  <2>. QED
    BY <1>5, <2>1, <2>2, Writers
<1>. QED
  BY <1>4, <1>5 DEF ServedWell

LEMMA IngestsOKNext ==
  ASSUME RunsOK, TablesOK, ProfilesOK, IngestsOK, [BackgroundNext]_backgroundVars
  PROVE  IngestsOK'
<1> USE TasksAre
<1>1. /\ reels \in Nat /\ reels' \in Nat /\ reels <= reels'
      /\ profiles' = profiles \/ \E p \in Tasks : WriteProfile(p)
  BY TableChanges DEF TablesOK
<1> SUFFICES ASSUME NEW c \in Clients, ingesting'[c].pc = "analysed"
             PROVE  RunningFor(c)' /\ ServedWell(c)'
  BY DEF IngestsOK, RunningFor, ServedWell
<1> DEFINE a == ingesting[c].account
           r == runs[c]
<1>2. r \in Run /\ RunOK(r) /\ c \in Tasks
  BY DEF RunsOK
<1>3. CASE AnalyseIngested(c)
  <2> DEFINE t == SubSeq(AllStages, 3, 5)
             s == runs'[c]
  <2>1. a \in Known /\ a \in Accounts /\ ingesting'[c].account = a /\ reels' = reels
    BY <1>3 DEF AnalyseIngested, TablesOK, Known
  <2>2. Entry(t, a) = "stage"
    <3>1. t # <<>> /\ Head(t) # "knowledge"
      BY RestOfStages
    <3>. QED
      BY <3>1, RestOfStages DEF Entry
  <2>3. s = [NoRun EXCEPT !.pc = "stage", !.todo = t, !.asked = a, !.account = a,
                          !.limit = IngestLimit, !.ingested = reels]
    BY <1>3, <2>2 DEF AnalyseIngested, StartRun, RunsOK
  <2> HIDE DEF t
  <2>4. /\ s.pc = "stage" /\ s.todo = t /\ s.asked = a /\ s.alone = NoRun.alone
        /\ s.ingested = reels
    BY <2>3, NoRunFields DEF Run
  <2>. QED
    BY <1>1, <2>1, <2>4, NoRunFields DEF RunningFor, ServedWell, Done, t
<1>4. ASSUME ingesting'[c] = ingesting[c]
      PROVE  /\ a \in Known /\ a \in Accounts /\ a # Default
             /\ RunningFor(c) /\ ServedWell(c)
  <2>1. a \in Known
    BY <1>4 DEF TablesOK
  <2>2. a \in Accounts
    BY <2>1 DEF TablesOK, Known
  <2>. QED
    BY <1>4, <2>1, <2>2, PipelineAssumption, IngestsParts
<1>5. CASE ingesting'[c] = ingesting[c] /\ runs'[c] = runs[c]
  <2>1. RunningFor(c)'
    <3>1. r.ingested \in Nat
      BY <1>2 DEF Run
    <3>. QED
      BY <1>1, <1>4, <1>5, <3>1 DEF RunningFor
  <2>2. CASE Done(r)
    BY <1>4, <1>5, <2>1, <2>2, ServedStays DEF RunningFor
  <2>3. CASE ~ Done(r)
    BY <1>5, <2>1, <2>3 DEF ServedWell, Done
  <2>. QED
    BY <2>2, <2>3
<1>6. CASE /\ ingesting'[c] = ingesting[c] /\ r.pc = "write"
           /\ runs'[c] = [r EXCEPT !.overtaken = TRUE]
  <2>1. /\ runs'[c].pc = r.pc /\ runs'[c].alone = r.alone /\ runs'[c].asked = r.asked
        /\ runs'[c].ingested = r.ingested /\ runs'[c].todo = r.todo
        /\ runs'[c].account = r.account /\ runs'[c].seen = r.seen
        /\ runs'[c].limit = r.limit
    BY <1>2, <1>6 DEF Run
  <2>2. RunningFor(c)'
    <3>1. r.ingested \in Nat
      BY <1>2 DEF Run
    <3>. QED
      BY <1>1, <1>4, <1>6, <2>1, <3>1 DEF RunningFor
  <2>. QED
    BY <1>6, <2>1, <2>2 DEF ServedWell, Done
<1>7. CASE ingesting'[c] = ingesting[c] /\ RunGoesOn(c)
  <2> USE <1>7
  <2>1. PICK m \in 3 .. 6 :
          /\ r.todo = SubSeq(AllStages, m, 5)
          /\ r.pc = "stage" => m <= 4
          /\ r.pc \in {"read", "write"} => m = 5
    BY <1>4 DEF RunningFor
  <2>2. /\ ~ r.alone /\ r.asked = a /\ r.ingested <= reels /\ r.ingested \in Nat
        /\ r.pc \in {"stage", "read", "write", "ended"}
        /\ r.pc \in {"read", "write"} => r.account = a
        /\ r.pc = "write" => r.seen >= UpTo(r.limit, r.ingested)
    BY <1>2, <1>4 DEF RunningFor, Run
  <2>3. CASE StageEnds(c)
    <3>1. PICK result : runs'[c] = AfterStage(r, result)
      BY <1>2, <2>3 DEF StageEnds, RunsOK
    <3>2. m \in 3 .. 4 /\ Tail(r.todo) = SubSeq(AllStages, m + 1, 5) /\ reels' = reels
      BY <2>1, <2>3, RestOfStages DEF StageEnds
    <3>3. Entry(Tail(r.todo), a) = IF m = 3 THEN "stage" ELSE "read"
      <4>1. CASE m = 3
        <5>1. /\ SubSeq(AllStages, 4, 5) # <<>> /\ AllStages[4] # "knowledge"
              /\ Head(SubSeq(AllStages, 4, 5)) = AllStages[4]
          BY RestOfStages
        <5>2. m + 1 = 4
          BY <4>1
        <5>3. Tail(r.todo) = SubSeq(AllStages, 4, 5)
          BY <3>2, <5>2
        <5>. QED
          BY <4>1, <5>1, <5>3, RestOfStages, Zenon DEF Entry
      <4>2. CASE m = 4
        <5>1. /\ SubSeq(AllStages, 5, 5) # <<>> /\ AllStages[5] = "knowledge"
              /\ Head(SubSeq(AllStages, 5, 5)) = AllStages[5]
          BY RestOfStages
        <5>2. m + 1 = 5 /\ m # 3
          BY <4>2
        <5>3. Tail(r.todo) = SubSeq(AllStages, 5, 5)
          BY <3>2, <5>2
        <5>. QED
          BY <1>4, <5>1, <5>2, <5>3, Zenon DEF Entry
      <4>. QED
        BY <3>2, <4>1, <4>2
    <3> DEFINE s == runs'[c]
    <3>4. /\ s.pc = (IF m = 3 THEN "stage" ELSE "read") /\ ~ s.alone /\ s.asked = a
          /\ s.account = a /\ s.ingested = r.ingested
          /\ s.todo = SubSeq(AllStages, m + 1, 5)
      <4>1. /\ s.pc = Entry(Tail(r.todo), r.asked) /\ s.todo = Tail(r.todo)
            /\ s.alone = r.alone /\ s.asked = r.asked /\ s.account = r.asked
            /\ s.ingested = r.ingested
        <5> HIDE DEF r
        <5>. QED
          BY <1>2, <3>1, AfterStageFields
      <4>. QED
        BY <2>2, <3>2, <3>3, <4>1
    <3>5. m + 1 \in 3 .. 6 /\ (m = 3 => m + 1 <= 4) /\ (m # 3 => m + 1 = 5)
      BY <3>2
    <3> HIDE DEF s
    <3>6. RunningFor(c)'
      BY <2>2, <3>2, <3>4, <3>5 DEF RunningFor, s
    <3>. QED
      BY <3>4, <3>6 DEF ServedWell, Done, s
  <2>4. CASE Resolve(c) \/ ResolveAny(c) \/ ResolveFails(c)
    BY <2>2, <2>4 DEF Resolve, ResolveAny, ResolveFails
  <2>5. CASE ReadReels(c)
    <3> DEFINE n == UpTo(r.limit, reels)
    <3>1. runs'[c] = [r EXCEPT !.pc = "write", !.seen = n] /\ reels' = reels
          /\ r.pc = "read"
      BY <2>5, ReadRun DEF ReadReels
    <3>2. /\ UpTo(r.limit, r.ingested) <= n /\ n \in Nat
          /\ UpTo(r.limit, r.ingested) \in Nat
      BY <1>1, <1>2, <2>2, UpToGrows, UpToType DEF Run
    <3> HIDE DEF n
    <3>3. /\ runs'[c].pc = "write" /\ runs'[c].alone = r.alone /\ runs'[c].asked = r.asked
          /\ runs'[c].ingested = r.ingested /\ runs'[c].todo = r.todo
          /\ runs'[c].account = r.account /\ runs'[c].seen = n /\ runs'[c].limit = r.limit
      BY <1>2, <3>1 DEF Run
    <3>4. RunningFor(c)'
      BY <1>1, <2>1, <2>2, <3>1, <3>2, <3>3 DEF RunningFor
    <3>. QED
      BY <3>3, <3>4 DEF ServedWell, Done
  <2>6. ASSUME r.pc \in {"read", "write"}, reels' = reels,
               NEW result, runs'[c] = AfterStage(r, result)
        PROVE  /\ RunningFor(c)' /\ runs'[c].ingested = r.ingested
               /\ runs'[c].status = Fold(r.status, result)
    <3>1. Tail(r.todo) = <<>> /\ <<>> = SubSeq(AllStages, 6, 5)
      BY <2>1, <2>6, RestOfStages
    <3>2. Entry(Tail(r.todo), a) = "ended"
      BY <3>1 DEF Entry
    <3> DEFINE s == runs'[c]
    <3>3. /\ s.pc = "ended" /\ ~ s.alone /\ s.asked = a /\ s.ingested = r.ingested
          /\ s.todo = SubSeq(AllStages, 6, 5) /\ s.status = Fold(r.status, result)
      <4>1. /\ s.pc = Entry(Tail(r.todo), r.asked) /\ s.todo = Tail(r.todo)
            /\ s.alone = r.alone /\ s.asked = r.asked /\ s.ingested = r.ingested
            /\ s.status = Fold(r.status, result)
        <5> HIDE DEF r
        <5>. QED
          BY <1>2, <2>6, AfterStageFields
      <4>. QED
        BY <2>2, <3>1, <3>2, <4>1
    <3> HIDE DEF s
    <3>. QED
      BY <2>2, <2>6, <3>3 DEF RunningFor, s
  <2>7. CASE WriteProfile(c)
    <3>1. runs'[c] = AfterStage(r, "success") /\ reels' = reels /\ r.pc = "write"
      BY <2>2, <2>7 DEF WriteProfile, AfterCreatorRun
    <3>2. RunningFor(c)' /\ runs'[c].ingested = r.ingested
      BY <2>6, <3>1
    <3>3. /\ profiles'[a] # None /\ profiles'[a].reels = r.seen
          /\ profiles'[a].limit = r.limit
      BY <2>2, <2>7, <3>1, Written
    <3>5. profiles'[a].reels >= UpTo(profiles'[a].limit, runs'[c].ingested)
      BY <2>2, <3>1, <3>2, <3>3
    <3>6. ASSUME NEW q \in Tasks, runs'[q].pc = "write", runs'[q].account = a
          PROVE  runs'[q].overtaken
      <4>1. q # c
        BY <1>2, <3>1, <3>6, AfterStageFields
      <4>2. runs'[q] \in {runs[q], [runs[q] EXCEPT !.overtaken = TRUE]} /\ runs[q] \in Run
        BY <2>7, <4>1 DEF WriteProfile, RunsOK
      <4>3. runs[q].pc = "write" /\ runs[q].account = a
        BY <3>6, <4>2 DEF Run
      <4>4. runs'[q] = [runs[q] EXCEPT !.overtaken = TRUE]
        BY <2>2, <2>7, <3>1, <4>1, <4>3 DEF WriteProfile
      <4>. QED
        BY <4>2, <4>4 DEF Run
    <3>. QED
      BY <3>2, <3>3, <3>5, <3>6 DEF ServedWell
  <2>8. CASE CreatorRunFails(c)
    <3>1. runs'[c] = AfterStage(r, "failed") /\ reels' = reels
          /\ r.pc \in {"read", "write"}
      BY <1>2, <2>2, <2>8 DEF CreatorRunFails, AfterCreatorRun, RunsOK
    <3>2. RunningFor(c)' /\ runs'[c].status = "failed"
      BY <2>6, <3>1, FoldSticks
    <3>. QED
      BY <3>2 DEF ServedWell, Done
  <2>. QED
    BY <2>3, <2>4, <2>5, <2>7, <2>8 DEF RunGoesOn
<1>. QED
  BY <1>3, <1>5, <1>6, <1>7, AnalysedRuns

-----------------------------------------------------------------------------
(* The inductive invariant. *)

BackgroundInv ==
  RunsOK /\ TablesOK /\ LoopsOK /\ PromptsOK /\ ProfilesOK /\ IngestsOK

LEMMA BackgroundInvInit == BackgroundInit => BackgroundInv
<1> SUFFICES ASSUME BackgroundInit PROVE BackgroundInv
  OBVIOUS
<1> USE DEF BackgroundInit, PipelineInit, PromptsInit
<1>1. RunsOK
  BY NoRunOK, NoRunFields DEF RunsOK
<1>2. accounts \in Seq(Accounts) /\ Known = {}
  BY DEF Known
<1>3. \A c \in Clients : ingesting[c] = NoIngest /\ ingesting[c].pc = "idle"
  BY DEF NoIngest
<1>4. TablesOK
  BY <1>2, <1>3 DEF TablesOK, NoIngest
<1>5. LoopsOK
  <2>1. \A l \in Loops : failures[l] = 0 /\ Len(outcomes[l]) = 0
    OBVIOUS
  <2>2. CountersCountFailures
    BY <2>1 DEF CountersCountFailures
  <2>. QED
    BY <2>2 DEF LoopsOK
<1>6. PromptsOK
  BY DEF PromptsOK, PromptsTypeOK, UpToDate, NoEdit
<1>7. ProfilesOK
  BY NoRunFields, PipelineAssumption DEF ProfilesOK
<1>8. IngestsOK
  BY <1>3 DEF IngestsOK
<1>. QED
  BY <1>1, <1>4, <1>5, <1>6, <1>7, <1>8 DEF BackgroundInv

LEMMA BackgroundInvNext == BackgroundInv /\ [BackgroundNext]_backgroundVars => BackgroundInv'
BY RunsOKNext, TablesOKNext, LoopsOKNext, PromptsOKNext, ProfilesOKNext, IngestsOKNext
   DEF BackgroundInv

LEMMA BackgroundInvariant == BackgroundSpec => []BackgroundInv
BY BackgroundInvInit, BackgroundInvNext, PTL DEF BackgroundSpec

-----------------------------------------------------------------------------
\* Type correctness, for any accounts, clients and bounds.
THEOREM BackgroundTypeCorrect == BackgroundSpec => []BackgroundTypeOK
<1>1. BackgroundInv => BackgroundTypeOK
  BY DEF BackgroundInv, RunsOK, TablesOK, LoopsOK, PromptsOK, PromptsTypeOK, BackgroundTypeOK
<1>. QED
  BY <1>1, BackgroundInvariant, PTL

\* The folded status of a run is that of its worst stage, for any list of stages.
THEOREM StatusIsWorst == BackgroundSpec => []RunStatusIsWorst
<1>1. BackgroundInv => RunStatusIsWorst
  BY DEF BackgroundInv, RunsOK, RunOK, Worst, RunStatusIsWorst
<1>. QED
  BY <1>1, BackgroundInvariant, PTL

\* The counter of each loop is right after any number of iterations and restarts.
THEOREM CountersRight == BackgroundSpec => []CountersCountFailures
<1>1. BackgroundInv => CountersCountFailures
  BY DEF BackgroundInv, LoopsOK
<1>. QED
  BY <1>1, BackgroundInvariant, PTL

\* What n reels come to is consistent advice, for any n.
LEMMA AnyAdviceConsistent == ConsistentAdvice = 0 .. MaxReels
<1>1. SUFFICES ASSUME NEW n \in 0 .. MaxReels, NEW rows \in [1 .. n -> ReelRows],
                      NEW t \in Range(CreatorProfile(rows).bestTopics)
                             \cap Range(CreatorProfile(rows).worstTopics)
               PROVE  \/ Cardinality(ValuesOf(rows, "topic")) < 2 * TopN
                      \/ \E v \in ValuesOf(rows, "topic") \ {t} : Equal(rows, v, t)
  <2>1. ASSUME NEW n \in 0 .. MaxReels, NEW made \in CreatorProfiles(n),
               NEW t \in Range(made.profile.bestTopics) \cap Range(made.profile.worstTopics)
        PROVE  \/ Cardinality(ValuesOf(made.rows, "topic")) < 2 * TopN
               \/ \E v \in ValuesOf(made.rows, "topic") \ {t} : Equal(made.rows, v, t)
    <3>1. PICK rows \in [1 .. n -> ReelRows] :
            made.rows = rows /\ made.profile = CreatorProfile(rows)
      BY DEF CreatorProfiles
    <3>. QED
      BY <1>1, <3>1
  <2>. QED
    BY <2>1, Zenon DEF ConsistentAdvice, Equal
<1>2. rows \in Seq(ReelRows)
  BY SeqDef, PipelineAssumption
<1>3. /\ CreatorProfile(rows).bestTopics = AnalyzePatterns(rows).bestTopics
      /\ CreatorProfile(rows).worstTopics = AnalyzePatterns(rows).worstTopics
  BY DEF CreatorProfile
<1>4. CASE Len(rows) < MinReels
  <2>1. AnalyzePatterns(rows).bestTopics = <<>>
    BY <1>4 DEF AnalyzePatterns, NoPatterns
  <2>2. Range(<<>>) = {}
    BY DEF Range
  <2>. QED
    BY <1>3, <2>1, <2>2
<1>5. CASE ~ (Len(rows) < MinReels)
  <2>1. /\ AnalyzePatterns(rows).bestTopics = Best(rows, "topic")
        /\ AnalyzePatterns(rows).worstTopics = WorstTopics(rows)
    BY <1>5 DEF AnalyzePatterns
  <2>. QED
    BY <1>2, <1>3, <2>1, BothListsNeedTie
<1>. QED
  BY <1>4, <1>5

\* No stored profile advises for and against a topic without a reason, for any
\* reels and lists of any length.
THEOREM AdviceConsistent == BackgroundSpec => []AdviceIsConsistent
<1>1. BackgroundInv => AdviceIsConsistent
  <2> SUFFICES ASSUME BackgroundInv, NEW a \in Accounts, profiles[a] # None
               PROVE  profiles[a].reels \in 0 .. MaxReels
    BY AnyAdviceConsistent DEF AdviceIsConsistent
  <2>1. profiles[a].reels \in Nat /\ reels \in Nat
        /\ profiles[a].reels <= reels /\ reels <= MaxReels
    BY DEF BackgroundInv, TablesOK, Profile, ProfilesOK
  <2>. QED
    BY <2>1, PipelineAssumption
<1>. QED
  BY <1>1, BackgroundInvariant, PTL

\* The prompts in memory contain every update that the process has stored, and
\* are those of the table as long as no other process stores one, for any number
\* of editors and of updates by other processes.
THEOREM PromptsFollow == BackgroundSpec => []PromptsFollowOwnUpdates
<1>1. BackgroundInv => PromptsFollowOwnUpdates
  BY DEF BackgroundInv, PromptsOK, UpToDate, PromptsFollowOwnUpdates
<1>. QED
  BY <1>1, BackgroundInvariant, PTL

\* An ingestion that is answered with a success has left a profile of as many
\* reels as it stored or as the last run might read, for any limits and any number
\* of runs that share the table.
THEOREM IngestionLeavesProfile == BackgroundSpec => []IngestedAccountHasProfile
<1>1. BackgroundInv => IngestedAccountHasProfile
  BY DEF BackgroundInv, IngestsOK, Done, IngestedAccountHasProfile
<1>. QED
  BY <1>1, BackgroundInvariant, PTL

\* Only a run with a smaller limit, or one that was overtaken, takes a profile back
\* to fewer reels, for any limits.
THEOREM ProfilesGoBack == BackgroundSpec => ProfilesFollowReels
<1>1. ASSUME BackgroundInv, [BackgroundNext]_backgroundVars
      PROVE  [\A a \in Accounts :
                profiles[a] # None /\ profiles'[a] # profiles[a] =>
                  \/ profiles'[a].reels >= UpTo(profiles'[a].limit, profiles[a].reels)
                  \/ profiles'[a].raced]_backgroundVars
  <2> SUFFICES ASSUME NEW a \in Accounts, profiles[a] # None, profiles'[a] # profiles[a]
               PROVE  \/ profiles'[a].reels >= UpTo(profiles'[a].limit, profiles[a].reels)
                      \/ profiles'[a].raced
    OBVIOUS
  <2>1. RunsOK /\ TablesOK /\ ProfilesOK
    BY <1>1 DEF BackgroundInv
  <2>2. PICK p \in Tasks : WriteProfile(p)
    BY <1>1, <2>1, TableChanges
  <2>3. /\ runs[p].account = a /\ runs[p].pc = "write"
        /\ profiles'[a].reels = runs[p].seen /\ profiles'[a].limit = runs[p].limit
        /\ profiles'[a].raced = runs[p].overtaken
    BY <2>1, <2>2, Written
  <2>4. runs[p].overtaken \/ UpTo(runs[p].limit, profiles[a].reels) <= runs[p].seen
    BY <2>1, <2>3 DEF ProfilesOK
  <2>5. /\ runs[p].seen \in Nat /\ profiles[a].reels \in Nat
        /\ UpTo(runs[p].limit, profiles[a].reels) \in Nat
    BY <2>1, UpToType DEF TablesOK, Profile, RunsOK, Run
  <2>. QED
    BY <2>3, <2>4, <2>5
<1>. QED
  BY <1>1, BackgroundInvariant, PTL DEF BackgroundSpec, ProfilesFollowReels
=============================================================================
