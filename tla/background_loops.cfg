\* The startup jobs, the two loops and one request.
SPECIFICATION FairBackgroundSpec
CONSTANTS
  None = None
  cook = cook
  travel = travel
  advice = advice
  ReelRows <- MCReelRows
  TrendTopics <- MCTrendTopics
  EmergingFormats <- MCEmergingFormats
  TopN = 1
  MinReels = 2
  Accounts = {a1}
  Tasks <- MCTasks
  MaxReels = 0
  PromptEditors = {}
  Elsewhere = {}
  StartupLimit = 1
  RunLimit = 1
  IngestLimit = 1
  Clients = {c1}
  Requested <- MCRequested
  MaxIterations = 2
  MaxRequests = 1
  SchedulersEnabled = TRUE
  StartupJobs = TRUE
INVARIANTS
  BackgroundTypeOK
  RunStatusIsWorst
  CountersCountFailures
PROPERTIES
  LoopsGoOn
