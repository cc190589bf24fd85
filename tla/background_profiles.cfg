\* Three requests, of two clients and two prompt editors, without the loops.
SPECIFICATION BackgroundSpec
CONSTANTS
  None = None
  cook = cook
  travel = travel
  advice = advice
  ReelRows <- MCReelRows
  TrendTopics <- MCTrendTopics
  EmergingFormats <- MCEmergingFormats
  TopN = 1
  MinReels = 2
  Accounts = {a1, a2}
  Tasks <- MCTasks
  MaxReels = 2
  PromptEditors = {e1, e2}
  Elsewhere = {c2}
  StartupLimit = 1
  RunLimit = 1
  IngestLimit = 2
  Clients = {c1, c2}
  Requested <- MCRequested
  MaxIterations = 0
  MaxRequests = 3
  SchedulersEnabled = FALSE
  StartupJobs = FALSE
SYMMETRY Symmetry
INVARIANTS
  IngestedAccountHasProfile
  AdviceIsConsistent
  PromptsFollowOwnUpdates
PROPERTIES
  ProfilesFollowReels
