\* Two tabs, a reader and an editor in one session.
SPECIFICATION AgentSpec
CONSTANTS
  None = None
  RowIds <- MCRowIds
  QueryTerms = {q1, q2}
  RerankerTopK = 10
  SearchLimit = 2
  FallbackLimit = 5
  DenseResults <- MCDense
  SparseResults <- MCSparse
  StoredResults <- MCStored
  TrendResults <- MCTrends
  MaxPinned = 1
  SessionIds = {s1}
  PostedRoles = {"assistant"}
  Readers = {g1}
  Editors = {e1}
  MaxEdits = 1
  MaxPosts = 1
  Tabs = {w1, w2}
  MaxTurns = 1
  MemoryLimit = 1
  SummaryLimit = 2
SYMMETRY Symmetry
INVARIANTS
  AgentTypeOK
  FullAnswersAreGrounded
  TurnsAreStoredInOrder
  FailedTurnsLeaveNoTrace
  StaleOnlyByOverlap
PROPERTY SessionsAreConversations
