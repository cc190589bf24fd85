\* A second turn in a session that has a summary.
SPECIFICATION AgentSpec
CONSTANTS
  None = None
  RowIds <- MCRowIds
  QueryTerms = {q1, q2}
  RerankerTopK = 10
  SearchLimit = 2
  FallbackLimit = 5
  DenseResults <- MCDense
  SparseResults <- MCSparse
  StoredResults <- MCStored
  TrendResults <- MCTrends
  MaxPinned = 1
  SessionIds = {s1}
  PostedRoles = {"assistant"}
  Readers = {}
  Editors = {}
  MaxEdits = 0
  MaxPosts = 0
  Tabs = {w1}
  MaxTurns = 2
  MemoryLimit = 1
  SummaryLimit = 2
PROPERTY SummariesAccumulate
