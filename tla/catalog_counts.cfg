\* Two ingestion runs and two analytics runs on one creator's reel, all at the
\* same time.
SPECIFICATION CatalogSpec
CONSTANTS
  a1 = a1
  a2 = a2
  r1 = r1
  r2 = r2
  None = None
  Accounts = {a1}
  Reels = {r1}
  Owner <- MCOwner
  PostedAt <- MCPostedAt
  Ingesters = {i1, i2}
  MaxViews = 1
  MaxIngestions = 1
  Analysts = {j1, j2}
  AnalyticsLimit = 1
  MaxAnalyses = 1
  Extractors = {}
  EnrichmentLimit = 1
  IntelligenceLimit = 1
  Transcribers = {}
  ReelCounts = {1}
SYMMETRY Symmetry
INVARIANT TypeOK
PROPERTIES
  AnalyticsKeepsCounts
  CountsGoBackOnlyByOverlap
  SnapshotsFollowUpstream
  StepsRunOut
