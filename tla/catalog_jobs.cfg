\* Two creators with a reel each: two runs of an ingester, an extractor that goes
\* on for ever and a chat request that transcribes.
SPECIFICATION FairCatalogSpec
CONSTANTS
  a1 = a1
  a2 = a2
  r1 = r1
  r2 = r2
  None = None
  Accounts = {a1, a2}
  Reels = {r1, r2}
  Owner <- MCOwner
  PostedAt <- MCPostedAt
  Ingesters = {i1}
  MaxViews = 0
  MaxIngestions = 2
  Analysts = {}
  AnalyticsLimit = 1
  MaxAnalyses = 0
  Extractors = {x1}
  EnrichmentLimit = 1
  IntelligenceLimit = 1
  Transcribers = {t1}
  ReelCounts = {1}
INVARIANT
  EmbeddingOnlyAfterErasure
PROPERTIES
  StepsRunOut
  PartialIngestionKeepsPrimary
  JobsFinish
