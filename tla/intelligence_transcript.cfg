\* The INTELLIGENCE stage stores an empty row for a transcribed reel.
SPECIFICATION CatalogSpec
CONSTANTS
  a1 = a1
  a2 = a2
  r1 = r1
  r2 = r2
  None = None
  Accounts = {a1}
  Reels = {r1}
  Owner <- MCOwner
  PostedAt <- MCPostedAt
  Ingesters = {i1}
  MaxViews = 1
  MaxIngestions = 1
  Analysts = {}
  AnalyticsLimit = 1
  MaxAnalyses = 1
  Extractors = {x1}
  EnrichmentLimit = 1
  IntelligenceLimit = 1
  Transcribers = {t1}
  ReelCounts = {1}
PROPERTY IntelligenceReadsTranscript
