\* One ingestion and one analytics run on one reel.
SPECIFICATION MetricsSpec
CONSTANTS
  None = None
  Clips <- MCClips
  FollowerCounts = {0, 3}
  VolatilityThreshold = 2
  Ingesters = {i1}
  Analysts = {j1}
  MaxIngestions = 1
INVARIANTS
  ViewToFollowerIsPercentage
