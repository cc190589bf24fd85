\* Two ingestions and two analytics runs on one reel.
SPECIFICATION MetricsSpec
CONSTANTS
  None = None
  Clips <- MCClips
  FollowerCounts = {0, 3}
  VolatilityThreshold = 2
  Ingesters = {i1, i2}
  Analysts = {j1, j2}
  MaxIngestions = 2
SYMMETRY Symmetry
INVARIANTS
  RatesFitCounts
  FullQualityIsComplete
PROPERTIES
  RecomputationKeepsRates
