\* Two overlapping ingestions of a handle with two reels.
SPECIFICATION FairBotSpec
CONSTANTS
  None = None
  Ingesters = {i1, i2}
  Clients = {}
  Reels = {r1, r2}
  MaxReels = 2
  CacheHours = 1
  MaxViews = 1
  MaxClock = 1
  h1 = h1
  h2 = h2
  s1 = s1
  Handles = {h1}
  HandleOf <- MCHandleOf
  Sessions = {}
  Window = 2
  MaxTurns = 0
INVARIANTS
  BotTypeOK
  OnePoolEach
PROPERTIES
  RequestsFinish
  SpendsOnlyWhenExpired
  CountsGoBackOnlyWhenRaced
