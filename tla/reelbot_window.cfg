\* A third turn remembers the first messages of the session.
SPECIFICATION BotSpec
CONSTANTS
  None = None
  Ingesters = {}
  Clients = {c1}
  Reels = {}
  MaxReels = 1
  CacheHours = 1
  MaxViews = 0
  MaxClock = 0
  h1 = h1
  h2 = h2
  s1 = s1
  Handles = {h1}
  HandleOf <- MCHandleOf
  Sessions = {s1}
  Window = 2
  MaxTurns = 3
PROPERTY LastMessagesRemembered
