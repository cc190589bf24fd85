\* Two tabs on two handles, the first with one session and the second with two.
SPECIFICATION FairBotSpec
CONSTANTS
  None = None
  Ingesters = {}
  Clients = {c1, c2}
  Reels = {}
  MaxReels = 1
  CacheHours = 1
  MaxViews = 0
  MaxClock = 0
  h1 = h1
  h2 = h2
  s1 = s1
  Handles = {h1, h2}
  HandleOf <- MCHandleOf
  Sessions = {s1, s2, s3}
  Window = 2
  MaxTurns = 2
INVARIANTS
  AnswersFollowQuestions
  KnownSessionsPreviewed
PROPERTIES
  RequestsFinish
  SessionsAreConversations
