SPECIFICATION ServicesSpec
CONSTANTS
  Jobs = {o1, r1}
  OfferJobs = {o1}
  Names = {j1}
  j1 = j1
  NameOf <- OneName
  Lines = {1, 2}
  AmountOf <- OneAmount
  Expiry <- OneExpiry
  AutoHorizon = 3
  Stages = {s1, s2}
  s1 = s1
  e1 = e1
  e2 = e2
  Trigger <- TwoTriggers
  Terminal = end
  EventMaxAge = 0
  DoneMaxAge = 1
  ReplayFor = 1
  RetryMax = 1
  StageCooldown = 1
  TickIds = {k1, k2}
  MaxSessions = 2
  MaxLog = 2
  WorkHorizon = 2
  Clients = {c1, c2}
  Channels = {h1, h2}
  MidConnect = FALSE
  N = 3
  GuardCooldown = 3
  GuardHorizon = 8
  PeerNames = {n1, n2}
  BotNames = {b1}
  ValidatorNames = {v1}
  Stores = {st1}
  Pids = {p1, p2}
  Callers = {w1, w2}
  Crossable = {n1, v1}
  None = None
INVARIANTS
  ShapesKept Stoppable OneProcessPerStore RunningIsRecorded MarksBacked
  OneFeed SubscriptionsKept EveryUrlTried
PROPERTIES
  PostsOnlyOpen TimersEnd StagesRunOnce FlagReleased AttemptsApart
CHECK_DEADLOCK FALSE
