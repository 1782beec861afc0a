\* A balance of which an endpoint says nothing is not shown as a zero.
SPECIFICATION ReadersSpec
CONSTANTS
  s1 = s1
  s2 = s2
  w1 = w1
  w2 = w2
  b1 = b1
  b2 = b2
  p1 = p1
  l1 = l1
  l2 = l2
  Sessions = {s1, s2}
  UserOf <- UserChoice
  BidOf <- BidChoice
  StakeOf <- StakeChoice
  TermOf <- TermChoice
  SellerOf <- SellerChoice
  ModelOfBid <- ModelChoice
  Holders = {w1, w2}
  Sellers = {p1}
  Listings = {l1, l2}
  Accounted = {w1}
  MaxTime = 3
  Void = Void
  LIMIT = 2
  PAGE_CAP = 2
  PAGE_LIFE = 2
  COUNT_LIFE = 2
  MaxOpened = 4
  Readers = {reader}
  Warmers = {warmer}
  PAGE_TTL = 1
  VALUE_TTL = 1
  KV_MIN = 2
  HANDLING = 1
  Quoters = {q1, q2}
  Recorders = {cron}
  CHART_LIFE = 1
  CACHE_SECONDS = 0
  SPACING = 2
  PATIENCE = 1
  Window = 2
  NEAR_START = 1
  LastSecond = 3
  MaxAsked = 2
  NoPrice = NoPrice
  Endpoints = {e1, e2, e3}
  CALLS = 2
  Nil = Nil
  Lengths = {0, 1, 33, 501}
  Amounts = {0, 1}
  Ids = {1, 2, 3}
  Names <- SpeltNames
  Curated <- CuratedNames
  MaxEdits = 2
  NoName = NoName
  BUFFER = 1
  RANGE_CAP = 3
  BEHIND_DEGRADED = 3
  BEHIND_ERROR = 5
  BUILDER_DEGRADED = 4
  BUILDER_ERROR = 6
  STALE = 2
  VERY_STALE = 4
  STUCK_BEHIND = 2
  MAX_TICK = 1
  MaxNow = 10
  o1 = o1
  o2 = o2
  o3 = o3
  p2 = p2
  Offers = {o1, o2, o3}
  MakerOf <- MakerChoice
  OfferedOn <- OfferedChoice
  AskOf <- AskChoice
  Makers = {p1, p2}
  LIST_CAP = 1
  MaxMoment = 2
  NoBid = NoBid
  NoTime = NoTime
  Stakers = {k1, k2}
  StakeMoves = {1}
  LOCK = 1
  MaxMoves = 3
  MaxHeight = 3
  NoStake = NoStake
  Queries = {query}
  Aggregates = {aggregate}
  Crons = {minutely}
  Visitors = {visitor}
  AGG_TTL = 2
  MAX_BUILD = 1
  MaxSecond = 3
  NoFront = NoFront
  Purses = {1, 2, 3}
  Participants = {2}
  Distributions <- Holdings
  MIN_WEI = 2
  PAGE_ROWS = 1
  PER_CALL = 2
  ROUND = 1
  Sweepers = {sweeper1, sweeper2}
  MaxInstant = 2
  MaxMisses = 1
  NoHolder = NoHolder
  NoData = NoData
CHECK_DEADLOCK FALSE
INVARIANT NoFalseZeros
