\* Two passes of any kind, racing, failing and dying until calm, and the minute cron.
SPECIFICATION FairSpec
CONSTANTS
  Passes = {p1, p2}
  MOR_DEPLOY_BLOCK = 1
  DIAMOND_DEPLOY_BLOCK = 2
  LIVE_FROM = 4
  LIVE_TAIL_BLOCKS = 1
  CHUNK_BLOCKS = 2
  MAX_CHUNKS = 1
  Requested <- AnyRanges
  MaxHead = 5
VIEW FrontierView
INVARIANTS
  FrontierIsContiguous
  CompleteIsScanned
PROPERTY GrindConverges
