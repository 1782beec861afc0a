SPECIFICATION Spec
CONSTANTS
  Passes = {p1, p2}
  MOR_DEPLOY_BLOCK = 1
  DIAMOND_DEPLOY_BLOCK = 2
  LIVE_FROM = 4
  LIVE_TAIL_BLOCKS = 1
  CHUNK_BLOCKS = 2
  MAX_CHUNKS = 1
  Requested <- NoRanges
  MaxHead = 4
INVARIANT NoHoleBehindFrontier
