\* The live sync and one pass, failing anywhere, on a warm cursor.
SPECIFICATION BackfillSpec
CONSTANTS
  CONFIRMATION_BUFFER = 1
  MAX_LOG_RANGE = 2
  Sessions = {s1}
  Wallets = {}
  Runners = {r1}
  StartCursors = {1}
  ResetBlocks = {}
  RESET_BACK = 2
  MaxHead = 5
  CHUNK_BLOCKS = 2
  Requested <- AnyRanges
VIEW PassView
PROPERTY CleanPassFills
