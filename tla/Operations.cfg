SPECIFICATION OpsSpec
CONSTANTS
  Detections = {run1, run2}
  MaxFaults = 1
  MaxTurns = 3
  Calls = {call1, call2}
  Sweeps = {sweep1, sweep2}
  Nonces = {nonce}
  Stakes <- StakeLevels
  MaxStakings = 1
  NoKey = NoKey
  Publishers = {pub1, pub2}
  KEEP = 2
  MaxTime = 3
  NoPointer = NoPointer
  Receipts = {1, 2, 3}
  Chainers = {chainer1, chainer2}
  BATCH = 2
  GROUP = 1
  MaxStumbles = 1
  b1 = b1
  b2 = b2
  p1 = p1
  l1 = l1
  Bids = {b1, b2}
  ProviderOf <- ProviderChoice
  ModelOf <- ModelChoice
  HasSessions = {}
  LiveSyncs = {live}
  MaxTip = 2
  Keys = {1, 2}
  Versions = 2
  LIMIT = 1
  MaxRefusals = 1
  Ticks = {tick1, tick2}
  PULSE_AGE = 3
  LAG = 1
  LastPulse = 5
CHECK_DEADLOCK FALSE
INVARIANTS
  KeysAreSound
  PointerResolves
  ReceiptsAreKept
  MarketFollowsChain
  WarehouseIsFed
PROPERTIES
  PagesAreTransitions
  CronsCatchUp
