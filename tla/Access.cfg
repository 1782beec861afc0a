SPECIFICATION AccessSpec
CONSTANTS
  Isolates = {i1, i2}
  Requests = {r1, r2}
  WindowLength <- ShortWindows
  VOLUME_TTL = 1
  BURST_LIMIT = 2
  CapChoices <- OneCap
  StartMinute = 2
  MaxMinute = 6
  MaxRequests = 3
  MaxChanges = 1
  NoRow = NoRow
  None = None
  Visits = {v1, v2, v3}
  Exp = 1
  LIFETIME = 9
  TTL = 1
  TIMEOUT = 1
  MaxWait = 1
  GRACE = 1
  MaxSecond = 3
  NoAnswer = NoAnswer
  PaidRequests = {r1, r2}
  Authorizations = {a1, a2, a3}
  MAX_PENDING = 1
  Meters = {m1, m2}
  Flushes = {r1, r2}
  RowSizes = {1}
  MaxDay = 1
  MaxNoted = 2
  Anonymous = {r1, r2}
  DAY_CAP = 2
  DAY_HOURS = 3
  PRUNE_AT = 1
  MaxHour = 5
  MaxCharged = 4
VIEW SceneView
SYMMETRY AccessSymmetry
CHECK_DEADLOCK FALSE
INVARIANTS
  CapLandsWithinTTL
  CountersAgree
  LaunchTokenOnce
  PaymentsAreFair
  ExactWithoutOverlap
  AnonWithinCap
PROPERTY GateFollowsFeed
