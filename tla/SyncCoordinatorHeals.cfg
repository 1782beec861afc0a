SPECIFICATION CronSpec
CONSTANTS
  CONFIRMATION_BUFFER = 1
  MAX_LOG_RANGE = 1
  Sessions = {}
  Wallets = {}
  AlarmTick = alarm
  CronTick = cron
  Runners = {alarm, cron}
  StartCursors = {1}
  ResetBlocks = {2}
  RESET_BACK = 2
  MaxHead = 4
  CRON_FORCE_GAP = 1
  Meddling = TRUE
VIEW LoopView
PROPERTY LoopRecovers
