\* Two runners, one session, failures anywhere, resets backwards and forwards:
\* what survives concurrency, and what holds while no two runs overlap.
SPECIFICATION Spec
CONSTANTS
  CONFIRMATION_BUFFER = 1
  MAX_LOG_RANGE = 2
  Sessions = {s1}
  Wallets = {}
  Runners = {r1, r2}
  StartCursors = {1}
  ResetBlocks = {0, 1, 3}
  RESET_BACK = 2
  MaxHead = 5
SYMMETRY Symmetry
VIEW View
INVARIANTS
  TypeOK
  OpenedGapProof
  IndexedIsFinal
  ClosedGapProof
PROPERTY OneWriterSteps
