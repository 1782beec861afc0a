\* Two overlapping runs, failures anywhere, reorganisations.
SPECIFICATION Spec
CONSTANTS
  Subnets = {n1}
  Wallets = {w1}
  Kinds = {"deposit", "claim"}
  Runners = {r1, r2}
  Reconcilers = {}
  CONFIRMATION_BUFFER = 1
  BUILDER_DEPLOY_BLOCK = 1
  MAX_CHUNK = 3
  MIN_CHUNK = 2
  MAX_ITERATIONS = 2
  MAX_BLOCKS = 3
  RPC_LIMIT = 2
  MaxHead = 4
SYMMETRY Symmetry
VIEW LedgerView
INVARIANTS
  BuilderGapProof
  EventsAreFinal
