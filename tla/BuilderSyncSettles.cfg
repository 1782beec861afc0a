\* One run at a time beside the reconcile cron; failures that end.
SPECIFICATION FairSpec
CONSTANTS
  Subnets = {n1}
  Wallets = {w1}
  Kinds = {"deposit", "withdraw"}
  Runners = {r1}
  Reconcilers = {c1}
  CONFIRMATION_BUFFER = 1
  BUILDER_DEPLOY_BLOCK = 1
  MAX_CHUNK = 2
  MIN_CHUNK = 1
  MAX_ITERATIONS = 2
  MAX_BLOCKS = 3
  RPC_LIMIT = 1
  MaxHead = 3
VIEW TotalsView
INVARIANT StakesFollowChain
PROPERTY BuilderSettles
