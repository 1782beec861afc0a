---------------------------- MODULE BuilderSync -----------------------------
(***************************************************************************)
(* The builder-staking indexer: syncBuilderEvents() and                    *)
(* syncBuilderFullState() of src/src/sync/builder.ts, with the processors  *)
(* of builder-events.ts and the refreshers of builder-discovery.ts and     *)
(* builder-refresh.ts.                                                     *)
(*                                                                         *)
(* A runner is an execution context that may be inside syncBuilderEvents() *)
(* (the coordinator's tick, its trigger, /sync/builder-events), and a      *)
(* reconciler one inside syncBuilderFullState() (the ten-minute cron,      *)
(* /sync/builder-full).  No lock is taken; each action is the code between *)
(* two awaits that touch shared state.                                     *)
(*                                                                         *)
(* A block carries at most one event, of one token.  FeePaid events are    *)
(* stored the way claims are, so "claim" stands for both.  SubnetCreated   *)
(* is left out, with the metadata of subnets: processSubnetCreated writes  *)
(* only the row of a subnet, before the deposits, and no event or stake; a *)
(* subnet has its row here from its first deposit, whose shell makes one   *)
(* too, and the failure of that write is an Abort before the deposits.     *)
(***************************************************************************)
EXTENDS Integers, FiniteSets

CONSTANTS
  Subnets, Wallets,
  Kinds,                 \* the kinds of event that occur
  Runners, Reconcilers,
  CONFIRMATION_BUFFER,   \* blocks behind the head that are never indexed (20)
  BUILDER_DEPLOY_BLOCK,
  MAX_CHUNK, MIN_CHUNK,  \* blocks per eth_getLogs range (800, 50)
  MAX_ITERATIONS,        \* chunks, or refused chunks, per run (8)
  MAX_BLOCKS,            \* how far one run may go (100000)
  RPC_LIMIT,             \* the widest range some endpoint accepts
  MaxHead                \* bound: the chain stops growing here

ASSUME BuilderBlocksAssumption ==
  /\ CONFIRMATION_BUFFER \in Nat
  /\ BUILDER_DEPLOY_BLOCK \in Nat \ {0}
  /\ MaxHead \in Nat
ASSUME BuilderChunksAssumption ==
  /\ MAX_CHUNK \in Nat /\ MIN_CHUNK \in Nat \ {0} /\ MIN_CHUNK <= MAX_CHUNK
  /\ MAX_ITERATIONS \in Nat /\ MAX_BLOCKS \in Nat
  /\ RPC_LIMIT \in Nat /\ MIN_CHUNK <= RPC_LIMIT
ASSUME BuilderKindsAssumption == Kinds \subseteq {"deposit", "withdraw", "claim"}
ASSUME BuilderActorsAssumption == Runners \cap Reconcilers = {}

Actors == Runners \cup Reconcilers
Blocks == BUILDER_DEPLOY_BLOCK .. MaxHead
Stakes == Subnets \X Wallets
NoFlow == [kind |-> "none"]
Flows  == [kind : Kinds, stake : Stakes]
NoRow  == -1
NoStake == <<>>

VARIABLES
  \* the chain: its head and the event of each block; and whether calls have
  \* stopped failing, which only the liveness properties wait for
  head, block, calm,
  \* D1: the builder_events row of each block's event, builder_stakes.deposited,
  \* builder_subnets.total_deposited
  stored, stakes, total,
  \* D1: builder_sync_state rows last_builder_event_block and global_stats;
  \* the latter is a sum, kept here as its summands
  cursor, stats,
  \* the locals of each run
  pc, at, target, size, iter, logs, todo, current, sum, touched, seen

chain  == <<head, block, calm>>
ledger == <<stored, stakes>>
totals == <<total, stats>>
loop   == <<at, target, size, iter>>
work   == <<logs, todo, current, sum>>
reads  == <<touched, seen>>
vars   == <<chain, ledger, totals, cursor, pc, loop, work, reads>>

Steps == {"idle", "cursor", "head", "loop", "deposits", "withdrawals", "claims",
          "recompute", "set", "totals", "totalsWrite", "stats", "statsWrite",
          "goldsky", "goldskyWrite"}

NoLogs == [n \in Blocks |-> NoFlow]
Unseen == [s \in Subnets |-> NoRow]

Init ==
  /\ head = BUILDER_DEPLOY_BLOCK - 1
  /\ block = NoLogs
  /\ calm = FALSE
  /\ stored = NoLogs
  /\ stakes = [k \in Stakes |-> NoRow]
  /\ total = Unseen
  /\ cursor = BUILDER_DEPLOY_BLOCK - 1
  /\ stats = Unseen
  /\ pc = [r \in Actors |-> "idle"]
  /\ at = [r \in Actors |-> 0] /\ target = [r \in Actors |-> 0]
  /\ size = [r \in Actors |-> MAX_CHUNK] /\ iter = [r \in Actors |-> 0]
  /\ logs = [r \in Actors |-> NoLogs]
  /\ todo = [r \in Actors |-> {}]
  /\ current = [r \in Actors |-> NoStake] /\ sum = [r \in Actors |-> 0]
  /\ touched = [r \in Actors |-> {}] /\ seen = [r \in Actors |-> Unseen]
-----------------------------------------------------------------------------
\* Deposits less withdrawals of the stakes K in the rows up to block h.
Counted(rows, kind, K, h) ==
  Cardinality({n \in Blocks : n <= h /\ rows[n].kind = kind /\ rows[n].stake \in K})

Net(rows, K, h) == Counted(rows, "deposit", K, h) - Counted(rows, "withdraw", K, h)

OfSubnet(s) == {k \in Stakes : k[1] = s}

(***************************************************************************)
(* The chain (external): nobody withdraws more than was deposited, and a   *)
(* reorganisation changes blocks within the confirmation buffer only.      *)
(***************************************************************************)
Legal(b) == \A k \in Stakes : \A h \in Blocks : Net(b, {k}, h) >= 0

Unconfirmed(n) == n > head - CONFIRMATION_BUFFER

Mine(f) ==
  /\ head < MaxHead
  /\ head' = head + 1
  /\ block' = [block EXCEPT ![head + 1] = f]
  /\ Legal(block')
  /\ UNCHANGED <<calm, ledger, totals, cursor, pc, loop, work, reads>>

Reorg(n, f) ==
  /\ ~calm
  /\ n <= head /\ Unconfirmed(n)
  /\ block' = [block EXCEPT ![n] = f]
  /\ Legal(block')
  /\ UNCHANGED <<head, calm, ledger, totals, cursor, pc, loop, work, reads>>

\* From here on calls are served, the subgraph has caught up, no more reorgs.
CalmDown ==
  /\ ~calm
  /\ calm' = TRUE
  /\ UNCHANGED <<head, block, ledger, totals, cursor, pc, loop, work, reads>>
-----------------------------------------------------------------------------
Lesser(a, b)  == IF a <= b THEN a ELSE b
Greater(a, b) == IF a >= b THEN a ELSE b

Goto(r, from, to) ==
  /\ pc[r] = from
  /\ pc' = [pc EXCEPT ![r] = to]

\* The run r returns or throws, and its locals are gone.
Leave(r) ==
  /\ pc' = [pc EXCEPT ![r] = "idle"]
  /\ at' = [at EXCEPT ![r] = 0] /\ target' = [target EXCEPT ![r] = 0]
  /\ size' = [size EXCEPT ![r] = MAX_CHUNK] /\ iter' = [iter EXCEPT ![r] = 0]
  /\ logs' = [logs EXCEPT ![r] = NoLogs]
  /\ todo' = [todo EXCEPT ![r] = {}]
  /\ current' = [current EXCEPT ![r] = NoStake] /\ sum' = [sum EXCEPT ![r] = 0]
  /\ touched' = [touched EXCEPT ![r] = {}] /\ seen' = [seen EXCEPT ![r] = Unseen]

(***************************************************************************)
(* A D1 or RPC call that throws out of the run (no head, no working        *)
(* endpoint, a rejected write), or the death of its isolate.               *)
(***************************************************************************)
Abort(r) ==
  /\ ~calm /\ pc[r] # "idle"
  /\ Leave(r)
  /\ UNCHANGED <<chain, ledger, totals, cursor>>

syncBuilderEvents(r) ==
  /\ Goto(r, "idle", "cursor")
  /\ UNCHANGED <<chain, ledger, totals, cursor, loop, work, reads>>

ReadCursor(r) ==
  /\ Goto(r, "cursor", "head")
  /\ at' = [at EXCEPT ![r] = cursor]
  /\ UNCHANGED <<chain, ledger, totals, cursor, target, size, iter, work, reads>>

\* Mutant: no confirmation buffer.
SafeHead_tip(h) == h

SafeHead(h) == h - CONFIRMATION_BUFFER

TargetHead(r) == Lesser(SafeHead(head), at[r] + MAX_BLOCKS)

CaughtUp(r) ==
  /\ pc[r] = "head" /\ at[r] >= TargetHead(r)
  /\ Leave(r)
  /\ UNCHANGED <<chain, ledger, totals, cursor>>

ReadHead(r) ==
  /\ Goto(r, "head", "loop") /\ at[r] < TargetHead(r)
  /\ target' = [target EXCEPT ![r] = TargetHead(r)]
  /\ UNCHANGED <<chain, ledger, totals, cursor, at, size, iter, work, reads>>
-----------------------------------------------------------------------------
Loops(r)   == at[r] < target[r] /\ iter[r] < MAX_ITERATIONS
ChunkTo(r) == Lesser(at[r] + size[r], target[r])
Accepted(r) == ChunkTo(r) - at[r] <= RPC_LIMIT

Fetched(r) ==
  [n \in Blocks |-> IF at[r] < n /\ n <= ChunkTo(r) THEN block[n] ELSE NoFlow]

\* Mutant: a topic whose call fails is taken for one without logs.
FetchChunk_swallowed(r) ==
  /\ Goto(r, "loop", "deposits") /\ Loops(r) /\ Accepted(r)
  /\ \/ logs' = [logs EXCEPT ![r] = Fetched(r)]
     \/ ~calm /\ logs' = [logs EXCEPT ![r] = NoLogs]
  /\ iter' = [iter EXCEPT ![r] = @ + 1]
  /\ UNCHANGED <<chain, ledger, totals, cursor, at, target, size, todo, current, sum, reads>>

\* All six eth_getLogs calls answer.
FetchChunk(r) ==
  /\ Goto(r, "loop", "deposits") /\ Loops(r) /\ Accepted(r)
  /\ logs' = [logs EXCEPT ![r] = Fetched(r)]
  /\ iter' = [iter EXCEPT ![r] = @ + 1]
  /\ UNCHANGED <<chain, ledger, totals, cursor, at, target, size, todo, current, sum, reads>>

Halved(s) == Greater(MIN_CHUNK, s \div 2)

\* An error that reads like a range limit: smaller chunks, same cursor.
HalveChunk(r) ==
  /\ pc[r] = "loop" /\ Loops(r) /\ size[r] > MIN_CHUNK
  /\ calm => ~Accepted(r)
  /\ size' = [size EXCEPT ![r] = Halved(@)]
  /\ iter' = [iter EXCEPT ![r] = @ + 1]
  /\ UNCHANGED <<chain, ledger, totals, cursor, pc, at, target, work, reads>>

(***************************************************************************)
(* The loop is over: at the target, out of iterations, or (while calls     *)
(* fail) on a real fetch failure or after the time budget.                 *)
(***************************************************************************)
LoopEnds(r) ==
  /\ Goto(r, "loop", IF touched[r] = {} THEN "stats" ELSE "totals")
  /\ calm => ~Loops(r)
  /\ UNCHANGED <<chain, ledger, totals, cursor, loop, work, reads>>
-----------------------------------------------------------------------------
Of(r, kind) == {n \in Blocks : logs[r][n].kind = kind}

Paid(r, S) == {logs[r][n].stake : n \in S}

\* INSERT OR IGNORE on (tx_hash, log_index, event_type).
Insert(r, S) ==
  [n \in Blocks |-> IF n \in S /\ stored[n] = NoFlow THEN logs[r][n] ELSE stored[n]]

\* A failed batch of statements ends the run; the ones before it stay.
Flushed(r, S, done, to) ==
  \/ /\ done = S
     /\ pc' = [pc EXCEPT ![r] = to]
     /\ UNCHANGED <<loop, work, reads>>
  \/ /\ ~calm /\ done # S
     /\ Leave(r)

(***************************************************************************)
(* For each deposit a subnet shell, a stake row and the event, in this     *)
(* order; a batch may end between them, so rows may be ahead of events.    *)
(***************************************************************************)
processDeposits(r, rows, done) ==
  /\ pc[r] = "deposits"
  /\ rows \subseteq Of(r, "deposit") /\ done \subseteq rows
  /\ stored' = Insert(r, done)
  /\ stakes' = [k \in Stakes |-> IF k \in Paid(r, rows) THEN Greater(0, stakes[k]) ELSE stakes[k]]
  /\ total' = [s \in Subnets |-> IF OfSubnet(s) \cap Paid(r, rows) # {}
                                 THEN Greater(0, total[s]) ELSE total[s]]
  /\ Flushed(r, Of(r, "deposit"), done, "withdrawals")
  /\ UNCHANGED <<chain, stats, cursor>>

processWithdrawals(r, done) ==
  /\ pc[r] = "withdrawals"
  /\ done \subseteq Of(r, "withdraw")
  /\ stored' = Insert(r, done)
  /\ Flushed(r, Of(r, "withdraw"), done, "claims")
  /\ UNCHANGED <<chain, stakes, totals, cursor>>

\* Mutant: only deposits touch a stake.
Touches_deposits(r) == Paid(r, Of(r, "deposit"))

Touches(r) == Paid(r, Of(r, "deposit") \cup Of(r, "withdraw"))

\* Claims and fees touch no stake; the stakes to recompute are now known.
processClaims(r, done) ==
  /\ pc[r] = "claims"
  /\ done \subseteq Of(r, "claim")
  /\ stored' = Insert(r, done)
  /\ \/ /\ done = Of(r, "claim")
        /\ pc' = [pc EXCEPT ![r] = "recompute"]
        /\ todo' = [todo EXCEPT ![r] = Touches(r)]
        /\ touched' = [touched EXCEPT ![r] = @ \cup {k[1] : k \in Touches(r)}]
        /\ UNCHANGED <<loop, logs, current, sum, seen>>
     \/ /\ ~calm /\ done # Of(r, "claim")
        /\ Leave(r)
  /\ UNCHANGED <<chain, stakes, totals, cursor>>

(***************************************************************************)
(* A touched stake is recomputed from every stored flow of it, clamped at  *)
(* zero: read, then written by an UPDATE that needs the row.               *)
(***************************************************************************)
recomputeStakes(r, k) ==
  /\ Goto(r, "recompute", "set")
  /\ k \in todo[r]
  /\ current' = [current EXCEPT ![r] = k]
  /\ sum' = [sum EXCEPT ![r] = Greater(0, Net(stored, {k}, MaxHead))]
  /\ UNCHANGED <<chain, ledger, totals, cursor, loop, logs, todo, reads>>

setStakeDeposited(r) ==
  /\ Goto(r, "set", "recompute")
  /\ stakes' = [k \in Stakes |-> IF k = current[r] /\ stakes[k] # NoRow THEN sum[r] ELSE stakes[k]]
  /\ todo' = [todo EXCEPT ![r] = @ \ {current[r]}]
  /\ current' = [current EXCEPT ![r] = NoStake] /\ sum' = [sum EXCEPT ![r] = 0]
  /\ UNCHANGED <<chain, stored, totals, cursor, loop, logs, reads>>

(***************************************************************************)
(* The chunk is written: the cursor row is set to its end, whatever        *)
(* another run has set it to in between.                                   *)
(***************************************************************************)
PersistCursor(r) ==
  /\ Goto(r, "recompute", "loop") /\ todo[r] = {}
  /\ cursor' = ChunkTo(r)
  /\ at' = [at EXCEPT ![r] = ChunkTo(r)]
  /\ logs' = [logs EXCEPT ![r] = NoLogs]
  /\ UNCHANGED <<chain, ledger, totals, target, size, iter, todo, current, sum, reads>>
-----------------------------------------------------------------------------
syncBuilderFullState(r) ==
  /\ Goto(r, "idle", "stats")
  /\ UNCHANGED <<chain, ledger, totals, cursor, loop, work, reads>>

\* syncBuilderGlobalStats: the totals as they are now, written later.
ReadStats(r) ==
  /\ Goto(r, "stats", "statsWrite")
  /\ seen' = [seen EXCEPT ![r] = total]
  /\ UNCHANGED <<chain, ledger, totals, cursor, loop, work, touched>>

WriteStats(r) ==
  /\ pc[r] = "statsWrite"
  /\ stats' = seen[r]
  /\ IF r \in Reconcilers
     THEN /\ pc' = [pc EXCEPT ![r] = "goldsky"]
          /\ UNCHANGED <<loop, work, reads>>
     ELSE Leave(r)
  /\ UNCHANGED <<chain, ledger, total, cursor>>

(***************************************************************************)
(* The subgraph (external) lists subnets with their totals as of a block   *)
(* it has indexed, which may be any earlier one.  A call that fails lists  *)
(* none.                                                                   *)
(***************************************************************************)
ReadGoldsky(r, listed, h) ==
  /\ Goto(r, "goldsky", "goldskyWrite")
  /\ calm => listed = Subnets /\ h = head
  /\ seen' = [seen EXCEPT ![r] =
                [s \in Subnets |-> IF s \in listed THEN Net(block, OfSubnet(s), h) ELSE NoRow]]
  /\ UNCHANGED <<chain, ledger, totals, cursor, loop, work, touched>>

\* Mutant: an upsert that, like the refresh, keeps the old total on a zero.
Listed_positive(r, s) == seen[r][s] > 0

Listed(r, s) == seen[r][s] # NoRow

\* The upsert takes the subgraph's total whatever it is.
WriteGoldsky(r) ==
  /\ Goto(r, "goldskyWrite", "totals")
  /\ total' = [s \in Subnets |-> IF Listed(r, s) THEN seen[r][s] ELSE total[s]]
  /\ UNCHANGED <<chain, ledger, stats, cursor, loop, work, reads>>

(***************************************************************************)
(* refreshSubnetData: the totals of the latest block, for the subnets that *)
(* have a row, all of them or the touched ones.  A call that fails reads   *)
(* as zero.                                                                *)
(***************************************************************************)
Wanted(r) ==
  {s \in Subnets : total[s] # NoRow /\ (r \in Reconcilers \/ s \in touched[r])}

ReadTotals(r, answered) ==
  /\ Goto(r, "totals", "totalsWrite")
  /\ answered \subseteq Wanted(r)
  /\ calm => answered = Wanted(r)
  /\ seen' = [seen EXCEPT ![r] =
                [s \in Subnets |-> IF s \in answered THEN Net(block, OfSubnet(s), head) ELSE 0]]
  /\ UNCHANGED <<chain, ledger, totals, cursor, loop, work, touched>>

\* CASE WHEN ? != '0': a zero keeps the old total.
WriteTotals(r) ==
  /\ pc[r] = "totalsWrite"
  /\ total' = [s \in Subnets |-> IF seen[r][s] # 0 THEN seen[r][s] ELSE total[s]]
  /\ IF r \in Reconcilers
     THEN Leave(r)
     ELSE /\ pc' = [pc EXCEPT ![r] = "stats"]
          /\ UNCHANGED <<loop, work, reads>>
  /\ UNCHANGED <<chain, ledger, stats, cursor>>
-----------------------------------------------------------------------------
EventStep(r) ==
  \/ ReadCursor(r)
  \/ CaughtUp(r)
  \/ ReadHead(r)
  \/ FetchChunk(r)
  \/ HalveChunk(r)
  \/ LoopEnds(r)
  \/ \E rows \in SUBSET Of(r, "deposit") : \E done \in SUBSET rows : processDeposits(r, rows, done)
  \/ \E done \in SUBSET Of(r, "withdraw") : processWithdrawals(r, done)
  \/ \E done \in SUBSET Of(r, "claim") : processClaims(r, done)
  \/ \E k \in todo[r] : recomputeStakes(r, k)
  \/ setStakeDeposited(r)
  \/ PersistCursor(r)

RefreshStep(r) ==
  \/ ReadStats(r)
  \/ WriteStats(r)
  \/ \E answered \in SUBSET Subnets : ReadTotals(r, answered)
  \/ WriteTotals(r)

GoldskyStep(r) ==
  \/ \E listed \in SUBSET Subnets, h \in BUILDER_DEPLOY_BLOCK - 1 .. head : ReadGoldsky(r, listed, h)
  \/ WriteGoldsky(r)

ChainStep ==
  \E f \in Flows \cup {NoFlow} : Mine(f) \/ \E n \in Blocks : Reorg(n, f)

Next ==
  \/ ChainStep
  \/ CalmDown
  \/ \E r \in Runners : syncBuilderEvents(r) \/ EventStep(r)
  \/ \E r \in Reconcilers : syncBuilderFullState(r) \/ GoldskyStep(r)
  \/ \E r \in Actors : RefreshStep(r) \/ Abort(r)

Spec == Init /\ [][Next]_vars

(***************************************************************************)
(* Ticks and the reconcile cron keep coming, runs go on, failures end.     *)
(***************************************************************************)
FairSpec ==
  /\ Spec
  /\ WF_vars(CalmDown)
  /\ \A r \in Runners : WF_vars(syncBuilderEvents(r) \/ EventStep(r) \/ RefreshStep(r))
  /\ \A r \in Reconcilers : WF_vars(syncBuilderFullState(r) \/ GoldskyStep(r) \/ RefreshStep(r))
-----------------------------------------------------------------------------
BuilderTypeOK ==
  /\ head \in Nat /\ calm \in BOOLEAN /\ cursor \in Nat
  /\ block \in [Blocks -> Flows \cup {NoFlow}]
  /\ stored \in [Blocks -> Flows \cup {NoFlow}]
  /\ stakes \in [Stakes -> Nat \cup {NoRow}]
  /\ total \in [Subnets -> Int] /\ stats \in [Subnets -> Int]
  /\ pc \in [Actors -> Steps]
  /\ at \in [Actors -> Nat] /\ target \in [Actors -> Nat]
  /\ size \in [Actors -> MIN_CHUNK .. MAX_CHUNK] /\ iter \in [Actors -> Nat]
  /\ logs \in [Actors -> [Blocks -> Flows \cup {NoFlow}]]
  /\ todo \in [Actors -> SUBSET Stakes]
  /\ current \in [Actors -> Stakes \cup {NoStake}] /\ sum \in [Actors -> Nat]
  /\ touched \in [Actors -> SUBSET Subnets]
  /\ seen \in [Actors -> [Subnets -> Int]]

(***************************************************************************)
(* The gap-proof contract: up to last_builder_event_block the event table  *)
(* is the chain, whatever failed and however many runs overlap.            *)
(***************************************************************************)
BuilderGapProof == \A n \in Blocks : n <= cursor => stored[n] = block[n]

(***************************************************************************)
(* The confirmation buffer: no stored event can be reorganised away.       *)
(***************************************************************************)
EventsAreFinal ==
  \A n \in Blocks : stored[n] # NoFlow => stored[n] = block[n] /\ ~Unconfirmed(n)

(***************************************************************************)
(* With one run at a time: between runs, a stake whose flows beyond the    *)
(* cursor are not stored yet shows what the chain held at the cursor,      *)
(* wherever earlier runs failed.                                           *)
(***************************************************************************)
StakesFollowChain ==
  (\A r \in Runners : pc[r] = "idle") =>
    \A k \in Stakes :
      /\ Counted(block, "deposit", {k}, cursor) > 0
      /\ \A n \in Blocks : n > cursor => stored[n] = NoFlow \/ stored[n].stake # k
      => stakes[k] = Net(block, {k}, cursor)

(***************************************************************************)
(* "A large lag heals": once calls are served, halving and the iteration   *)
(* cap included, the cursor reaches the safe head for good.                *)
(***************************************************************************)
BuilderCatchesUp == <>[](cursor >= head - CONFIRMATION_BUFFER)

(***************************************************************************)
(* The reconcile heals the totals: with three writers, one of which lags   *)
(* and one of which never writes a zero, every total is in the end the     *)
(* chain's and the global sum is the sum of them.                          *)
(***************************************************************************)
TotalsSettle ==
  <>[](/\ \A s \in Subnets : total[s] = Net(block, OfSubnet(s), head)
       /\ stats = total)

(***************************************************************************)
(* Behind failures that end, the cursor catches up and the totals settle.  *)
(***************************************************************************)
BuilderSettles == BuilderCatchesUp /\ TotalsSettle
=============================================================================
