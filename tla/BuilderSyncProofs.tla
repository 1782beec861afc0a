------------------------- MODULE BuilderSyncProofs --------------------------
(***************************************************************************)
(* Proofs about BuilderSync for any subnets, wallets, runners and          *)
(* reconcilers.                                                            *)
(***************************************************************************)
EXTENDS BuilderSync, FiniteSetTheorems, TLAPS

LEMMA FlowFacts ==
  ASSUME NEW f \in Flows \cup {NoFlow}
  PROVE  /\ f = NoFlow <=> f.kind = "none"
         /\ f # NoFlow => f.kind \in {"deposit", "withdraw", "claim"} /\ f.stake \in Stakes
<1>1. CASE f = NoFlow
  BY <1>1 DEF NoFlow
<1>2. CASE f \in Flows
  <2>1. f.kind \in Kinds /\ f.stake \in Stakes
    BY <1>2 DEF Flows
  <2>2. NoFlow.kind = "none"
    BY DEF NoFlow
  <2> QED
    BY <2>1, <2>2, BuilderKindsAssumption
<1> QED
  BY <1>1, <1>2

(***************************************************************************)
(* The blocks are finite, so what is counted over them is a number.        *)
(***************************************************************************)
LEMMA CountedType ==
  ASSUME NEW rows, NEW kind, NEW K, NEW h
  PROVE  Counted(rows, kind, K, h) \in Nat
<1>1. IsFiniteSet(Blocks)
  BY FS_Interval, BuilderBlocksAssumption DEF Blocks
<1>2. IsFiniteSet({n \in Blocks : n <= h /\ rows[n].kind = kind /\ rows[n].stake \in K})
  BY <1>1, FS_Subset
<1> QED
  BY <1>2, FS_CardinalityType DEF Counted

LEMMA NetType ==
  ASSUME NEW rows, NEW K, NEW h
  PROVE  Net(rows, K, h) \in Int
BY CountedType DEF Net

LEMMA InitTypes ==
  /\ NoLogs \in [Blocks -> Flows \cup {NoFlow}]
  /\ Unseen \in [Subnets -> Int]
  /\ MAX_CHUNK \in MIN_CHUNK .. MAX_CHUNK
BY BuilderChunksAssumption DEF NoLogs, Unseen, NoRow

(***************************************************************************)
(* A run that ends forgets its locals and disturbs nobody else's.          *)
(***************************************************************************)
LEMMA LeaveTypes ==
  ASSUME BuilderTypeOK, NEW r \in Actors, Leave(r)
  PROVE  /\ pc' \in [Actors -> Steps]
         /\ at' \in [Actors -> Nat] /\ target' \in [Actors -> Nat]
         /\ size' \in [Actors -> MIN_CHUNK .. MAX_CHUNK] /\ iter' \in [Actors -> Nat]
         /\ logs' \in [Actors -> [Blocks -> Flows \cup {NoFlow}]]
         /\ todo' \in [Actors -> SUBSET Stakes]
         /\ current' \in [Actors -> Stakes \cup {NoStake}] /\ sum' \in [Actors -> Nat]
         /\ touched' \in [Actors -> SUBSET Subnets]
         /\ seen' \in [Actors -> [Subnets -> Int]]
BY InitTypes DEF Leave, BuilderTypeOK, Steps

LEMMA InsertType ==
  ASSUME BuilderTypeOK, NEW r \in Actors, NEW S
  PROVE  Insert(r, S) \in [Blocks -> Flows \cup {NoFlow}]
BY DEF Insert, BuilderTypeOK

LEMMA OfIsBlocks ==
  ASSUME NEW r, NEW kind PROVE Of(r, kind) \subseteq Blocks
BY DEF Of

LEMMA FlushedTypes ==
  ASSUME BuilderTypeOK, NEW r \in Actors, NEW S, NEW done, NEW to \in Steps,
         Flushed(r, S, done, to)
  PROVE  /\ pc' \in [Actors -> Steps]
         /\ at' \in [Actors -> Nat] /\ target' \in [Actors -> Nat]
         /\ size' \in [Actors -> MIN_CHUNK .. MAX_CHUNK] /\ iter' \in [Actors -> Nat]
         /\ logs' \in [Actors -> [Blocks -> Flows \cup {NoFlow}]]
         /\ todo' \in [Actors -> SUBSET Stakes]
         /\ current' \in [Actors -> Stakes \cup {NoStake}] /\ sum' \in [Actors -> Nat]
         /\ touched' \in [Actors -> SUBSET Subnets]
         /\ seen' \in [Actors -> [Subnets -> Int]]
<1>1. CASE done = S /\ pc' = [pc EXCEPT ![r] = to] /\ UNCHANGED <<loop, work, reads>>
  BY <1>1 DEF BuilderTypeOK, loop, work, reads
<1>2. CASE Leave(r)
  BY <1>2, LeaveTypes
<1> QED
  BY <1>1, <1>2 DEF Flushed

(***************************************************************************)
(* The stakes and subnets a chunk touches are ones of its events.          *)
(***************************************************************************)
LEMMA TouchesTypes ==
  ASSUME BuilderTypeOK, NEW r \in Actors
  PROVE  Touches(r) \subseteq Stakes /\ {k[1] : k \in Touches(r)} \subseteq Subnets
<1>1. ASSUME NEW n \in Of(r, "deposit") \cup Of(r, "withdraw")
      PROVE  logs[r][n].stake \in Stakes
  <2>1. logs[r][n] \in Flows \cup {NoFlow} /\ logs[r][n].kind \in {"deposit", "withdraw"}
    BY <1>1 DEF Of, BuilderTypeOK
  <2> QED
    BY <2>1, FlowFacts
<1>2. Touches(r) \subseteq Stakes
  BY <1>1 DEF Touches, Paid
<1>3. \A k \in Stakes : k[1] \in Subnets
  BY DEF Stakes
<1> QED
  BY <1>2, <1>3
-----------------------------------------------------------------------------
LEMMA TypeInit == Init => BuilderTypeOK
<1> SUFFICES ASSUME Init PROVE BuilderTypeOK
  OBVIOUS
<1>1. head \in Nat /\ cursor \in Nat /\ calm \in BOOLEAN
  <2>1. head = BUILDER_DEPLOY_BLOCK - 1 /\ cursor = BUILDER_DEPLOY_BLOCK - 1 /\ calm = FALSE
    BY DEF Init
  <2>2. BUILDER_DEPLOY_BLOCK - 1 \in Nat
    BY BuilderBlocksAssumption
  <2> QED
    BY <2>1, <2>2
<1>2. /\ block \in [Blocks -> Flows \cup {NoFlow}]
      /\ stored \in [Blocks -> Flows \cup {NoFlow}]
      /\ logs \in [Actors -> [Blocks -> Flows \cup {NoFlow}]]
  BY InitTypes DEF Init
<1>3. /\ total \in [Subnets -> Int] /\ stats \in [Subnets -> Int]
      /\ seen \in [Actors -> [Subnets -> Int]]
  BY InitTypes DEF Init
<1>4. /\ stakes \in [Stakes -> Nat \cup {NoRow}]
      /\ current \in [Actors -> Stakes \cup {NoStake}]
      /\ todo \in [Actors -> SUBSET Stakes]
  BY DEF Init
<1>5. /\ pc \in [Actors -> Steps]
      /\ at \in [Actors -> Nat] /\ target \in [Actors -> Nat]
      /\ size \in [Actors -> MIN_CHUNK .. MAX_CHUNK] /\ iter \in [Actors -> Nat]
      /\ sum \in [Actors -> Nat] /\ touched \in [Actors -> SUBSET Subnets]
  BY InitTypes DEF Init, Steps
<1> QED
  BY <1>1, <1>2, <1>3, <1>4, <1>5 DEF BuilderTypeOK

LEMMA TypeChain ==
  ASSUME BuilderTypeOK, ChainStep \/ CalmDown
  PROVE  BuilderTypeOK'
<1>1. CASE CalmDown
  BY <1>1 DEF CalmDown, BuilderTypeOK, ledger, totals, loop, work, reads
<1>2. ASSUME NEW f \in Flows \cup {NoFlow}, Mine(f)
      PROVE  BuilderTypeOK'
  <2>1. block' \in [Blocks -> Flows \cup {NoFlow}]
    BY <1>2 DEF Mine, BuilderTypeOK
  <2>2. head' \in Nat
    BY <1>2 DEF Mine, BuilderTypeOK
  <2> QED
    BY <1>2, <2>1, <2>2 DEF Mine, BuilderTypeOK, ledger, totals, loop, work, reads
<1>3. ASSUME NEW f \in Flows \cup {NoFlow}, NEW n \in Blocks, Reorg(n, f)
      PROVE  BuilderTypeOK'
  <2>1. block' \in [Blocks -> Flows \cup {NoFlow}]
    BY <1>3 DEF Reorg, BuilderTypeOK
  <2> QED
    BY <1>3, <2>1 DEF Reorg, BuilderTypeOK, ledger, totals, loop, work, reads
<1> QED
  BY <1>1, <1>2, <1>3 DEF ChainStep

(***************************************************************************)
(* Every step of syncBuilderEvents keeps the types.                        *)
(***************************************************************************)
LEMMA TypeEvents ==
  ASSUME BuilderTypeOK, NEW r \in Runners, syncBuilderEvents(r) \/ EventStep(r)
  PROVE  BuilderTypeOK'
<1> r \in Actors
  BY DEF Actors
<1> USE DEF chain, ledger, totals, loop, work, reads
<1>1. CASE syncBuilderEvents(r)
  BY <1>1 DEF syncBuilderEvents, Goto, BuilderTypeOK, Steps
<1>2. CASE ReadCursor(r)
  BY <1>2 DEF ReadCursor, Goto, BuilderTypeOK, Steps
<1>3. CASE CaughtUp(r)
  BY <1>3, LeaveTypes DEF CaughtUp, BuilderTypeOK
<1>4. CASE ReadHead(r)
  <2>1. TargetHead(r) \in Nat
    BY <1>4, BuilderBlocksAssumption, BuilderChunksAssumption
       DEF ReadHead, TargetHead, SafeHead, Lesser, BuilderTypeOK
  <2> QED
    BY <1>4, <2>1 DEF ReadHead, Goto, BuilderTypeOK, Steps
<1>5. CASE FetchChunk(r)
  <2>1. Fetched(r) \in [Blocks -> Flows \cup {NoFlow}]
    BY DEF Fetched, BuilderTypeOK
  <2> QED
    BY <1>5, <2>1 DEF FetchChunk, Goto, BuilderTypeOK, Steps
<1>6. CASE HalveChunk(r)
  <2>1. Halved(size[r]) \in MIN_CHUNK .. MAX_CHUNK
    BY BuilderChunksAssumption DEF Halved, Greater, BuilderTypeOK
  <2> QED
    BY <1>6, <2>1 DEF HalveChunk, BuilderTypeOK
<1>7. CASE LoopEnds(r)
  BY <1>7 DEF LoopEnds, Goto, BuilderTypeOK, Steps
<1>8. ASSUME NEW rows \in SUBSET Of(r, "deposit"), NEW done \in SUBSET rows,
             processDeposits(r, rows, done)
      PROVE  BuilderTypeOK'
  <2>1. stored' \in [Blocks -> Flows \cup {NoFlow}]
    BY <1>8, InsertType DEF processDeposits
  <2>2. stakes' \in [Stakes -> Nat \cup {NoRow}]
    BY <1>8 DEF processDeposits, BuilderTypeOK, Greater, NoRow
  <2>3. total' \in [Subnets -> Int]
    BY <1>8 DEF processDeposits, BuilderTypeOK, Greater
  <2>4. Flushed(r, Of(r, "deposit"), done, "withdrawals") /\ UNCHANGED <<chain, stats, cursor>>
    BY <1>8 DEF processDeposits
  <2> QED
    BY <2>1, <2>2, <2>3, <2>4, FlushedTypes, "withdrawals" \in Steps DEF BuilderTypeOK, Steps
<1>9. ASSUME NEW done \in SUBSET Of(r, "withdraw"), processWithdrawals(r, done)
      PROVE  BuilderTypeOK'
  <2>1. stored' \in [Blocks -> Flows \cup {NoFlow}]
    BY <1>9, InsertType DEF processWithdrawals
  <2>2. /\ Flushed(r, Of(r, "withdraw"), done, "claims")
        /\ UNCHANGED <<chain, stakes, totals, cursor>>
    BY <1>9 DEF processWithdrawals
  <2> QED
    BY <2>1, <2>2, FlushedTypes, "claims" \in Steps DEF BuilderTypeOK, Steps
<1>10. ASSUME NEW done \in SUBSET Of(r, "claim"), processClaims(r, done)
       PROVE  BuilderTypeOK'
  <2>1. stored' \in [Blocks -> Flows \cup {NoFlow}]
    BY <1>10, InsertType DEF processClaims
  <2>2. UNCHANGED <<chain, stakes, totals, cursor>>
    BY <1>10 DEF processClaims
  <2>3. CASE Leave(r)
    BY <2>1, <2>2, <2>3, LeaveTypes DEF BuilderTypeOK
  <2>4. CASE ~Leave(r)
    <3>1. /\ pc' = [pc EXCEPT ![r] = "recompute"]
          /\ todo' = [todo EXCEPT ![r] = Touches(r)]
          /\ touched' = [touched EXCEPT ![r] = @ \cup {k[1] : k \in Touches(r)}]
          /\ UNCHANGED <<loop, logs, current, sum, seen>>
      BY <1>10, <2>4 DEF processClaims
    <3> QED
      BY <2>1, <2>2, <3>1, TouchesTypes DEF BuilderTypeOK, Steps
  <2> QED
    BY <2>3, <2>4
<1>11. ASSUME NEW k \in todo[r], recomputeStakes(r, k)
       PROVE  BuilderTypeOK'
  <2>1. Greater(0, Net(stored, {k}, MaxHead)) \in Nat
    BY NetType DEF Greater
  <2>2. k \in Stakes
    BY DEF BuilderTypeOK
  <2> QED
    BY <1>11, <2>1, <2>2 DEF recomputeStakes, Goto, BuilderTypeOK, Steps
<1>12. CASE setStakeDeposited(r)
  BY <1>12 DEF setStakeDeposited, Goto, BuilderTypeOK, Steps
<1>13. CASE PersistCursor(r)
  <2>1. ChunkTo(r) \in Nat
    BY BuilderChunksAssumption DEF ChunkTo, Lesser, BuilderTypeOK
  <2> QED
    BY <1>13, <2>1, InitTypes DEF PersistCursor, Goto, BuilderTypeOK, Steps
<1> QED
  BY <1>1, <1>2, <1>3, <1>4, <1>5, <1>6, <1>7, <1>8, <1>9, <1>10, <1>11, <1>12, <1>13
     DEF EventStep

(***************************************************************************)
(* So does every step of the refreshers and of syncBuilderFullState.       *)
(***************************************************************************)
LEMMA TypeRefresh ==
  ASSUME BuilderTypeOK, NEW r \in Actors,
         syncBuilderFullState(r) \/ GoldskyStep(r) \/ RefreshStep(r) \/ Abort(r)
  PROVE  BuilderTypeOK'
<1> USE DEF chain, ledger, totals, loop, work, reads
<1>1. CASE syncBuilderFullState(r)
  BY <1>1 DEF syncBuilderFullState, Goto, BuilderTypeOK, Steps
<1>2. CASE ReadStats(r)
  BY <1>2 DEF ReadStats, Goto, BuilderTypeOK, Steps
<1>3. CASE WriteStats(r)
  <2>1. stats' \in [Subnets -> Int] /\ UNCHANGED <<chain, ledger, total, cursor>>
    BY <1>3 DEF WriteStats, BuilderTypeOK
  <2>2. CASE r \in Reconcilers
    BY <1>3, <2>1, <2>2 DEF WriteStats, BuilderTypeOK, Steps
  <2>3. CASE r \notin Reconcilers
    BY <1>3, <2>1, <2>3, LeaveTypes DEF WriteStats, BuilderTypeOK
  <2> QED
    BY <2>2, <2>3
<1>4. ASSUME NEW listed \in SUBSET Subnets, NEW h, ReadGoldsky(r, listed, h)
      PROVE  BuilderTypeOK'
  <2>1. [s \in Subnets |-> IF s \in listed THEN Net(block, OfSubnet(s), h) ELSE NoRow]
          \in [Subnets -> Int]
    BY NetType DEF NoRow
  <2> QED
    BY <1>4, <2>1 DEF ReadGoldsky, Goto, BuilderTypeOK, Steps
<1>5. CASE WriteGoldsky(r)
  BY <1>5 DEF WriteGoldsky, Goto, BuilderTypeOK, Steps
<1>6. ASSUME NEW answered \in SUBSET Subnets, ReadTotals(r, answered)
      PROVE  BuilderTypeOK'
  <2>1. [s \in Subnets |-> IF s \in answered THEN Net(block, OfSubnet(s), head) ELSE 0]
          \in [Subnets -> Int]
    BY NetType
  <2> QED
    BY <1>6, <2>1 DEF ReadTotals, Goto, BuilderTypeOK, Steps
<1>7. CASE WriteTotals(r)
  <2>1. total' \in [Subnets -> Int] /\ UNCHANGED <<chain, ledger, stats, cursor>>
    BY <1>7 DEF WriteTotals, BuilderTypeOK
  <2>2. CASE r \in Reconcilers
    BY <1>7, <2>1, <2>2, LeaveTypes DEF WriteTotals, BuilderTypeOK
  <2>3. CASE r \notin Reconcilers
    BY <1>7, <2>1, <2>3 DEF WriteTotals, BuilderTypeOK, Steps
  <2> QED
    BY <2>2, <2>3
<1>8. CASE Abort(r)
  BY <1>8, LeaveTypes DEF Abort, BuilderTypeOK
<1> QED
  BY <1>1, <1>2, <1>3, <1>4, <1>5, <1>6, <1>7, <1>8 DEF GoldskyStep, RefreshStep

LEMMA TypeStep == BuilderTypeOK /\ [Next]_vars => BuilderTypeOK'
<1> SUFFICES ASSUME BuilderTypeOK, [Next]_vars PROVE BuilderTypeOK'
  OBVIOUS
<1>1. CASE UNCHANGED vars
  BY <1>1 DEF vars, chain, ledger, totals, loop, work, reads, BuilderTypeOK
<1>2. CASE Next
  BY <1>2, TypeChain, TypeEvents, TypeRefresh DEF Next, Actors
<1> QED
  BY <1>1, <1>2

(***************************************************************************)
(* Type correctness, in particular that halving never leaves the range of  *)
(* chunk sizes and that no cursor falls below zero.                        *)
(***************************************************************************)
THEOREM BuilderTypeCorrect == Spec => []BuilderTypeOK
BY TypeInit, TypeStep, PTL DEF Spec
-----------------------------------------------------------------------------
(***************************************************************************)
(* What a run carries towards the cursor it will write: everything up to   *)
(* where it stands is stored for good; its chunk is confirmed, and its     *)
(* logs are the events of the chunk; and the kinds it has flushed already  *)
(* are stored.                                                             *)
(***************************************************************************)
Chunk   == {"deposits", "withdrawals", "claims", "recompute", "set"}
Looping == Chunk \cup {"loop"}

Settled(n) == ~Unconfirmed(n) /\ stored[n] = block[n]

InChunk(r, n) == at[r] < n /\ n <= ChunkTo(r)

FlushedKinds(step) ==
  CASE step = "withdrawals"        -> {"deposit"}
    [] step = "claims"             -> {"deposit", "withdraw"}
    [] step \in {"recompute", "set"} -> {"deposit", "withdraw", "claim"}
    [] OTHER                       -> {}

AtOK(r) ==
  pc[r] \in Looping \cup {"head"} => \A n \in Blocks : n <= at[r] => Settled(n)

TargetOK(r) == pc[r] \in Looping => target[r] <= head - CONFIRMATION_BUFFER

LogsOK(r) ==
  pc[r] \in Chunk =>
    \A n \in Blocks : logs[r][n] = IF InChunk(r, n) THEN block[n] ELSE NoFlow

StoredOK(r) ==
  \A n \in Blocks :
    InChunk(r, n) /\ block[n].kind \in FlushedKinds(pc[r]) => stored[n] = block[n]

RunOK(r) == AtOK(r) /\ TargetOK(r) /\ LogsOK(r) /\ (pc[r] \in Chunk => StoredOK(r))

CursorOK == \A n \in Blocks : n <= cursor => Settled(n)

GapInv == EventsAreFinal /\ CursorOK /\ \A r \in Actors : RunOK(r)

(***************************************************************************)
(* What every step keeps: confirmed blocks, and rows once stored.          *)
(***************************************************************************)
Kept ==
  /\ head \in Nat /\ head' \in Nat /\ head <= head'
  /\ \A n \in Blocks : ~Unconfirmed(n) => block'[n] = block[n]
  /\ \A n \in Blocks : stored[n] # NoFlow => stored'[n] = stored[n]

LEMMA BlocksAreInts == Blocks \subseteq Int /\ CONFIRMATION_BUFFER \in Nat
BY BuilderBlocksAssumption DEF Blocks

\* What is confirmed is not unconfirmed, and stays confirmed as the head grows.
LEMMA NotAbove ==
  ASSUME NEW a \in Int, NEW b \in Int, NEW c \in Int, a <= b - c
  PROVE  ~(a > b - c)
OBVIOUS

LEMMA ConfirmedAbove ==
  ASSUME NEW n \in Int, NEW h \in Int, NEW g \in Int, NEW b \in Int, n <= h - b, h <= g
  PROVE  n <= g - b
OBVIOUS

\* A block that is confirmed and stored as the chain has it remains so.
LEMMA SettledStays ==
  ASSUME Kept, EventsAreFinal', NEW n \in Blocks, Settled(n)
  PROVE  Settled(n)'
<1>1. ~Unconfirmed(n) /\ stored[n] = block[n]
  BY DEF Settled
<1>2. block'[n] = block[n]
  BY <1>1 DEF Kept
<1>3. ~Unconfirmed(n)'
  <2>1. n \in Int /\ head \in Int /\ head' \in Int /\ CONFIRMATION_BUFFER \in Int
    BY BlocksAreInts DEF Kept
  <2>2. head <= head'
    BY DEF Kept
  <2>3. n <= head - CONFIRMATION_BUFFER
    BY <1>1, <2>1 DEF Unconfirmed
  <2>4. n <= head' - CONFIRMATION_BUFFER
    BY <2>1, <2>2, <2>3, ConfirmedAbove
  <2> QED
    BY <2>1, <2>4, NotAbove DEF Unconfirmed
<1>4. ~Unconfirmed(n)' /\ block'[n] = block[n]
  BY <1>2, <1>3
<1>5. CASE stored[n] # NoFlow
  BY <1>4, <1>5 DEF Settled, Kept
<1>6. CASE stored[n] = NoFlow
  BY <1>4, <1>6 DEF Settled, EventsAreFinal
<1> QED
  BY <1>4, <1>5, <1>6

LEMMA CursorStays ==
  ASSUME Kept, EventsAreFinal', CursorOK, cursor' = cursor
  PROVE  CursorOK'
BY SettledStays DEF CursorOK

SameRun(r) ==
  /\ pc'[r] = pc[r] /\ at'[r] = at[r] /\ target'[r] = target[r]
  /\ size'[r] = size[r] /\ logs'[r] = logs[r]

LEMMA ChunkIsConfirmed ==
  ASSUME BuilderTypeOK, NEW r \in Actors, TargetOK(r), pc[r] \in Chunk,
         NEW n \in Blocks, InChunk(r, n)
  PROVE  ~Unconfirmed(n)
BY BlocksAreInts DEF InChunk, ChunkTo, Lesser, TargetOK, Looping, Unconfirmed, BuilderTypeOK

LEMMA RunStays ==
  ASSUME BuilderTypeOK, Kept, EventsAreFinal, EventsAreFinal', NEW r \in Actors, RunOK(r), SameRun(r)
  PROVE  RunOK(r)'
<1>1. AtOK(r)'
  BY SettledStays DEF RunOK, AtOK, SameRun
<1>2. TargetOK(r)'
  BY BlocksAreInts DEF RunOK, TargetOK, SameRun, Kept, BuilderTypeOK
<1>3. ASSUME pc[r] \in Chunk
      PROVE  LogsOK(r)' /\ StoredOK(r)'
  <2>1. \A n \in Blocks : InChunk(r, n)' <=> InChunk(r, n)
    BY DEF InChunk, ChunkTo, SameRun
  <2>2. ASSUME NEW n \in Blocks, InChunk(r, n)
        PROVE  block'[n] = block[n] /\ ~Unconfirmed(n)
    BY <1>3, <2>2, ChunkIsConfirmed DEF RunOK, Kept
  <2>3. LogsOK(r)'
    BY <1>3, <2>1, <2>2 DEF RunOK, LogsOK, SameRun
  <2>4. ASSUME NEW n \in Blocks, InChunk(r, n), block[n].kind \in FlushedKinds(pc[r])
        PROVE  stored'[n] = block[n]
    <3>1. Settled(n)
      BY <1>3, <2>2, <2>4 DEF RunOK, StoredOK, Settled
    <3> QED
      BY <2>2, <2>4, <3>1, SettledStays DEF Settled
  <2>5. StoredOK(r)'
    BY <2>1, <2>2, <2>4 DEF StoredOK, SameRun
  <2> QED
    BY <2>3, <2>5
<1> QED
  BY <1>1, <1>2, <1>3 DEF RunOK, SameRun, LogsOK

LEMMA GapStays ==
  ASSUME BuilderTypeOK, GapInv, Kept, EventsAreFinal', CursorOK',
         NEW r \in Actors, RunOK(r)', \A q \in Actors \ {r} : SameRun(q)
  PROVE  GapInv'
BY RunStays DEF GapInv

LEMMA NothingStored ==
  ASSUME BuilderTypeOK, GapInv, UNCHANGED <<chain, stored>>
  PROVE  Kept /\ EventsAreFinal' /\ (cursor' = cursor => CursorOK')
<1>1. Kept /\ EventsAreFinal'
  BY DEF GapInv, Kept, EventsAreFinal, Unconfirmed, chain, BuilderTypeOK
<1> QED
  BY <1>1, CursorStays DEF GapInv

(***************************************************************************)
(* A flush adds rows of confirmed events and replaces none.                *)
(***************************************************************************)
LEMMA FlushStores ==
  ASSUME BuilderTypeOK, GapInv, UNCHANGED <<chain, cursor>>, NEW r \in Actors, pc[r] \in Chunk,
         NEW kind \in {"deposit", "withdraw", "claim"}, NEW S \in SUBSET Of(r, kind),
         stored' = Insert(r, S)
  PROVE  /\ Kept /\ EventsAreFinal' /\ CursorOK'
         /\ \A n \in S : stored'[n] = block[n]
         /\ \A n \in Blocks : InChunk(r, n) /\ block[n].kind = kind => n \in Of(r, kind)
<1>1. ASSUME NEW n \in Blocks, n \in Of(r, kind)
      PROVE  logs[r][n] = block[n] /\ logs[r][n] # NoFlow /\ ~Unconfirmed(n)
  <2>1. logs[r][n] # NoFlow
    BY <1>1 DEF Of, NoFlow
  <2>2. InChunk(r, n) /\ logs[r][n] = block[n]
    BY <2>1 DEF GapInv, RunOK, LogsOK
  <2> QED
    BY <2>1, <2>2, ChunkIsConfirmed DEF GapInv, RunOK
<1>2. S \subseteq Blocks
  BY DEF Of
<1>3. \A n \in Blocks : stored'[n] = IF n \in S /\ stored[n] = NoFlow THEN logs[r][n] ELSE stored[n]
  BY DEF Insert
<1>4. UNCHANGED <<head, block>>
  BY DEF chain
<1>5. Kept
  BY <1>3, <1>4 DEF Kept, BuilderTypeOK
<1>6. EventsAreFinal'
  BY <1>1, <1>3, <1>4 DEF GapInv, EventsAreFinal, Unconfirmed
<1>7. \A n \in S : stored'[n] = block[n]
  BY <1>1, <1>2, <1>3 DEF GapInv, EventsAreFinal
<1>8. \A n \in Blocks : InChunk(r, n) /\ block[n].kind = kind => n \in Of(r, kind)
  BY DEF Of, GapInv, RunOK, LogsOK
<1> QED
  BY <1>5, <1>6, <1>7, <1>8, CursorStays DEF GapInv

(***************************************************************************)
(* A run that has left carries nothing.                                    *)
(***************************************************************************)
LEMMA LeaveOK ==
  ASSUME BuilderTypeOK, NEW r \in Actors, Leave(r)
  PROVE  RunOK(r)' /\ \A q \in Actors \ {r} : SameRun(q)
<1>1. pc'[r] = "idle"
  BY DEF Leave, BuilderTypeOK
<1>2. RunOK(r)'
  BY <1>1 DEF RunOK, AtOK, TargetOK, LogsOK, Looping, Chunk
<1>3. \A q \in Actors \ {r} : SameRun(q)
  BY DEF Leave, SameRun, BuilderTypeOK
<1> QED
  BY <1>2, <1>3

(***************************************************************************)
(* A flush that goes on has stored its kind as well.                       *)
(***************************************************************************)
LEMMA FlushOK ==
  ASSUME BuilderTypeOK, GapInv, UNCHANGED <<chain, cursor>>, NEW r \in Actors, pc[r] \in Chunk,
         NEW kind \in {"deposit", "withdraw", "claim"}, NEW to \in Chunk,
         FlushedKinds(to) \subseteq FlushedKinds(pc[r]) \cup {kind},
         stored' = Insert(r, Of(r, kind)),
         pc' = [pc EXCEPT ![r] = to], UNCHANGED <<loop, logs>>
  PROVE  GapInv'
<1>1. /\ Kept /\ EventsAreFinal' /\ CursorOK'
      /\ \A n \in Of(r, kind) : stored'[n] = block[n]
      /\ \A n \in Blocks : InChunk(r, n) /\ block[n].kind = kind => n \in Of(r, kind)
  BY FlushStores
<1>2. \A q \in Actors \ {r} : SameRun(q)
  BY DEF SameRun, loop, BuilderTypeOK
<1>3. pc'[r] = to
  BY DEF BuilderTypeOK
<1>4. UNCHANGED <<head, block, at, target, size, logs>>
  BY DEF chain, loop
<1>5. AtOK(r)'
  <2>1. \A n \in Blocks : n <= at[r] => Settled(n)
    BY DEF GapInv, RunOK, AtOK, Looping
  <2> QED
    BY <1>1, <1>4, <2>1, SettledStays DEF AtOK
<1>6. TargetOK(r)' /\ LogsOK(r)'
  BY <1>4 DEF GapInv, RunOK, TargetOK, LogsOK, InChunk, ChunkTo, Looping
<1>7. StoredOK(r)'
  <2>1. ASSUME NEW n \in Blocks, InChunk(r, n), block[n].kind \in FlushedKinds(to)
        PROVE  stored'[n] = block[n]
    <3>1. CASE block[n].kind = kind
      BY <1>1, <2>1, <3>1
    <3>2. CASE block[n].kind \in FlushedKinds(pc[r])
      <4>1. stored[n] = block[n] /\ ~Unconfirmed(n)
        BY <2>1, <3>2, ChunkIsConfirmed DEF GapInv, RunOK, StoredOK
      <4> QED
        BY <1>1, <1>4, <4>1, SettledStays DEF Settled
    <3> QED
      BY <2>1, <3>1, <3>2
  <2> QED
    BY <1>3, <1>4, <2>1 DEF StoredOK, InChunk, ChunkTo
<1> QED
  BY <1>1, <1>2, <1>5, <1>6, <1>7, GapStays DEF RunOK

(***************************************************************************)
(* Once every kind is flushed, the whole chunk is settled: a block with no *)
(* event has no row either, since every row is of an event.                *)
(***************************************************************************)
LEMMA ChunkSettles ==
  ASSUME BuilderTypeOK, GapInv, NEW r \in Actors, pc[r] = "recompute",
         NEW n \in Blocks, n <= ChunkTo(r)
  PROVE  Settled(n)
<1>1. CASE n <= at[r]
  BY <1>1 DEF GapInv, RunOK, AtOK, Looping, Chunk
<1>2. CASE at[r] < n
  <2>1. InChunk(r, n) /\ ~Unconfirmed(n)
    BY <1>2, ChunkIsConfirmed DEF InChunk, GapInv, RunOK, Chunk
  <2>2. CASE block[n] = NoFlow
    BY <2>1, <2>2 DEF Settled, GapInv, EventsAreFinal
  <2>3. CASE block[n] # NoFlow
    <3>1. block[n].kind \in {"deposit", "withdraw", "claim"}
      BY <2>3, FlowFacts DEF BuilderTypeOK
    <3>2. block[n].kind \in FlushedKinds(pc[r])
      BY <3>1 DEF FlushedKinds
    <3> QED
      BY <2>1, <3>2 DEF Settled, GapInv, RunOK, StoredOK, Chunk
  <2> QED
    BY <2>2, <2>3
<1> QED
  BY <1>1, <1>2, BlocksAreInts DEF BuilderTypeOK
-----------------------------------------------------------------------------
LEMMA GapInit == Init => GapInv
<1> SUFFICES ASSUME Init PROVE GapInv
  OBVIOUS
<1>1. EventsAreFinal
  BY DEF Init, EventsAreFinal, NoLogs
<1>2. CursorOK
  BY BuilderBlocksAssumption DEF Init, CursorOK, Blocks
<1>3. ASSUME NEW r \in Actors PROVE RunOK(r)
  BY DEF Init, RunOK, AtOK, TargetOK, LogsOK, Looping, Chunk
<1> QED
  BY <1>1, <1>2, <1>3 DEF GapInv

LEMMA GapChain ==
  ASSUME BuilderTypeOK, GapInv, ChainStep \/ CalmDown
  PROVE  GapInv'
<1>1. UNCHANGED <<ledger, cursor, pc, loop, logs>>
  BY DEF ChainStep, Mine, Reorg, CalmDown, work
<1>2. Kept /\ EventsAreFinal'
  <2>1. CASE CalmDown
    BY <2>1, <1>1 DEF CalmDown, Kept, GapInv, EventsAreFinal, Unconfirmed, ledger, BuilderTypeOK
  <2>2. ASSUME NEW f \in Flows \cup {NoFlow}, Mine(f)
        PROVE  Kept /\ EventsAreFinal'
    <3>1. /\ head' = head + 1 /\ head \in Nat
          /\ \A n \in Blocks : n # head + 1 => block'[n] = block[n]
      BY <2>2 DEF Mine, BuilderTypeOK
    <3>2. \A n \in Blocks : ~Unconfirmed(n) => n # head + 1 /\ ~Unconfirmed(n)'
      BY <3>1, BlocksAreInts DEF Unconfirmed
    <3> QED
      BY <1>1, <3>1, <3>2 DEF Kept, GapInv, EventsAreFinal, ledger
  <2>3. ASSUME NEW f \in Flows \cup {NoFlow}, NEW m \in Blocks, Reorg(m, f)
        PROVE  Kept /\ EventsAreFinal'
    <3>1. /\ head' = head /\ head \in Nat /\ Unconfirmed(m)
          /\ \A n \in Blocks : n # m => block'[n] = block[n]
      BY <2>3 DEF Reorg, BuilderTypeOK
    <3> QED
      BY <1>1, <3>1 DEF Kept, GapInv, EventsAreFinal, Unconfirmed, ledger
  <2> QED
    BY <2>1, <2>2, <2>3 DEF ChainStep
<1>3. \A r \in Actors : SameRun(r)
  BY <1>1 DEF SameRun, loop
<1> QED
  BY <1>1, <1>2, <1>3, RunStays, CursorStays DEF GapInv

(***************************************************************************)
(* The steps of a run: what it reads is confirmed, what it flushes becomes *)
(* stored, and the cursor it writes is one it has earned.                  *)
(***************************************************************************)
LEMMA GapEvents ==
  ASSUME BuilderTypeOK, GapInv, NEW r \in Runners, syncBuilderEvents(r) \/ EventStep(r)
  PROVE  GapInv'
<1> r \in Actors
  BY DEF Actors
<1> RunOK(r)
  BY DEF GapInv
<1>1. CASE syncBuilderEvents(r)
  <2>1. RunOK(r)' /\ \A q \in Actors \ {r} : SameRun(q)
    BY <1>1 DEF syncBuilderEvents, Goto, SameRun, loop, work, BuilderTypeOK,
                RunOK, AtOK, TargetOK, LogsOK, Looping, Chunk
  <2> QED
    BY <1>1, <2>1, NothingStored, GapStays DEF syncBuilderEvents, ledger
<1>2. CASE ReadCursor(r)
  <2>1. pc'[r] = "head" /\ at'[r] = cursor /\ \A q \in Actors \ {r} : SameRun(q)
    BY <1>2 DEF ReadCursor, Goto, SameRun, work, BuilderTypeOK
  <2>2. Kept /\ EventsAreFinal' /\ CursorOK' /\ cursor' = cursor
    BY <1>2, NothingStored DEF ReadCursor, ledger
  <2>3. RunOK(r)'
    BY <2>1, <2>2 DEF RunOK, AtOK, TargetOK, LogsOK, Looping, Chunk, CursorOK
  <2> QED
    BY <2>1, <2>2, <2>3, GapStays
<1>3. CASE CaughtUp(r)
  BY <1>3, LeaveOK, NothingStored, GapStays DEF CaughtUp, ledger
<1>4. CASE ReadHead(r)
  <2>1. /\ pc[r] = "head" /\ pc'[r] = "loop" /\ at'[r] = at[r] /\ target'[r] = TargetHead(r)
        /\ \A q \in Actors \ {r} : SameRun(q)
        /\ UNCHANGED <<chain, ledger, cursor>>
    BY <1>4 DEF ReadHead, Goto, SameRun, work, BuilderTypeOK
  <2>2. Kept /\ EventsAreFinal' /\ CursorOK'
    BY <2>1, NothingStored DEF ledger
  <2>3. TargetHead(r) <= head - CONFIRMATION_BUFFER
    BY BlocksAreInts, BuilderChunksAssumption DEF TargetHead, Lesser, SafeHead, BuilderTypeOK
  <2>4. AtOK(r)'
    BY <2>1, <2>2, SettledStays DEF RunOK, AtOK
  <2>5. RunOK(r)'
    BY <2>1, <2>3, <2>4 DEF RunOK, TargetOK, LogsOK, Chunk, chain
  <2> QED
    BY <2>1, <2>2, <2>5, GapStays
<1>5. CASE FetchChunk(r)
  <2>1. /\ pc[r] = "loop" /\ pc'[r] = "deposits" /\ logs'[r] = Fetched(r)
        /\ at' = at /\ target' = target /\ size' = size
        /\ \A q \in Actors \ {r} : SameRun(q)
        /\ UNCHANGED <<chain, ledger, cursor>>
    BY <1>5 DEF FetchChunk, Goto, SameRun, BuilderTypeOK
  <2>2. Kept /\ EventsAreFinal' /\ CursorOK'
    BY <2>1, NothingStored DEF ledger
  <2>3. AtOK(r)' /\ TargetOK(r)'
    BY <2>1, <2>2, SettledStays DEF RunOK, AtOK, TargetOK, Looping, Chunk, chain
  <2>4. LogsOK(r)'
    BY <2>1 DEF LogsOK, Fetched, InChunk, ChunkTo, chain
  <2>5. StoredOK(r)'
    BY <2>1 DEF StoredOK, FlushedKinds
  <2> QED
    BY <2>1, <2>2, <2>3, <2>4, <2>5, GapStays DEF RunOK
<1>6. CASE HalveChunk(r)
  <2>1. /\ pc[r] = "loop" /\ pc' = pc /\ at' = at /\ target' = target
        /\ \A q \in Actors \ {r} : SameRun(q)
        /\ UNCHANGED <<chain, ledger, cursor>>
    BY <1>6 DEF HalveChunk, SameRun, work, BuilderTypeOK
  <2>2. Kept /\ EventsAreFinal' /\ CursorOK'
    BY <2>1, NothingStored DEF ledger
  <2>3. AtOK(r)' /\ TargetOK(r)'
    BY <2>1, <2>2, SettledStays DEF RunOK, AtOK, TargetOK, chain
  <2>4. RunOK(r)'
    BY <2>1, <2>3 DEF RunOK, LogsOK, Chunk
  <2> QED
    BY <2>1, <2>2, <2>4, GapStays
<1>7. CASE LoopEnds(r)
  <2>1. RunOK(r)' /\ \A q \in Actors \ {r} : SameRun(q)
    <3>1. pc'[r] \in {"stats", "totals"} /\ \A q \in Actors \ {r} : SameRun(q)
      BY <1>7 DEF LoopEnds, Goto, SameRun, loop, work, BuilderTypeOK
    <3> QED
      BY <3>1 DEF RunOK, AtOK, TargetOK, LogsOK, Looping, Chunk
  <2> QED
    BY <1>7, <2>1, NothingStored, GapStays DEF LoopEnds, ledger
<1>8. ASSUME NEW rows \in SUBSET Of(r, "deposit"), NEW done \in SUBSET rows,
             processDeposits(r, rows, done)
      PROVE  GapInv'
  <2>1. /\ pc[r] = "deposits" /\ stored' = Insert(r, done) /\ UNCHANGED <<chain, cursor>>
        /\ Flushed(r, Of(r, "deposit"), done, "withdrawals")
    BY <1>8 DEF processDeposits
  <2>2. CASE Leave(r)
    BY <2>1, <2>2, FlushStores, LeaveOK, GapStays DEF Chunk
  <2>3. CASE ~Leave(r)
    <3>1. FlushedKinds("withdrawals") \subseteq FlushedKinds(pc[r]) \cup {"deposit"}
      BY DEF FlushedKinds
    <3>2. done = Of(r, "deposit") /\ pc' = [pc EXCEPT ![r] = "withdrawals"] /\ UNCHANGED <<loop, logs>>
      BY <2>1, <2>3 DEF Flushed, work
    <3> QED
      BY <2>1, <3>1, <3>2, FlushOK DEF Chunk
  <2> QED
    BY <2>2, <2>3
<1>9. ASSUME NEW done \in SUBSET Of(r, "withdraw"), processWithdrawals(r, done)
      PROVE  GapInv'
  <2>1. /\ pc[r] = "withdrawals" /\ stored' = Insert(r, done) /\ UNCHANGED <<chain, cursor>>
        /\ Flushed(r, Of(r, "withdraw"), done, "claims")
    BY <1>9 DEF processWithdrawals
  <2>2. CASE Leave(r)
    BY <2>1, <2>2, FlushStores, LeaveOK, GapStays DEF Chunk
  <2>3. CASE ~Leave(r)
    <3>1. FlushedKinds("claims") \subseteq FlushedKinds(pc[r]) \cup {"withdraw"}
      BY <2>1 DEF FlushedKinds
    <3>2. done = Of(r, "withdraw") /\ pc' = [pc EXCEPT ![r] = "claims"] /\ UNCHANGED <<loop, logs>>
      BY <2>1, <2>3 DEF Flushed, work
    <3> QED
      BY <2>1, <3>1, <3>2, FlushOK DEF Chunk
  <2> QED
    BY <2>2, <2>3
<1>10. ASSUME NEW done \in SUBSET Of(r, "claim"), processClaims(r, done)
       PROVE  GapInv'
  <2>1. pc[r] = "claims" /\ stored' = Insert(r, done) /\ UNCHANGED <<chain, cursor>>
    BY <1>10 DEF processClaims
  <2>2. CASE Leave(r)
    BY <2>1, <2>2, FlushStores, LeaveOK, GapStays DEF Chunk
  <2>3. CASE ~Leave(r)
    <3>1. FlushedKinds("recompute") \subseteq FlushedKinds(pc[r]) \cup {"claim"}
      BY <2>1 DEF FlushedKinds
    <3>2. done = Of(r, "claim") /\ pc' = [pc EXCEPT ![r] = "recompute"] /\ UNCHANGED <<loop, logs>>
      BY <1>10, <2>3 DEF processClaims
    <3> QED
      BY <2>1, <3>1, <3>2, FlushOK DEF Chunk
  <2> QED
    BY <2>2, <2>3
<1>11. ASSUME NEW step \in {"recompute", "set"}, NEW next \in {"recompute", "set"},
              pc[r] = step, pc' = [pc EXCEPT ![r] = next],
              UNCHANGED <<chain, stored, cursor, loop, logs>>
       PROVE  GapInv'
  <2>1. Kept /\ EventsAreFinal' /\ CursorOK'
    BY <1>11, NothingStored
  <2>2. pc'[r] = next /\ \A q \in Actors \ {r} : SameRun(q)
    BY <1>11 DEF SameRun, loop, BuilderTypeOK
  <2>3. AtOK(r)'
    BY <1>11, <2>1, <2>2, SettledStays DEF RunOK, AtOK, Looping, Chunk, loop
  <2>4. TargetOK(r)' /\ LogsOK(r)'
    BY <1>11, <2>2 DEF RunOK, TargetOK, LogsOK, InChunk, ChunkTo, Looping, Chunk, loop, chain
  <2>5. FlushedKinds(next) = FlushedKinds(step)
    BY DEF FlushedKinds
  <2>6. StoredOK(r)'
    BY <1>11, <2>2, <2>5 DEF RunOK, StoredOK, InChunk, ChunkTo, Chunk, loop, chain
  <2> QED
    BY <2>1, <2>2, <2>3, <2>4, <2>6, GapStays DEF RunOK
<1>12. ASSUME NEW k \in todo[r], recomputeStakes(r, k)
       PROVE  GapInv'
  BY <1>12, <1>11 DEF recomputeStakes, Goto, ledger
<1>13. CASE setStakeDeposited(r)
  BY <1>13, <1>11 DEF setStakeDeposited, Goto
<1>14. CASE PersistCursor(r)
  <2>1. /\ pc[r] = "recompute" /\ pc'[r] = "loop" /\ at'[r] = ChunkTo(r) /\ cursor' = ChunkTo(r)
        /\ target' = target
        /\ \A q \in Actors \ {r} : SameRun(q)
        /\ UNCHANGED <<chain, ledger>>
    BY <1>14 DEF PersistCursor, Goto, SameRun, BuilderTypeOK
  <2>2. Kept /\ EventsAreFinal'
    BY <2>1, NothingStored DEF ledger
  <2>3. \A n \in Blocks : n <= ChunkTo(r) => Settled(n)'
    BY <2>1, <2>2, ChunkSettles, SettledStays
  <2>4. CursorOK' /\ AtOK(r)'
    BY <2>1, <2>3 DEF CursorOK, AtOK
  <2>5. RunOK(r)'
    BY <2>1, <2>4 DEF RunOK, TargetOK, LogsOK, Looping, Chunk, chain
  <2> QED
    BY <2>1, <2>2, <2>4, <2>5, GapStays
<1> QED
  BY <1>1, <1>2, <1>3, <1>4, <1>5, <1>6, <1>7, <1>8, <1>9, <1>10, <1>12, <1>13, <1>14
     DEF EventStep

LEMMA GapRefresh ==
  ASSUME BuilderTypeOK, GapInv, NEW r \in Actors,
         syncBuilderFullState(r) \/ GoldskyStep(r) \/ RefreshStep(r) \/ Abort(r)
  PROVE  GapInv'
<1>1. UNCHANGED <<chain, ledger, cursor>>
  BY DEF syncBuilderFullState, GoldskyStep, RefreshStep, Abort, ReadStats, WriteStats,
         ReadGoldsky, WriteGoldsky, ReadTotals, WriteTotals
<1>2. CASE Leave(r)
  BY <1>1, <1>2, LeaveOK, NothingStored, GapStays DEF ledger
<1>3. CASE ~Leave(r)
  <2>1. /\ pc' = [pc EXCEPT ![r] = pc'[r]]
        /\ pc'[r] \in {"stats", "statsWrite", "goldsky", "goldskyWrite", "totals", "totalsWrite"}
        /\ UNCHANGED <<loop, work>>
    BY <1>3 DEF syncBuilderFullState, GoldskyStep, RefreshStep, Abort, ReadStats, WriteStats,
                ReadGoldsky, WriteGoldsky, ReadTotals, WriteTotals, Goto, BuilderTypeOK
  <2>2. RunOK(r)' /\ \A q \in Actors \ {r} : SameRun(q)
    BY <2>1 DEF SameRun, loop, work, BuilderTypeOK, RunOK, AtOK, TargetOK, LogsOK, Looping, Chunk
  <2> QED
    BY <1>1, <2>2, NothingStored, GapStays DEF ledger
<1> QED
  BY <1>2, <1>3

LEMMA GapStep == BuilderTypeOK /\ GapInv /\ [Next]_vars => GapInv'
<1> SUFFICES ASSUME BuilderTypeOK, GapInv, [Next]_vars PROVE GapInv'
  OBVIOUS
<1>1. CASE UNCHANGED vars
  <2>1. Kept /\ EventsAreFinal' /\ CursorOK'
    BY <1>1, NothingStored DEF vars, ledger
  <2>2. \A r \in Actors : SameRun(r)
    BY <1>1 DEF vars, loop, work, SameRun
  <2> QED
    BY <2>1, <2>2, RunStays DEF GapInv
<1>2. CASE Next
  BY <1>2, GapChain, GapEvents, GapRefresh DEF Next, Actors
<1> QED
  BY <1>1, <1>2

LEMMA GapInvariant == Spec => []GapInv
BY TypeInit, TypeStep, GapInit, GapStep, PTL DEF Spec

(***************************************************************************)
(* The gap-proof contract of syncBuilderEvents, from a cold start and for  *)
(* any number of overlapping, failing and dying runs.                      *)
(***************************************************************************)
THEOREM BuilderGapProofHolds == Spec => []BuilderGapProof
<1>1. GapInv => BuilderGapProof
  BY DEF GapInv, CursorOK, Settled, BuilderGapProof
<1> QED
  BY <1>1, GapInvariant, PTL

(***************************************************************************)
(* Nothing in the event table can be reorganised away, within the          *)
(* confirmation buffer the code relies on.                                 *)
(***************************************************************************)
THEOREM BuilderEventsAreFinal == Spec => []EventsAreFinal
<1>1. GapInv => EventsAreFinal
  BY DEF GapInv
<1> QED
  BY <1>1, GapInvariant, PTL
-----------------------------------------------------------------------------
(***************************************************************************)
(* Where the stakes stand when one run is inside syncBuilderEvents() at a  *)
(* time.  A row is fresh when it holds what all stored flows come to; only *)
(* flows stored beyond the cursor may make one stale, and the chunk that   *)
(* takes the cursor over them has recomputed it by then.                   *)
(***************************************************************************)
Moving == {"deposit", "withdraw"}

Fresh(k) == stakes[k] # NoRow => stakes[k] = Greater(0, Net(stored, {k}, MaxHead))

Ahead(k) == \E n \in Blocks : n > cursor /\ stored[n].kind \in Moving /\ stored[n].stake = k

RowsOK == \A n \in Blocks : stored[n].kind = "deposit" => stakes[stored[n].stake] # NoRow

StakesRunOK(r) ==
  /\ pc[r] \in Looping \cup {"head"} => at[r] = cursor
  /\ pc[r] \in {"recompute", "set"} => \A k \in Touches(r) \ todo[r] : Fresh(k)
  /\ pc[r] = "set" =>
       current[r] \in Stakes /\ sum[r] = Greater(0, Net(stored, {current[r]}, MaxHead))

StakesInv ==
  /\ Legal(block) /\ RowsOK
  /\ \A k \in Stakes : Ahead(k) \/ Fresh(k)
  /\ \A r \in Runners : StakesRunOK(r)

OneRun == \A q, r \in Runners : q = r

LEMMA CountedNone ==
  ASSUME NEW rows, NEW kind, NEW K, NEW h,
         \A n \in Blocks : ~(n <= h /\ rows[n].kind = kind /\ rows[n].stake \in K)
  PROVE  Counted(rows, kind, K, h) = 0
<1>1. {n \in Blocks : n <= h /\ rows[n].kind = kind /\ rows[n].stake \in K} = {}
  OBVIOUS
<1> QED
  BY <1>1, FS_EmptySet DEF Counted

LEMMA WithinMaxHead ==
  \A n \in Blocks : n <= MaxHead
BY BuilderBlocksAssumption DEF Blocks

(***************************************************************************)
(* A row stays fresh while neither it nor a flow of its stake changes.     *)
(***************************************************************************)
LEMMA FreshStays ==
  ASSUME NEW k \in Stakes, stakes'[k] = stakes[k], Fresh(k),
         \A n \in Blocks : \A kind \in Moving :
           stored[n].kind = kind /\ stored[n].stake = k <=> stored'[n].kind = kind /\ stored'[n].stake = k
  PROVE  Fresh(k)'
<1>1. ASSUME NEW kind \in Moving
      PROVE  Counted(stored, kind, {k}, MaxHead) = Counted(stored', kind, {k}, MaxHead)
  <2>1. {n \in Blocks : n <= MaxHead /\ stored[n].kind = kind /\ stored[n].stake \in {k}}
          = {n \in Blocks : n <= MaxHead /\ stored'[n].kind = kind /\ stored'[n].stake \in {k}}
    OBVIOUS
  <2> QED
    BY <2>1 DEF Counted
<1>2. Net(stored, {k}, MaxHead) = Net(stored', {k}, MaxHead)
  BY <1>1 DEF Net, Moving
<1> QED
  BY <1>2 DEF Fresh

LEMMA UnstoredStays ==
  ASSUME StakesInv, UNCHANGED <<stored, stakes>>
  PROVE  RowsOK' /\ \A k \in Stakes : Fresh(k)' <=> Fresh(k)
<1>1. \A k \in Stakes : Net(stored', {k}, MaxHead) = Net(stored, {k}, MaxHead)
  OBVIOUS
<1> QED
  BY <1>1 DEF StakesInv, RowsOK, Fresh

\* What a chunk has fetched lies beyond the cursor.
LEMMA LogsAreAhead ==
  ASSUME BuilderTypeOK, GapInv, StakesInv, NEW r \in Runners, pc[r] \in Chunk,
         NEW n \in Blocks, logs[r][n] # NoFlow
  PROVE  n > cursor /\ n <= ChunkTo(r) /\ logs[r][n] = block[n]
<1>1. at[r] = cursor
  BY DEF StakesInv, StakesRunOK, Looping
<1>2. InChunk(r, n) /\ logs[r][n] = block[n]
  BY DEF Actors, GapInv, RunOK, LogsOK
<1> QED
  BY <1>1, <1>2, BlocksAreInts DEF InChunk, BuilderTypeOK

(***************************************************************************)
(* A flush may leave a stake behind, but then its flows are ahead of the   *)
(* cursor; and a row it creates is zero only before any deposit is stored. *)
(***************************************************************************)
LEMMA FlushKeepsStakes ==
  ASSUME BuilderTypeOK, GapInv, StakesInv, UNCHANGED <<chain, cursor>>,
         NEW r \in Runners, pc[r] \in Chunk,
         NEW kind \in {"deposit", "withdraw", "claim"}, NEW S \in SUBSET Of(r, kind),
         stored' = Insert(r, S),
         NEW P \in SUBSET Stakes, kind = "deposit" => Paid(r, S) \subseteq P,
         \A k \in Stakes : stakes'[k] = IF k \in P THEN Greater(0, stakes[k]) ELSE stakes[k]
  PROVE  /\ Legal(block)' /\ RowsOK'
         /\ \A k \in Stakes : Ahead(k)' \/ Fresh(k)'
<1> r \in Actors
  BY DEF Actors
<1>1. \A n \in Blocks : stored'[n] = IF n \in S /\ stored[n] = NoFlow THEN logs[r][n] ELSE stored[n]
  BY DEF Insert
<1>2. ASSUME NEW n \in S
      PROVE  /\ n \in Blocks /\ n > cursor /\ logs[r][n].kind = kind
             /\ logs[r][n].stake \in Stakes
  <2>1. n \in Blocks /\ logs[r][n].kind = kind /\ logs[r][n] \in Flows \cup {NoFlow}
    BY DEF Of, BuilderTypeOK
  <2>2. logs[r][n] # NoFlow
    BY <2>1 DEF NoFlow
  <2> QED
    BY <2>1, <2>2, FlowFacts, LogsAreAhead
<1>3. \A k \in Stakes : stakes[k] \in Nat \cup {NoRow} /\ (stakes[k] # NoRow => stakes'[k] = stakes[k])
  BY DEF Greater, NoRow, BuilderTypeOK
<1>4. \A n \in Blocks : stored[n] \in Flows \cup {NoFlow}
  BY DEF BuilderTypeOK
<1>5. Legal(block)'
  BY DEF StakesInv, Legal, chain
<1>6. ASSUME NEW n \in Blocks, stored'[n].kind = "deposit"
      PROVE  stakes'[stored'[n].stake] # NoRow
  <2>1. CASE n \in S /\ stored[n] = NoFlow
    <3>1. stored'[n] = logs[r][n] /\ kind = "deposit"
      BY <1>1, <1>2, <1>6, <2>1
    <3>2. logs[r][n].stake \in P /\ logs[r][n].stake \in Stakes
      BY <1>2, <2>1, <3>1 DEF Paid
    <3> QED
      BY <1>3, <3>1, <3>2 DEF Greater, NoRow
  <2>2. CASE ~(n \in S /\ stored[n] = NoFlow)
    <3>1. stored'[n] = stored[n]
      BY <1>1, <2>2
    <3>2. stored[n].stake \in Stakes /\ stakes[stored[n].stake] # NoRow
      <4>1. stored[n].kind = "deposit"
        BY <1>6, <3>1
      <4>2. stored[n] # NoFlow
        BY <4>1 DEF NoFlow
      <4> QED
        BY <1>4, <4>1, <4>2, FlowFacts DEF StakesInv, RowsOK
    <3> QED
      BY <1>3, <3>1, <3>2
  <2> QED
    BY <2>1, <2>2
<1>7. ASSUME NEW k \in Stakes PROVE Ahead(k)' \/ Fresh(k)'
  <2>1. CASE Ahead(k)
    <3>1. PICK n \in Blocks : n > cursor /\ stored[n].kind \in Moving /\ stored[n].stake = k
      BY <2>1 DEF Ahead
    <3>2. stored[n] # NoFlow
      BY <3>1 DEF NoFlow, Moving
    <3>3. stored'[n] = stored[n]
      BY <1>1, <3>2
    <3> QED
      BY <3>1, <3>3 DEF Ahead
  <2>2. CASE \E n \in S : stored[n] = NoFlow /\ logs[r][n].stake = k /\ kind \in Moving
    <3>1. PICK n \in S : stored[n] = NoFlow /\ logs[r][n].stake = k /\ kind \in Moving
      BY <2>2
    <3>2. n \in Blocks /\ stored'[n] = logs[r][n] /\ n > cursor /\ logs[r][n].kind = kind
      BY <1>1, <1>2, <3>1
    <3> QED
      BY <3>1, <3>2 DEF Ahead
  <2>3. CASE ~Ahead(k) /\ ~\E n \in S : stored[n] = NoFlow /\ logs[r][n].stake = k /\ kind \in Moving
    <3>1. \A n \in Blocks : \A m \in Moving :
            stored[n].kind = m /\ stored[n].stake = k <=> stored'[n].kind = m /\ stored'[n].stake = k
      <4> SUFFICES ASSUME NEW n \in Blocks, NEW m \in Moving
                   PROVE  stored[n].kind = m /\ stored[n].stake = k
                            <=> stored'[n].kind = m /\ stored'[n].stake = k
        OBVIOUS
      <4>1. CASE n \in S /\ stored[n] = NoFlow
        <5>1. stored'[n] = logs[r][n] /\ logs[r][n].kind = kind
          BY <1>1, <1>2, <4>1
        <5>2. stored[n].kind = "none" /\ m # "none"
          BY <4>1 DEF NoFlow, Moving
        <5> QED
          BY <2>3, <4>1, <5>1, <5>2
      <4>2. CASE ~(n \in S /\ stored[n] = NoFlow)
        BY <1>1, <4>2
      <4> QED
        BY <4>1, <4>2
    <3>2. Fresh(k)
      BY <2>3 DEF StakesInv
    <3>3. CASE stakes'[k] = stakes[k]
      BY <3>1, <3>2, <3>3, FreshStays
    <3>4. CASE stakes'[k] # stakes[k]
      <4>1. stakes[k] = NoRow /\ stakes'[k] = 0
        BY <1>3, <3>4 DEF Greater, NoRow
      <4>2. \A n \in Blocks : ~(n <= MaxHead /\ stored'[n].kind = "deposit" /\ stored'[n].stake \in {k})
        BY <3>1, <4>1 DEF StakesInv, RowsOK, Moving
      <4>3. Counted(stored', "deposit", {k}, MaxHead) = 0
        BY <4>2, CountedNone
      <4>4. Counted(stored', "withdraw", {k}, MaxHead) \in Nat
        BY CountedType
      <4>5. Greater(0, Net(stored', {k}, MaxHead)) = 0
        BY <4>3, <4>4 DEF Net, Greater
      <4> QED
        BY <4>1, <4>5 DEF Fresh
    <3> QED
      BY <3>3, <3>4
  <2> QED
    BY <2>1, <2>2, <2>3
<1> QED
  BY <1>5, <1>6, <1>7 DEF RowsOK
-----------------------------------------------------------------------------
LEMMA StakesInit == Init => StakesInv
<1> SUFFICES ASSUME Init PROVE StakesInv
  OBVIOUS
<1>1. \A n \in Blocks : block[n].kind = "none" /\ stored[n].kind = "none"
  BY DEF Init, NoLogs, NoFlow
<1>2. ASSUME NEW k \in Stakes, NEW h \in Blocks PROVE Net(block, {k}, h) >= 0
  <2>1. ASSUME NEW m \in Moving PROVE Counted(block, m, {k}, h) = 0
    <3>1. \A n \in Blocks : ~(n <= h /\ block[n].kind = m /\ block[n].stake \in {k})
      BY <1>1 DEF Moving
    <3> QED
      BY <3>1, CountedNone
  <2> QED
    BY <2>1 DEF Net, Moving
<1>3. RowsOK /\ \A k \in Stakes : Fresh(k)
  BY <1>1 DEF Init, RowsOK, Fresh
<1>4. \A r \in Runners : StakesRunOK(r)
  BY DEF Init, StakesRunOK, Looping, Chunk, Actors
<1> QED
  BY <1>2, <1>3, <1>4 DEF StakesInv, Legal

(***************************************************************************)
(* Steps that touch neither the rows nor the cursor of the one run.        *)
(***************************************************************************)
LEMMA IdleStakes ==
  ASSUME StakesInv, UNCHANGED <<ledger, cursor>>, Legal(block)',
         \A r \in Runners : \/ pc'[r] \notin Looping \cup {"head"}
                            \/ /\ pc'[r] = pc[r] /\ at'[r] = at[r] /\ logs'[r] = logs[r]
                               /\ todo'[r] = todo[r] /\ current'[r] = current[r] /\ sum'[r] = sum[r]
  PROVE  StakesInv'
<1>1. RowsOK' /\ \A k \in Stakes : Fresh(k)' <=> Fresh(k)
  BY UnstoredStays DEF ledger
<1>2. \A k \in Stakes : Ahead(k)' <=> Ahead(k)
  BY DEF Ahead, ledger
<1>3. ASSUME NEW r \in Runners PROVE StakesRunOK(r)'
  <2>1. CASE pc'[r] \notin Looping \cup {"head"}
    BY <2>1 DEF StakesRunOK, Looping, Chunk
  <2>2. CASE pc'[r] \in Looping \cup {"head"}
    <3>1. /\ pc'[r] = pc[r] /\ at'[r] = at[r] /\ logs'[r] = logs[r]
          /\ todo'[r] = todo[r] /\ current'[r] = current[r] /\ sum'[r] = sum[r]
      BY <2>2
    <3>2. Touches(r)' = Touches(r)
      BY <3>1 DEF Touches, Paid, Of
    <3>3. StakesRunOK(r)
      BY DEF StakesInv
    <3>4. pc'[r] \in {"recompute", "set"} => \A k \in Touches(r)' \ todo'[r] : Fresh(k)'
      <4>1. \A k : Fresh(k)' <=> Fresh(k)
        <5>1. \A k : Net(stored', {k}, MaxHead) = Net(stored, {k}, MaxHead)
          BY DEF ledger
        <5> QED
          BY <5>1 DEF Fresh, ledger
      <4> QED
        BY <3>1, <3>2, <3>3, <4>1 DEF StakesRunOK
    <3>5. pc'[r] = "set" =>
            /\ current'[r] \in Stakes
            /\ sum'[r] = Greater(0, Net(stored', {current'[r]}, MaxHead))
      BY <3>1, <3>3 DEF StakesRunOK, ledger
    <3> QED
      BY <3>1, <3>3, <3>4, <3>5 DEF StakesRunOK
  <2> QED
    BY <2>1, <2>2
<1> QED
  BY <1>1, <1>2, <1>3 DEF StakesInv

LEMMA StakesChain ==
  ASSUME StakesInv, ChainStep \/ CalmDown
  PROVE  StakesInv'
<1>1. UNCHANGED <<ledger, cursor, pc, loop, work>>
  BY DEF ChainStep, Mine, Reorg, CalmDown
<1>2. Legal(block)'
  <2>1. CASE CalmDown
    BY <2>1 DEF CalmDown, StakesInv, Legal
  <2>2. CASE ChainStep
    BY <2>2 DEF ChainStep, Mine, Reorg
  <2> QED
    BY <2>1, <2>2
<1> QED
  BY <1>1, <1>2, IdleStakes DEF loop, work

LEMMA StakesRefresh ==
  ASSUME BuilderTypeOK, StakesInv, NEW r \in Actors,
         syncBuilderFullState(r) \/ GoldskyStep(r) \/ RefreshStep(r) \/ Abort(r)
  PROVE  StakesInv'
<1>1. UNCHANGED <<chain, ledger, cursor>>
  BY DEF syncBuilderFullState, GoldskyStep, RefreshStep, Abort, ReadStats, WriteStats,
         ReadGoldsky, WriteGoldsky, ReadTotals, WriteTotals
<1>2. Legal(block)'
  BY <1>1 DEF StakesInv, Legal, chain
<1>3. pc'[r] \notin Looping \cup {"head"}
  <2>1. CASE Leave(r)
    BY <2>1 DEF Leave, Looping, Chunk, BuilderTypeOK
  <2>2. CASE ~Leave(r)
    BY <2>2 DEF syncBuilderFullState, GoldskyStep, RefreshStep, Abort, ReadStats, WriteStats,
                ReadGoldsky, WriteGoldsky, ReadTotals, WriteTotals, Goto, Looping, Chunk, BuilderTypeOK
  <2> QED
    BY <2>1, <2>2
<1>4. \A q \in Actors \ {r} :
        /\ pc'[q] = pc[q] /\ at'[q] = at[q] /\ logs'[q] = logs[q]
        /\ todo'[q] = todo[q] /\ current'[q] = current[q] /\ sum'[q] = sum[q]
  <2>1. CASE Leave(r)
    BY <2>1 DEF Leave, BuilderTypeOK
  <2>2. CASE ~Leave(r)
    BY <2>2 DEF syncBuilderFullState, GoldskyStep, RefreshStep, Abort, ReadStats, WriteStats,
                ReadGoldsky, WriteGoldsky, ReadTotals, WriteTotals, Goto, BuilderTypeOK, loop, work
  <2> QED
    BY <2>1, <2>2
<1> QED
  BY <1>1, <1>2, <1>3, <1>4, IdleStakes DEF Actors
-----------------------------------------------------------------------------
(***************************************************************************)
(* The steps of the one run.                                               *)
(***************************************************************************)
LEMMA StakesEvents ==
  ASSUME OneRun, BuilderTypeOK, GapInv, StakesInv,
         NEW r \in Runners, syncBuilderEvents(r) \/ EventStep(r)
  PROVE  StakesInv'
<1> r \in Actors
  BY DEF Actors
<1> StakesRunOK(r)
  BY DEF StakesInv
<1> \A q \in Runners : q = r
  BY DEF OneRun
<1>1. ASSUME UNCHANGED <<chain, ledger, cursor>>, StakesRunOK(r)'
      PROVE  StakesInv'
  <2>1. RowsOK' /\ \A k \in Stakes : Fresh(k)' <=> Fresh(k)
    BY <1>1, UnstoredStays DEF ledger
  <2>2. Legal(block)' /\ \A k \in Stakes : Ahead(k)' <=> Ahead(k)
    BY <1>1 DEF Ahead, ledger, chain, StakesInv, Legal
  <2> QED
    BY <1>1, <2>1, <2>2 DEF StakesInv
<1>2. ASSUME NEW to \in {"idle", "head", "loop", "stats", "totals", "cursor", "deposits"},
             pc'[r] = to, UNCHANGED <<chain, ledger, cursor>>,
             to \in Looping \cup {"head"} => at'[r] = cursor
      PROVE  StakesInv'
  BY <1>1, <1>2 DEF StakesRunOK
<1>3. CASE syncBuilderEvents(r)
  BY <1>2, <1>3 DEF syncBuilderEvents, Goto, Looping, Chunk, BuilderTypeOK
<1>4. CASE ReadCursor(r)
  BY <1>2, <1>4 DEF ReadCursor, Goto, BuilderTypeOK
<1>5. CASE CaughtUp(r)
  BY <1>2, <1>5 DEF CaughtUp, Leave, Looping, Chunk, BuilderTypeOK
<1>6. CASE ReadHead(r)
  BY <1>2, <1>6 DEF ReadHead, Goto, StakesRunOK, BuilderTypeOK
<1>7. CASE FetchChunk(r)
  BY <1>2, <1>7 DEF FetchChunk, Goto, StakesRunOK, Looping, BuilderTypeOK
<1>8. CASE HalveChunk(r)
  BY <1>2, <1>8 DEF HalveChunk, StakesRunOK, Looping, BuilderTypeOK
<1>9. CASE LoopEnds(r)
  BY <1>2, <1>9 DEF LoopEnds, Goto, Looping, Chunk, BuilderTypeOK
<1>10. ASSUME NEW kind \in {"deposit", "withdraw", "claim"}, NEW S \in SUBSET Of(r, kind),
              pc[r] \in Chunk, stored' = Insert(r, S), UNCHANGED <<chain, cursor>>,
              NEW P \in SUBSET Stakes, kind = "deposit" => Paid(r, S) \subseteq P,
              \A k \in Stakes : stakes'[k] = IF k \in P THEN Greater(0, stakes[k]) ELSE stakes[k],
              NEW to \in {"withdrawals", "claims", "recompute"},
              \/ Leave(r)
              \/ pc' = [pc EXCEPT ![r] = to] /\ at' = at /\ logs' = logs
                 /\ (to = "recompute" => todo'[r] = Touches(r))
       PROVE  StakesInv'
  <2>1. /\ Legal(block)' /\ RowsOK'
        /\ \A k \in Stakes : Ahead(k)' \/ Fresh(k)'
    BY <1>10, FlushKeepsStakes
  <2>2. CASE Leave(r)
    <3>1. StakesRunOK(r)'
      BY <2>2 DEF Leave, StakesRunOK, Looping, Chunk, BuilderTypeOK
    <3> QED
      BY <2>1, <3>1 DEF StakesInv
  <2>3. CASE ~Leave(r)
    <3>1. pc'[r] = to /\ at' = at /\ logs' = logs /\ (to = "recompute" => todo'[r] = Touches(r))
      BY <1>10, <2>3 DEF BuilderTypeOK
    <3>2. Touches(r)' = Touches(r)
      BY <3>1 DEF Touches, Paid, Of
    <3>3. at'[r] = cursor'
      BY <1>10, <3>1 DEF StakesRunOK, Looping
    <3>4. StakesRunOK(r)'
      BY <3>1, <3>2, <3>3 DEF StakesRunOK
    <3> QED
      BY <2>1, <3>4 DEF StakesInv
  <2> QED
    BY <2>2, <2>3
<1>11. ASSUME NEW rows \in SUBSET Of(r, "deposit"), NEW done \in SUBSET rows,
              processDeposits(r, rows, done)
       PROVE  StakesInv'
  <2>1. /\ pc[r] \in Chunk /\ stored' = Insert(r, done) /\ UNCHANGED <<chain, cursor>>
        /\ stakes' = [k \in Stakes |-> IF k \in Paid(r, rows) THEN Greater(0, stakes[k]) ELSE stakes[k]]
        /\ Flushed(r, Of(r, "deposit"), done, "withdrawals")
    BY <1>11 DEF processDeposits, Chunk
  <2>2. Paid(r, rows) \subseteq Touches(r) /\ Touches(r) \subseteq Stakes
    BY TouchesTypes DEF Touches, Paid
  <2>3. Paid(r, done) \subseteq Paid(r, rows)
    BY DEF Paid
  <2>4. \/ Leave(r)
        \/ pc' = [pc EXCEPT ![r] = "withdrawals"] /\ at' = at /\ logs' = logs
    BY <2>1 DEF Flushed, loop, work
  <2>5. Paid(r, rows) \in SUBSET Stakes /\ done \in SUBSET Of(r, "deposit")
    BY <2>2
  <2> QED
    BY <2>1, <2>3, <2>4, <2>5, <1>10
<1>12. ASSUME NEW done \in SUBSET Of(r, "withdraw"), processWithdrawals(r, done)
       PROVE  StakesInv'
  <2>1. /\ pc[r] \in Chunk /\ stored' = Insert(r, done) /\ UNCHANGED <<chain, cursor, stakes>>
        /\ Flushed(r, Of(r, "withdraw"), done, "claims")
    BY <1>12 DEF processWithdrawals, Chunk
  <2>2. \/ Leave(r)
        \/ pc' = [pc EXCEPT ![r] = "claims"] /\ at' = at /\ logs' = logs
    BY <2>1 DEF Flushed, loop, work
  <2>3. \A k \in Stakes : stakes'[k] = IF k \in {} THEN Greater(0, stakes[k]) ELSE stakes[k]
    BY <2>1
  <2>4. {} \in SUBSET Stakes
    OBVIOUS
  <2> QED
    BY <2>1, <2>2, <2>3, <2>4, <1>10
<1>13. ASSUME NEW done \in SUBSET Of(r, "claim"), processClaims(r, done)
       PROVE  StakesInv'
  <2>1. /\ pc[r] \in Chunk /\ stored' = Insert(r, done) /\ UNCHANGED <<chain, cursor, stakes>>
    BY <1>13 DEF processClaims, Chunk
  <2>2. \/ Leave(r)
        \/ pc' = [pc EXCEPT ![r] = "recompute"] /\ at' = at /\ logs' = logs /\ todo'[r] = Touches(r)
    BY <1>13 DEF processClaims, loop, BuilderTypeOK
  <2>3. \A k \in Stakes : stakes'[k] = IF k \in {} THEN Greater(0, stakes[k]) ELSE stakes[k]
    BY <2>1
  <2>4. {} \in SUBSET Stakes
    OBVIOUS
  <2> QED
    BY <2>1, <2>2, <2>3, <2>4, <1>10
<1>14. ASSUME NEW k \in todo[r], recomputeStakes(r, k)
       PROVE  StakesInv'
  <2>1. /\ pc[r] = "recompute" /\ pc'[r] = "set" /\ current'[r] = k
        /\ sum'[r] = Greater(0, Net(stored, {k}, MaxHead))
        /\ UNCHANGED <<chain, ledger, cursor, loop, logs, todo>>
    BY <1>14 DEF recomputeStakes, Goto, BuilderTypeOK
  <2>2. k \in Stakes /\ at'[r] = cursor'
    BY <2>1 DEF BuilderTypeOK, StakesRunOK, Looping, Chunk, loop
  <2>3. Touches(r)' = Touches(r)
    BY <2>1 DEF Touches, Paid, Of
  <2>4. \A j \in Touches(r) \ todo[r] : Fresh(j)'
    BY <2>1, TouchesTypes, UnstoredStays DEF StakesRunOK, ledger
  <2>5. sum'[r] = Greater(0, Net(stored', {current'[r]}, MaxHead))
    BY <2>1 DEF ledger
  <2>6. StakesRunOK(r)'
    BY <2>1, <2>2, <2>3, <2>4, <2>5 DEF StakesRunOK
  <2> QED
    BY <1>1, <2>1, <2>6
<1>15. CASE setStakeDeposited(r)
  <2> DEFINE c == current[r]
  <2>1. /\ pc[r] = "set" /\ pc'[r] = "recompute" /\ todo'[r] = todo[r] \ {c}
        /\ stakes' = [k \in Stakes |-> IF k = c /\ stakes[k] # NoRow THEN sum[r] ELSE stakes[k]]
        /\ UNCHANGED <<chain, stored, cursor, loop, logs>>
    BY <1>15 DEF setStakeDeposited, Goto, BuilderTypeOK
  <2>2. c \in Stakes /\ sum[r] = Greater(0, Net(stored, {c}, MaxHead)) /\ sum[r] \in Nat
    BY <2>1 DEF StakesRunOK, BuilderTypeOK
  <2>3. ASSUME NEW k \in Stakes
        PROVE  (k = c => Fresh(k)') /\ (Fresh(k) => Fresh(k)')
    <3>1. Net(stored', {k}, MaxHead) = Net(stored, {k}, MaxHead)
      BY <2>1
    <3> QED
      BY <2>1, <2>2, <3>1 DEF Fresh
  <2>4. RowsOK'
    <3> SUFFICES ASSUME NEW n \in Blocks, stored[n].kind = "deposit"
                 PROVE  stakes'[stored[n].stake] # NoRow
      BY <2>1 DEF RowsOK
    <3>1. stored[n] \in Flows \cup {NoFlow} /\ stored[n] # NoFlow
      BY DEF BuilderTypeOK, NoFlow
    <3>2. stored[n].stake \in Stakes /\ stakes[stored[n].stake] # NoRow
      BY <3>1, FlowFacts DEF StakesInv, RowsOK
    <3> QED
      BY <2>1, <2>2, <3>2 DEF NoRow
  <2>5. Legal(block)' /\ \A k \in Stakes : Ahead(k)' \/ Fresh(k)'
    <3>1. \A k \in Stakes : Ahead(k) <=> Ahead(k)'
      BY <2>1 DEF Ahead
    <3> QED
      BY <2>1, <2>3, <3>1 DEF StakesInv, Legal, chain
  <2>6. StakesRunOK(r)'
    <3>1. Touches(r)' = Touches(r) /\ Touches(r) \subseteq Stakes
      BY <2>1, TouchesTypes DEF Touches, Paid, Of
    <3>2. at'[r] = cursor'
      BY <2>1 DEF StakesRunOK, Looping, Chunk, loop
    <3>3. \A k \in Touches(r) \ todo'[r] : Fresh(k)'
      BY <2>1, <2>3, <3>1 DEF StakesRunOK
    <3> QED
      BY <2>1, <3>1, <3>2, <3>3 DEF StakesRunOK
  <2> QED
    BY <2>4, <2>5, <2>6 DEF StakesInv
<1>16. CASE PersistCursor(r)
  <2>1. /\ pc[r] = "recompute" /\ pc'[r] = "loop" /\ todo[r] = {}
        /\ cursor' = ChunkTo(r) /\ at'[r] = ChunkTo(r)
        /\ UNCHANGED <<chain, ledger>>
    BY <1>16 DEF PersistCursor, Goto, BuilderTypeOK
  <2>2. RowsOK' /\ \A k \in Stakes : Fresh(k)' <=> Fresh(k)
    BY <2>1, UnstoredStays DEF ledger
  <2>3. ASSUME NEW k \in Stakes, ~Ahead(k)' PROVE Fresh(k)
    <3>1. CASE ~Ahead(k)
      BY <3>1 DEF StakesInv
    <3>2. CASE Ahead(k)
      <4>1. PICK n \in Blocks : n > cursor /\ stored[n].kind \in Moving /\ stored[n].stake = k
        BY <3>2 DEF Ahead
      <4>2. ~(n > ChunkTo(r))
        BY <2>1, <2>3, <4>1 DEF Ahead, ledger
      <4>3. ChunkTo(r) \in Int /\ cursor \in Int
        BY BuilderChunksAssumption DEF ChunkTo, Lesser, BuilderTypeOK
      <4>4. n <= ChunkTo(r)
        BY <4>2, <4>3, BlocksAreInts
      <4>5. InChunk(r, n)
        BY <2>1, <4>1, <4>3, <4>4, BlocksAreInts DEF InChunk, StakesRunOK, Looping, Chunk
      <4>6. logs[r][n] = block[n] /\ stored[n] = block[n]
        BY <2>1, <4>4, <4>5, ChunkSettles DEF GapInv, RunOK, LogsOK, Chunk, Settled
      <4>7. k \in Touches(r)
        BY <4>1, <4>6 DEF Touches, Paid, Of, Moving
      <4> QED
        BY <2>1, <4>7 DEF StakesRunOK
    <3> QED
      BY <3>1, <3>2
  <2>4. Legal(block)'
    BY <2>1 DEF StakesInv, Legal, chain
  <2>5. StakesRunOK(r)'
    BY <2>1 DEF StakesRunOK
  <2> QED
    BY <2>2, <2>3, <2>4, <2>5 DEF StakesInv
<1> QED
  BY <1>3, <1>4, <1>5, <1>6, <1>7, <1>8, <1>9, <1>11, <1>12, <1>13, <1>14, <1>15, <1>16
     DEF EventStep

LEMMA StakesStep ==
  ASSUME OneRun, BuilderTypeOK, GapInv, StakesInv, [Next]_vars
  PROVE  StakesInv'
<1>1. CASE UNCHANGED vars
  <2>1. UNCHANGED <<ledger, cursor, pc, loop, work, chain>>
    BY <1>1 DEF vars
  <2>2. Legal(block)'
    BY <2>1 DEF StakesInv, Legal, chain
  <2> QED
    BY <2>1, <2>2, IdleStakes DEF loop, work
<1>2. CASE Next
  BY <1>2, StakesChain, StakesEvents, StakesRefresh DEF Next, Actors
<1> QED
  BY <1>1, <1>2

(***************************************************************************)
(* What is fresh and has no flow ahead of the cursor is what the chain     *)
(* held at the cursor, and nothing in it had to be clamped.                *)
(***************************************************************************)
LEMMA StakesInvImplies ==
  ASSUME BuilderTypeOK, GapInv, StakesInv
  PROVE  StakesFollowChain
<1> SUFFICES ASSUME NEW k \in Stakes,
                    Counted(block, "deposit", {k}, cursor) > 0,
                    \A n \in Blocks : n > cursor => stored[n] = NoFlow \/ stored[n].stake # k
             PROVE  stakes[k] = Net(block, {k}, cursor)
  BY DEF StakesFollowChain
<1>1. PICK d \in Blocks : d <= cursor /\ block[d].kind = "deposit" /\ block[d].stake = k
  BY CountedNone
<1>2. \A n \in Blocks : n <= cursor => stored[n] = block[n]
  BY DEF GapInv, CursorOK, Settled
<1>3. stakes[k] # NoRow
  BY <1>1, <1>2 DEF StakesInv, RowsOK
<1>4. ~Ahead(k)
  BY DEF Ahead, NoFlow, Moving
<1>5. stakes[k] = Greater(0, Net(stored, {k}, MaxHead))
  BY <1>3, <1>4 DEF StakesInv, Fresh
<1>6. Net(stored, {k}, MaxHead) = Net(block, {k}, cursor)
  <2>1. \A n \in Blocks : \A kind \in Moving :
          n <= MaxHead /\ stored[n].kind = kind /\ stored[n].stake = k
            <=> n <= cursor /\ block[n].kind = kind /\ block[n].stake = k
    <3> SUFFICES ASSUME NEW n \in Blocks, NEW kind \in Moving
                 PROVE  n <= MaxHead /\ stored[n].kind = kind /\ stored[n].stake = k
                          <=> n <= cursor /\ block[n].kind = kind /\ block[n].stake = k
      OBVIOUS
    <3>1. CASE n <= cursor
      BY <1>2, <3>1, WithinMaxHead
    <3>2. CASE ~(n <= cursor)
      <4>1. n > cursor
        BY <3>2, BlocksAreInts DEF BuilderTypeOK
      <4> QED
        BY <3>2, <4>1 DEF NoFlow, Moving
    <3> QED
      BY <3>1, <3>2
  <2>2. ASSUME NEW kind \in Moving
        PROVE  Counted(stored, kind, {k}, MaxHead) = Counted(block, kind, {k}, cursor)
    <3>1. {n \in Blocks : n <= MaxHead /\ stored[n].kind = kind /\ stored[n].stake \in {k}}
            = {n \in Blocks : n <= cursor /\ block[n].kind = kind /\ block[n].stake \in {k}}
      BY <2>1
    <3> QED
      BY <3>1 DEF Counted
  <2> QED
    BY <2>2 DEF Net, Moving
<1>7. Net(block, {k}, cursor) >= 0
  <2>1. CASE cursor <= MaxHead
    <3>1. cursor \in Blocks
      BY <1>1, <2>1, BuilderBlocksAssumption DEF Blocks, BuilderTypeOK
    <3> QED
      BY <3>1 DEF StakesInv, Legal
  <2>2. CASE cursor > MaxHead
    <3>1. MaxHead \in Blocks
      BY BuilderBlocksAssumption DEF Blocks
    <3>2. \A n \in Blocks : n <= cursor /\ n <= MaxHead
      BY <2>2, BuilderBlocksAssumption DEF Blocks, BuilderTypeOK
    <3>3. \A kind : Counted(block, kind, {k}, cursor) = Counted(block, kind, {k}, MaxHead)
      BY <3>2 DEF Counted
    <3>4. Net(block, {k}, cursor) = Net(block, {k}, MaxHead)
      BY <3>3 DEF Net
    <3> QED
      BY <3>1, <3>4 DEF StakesInv, Legal
  <2> QED
    BY <2>1, <2>2, BuilderBlocksAssumption DEF BuilderTypeOK
<1>8. Net(block, {k}, cursor) \in Int
  BY NetType
<1> QED
  BY <1>5, <1>6, <1>7, <1>8 DEF Greater

(***************************************************************************)
(* With one run at a time, beside any number of reconcilers, the stakes    *)
(* follow the chain, wherever runs fail, die or start again with another   *)
(* chunk size.                                                             *)
(***************************************************************************)
THEOREM StakesAreChains ==
  ASSUME OneRun
  PROVE  Spec => []StakesFollowChain
<1>1. BuilderTypeOK /\ GapInv /\ StakesInv /\ [Next]_vars => StakesInv'
  BY StakesStep
<1>2. BuilderTypeOK /\ GapInv /\ StakesInv => StakesFollowChain
  BY StakesInvImplies
<1> QED
  BY <1>1, <1>2, StakesInit, BuilderTypeCorrect, GapInvariant, PTL DEF Spec
==============================================================================
