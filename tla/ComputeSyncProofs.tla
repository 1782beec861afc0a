------------------------- MODULE ComputeSyncProofs --------------------------
(***************************************************************************)
(* Proofs about ComputeSync for any sessions, wallets and runners, about   *)
(* the Durable Object that drives it (SyncCoordinator), and about a        *)
(* backfill pass beside it (BackfillSessions).                             *)
(***************************************************************************)
EXTENDS SyncCoordinator, BackfillSessions, TLAPS

Planned == Steps \ {"idle", "head", "plan"}

(***************************************************************************)
(* Every range a run is working on lies within 1 .. safe head of the head  *)
(* it has seen, and that head is one the chain has reached.                *)
(***************************************************************************)
SeenOK(r) ==
  pc[r] \notin {"idle", "head"} => RESET_BACK < seenHead[r] /\ seenHead[r] <= head

RangeOK(r) ==
  pc[r] \in Planned =>
    /\ 1 <= range[r].fromBlock
    /\ range[r].fromBlock <= range[r].toBlock
    /\ range[r].toBlock <= seenHead[r] - CONFIRMATION_BUFFER

TypeInv ==
  /\ TypeOK
  /\ RESET_BACK < head
  /\ \A r \in Runners : SeenOK(r) /\ RangeOK(r)
-----------------------------------------------------------------------------
(***************************************************************************)
(* planSyncRange: a range to fetch is not empty, begins at block 1 or      *)
(* later, and ends at the safe head or before.                             *)
(***************************************************************************)
LEMMA PlannedRange ==
  ASSUME NEW c \in Nat, NEW h \in Nat, RESET_BACK < h,
         ~planSyncRange(c, h).upToDate
  PROVE  LET p == planSyncRange(c, h) IN
           /\ p \in Range
           /\ 1 <= p.fromBlock /\ p.fromBlock <= p.toBlock
           /\ p.toBlock <= h - CONFIRMATION_BUFFER
           /\ p.fromBlock = planFrom(c, h)
BY ConfirmationBufferAssumption, MaxLogRangeAssumption, ResetBackAssumption
   DEF planSyncRange, planFrom, Lesser, Range

LEMMA ClearedType ==
  ASSUME NEW T, NEW f \in [Runners -> T], NEW R, NEW v \in T
  PROVE  Cleared(f, R, v) \in [Runners -> T]
BY DEF Cleared

(***************************************************************************)
(* A run that ends forgets its locals and disturbs nobody else's.          *)
(***************************************************************************)
LEMMA LeaveFacts ==
  ASSUME TypeOK, NEW R \in SUBSET Runners, Leave(R)
  PROVE  /\ pc' \in [Runners -> Steps]
         /\ seenHead' \in [Runners -> Nat]
         /\ range' \in [Runners -> Range]
         /\ openedLogs' \in [Runners -> SUBSET Sessions]
         /\ closedLogs' \in [Runners -> SUBSET Sessions]
         /\ morLogs' \in [Runners -> SUBSET Wallets]
         /\ fetchFailed' \in [Runners -> BOOLEAN]
         /\ sessionErrors' \in [Runners -> BOOLEAN]
         /\ \A r \in R : pc'[r] = "idle"
         /\ \A r \in Runners \ R :
              /\ pc'[r] = pc[r] /\ seenHead'[r] = seenHead[r] /\ range'[r] = range[r]
              /\ openedLogs'[r] = openedLogs[r] /\ closedLogs'[r] = closedLogs[r]
              /\ fetchFailed'[r] = fetchFailed[r] /\ sessionErrors'[r] = sessionErrors[r]
<1>1. \A r \in Runners :
        /\ pc'[r] = IF r \in R THEN "idle" ELSE pc[r]
        /\ r \notin R =>
             /\ seenHead'[r] = seenHead[r] /\ range'[r] = range[r]
             /\ openedLogs'[r] = openedLogs[r] /\ closedLogs'[r] = closedLogs[r]
             /\ fetchFailed'[r] = fetchFailed[r] /\ sessionErrors'[r] = sessionErrors[r]
  BY DEF Leave, Cleared
<1>2. pc' \in [Runners -> Steps]
  BY ClearedType, "idle" \in Steps DEF Leave, TypeOK, Steps
<1>3. seenHead' \in [Runners -> Nat]
  BY ClearedType DEF Leave, TypeOK
<1>4. range' \in [Runners -> Range]
  BY ClearedType, NoRange \in Range DEF Leave, TypeOK, NoRange, Range
<1>5. /\ openedLogs' \in [Runners -> SUBSET Sessions]
      /\ closedLogs' \in [Runners -> SUBSET Sessions]
      /\ morLogs' \in [Runners -> SUBSET Wallets]
  BY ClearedType DEF Leave, TypeOK
<1>6. fetchFailed' \in [Runners -> BOOLEAN] /\ sessionErrors' \in [Runners -> BOOLEAN]
  BY ClearedType DEF Leave, TypeOK
<1> QED
  BY <1>1, <1>2, <1>3, <1>4, <1>5, <1>6

LEMMA TypeInit == Init => TypeInv
<1> SUFFICES ASSUME Init PROVE TypeInv
  OBVIOUS
<1>1. overlapped \in BOOLEAN
  BY DEF Init
<1>2. TypeOK
  BY <1>1, ResetBackAssumption, StartCursorsAssumption, ConfirmationBufferAssumption
     DEF Init, TypeOK, Steps, Range, NoRange
<1>3. RESET_BACK < head /\ \A r \in Runners : SeenOK(r) /\ RangeOK(r)
  BY ResetBackAssumption DEF Init, SeenOK, RangeOK, Planned, Steps
<1> QED
  BY <1>2, <1>3 DEF TypeInv

LEMMA TypeStep == TypeInv /\ [Next]_vars => TypeInv'
<1> SUFFICES ASSUME TypeInv, [Next]_vars PROVE TypeInv'
  OBVIOUS
<1> USE ConfirmationBufferAssumption, MaxLogRangeAssumption, ResetBackAssumption,
        ResetBlocksAssumption, MaxHeadAssumption
        DEF TypeInv
<1>1. ASSUME NEW O \in SUBSET Sessions, NEW C \in SUBSET Sessions,
             NEW M \in SUBSET Wallets, Mine(O, C, M)
      PROVE  TypeInv'
  BY <1>1 DEF Mine, Place, TypeOK, SeenOK, RangeOK, tables, progress, clocks, locals, logs, flags
<1>2. ASSUME NEW O \in SUBSET Sessions, NEW C \in SUBSET Sessions,
             NEW M \in SUBSET Wallets, Reorg(O, C, M)
      PROVE  TypeInv'
  BY <1>2 DEF Reorg, Place, TypeOK, SeenOK, RangeOK, tables, progress, clocks, locals, logs, flags
<1>3. ASSUME NEW R \in SUBSET Runners, Abort(R)
      PROVE  TypeInv'
  BY <1>3, LeaveFacts DEF Abort, TypeOK, SeenOK, RangeOK, Planned,
                          chain, tables, progress, clocks
<1>4. ASSUME NEW r \in Runners, Start(r)
      PROVE  TypeInv'
  BY <1>4 DEF Start, Enter, Goto, TypeOK, SeenOK, RangeOK, Planned, Steps,
              chain, tables, progress, clocks, locals, logs, flags
<1>5. ASSUME NEW r \in Runners, SyncStep(r)
      PROVE  TypeInv'
  <2>1. CASE ReadHead(r)
    BY <2>1 DEF ReadHead, Goto, TypeOK, SeenOK, RangeOK, Planned, Steps,
                chain, tables, progress, logs, flags
  <2>2. CASE UpToDate(r)
    BY <2>2, LeaveFacts DEF UpToDate, TypeOK, SeenOK, RangeOK, Planned,
                            chain, tables, progress, clocks
  <2>3. CASE PlanRange(r)
    <3>1. LET p == planSyncRange(cursor, seenHead[r]) IN
            /\ p \in Range
            /\ 1 <= p.fromBlock /\ p.fromBlock <= p.toBlock
            /\ p.toBlock <= seenHead[r] - CONFIRMATION_BUFFER
      BY <2>3, PlannedRange DEF PlanRange, Goto, TypeOK, SeenOK
    <3> QED
      BY <2>3, <3>1 DEF PlanRange, Goto, TypeOK, SeenOK, RangeOK, Planned, Steps,
                        chain, tables, clocks, logs, flags
  <2>4. ASSUME NEW d \in BOOLEAN, NEW m \in BOOLEAN, FetchLogs(r, d, m)
        PROVE  TypeInv'
    BY <2>4 DEF FetchLogs, Fetched, EventsIn, Goto, TypeOK, SeenOK, RangeOK, Planned, Steps,
                chain, tables, progress, clocks
  <2>5. ASSUME NEW done \in SUBSET openedLogs[r], NEW ok \in BOOLEAN,
               processSessionOpened(r, done, ok)
        PROVE  TypeInv'
    BY <2>5 DEF processSessionOpened, Place, Goto, TypeOK, SeenOK, RangeOK, Planned, Steps,
                chain, progress, clocks, logs
  <2>6. ASSUME NEW done \in SUBSET closedLogs[r], processSessionClosed(r, done)
        PROVE  TypeInv'
    BY <2>6 DEF processSessionClosed, Place, Goto, TypeOK, SeenOK, RangeOK, Planned, Steps,
                chain, progress, clocks, logs
  <2>7. CASE processMarket(r)
    BY <2>7 DEF processMarket, Goto, TypeOK, SeenOK, RangeOK, Planned, Steps,
                chain, tables, progress, clocks, locals, logs, flags
  <2>8. ASSUME NEW done \in SUBSET morLogs[r], processMorTransfers(r, done)
        PROVE  TypeInv'
    BY <2>8 DEF processMorTransfers, Goto, TypeOK, SeenOK, RangeOK, Planned, Steps,
                chain, progress, clocks, locals, logs, flags
  <2>9. CASE AdvanceCursor(r)
    BY <2>9 DEF AdvanceCursor, Goto, TypeOK, SeenOK, RangeOK, Planned, Steps, Range,
                chain, tables, clocks, locals, logs, flags
  <2>10. CASE HoldCursor(r)
    BY <2>10 DEF HoldCursor, Goto, TypeOK, SeenOK, RangeOK, Planned, Steps, Range,
                 chain, tables, clocks, locals, logs, flags
  <2>11. CASE MirrorCursor(r)
    BY <2>11 DEF MirrorCursor, Goto, TypeOK, SeenOK, RangeOK, Planned, Steps, Range,
                 chain, tables, clocks, locals, logs, flags
  <2>12. CASE StampSync(r)
    BY <2>12, LeaveFacts DEF StampSync, TypeOK, SeenOK, RangeOK, Planned,
                             chain, tables, progress
  <2> QED
    BY <1>5, <2>1, <2>2, <2>3, <2>4, <2>5, <2>6, <2>7, <2>8, <2>9, <2>10, <2>11, <2>12
       DEF SyncStep
<1>6. ASSUME NEW r \in Runners, NEW b \in ResetBlocks, initSync(r, b)
      PROVE  TypeInv'
  BY <1>6 DEF initSync, Enter, resetTo, Greater, Goto, TypeOK, SeenOK, RangeOK, Planned, Steps,
              chain, tables, clocks, locals, logs, flags
<1>7. CASE UNCHANGED vars
  BY <1>7 DEF TypeOK, SeenOK, RangeOK, vars, chain, tables, progress, clocks, locals, logs, flags
<1> QED
  BY <1>1, <1>2, <1>3, <1>4, <1>5, <1>6, <1>7 DEF Next, ChainStep

LEMMA TypeInvariant == Spec => []TypeInv
BY TypeInit, TypeStep, PTL DEF Spec

(***************************************************************************)
(* Type correctness, in particular that no cursor sync() computes from a   *)
(* head and a stored cursor ever falls below zero.                         *)
(***************************************************************************)
THEOREM TypeCorrect == Spec => []TypeOK
BY TypeInvariant, PTL DEF TypeInv
-----------------------------------------------------------------------------
(***************************************************************************)
(* What the confirmation buffer buys: the chain neither adds nor removes   *)
(* an event at or below head - CONFIRMATION_BUFFER.                        *)
(***************************************************************************)
Fixed(when) ==
  \A x \in DOMAIN when :
    /\ when[x] # 0 /\ ~Unconfirmed(when[x]) => when'[x] = when[x]
    /\ when'[x] # 0 /\ when'[x] <= head - CONFIRMATION_BUFFER => when'[x] = when[x]

LEMMA ConfirmedIsFixed ==
  ASSUME TypeInv, ChainStep
  PROVE  /\ head <= head'
         /\ Fixed(openedAt) /\ Fixed(closedAt)
         /\ UNCHANGED <<tables, progress, clocks, pc, locals>>
<1> USE ConfirmationBufferAssumption DEF TypeInv, TypeOK, Fixed, Unconfirmed, Place
<1> PICK O \in SUBSET Sessions, C \in SUBSET Sessions, M \in SUBSET Wallets :
      Mine(O, C, M) \/ Reorg(O, C, M)
  BY DEF ChainStep
<1>1. CASE Mine(O, C, M)
  BY <1>1 DEF Mine
<1>2. CASE Reorg(O, C, M)
  BY <1>2 DEF Reorg
<1> QED
  BY <1>1, <1>2

(***************************************************************************)
(* The logs in a run's hands are events of its range.                      *)
(***************************************************************************)
LogsOK(r) ==
  /\ pc[r] = "opened" => \A s \in openedLogs[r] : InRange(openedAt[s], range[r])
  /\ pc[r] \in {"opened", "closed"} =>
       \A s \in closedLogs[r] : InRange(closedAt[s], range[r])

FinalInv ==
  /\ IndexedIsFinal
  /\ \A r \in Runners : LogsOK(r)

LEMMA FinalInit == Init => FinalInv
BY DEF Init, FinalInv, IndexedIsFinal, LogsOK

LEMMA FinalStep == TypeInv /\ FinalInv /\ [Next]_vars => FinalInv'
<1> SUFFICES ASSUME TypeInv, FinalInv, [Next]_vars PROVE FinalInv'
  OBVIOUS
<1> USE ConfirmationBufferAssumption DEF FinalInv, TypeInv
<1>1. CASE ChainStep
  <2>1. /\ head <= head' /\ Fixed(openedAt) /\ Fixed(closedAt)
        /\ UNCHANGED <<tables, progress, clocks, pc, locals>>
    BY <1>1, ConfirmedIsFixed
  <2>2. IndexedIsFinal'
    <3>1. head' \in Nat
      BY TypeStep DEF TypeOK
    <3> QED
      BY <2>1, <3>1 DEF IndexedIsFinal, Fixed, Unconfirmed, TypeOK, tables
  <2>3. ASSUME NEW r \in Runners PROVE LogsOK(r)'
    <3>1. pc[r] \in Planned =>
            /\ range[r].fromBlock \in Int /\ range[r].toBlock \in Int
            /\ range[r].toBlock <= head - CONFIRMATION_BUFFER
      BY DEF RangeOK, SeenOK, Planned, Steps, Range, TypeOK
    <3>2. /\ openedLogs \in [Runners -> SUBSET Sessions] /\ closedLogs \in [Runners -> SUBSET Sessions]
          /\ openedAt \in [Sessions -> Nat] /\ closedAt \in [Sessions -> Nat] /\ head \in Nat
      BY DEF TypeOK
    <3> QED
      BY <2>1, <3>1, <3>2 DEF LogsOK, Planned, Steps, InRange, Fixed, Unconfirmed, locals, logs
  <2> QED
    BY <2>2, <2>3
<1>2. ASSUME NEW R \in SUBSET Runners, Leave(R), UNCHANGED <<chain, tables>>
      PROVE  FinalInv'
  BY <1>2, LeaveFacts DEF IndexedIsFinal, Unconfirmed, LogsOK, chain, tables
<1>3. ASSUME NEW r \in Runners, Start(r) \/ \E b \in ResetBlocks : initSync(r, b)
      PROVE  FinalInv'
  BY <1>3 DEF Start, initSync, Enter, Goto, TypeOK, IndexedIsFinal, Unconfirmed, LogsOK,
              chain, tables, locals, logs
<1>4. ASSUME NEW r \in Runners, SyncStep(r)
      PROVE  FinalInv'
  <2> USE DEF Goto, TypeOK
  <2>1. CASE ReadHead(r)
    BY <2>1 DEF ReadHead, IndexedIsFinal, Unconfirmed, LogsOK, chain, tables, logs
  <2>2. CASE UpToDate(r)
    BY <2>2, <1>2 DEF UpToDate
  <2>3. CASE PlanRange(r)
    BY <2>3 DEF PlanRange, IndexedIsFinal, Unconfirmed, LogsOK, chain, tables, logs
  <2>4. ASSUME NEW d \in BOOLEAN, NEW m \in BOOLEAN, FetchLogs(r, d, m)
        PROVE  FinalInv'
    BY <2>4 DEF FetchLogs, Fetched, EventsIn, IndexedIsFinal, Unconfirmed, LogsOK, chain, tables
  <2>5. ASSUME NEW done \in SUBSET openedLogs[r], NEW ok \in BOOLEAN,
               processSessionOpened(r, done, ok)
        PROVE  FinalInv'
    <3>1. \A s \in done : openedAt[s] # 0 /\ ~Unconfirmed(openedAt[s])
      BY <2>5 DEF processSessionOpened, LogsOK, InRange, RangeOK, SeenOK, Planned, Steps,
                  Range, Unconfirmed
    <3> QED
      BY <2>5, <3>1 DEF processSessionOpened, Place, IndexedIsFinal, Unconfirmed, LogsOK, chain, logs
  <2>6. ASSUME NEW done \in SUBSET closedLogs[r], processSessionClosed(r, done)
        PROVE  FinalInv'
    <3>1. \A s \in done : closedAt[s] # 0 /\ ~Unconfirmed(closedAt[s])
      BY <2>6 DEF processSessionClosed, LogsOK, InRange, RangeOK, SeenOK, Planned, Steps,
                  Range, Unconfirmed
    <3> QED
      BY <2>6, <3>1 DEF processSessionClosed, Place, IndexedIsFinal, Unconfirmed, LogsOK, chain, logs
  <2>7. CASE processMarket(r)
    BY <2>7 DEF processMarket, IndexedIsFinal, Unconfirmed, LogsOK, chain, tables, locals, logs
  <2>8. ASSUME NEW done \in SUBSET morLogs[r], processMorTransfers(r, done)
        PROVE  FinalInv'
    BY <2>8 DEF processMorTransfers, IndexedIsFinal, Unconfirmed, LogsOK, chain, locals, logs
  <2>9. CASE AdvanceCursor(r) \/ HoldCursor(r) \/ MirrorCursor(r)
    BY <2>9 DEF AdvanceCursor, HoldCursor, MirrorCursor, IndexedIsFinal, Unconfirmed, LogsOK,
                chain, tables, locals, logs
  <2>10. CASE StampSync(r)
    BY <2>10, <1>2 DEF StampSync
  <2> QED
    BY <1>4, <2>1, <2>2, <2>3, <2>4, <2>5, <2>6, <2>7, <2>8, <2>9, <2>10 DEF SyncStep
<1>5. CASE UNCHANGED vars
  BY <1>5 DEF IndexedIsFinal, Unconfirmed, LogsOK, vars, chain, tables, locals, logs
<1> QED
  BY <1>1, <1>2, <1>3, <1>4, <1>5 DEF Next, Abort

(***************************************************************************)
(* The confirmation buffer holds for any runners acting on stale heads:    *)
(* no row reflects an event a reorganisation can still take away.          *)
(***************************************************************************)
THEOREM RowsAreFinal == Spec => []IndexedIsFinal
BY TypeInvariant, FinalInit, FinalStep, PTL DEF Spec, FinalInv
-----------------------------------------------------------------------------
(***************************************************************************)
(* Why the gap-proof contract is inductive.  The cursor lies in confirmed  *)
(* blocks, or no further than what was skipped on purpose.  A run carries  *)
(* two facts to the cursor it will write: all that was opened before its   *)
(* range has rows (it read the cursor when planning), and, unless it will  *)
(* hold, so has all that was opened in its range.                          *)
(***************************************************************************)
CursorOK ==
  /\ 0 < cursor
  /\ cursor <= base \/ cursor <= head - CONFIRMATION_BUFFER

BeforeOK(r) ==
  pc[r] \in Planned =>
    \A s \in Sessions :
      base < openedAt[s] /\ openedAt[s] < range[r].fromBlock => sessions[s] # "none"

WithinOK(r) ==
  /\ pc[r] = "opened" /\ ~fetchFailed[r] =>
       \A s \in Sessions : InRange(openedAt[s], range[r]) => s \in openedLogs[r]
  /\ pc[r] \in {"closed", "market", "transfers", "advance"} /\ Advances(r) =>
       \A s \in Sessions : InRange(openedAt[s], range[r]) => sessions[s] # "none"

GapInv ==
  /\ CursorOK
  /\ OpenedGapProof
  /\ \A r \in Runners : BeforeOK(r) /\ WithinOK(r)

\* What the steps below leave alone or only add to keeps the invariant.
RowsStay == \A s \in Sessions : sessions[s] # "none" => sessions'[s] # "none"

LEMMA GapInit == 0 \notin StartCursors /\ Init => GapInv
BY StartCursorsAssumption
   DEF Init, GapInv, CursorOK, OpenedGapProof, BeforeOK, WithinOK, Planned, Steps

(***************************************************************************)
(* A step of the other runners keeps what a run carries, as long as it     *)
(* keeps the rows, the chain, and does not lower base.                     *)
(***************************************************************************)
LEMMA OthersKeep ==
  ASSUME TypeInv, TypeInv', GapInv, RowsStay, base <= base', UNCHANGED chain,
         NEW r \in Runners,
         pc'[r] = pc[r], range'[r] = range[r], openedLogs'[r] = openedLogs[r],
         fetchFailed'[r] = fetchFailed[r], sessionErrors'[r] = sessionErrors[r]
  PROVE  BeforeOK(r)' /\ WithinOK(r)'
<1> USE DEF TypeInv, TypeOK, GapInv, RowsStay, chain
<1>1. BeforeOK(r)'
  BY DEF BeforeOK
<1>2. WithinOK(r)'
  BY DEF WithinOK, Advances, shouldAdvanceCursor, InRange
<1> QED
  BY <1>1, <1>2

LEMMA StillConfirmed ==
  ASSUME NEW h \in Nat, NEW k \in Nat, NEW c \in Nat, h <= k, c <= h - CONFIRMATION_BUFFER
  PROVE  c <= k - CONFIRMATION_BUFFER
BY ConfirmationBufferAssumption

LEMMA GapStep == TypeInv /\ TypeInv' /\ GapInv /\ [Next]_vars => GapInv'
<1> SUFFICES ASSUME TypeInv, TypeInv', GapInv, [Next]_vars PROVE GapInv'
  OBVIOUS
<1> USE ConfirmationBufferAssumption DEF TypeInv, TypeOK
<1>1. CASE ChainStep
  <2>1. /\ head <= head' /\ Fixed(openedAt)
        /\ UNCHANGED <<tables, progress, clocks, pc, locals>>
    BY <1>1, ConfirmedIsFixed
  <2>2. CursorOK'
    <3>1. cursor' = cursor /\ base' = base /\ head <= head' /\ CursorOK
      BY <2>1 DEF progress, GapInv
    <3>2. /\ head \in Nat /\ head' \in Nat /\ cursor \in Nat
          /\ CONFIRMATION_BUFFER \in Nat
      OBVIOUS
    <3>3. cursor <= head - CONFIRMATION_BUFFER => cursor <= head' - CONFIRMATION_BUFFER
      BY <3>1, <3>2, StillConfirmed
    <3> QED
      BY ONLY <3>1, <3>3 DEF CursorOK
  <2>3. OpenedGapProof'
    <3> SUFFICES ASSUME NEW s \in Sessions, base < openedAt'[s], openedAt'[s] <= cursor
                 PROVE  sessions[s] # "none"
      BY <2>1 DEF OpenedGapProof, tables, progress
    <3>1. openedAt'[s] # 0 /\ openedAt'[s] <= head - CONFIRMATION_BUFFER
      BY DEF GapInv, CursorOK
    <3> QED
      BY <2>1, <3>1 DEF GapInv, OpenedGapProof, Fixed
  <2>4. ASSUME NEW r \in Runners PROVE BeforeOK(r)' /\ WithinOK(r)'
    <3>1. pc[r] \in Planned =>
            /\ range[r].fromBlock \in Int /\ range[r].toBlock \in Int
            /\ 1 <= range[r].fromBlock /\ range[r].fromBlock <= range[r].toBlock
            /\ range[r].toBlock <= head - CONFIRMATION_BUFFER
      BY DEF RangeOK, SeenOK, Planned, Steps, Range
    <3>2. pc[r] \in Planned =>
            \A s \in Sessions :
              openedAt'[s] # 0 /\ openedAt'[s] <= range[r].toBlock => openedAt'[s] = openedAt[s]
      BY <2>1, <3>1 DEF Fixed
    <3>3. BeforeOK(r)'
      <4> SUFFICES ASSUME pc[r] \in Planned, NEW s \in Sessions,
                          base < openedAt'[s], openedAt'[s] < range[r].fromBlock
                   PROVE  sessions[s] # "none"
        BY <2>1 DEF BeforeOK, tables, progress, locals
      <4>1. openedAt'[s] \in Nat /\ base \in Nat
        OBVIOUS
      <4>2. openedAt'[s] # 0 /\ openedAt'[s] <= range[r].toBlock
        BY ONLY <3>1, <4>1, pc[r] \in Planned, base < openedAt'[s], openedAt'[s] < range[r].fromBlock
      <4> QED
        BY <3>2, <4>2 DEF GapInv, BeforeOK
    <3>4. WithinOK(r)'
      BY <2>1, <3>1, <3>2 DEF GapInv, WithinOK, InRange, Advances, shouldAdvanceCursor, Planned, Steps,
                              tables, locals, logs, flags
    <3> QED
      BY <3>3, <3>4
  <2> QED
    BY <2>2, <2>3, <2>4 DEF GapInv
<1>2. ASSUME NEW R \in SUBSET Runners, Leave(R), UNCHANGED <<chain, tables, progress>>
      PROVE  GapInv'
  <2>1. CursorOK' /\ OpenedGapProof'
    BY <1>2 DEF GapInv, CursorOK, OpenedGapProof, chain, tables, progress
  <2>2. ASSUME NEW r \in Runners PROVE BeforeOK(r)' /\ WithinOK(r)'
    <3>1. CASE r \in R
      BY <1>2, <3>1, LeaveFacts DEF BeforeOK, WithinOK, Planned
    <3>2. CASE r \notin R
      BY <1>2, <3>2, LeaveFacts, OthersKeep DEF RowsStay, tables, progress
    <3> QED
      BY <3>1, <3>2
  <2> QED
    BY <2>1, <2>2 DEF GapInv
<1>3. ASSUME NEW r \in Runners, Start(r)
      PROVE  GapInv'
  <2>1. CursorOK' /\ OpenedGapProof'
    BY <1>3 DEF Start, GapInv, CursorOK, OpenedGapProof, chain, tables, progress
  <2>2. ASSUME NEW q \in Runners PROVE BeforeOK(q)' /\ WithinOK(q)'
    <3>1. CASE q = r
      BY <1>3, <3>1 DEF Start, Enter, Goto, BeforeOK, WithinOK, Planned
    <3>2. CASE q # r
      BY <1>3, <3>2, OthersKeep DEF Start, Enter, Goto, RowsStay, tables, progress, locals, logs, flags
    <3> QED
      BY <3>1, <3>2
  <2> QED
    BY <2>1, <2>2 DEF GapInv
<1>4. ASSUME NEW r \in Runners, NEW b \in ResetBlocks, initSync(r, b)
      PROVE  GapInv'
  <2>1. resetTo(b) \in Nat /\ 0 < resetTo(b) /\ base <= base'
          /\ (resetTo(b) > cursor => resetTo(b) <= base')
          /\ (~(resetTo(b) > cursor) => base' = base)
    BY <1>4, ResetBackAssumption, ResetBlocksAssumption DEF initSync, resetTo, Greater
  <2>2. CursorOK'
    BY <1>4, <2>1 DEF GapInv, CursorOK, initSync, chain
  <2>3. OpenedGapProof'
    BY <1>4, <2>1 DEF GapInv, OpenedGapProof, initSync, chain, tables
  <2>4. ASSUME NEW q \in Runners PROVE BeforeOK(q)' /\ WithinOK(q)'
    <3>1. CASE q = r
      BY <1>4, <3>1 DEF initSync, Enter, Goto, BeforeOK, WithinOK, Planned
    <3>2. CASE q # r
      BY <1>4, <2>1, <3>2, OthersKeep DEF initSync, Enter, Goto, RowsStay, tables, locals, logs, flags
    <3> QED
      BY <3>1, <3>2
  <2> QED
    BY <2>2, <2>3, <2>4 DEF GapInv
<1>5. ASSUME NEW r \in Runners, SyncStep(r)
      PROVE  GapInv'
  <2>1. UNCHANGED chain
    BY <1>5 DEF SyncStep, ReadHead, UpToDate, PlanRange, FetchLogs, processSessionOpened,
                processSessionClosed, processMarket, processMorTransfers, AdvanceCursor,
                HoldCursor, MirrorCursor, StampSync
  <2>2. ASSUME RowsStay, UNCHANGED <<cursor, base>> PROVE CursorOK' /\ OpenedGapProof'
    BY <2>1, <2>2 DEF GapInv, CursorOK, OpenedGapProof, RowsStay, chain
  <2>3. ASSUME RowsStay, UNCHANGED <<cursor, base>>, BeforeOK(r)', WithinOK(r)',
               \A q \in Runners \ {r} :
                 /\ pc'[q] = pc[q] /\ range'[q] = range[q] /\ openedLogs'[q] = openedLogs[q]
                 /\ fetchFailed'[q] = fetchFailed[q] /\ sessionErrors'[q] = sessionErrors[q]
        PROVE  GapInv'
    <3>1. ASSUME NEW q \in Runners, q # r PROVE BeforeOK(q)' /\ WithinOK(q)'
      BY <2>1, <2>3, <3>1, OthersKeep
    <3> QED
      BY <2>2, <2>3, <3>1 DEF GapInv
  <2> USE DEF Goto, GapInv
  <2>4. CASE ReadHead(r)
    BY <2>3, <2>4 DEF ReadHead, BeforeOK, WithinOK, RowsStay, Planned, tables, progress, logs, flags
  <2>5. CASE UpToDate(r)
    BY <2>5, <1>2 DEF UpToDate
  <2>6. CASE PlanRange(r)
    <3>1. planSyncRange(cursor, seenHead[r]).fromBlock = cursor + 1
      BY <2>6, PlannedRange DEF PlanRange, SeenOK, CursorOK, planFrom
    <3>2. BeforeOK(r)'
      BY <2>1, <2>6, <3>1 DEF PlanRange, CursorOK, OpenedGapProof, BeforeOK, chain, tables
    <3>3. WithinOK(r)'
      BY <2>6 DEF PlanRange, WithinOK
    <3> QED
      BY <2>3, <2>6, <3>2, <3>3 DEF PlanRange, RowsStay, tables, logs, flags
  <2>7. ASSUME NEW d \in BOOLEAN, NEW m \in BOOLEAN, FetchLogs(r, d, m)
        PROVE  GapInv'
    <3>1. BeforeOK(r)'
      BY <2>1, <2>7 DEF FetchLogs, BeforeOK, Planned, Steps, chain, tables, progress
    <3>2. WithinOK(r)'
      BY <2>1, <2>7 DEF FetchLogs, Fetched, EventsIn, WithinOK, chain
    <3> QED
      BY <2>3, <2>7, <3>1, <3>2 DEF FetchLogs, RowsStay, tables, progress
  <2>8. ASSUME NEW done \in SUBSET openedLogs[r], NEW ok \in BOOLEAN,
               processSessionOpened(r, done, ok)
        PROVE  GapInv'
    <3>1. RowsStay /\ \A s \in done : sessions'[s] # "none"
      BY <2>8 DEF processSessionOpened, Place, RowsStay
    <3>2. BeforeOK(r)'
      BY <2>1, <2>8, <3>1 DEF processSessionOpened, BeforeOK, RowsStay, Planned, Steps, chain, progress
    <3>3. WithinOK(r)'
      BY <2>1, <2>8, <3>1 DEF processSessionOpened, WithinOK, Advances, shouldAdvanceCursor, InRange,
                              chain, logs
    <3> QED
      BY <2>3, <2>8, <3>1, <3>2, <3>3 DEF processSessionOpened, progress, logs
  <2>9. ASSUME NEW done \in SUBSET closedLogs[r], processSessionClosed(r, done)
        PROVE  GapInv'
    <3>1. RowsStay
      BY <2>9 DEF processSessionClosed, Place, RowsStay
    <3>2. BeforeOK(r)'
      BY <2>1, <2>9, <3>1 DEF processSessionClosed, BeforeOK, RowsStay, Planned, Steps, chain, progress
    <3>3. WithinOK(r)'
      BY <2>1, <2>9, <3>1 DEF processSessionClosed, WithinOK, Advances, shouldAdvanceCursor, InRange,
                              RowsStay, chain, logs
    <3> QED
      BY <2>3, <2>9, <3>1, <3>2, <3>3 DEF processSessionClosed, progress, logs
  <2>10. ASSUME NEW done \in SUBSET morLogs[r], processMarket(r) \/ processMorTransfers(r, done)
         PROVE  GapInv'
    <3>1. BeforeOK(r)' /\ WithinOK(r)'
      BY <2>1, <2>10 DEF processMarket, processMorTransfers, BeforeOK, WithinOK, Advances,
                         shouldAdvanceCursor, InRange, Planned, Steps,
                         chain, tables, progress, locals, logs, flags
    <3> QED
      BY <2>3, <2>10, <3>1 DEF processMarket, processMorTransfers, RowsStay,
                               tables, progress, locals, logs, flags
  <2>11. CASE AdvanceCursor(r)
    <3>1. /\ range[r].fromBlock \in Int /\ range[r].toBlock \in Int
          /\ 1 <= range[r].fromBlock /\ range[r].fromBlock <= range[r].toBlock
          /\ range[r].toBlock <= head - CONFIRMATION_BUFFER
      <4>1. pc[r] = "advance"
        BY <2>11 DEF AdvanceCursor
      <4>2. SeenOK(r) /\ RangeOK(r) /\ range[r] \in Range /\ seenHead[r] \in Nat /\ head \in Nat
        OBVIOUS
      <4> HIDE DEF TypeInv, TypeOK, GapInv
      <4> QED
        BY <4>1, <4>2 DEF RangeOK, SeenOK, Planned, Steps, Range
    <3>2. base' = base /\ cursor' = range[r].toBlock /\ RowsStay
      BY <2>11 DEF AdvanceCursor, CursorOK, RowsStay, tables
    <3>3. CursorOK'
      BY <2>1, <3>1, <3>2 DEF CursorOK, chain
    <3>4. OpenedGapProof'
      <4> SUFFICES ASSUME NEW s \in Sessions, base < openedAt[s], openedAt[s] <= range[r].toBlock
                   PROVE  sessions[s] # "none"
        BY <2>1, <2>11, <3>2 DEF AdvanceCursor, OpenedGapProof, chain, tables
      <4>1. CASE openedAt[s] < range[r].fromBlock
        BY <2>11, <4>1 DEF AdvanceCursor, BeforeOK, Planned, Steps
      <4>2. CASE range[r].fromBlock <= openedAt[s]
        BY <2>11, <3>1, <4>2 DEF AdvanceCursor, WithinOK, InRange
      <4> QED
        BY <3>1, <4>1, <4>2
    <3>5. BeforeOK(r)' /\ WithinOK(r)'
      BY <2>1, <2>11, <3>2 DEF AdvanceCursor, BeforeOK, WithinOK, Planned, Steps,
                               chain, tables, locals, logs, flags
    <3>6. ASSUME NEW q \in Runners, q # r PROVE BeforeOK(q)' /\ WithinOK(q)'
      BY <2>1, <2>11, <3>2, <3>6, OthersKeep DEF AdvanceCursor, locals, logs, flags
    <3> QED
      BY <3>3, <3>4, <3>5, <3>6
  <2>12. CASE HoldCursor(r) \/ MirrorCursor(r)
    <3>1. BeforeOK(r)' /\ WithinOK(r)'
      BY <2>1, <2>12 DEF HoldCursor, MirrorCursor, BeforeOK, WithinOK, Planned, Steps,
                         chain, tables, locals, logs, flags
    <3> QED
      BY <2>3, <2>12, <3>1 DEF HoldCursor, MirrorCursor, RowsStay, tables, locals, logs, flags
  <2>13. CASE StampSync(r)
    BY <2>13, <1>2 DEF StampSync
  <2> QED
    BY <1>5, <2>4, <2>5, <2>6, <2>7, <2>8, <2>9, <2>10, <2>11, <2>12, <2>13 DEF SyncStep
<1>6. CASE UNCHANGED vars
  <2>1. CursorOK' /\ OpenedGapProof'
    BY <1>6 DEF GapInv, CursorOK, OpenedGapProof, vars, chain, tables, progress
  <2>2. ASSUME NEW r \in Runners PROVE BeforeOK(r)' /\ WithinOK(r)'
    BY <1>6, OthersKeep DEF RowsStay, vars, tables, progress, locals, logs, flags
  <2> QED
    BY <2>1, <2>2 DEF GapInv
<1> QED
  BY <1>1, <1>2, <1>3, <1>4, <1>5, <1>6 DEF Next, Abort

(***************************************************************************)
(* Gap-proof openings, for any runners: from a cursor that exists, every   *)
(* session opened after base and at or below last_event_block has a row,   *)
(* however fetches fail, batches are lost, runs die and runners race.      *)
(***************************************************************************)
THEOREM GapProof ==
  ASSUME 0 \notin StartCursors
  PROVE  Spec => []OpenedGapProof
<1>1. Init => GapInv
  BY GapInit
<1>2. TypeInv /\ TypeInv' /\ GapInv /\ [Next]_vars => GapInv'
  BY GapStep
<1> QED
  BY <1>1, <1>2, TypeInvariant, PTL DEF Spec, GapInv
-----------------------------------------------------------------------------
(***************************************************************************)
(* Runs that do not overlap.  The one under way has a range that begins    *)
(* where the cursor it read still stands, so INSERT OR REPLACE reopens     *)
(* only rows whose closing is still to come, and a run that will advance   *)
(* has closed every closing of its range.                                  *)
(***************************************************************************)
ChainOK ==
  \A s \in Sessions :
    /\ openedAt[s] <= head /\ closedAt[s] <= head
    /\ closedAt[s] # 0 => openedAt[s] # 0 /\ openedAt[s] <= closedAt[s]

Working == {"fetch", "opened", "closed", "market", "transfers", "advance"}

OneRuns == \A q, r \in Runners : pc[q] # "idle" /\ pc[r] # "idle" => q = r

FromCursor(r) ==
  /\ pc[r] \in Working => range[r].fromBlock = cursor + 1
  /\ pc[r] = "mirror" => range[r].toBlock = cursor

HeldOK(r) ==
  heldFrom # 0 => heldFrom = cursor + 1 /\ pc[r] \notin Working \union {"mirror"}

ClosingsOK(r) ==
  /\ pc[r] \in {"opened", "closed"} /\ ~fetchFailed[r] =>
       \A s \in Sessions : InRange(closedAt[s], range[r]) => s \in closedLogs[r]
  /\ pc[r] \in {"market", "transfers", "advance"} /\ Advances(r) =>
       \A s \in Sessions :
         base < openedAt[s] /\ InRange(closedAt[s], range[r]) => sessions[s] = "closed"

SoloInv ==
  /\ ChainOK
  /\ MirrorBehindCursor
  /\ ClosedGapProof
  /\ ~overlapped =>
       OneRuns /\ \A r \in Runners : FromCursor(r) /\ HeldOK(r) /\ ClosingsOK(r)

LEMMA SoloInit == Init => SoloInv
BY ResetBackAssumption, StartCursorsAssumption
   DEF Init, SoloInv, ChainOK, MirrorBehindCursor, ClosedGapProof, OneRuns, FromCursor, HeldOK,
       ClosingsOK, Working

LEMMA ChainStays ==
  ASSUME TypeInv, TypeInv', ChainOK, ChainStep
  PROVE  ChainOK'
<1> USE DEF TypeInv, TypeOK, ChainOK, Place
<1> PICK O \in SUBSET Sessions, C \in SUBSET Sessions, M \in SUBSET Wallets :
      Mine(O, C, M) \/ Reorg(O, C, M)
  BY DEF ChainStep
<1>1. CASE Mine(O, C, M)
  BY <1>1 DEF Mine
<1>2. CASE Reorg(O, C, M)
  BY <1>2 DEF Reorg
<1> QED
  BY <1>1, <1>2

\* What the steps of the runs share: the chain is left alone, an overlap is not forgotten.
LEMMA RunsStepAside ==
  ASSUME NEW r \in Runners,
         Start(r) \/ SyncStep(r) \/ \E b \in ResetBlocks : initSync(r, b)
  PROVE  UNCHANGED chain /\ (overlapped => overlapped')
<1>1. CASE Start(r) \/ \E b \in ResetBlocks : initSync(r, b)
  BY <1>1 DEF Start, initSync, Enter
<1>2. CASE SyncStep(r)
  <2>1. UNCHANGED chain
    BY <1>2 DEF SyncStep, ReadHead, UpToDate, PlanRange, FetchLogs, processSessionOpened,
                processSessionClosed, processMarket, processMorTransfers, AdvanceCursor,
                HoldCursor, MirrorCursor, StampSync, chain
  <2>2. UNCHANGED overlapped
    <3>1. UNCHANGED progress \/ UNCHANGED overlapped
      BY <1>2 DEF SyncStep, ReadHead, UpToDate, PlanRange, FetchLogs, processSessionOpened,
                  processSessionClosed, processMarket, processMorTransfers, AdvanceCursor,
                  HoldCursor, MirrorCursor, StampSync
    <3> QED
      BY <3>1 DEF progress
  <2> QED
    BY <2>1, <2>2
<1> QED
  BY <1>1, <1>2

(***************************************************************************)
(* A run whose step leaves no overlap behind is alone before and after it. *)
(***************************************************************************)
LEMMA OthersAreIdle ==
  ASSUME NEW r \in Runners, TypeOK, SoloInv, ~overlapped, ~overlapped',
         Start(r) \/ SyncStep(r) \/ \E b \in ResetBlocks : initSync(r, b)
  PROVE  \A q \in Runners \ {r} : pc[q] = "idle" /\ pc'[q] = "idle"
<1>1. CASE Start(r) \/ \E b \in ResetBlocks : initSync(r, b)
  BY <1>1 DEF Start, initSync, Enter, Goto, TypeOK
<1>2. CASE SyncStep(r)
  <2>1. pc[r] # "idle"
    BY <1>2 DEF SyncStep, ReadHead, UpToDate, PlanRange, FetchLogs, processSessionOpened,
                processSessionClosed, processMarket, processMorTransfers, AdvanceCursor,
                HoldCursor, MirrorCursor, StampSync, Goto
  <2>2. \A q \in Runners \ {r} : pc[q] = "idle"
    BY <2>1 DEF SoloInv, OneRuns
  <2>3. \A q \in Runners \ {r} : pc'[q] = pc[q]
    BY <1>2 DEF SyncStep, ReadHead, UpToDate, PlanRange, FetchLogs, processSessionOpened,
                processSessionClosed, processMarket, processMorTransfers, AdvanceCursor,
                HoldCursor, MirrorCursor, StampSync, Goto, Leave, Cleared, TypeOK
  <2> QED
    BY <2>2, <2>3
<1> QED
  BY <1>1, <1>2

LEMMA SoloStep == TypeInv /\ TypeInv' /\ FinalInv /\ GapInv /\ SoloInv /\ [Next]_vars => SoloInv'
<1> SUFFICES ASSUME TypeInv, TypeInv', FinalInv, GapInv, SoloInv, [Next]_vars PROVE SoloInv'
  OBVIOUS
<1> USE ConfirmationBufferAssumption DEF TypeInv, TypeOK
<1>0. ASSUME NEW r \in Runners, pc[r] \in Planned
      PROVE  /\ range[r].fromBlock \in Int /\ range[r].toBlock \in Int
             /\ 1 <= range[r].fromBlock /\ range[r].fromBlock <= range[r].toBlock
             /\ range[r].toBlock <= head - CONFIRMATION_BUFFER
  BY <1>0 DEF RangeOK, SeenOK, Planned, Steps, Range
<1>1. CASE ChainStep
  <2>1. /\ head <= head' /\ Fixed(openedAt) /\ Fixed(closedAt)
        /\ UNCHANGED <<tables, progress, clocks, pc, locals>>
    BY <1>1, ConfirmedIsFixed
  <2>2. ChainOK'
    BY <1>1, ChainStays DEF SoloInv
  <2>3. MirrorBehindCursor' /\ (~overlapped => OneRuns')
        /\ \A r \in Runners : ~overlapped => FromCursor(r)' /\ HeldOK(r)'
    BY <1>0, <2>1 DEF SoloInv, MirrorBehindCursor, OneRuns, FromCursor, HeldOK, progress, locals
  <2>4. ClosedGapProof'
    <3> SUFFICES ASSUME ~overlapped,
                        NEW s \in Sessions, base < openedAt'[s], closedAt'[s] # 0, closedAt'[s] <= cursor
                 PROVE  sessions[s] = "closed"
      BY <2>1 DEF ClosedGapProof, tables, progress
    <3>1. openedAt'[s] # 0 /\ openedAt'[s] <= closedAt'[s]
      BY <2>2 DEF ChainOK
    <3>2. closedAt'[s] <= head - CONFIRMATION_BUFFER
      BY <3>1 DEF GapInv, CursorOK
    <3>3. openedAt'[s] = openedAt[s] /\ closedAt'[s] = closedAt[s]
      BY <2>1, <3>1, <3>2 DEF Fixed
    <3> QED
      BY <3>3 DEF SoloInv, ClosedGapProof
  <2>5. ASSUME NEW r \in Runners, ~overlapped
        PROVE  ClosingsOK(r)'
    <3>1. ASSUME NEW s \in Sessions, pc[r] \in Planned, InRange(closedAt'[s], range[r])
          PROVE  openedAt'[s] = openedAt[s] /\ closedAt'[s] = closedAt[s]
      <4>1. closedAt'[s] # 0 /\ closedAt'[s] <= head - CONFIRMATION_BUFFER
        BY <1>0, <3>1 DEF InRange
      <4>2. openedAt'[s] # 0 /\ openedAt'[s] <= head - CONFIRMATION_BUFFER
        BY <2>2, <4>1 DEF ChainOK
      <4> QED
        BY <2>1, <4>1, <4>2 DEF Fixed
    <3> QED
      BY <2>1, <2>5, <3>1 DEF SoloInv, ClosingsOK, Advances, shouldAdvanceCursor, Planned, Steps,
                              tables, progress, locals, logs, flags
  <2> QED
    BY <2>1, <2>2, <2>3, <2>4, <2>5 DEF SoloInv, progress
<1>2. ASSUME NEW R \in SUBSET Runners, Leave(R), UNCHANGED <<chain, tables, progress>>
      PROVE  SoloInv'
  <2>1. ASSUME NEW r \in R, ~overlapped
        PROVE  FromCursor(r)' /\ HeldOK(r)' /\ ClosingsOK(r)'
    <3>1. pc'[r] = "idle" /\ r \in Runners
      BY <1>2, LeaveFacts
    <3> QED
      BY <1>2, <2>1, <3>1 DEF SoloInv, FromCursor, HeldOK, ClosingsOK, Working, progress
  <2>2. ASSUME NEW r \in Runners \ R, ~overlapped
        PROVE  FromCursor(r)' /\ HeldOK(r)' /\ ClosingsOK(r)'
    <3>1. /\ pc'[r] = pc[r] /\ range'[r] = range[r] /\ closedLogs'[r] = closedLogs[r]
          /\ fetchFailed'[r] = fetchFailed[r] /\ sessionErrors'[r] = sessionErrors[r]
      BY <1>2, LeaveFacts
    <3> QED
      BY <1>2, <2>2, <3>1 DEF SoloInv, FromCursor, HeldOK, ClosingsOK, Advances, shouldAdvanceCursor,
                              chain, tables, progress
  <2>3. ~overlapped => OneRuns'
    BY <1>2, LeaveFacts DEF SoloInv, OneRuns
  <2>4. ChainOK' /\ MirrorBehindCursor' /\ ClosedGapProof'
    BY <1>2 DEF SoloInv, ChainOK, MirrorBehindCursor, ClosedGapProof, chain, tables, progress
  <2> QED
    BY <1>2, <2>1, <2>2, <2>3, <2>4 DEF SoloInv, progress
<1>3. ASSUME NEW r \in Runners,
             Start(r) \/ SyncStep(r) \/ \E b \in ResetBlocks : initSync(r, b)
      PROVE  SoloInv'
  <2>1. ChainOK' /\ UNCHANGED chain /\ (overlapped => overlapped')
    BY <1>3, RunsStepAside DEF SoloInv, ChainOK, chain
  <2> SUFFICES ASSUME ~overlapped' PROVE SoloInv'
    BY <2>1 DEF SoloInv, MirrorBehindCursor, ClosedGapProof
  <2> ~overlapped
    BY <2>1
  <2>2. /\ ChainOK /\ lastBlock <= cursor /\ ClosedGapProof
        /\ FromCursor(r) /\ HeldOK(r) /\ ClosingsOK(r)
    BY DEF SoloInv, MirrorBehindCursor
  <2>3. \A q \in Runners \ {r} : pc'[q] = "idle"
    BY <1>3, OthersAreIdle
  <2>4. ASSUME lastBlock' <= cursor', ClosedGapProof',
               FromCursor(r)', HeldOK(r)', ClosingsOK(r)'
        PROVE  SoloInv'
    <3>1. \A q \in Runners : FromCursor(q)' /\ HeldOK(q)' /\ ClosingsOK(q)'
      BY <2>3, <2>4 DEF FromCursor, HeldOK, ClosingsOK, Working
    <3>2. OneRuns'
      BY <2>3 DEF OneRuns
    <3> QED
      BY <2>1, <2>4, <3>1, <3>2 DEF SoloInv, MirrorBehindCursor
  <2>5. CASE Start(r)
    BY <2>2, <2>4, <2>5 DEF Start, Enter, Goto, ClosedGapProof, FromCursor, HeldOK, ClosingsOK, Working,
                            chain, tables, locals
  <2>6. ASSUME NEW b \in ResetBlocks, initSync(r, b)
        PROVE  SoloInv'
    <3>1. resetTo(b) \in Nat /\ base <= base'
          /\ (resetTo(b) > cursor => resetTo(b) <= base')
          /\ (~(resetTo(b) > cursor) => base' = base)
      BY <2>6, ResetBackAssumption, ResetBlocksAssumption DEF initSync, resetTo, Greater
    <3>2. ClosedGapProof'
      BY <2>2, <2>6, <3>1 DEF ChainOK, ClosedGapProof, initSync, chain, tables
    <3> QED
      BY <2>4, <2>6, <3>1, <3>2 DEF initSync, Enter, Goto, FromCursor, HeldOK, ClosingsOK, Working
  <2>7. CASE SyncStep(r)
    <3> USE DEF Goto
    <3>4. CASE ReadHead(r)
      BY <2>1, <2>2, <2>4, <3>4 DEF ReadHead, ClosedGapProof, FromCursor, HeldOK, ClosingsOK,
                        Working, chain, tables, progress, logs, flags
    <3>5. CASE UpToDate(r)
      BY <3>5, <1>2 DEF UpToDate
    <3>6. CASE PlanRange(r)
      <4>1. planSyncRange(cursor, seenHead[r]).fromBlock = cursor + 1
        BY <3>6, PlannedRange DEF PlanRange, SeenOK, GapInv, CursorOK, planFrom
      <4> QED
        BY <2>1, <2>2, <2>4, <3>6, <4>1 DEF PlanRange, ClosedGapProof, FromCursor, HeldOK,
                                ClosingsOK, Working, chain, tables
    <3>7. ASSUME NEW d \in BOOLEAN, NEW m \in BOOLEAN, FetchLogs(r, d, m)
          PROVE  SoloInv'
      <4>1. ClosingsOK(r)'
        BY <2>1, <2>2, <2>4, <3>7 DEF FetchLogs, Fetched, EventsIn, ClosingsOK, chain
      <4> QED
        BY <2>1, <2>2, <2>4, <3>7, <4>1 DEF FetchLogs, ClosedGapProof, FromCursor, HeldOK,
                                Working, chain, tables, progress
    <3>8. ASSUME NEW done \in SUBSET openedLogs[r], NEW ok \in BOOLEAN,
                 processSessionOpened(r, done, ok)
          PROVE  SoloInv'
      <4>1. \A s \in done : openedAt[s] > cursor
        BY <1>0, <2>2, <3>8 DEF processSessionOpened, FinalInv, LogsOK, InRange, FromCursor, Working,
                          Planned, Steps
      <4>2. ClosedGapProof'
        BY <2>1, <2>2, <2>4, <3>8, <4>1
           DEF processSessionOpened, Place, ChainOK, ClosedGapProof, chain, progress
      <4>3. ClosingsOK(r)'
        BY <2>1, <2>2, <2>4, <3>8 DEF processSessionOpened, ClosingsOK, InRange, chain, logs
      <4> QED
        BY <2>1, <2>2, <2>4, <3>8, <4>2, <4>3 DEF processSessionOpened, FromCursor, HeldOK,
                                      Working, chain, progress
    <3>9. ASSUME NEW done \in SUBSET closedLogs[r], processSessionClosed(r, done)
          PROVE  SoloInv'
      <4>1. ClosedGapProof'
        BY <2>1, <2>2, <2>4, <3>9 DEF processSessionClosed, Place, ClosedGapProof, chain, progress
      <4>2. ClosingsOK(r)'
        <5> SUFFICES ASSUME Advances(r)', NEW s \in Sessions, base < openedAt[s],
                            InRange(closedAt[s], range[r])
                     PROVE  sessions'[s] = "closed"
          BY <2>1, <2>2, <2>4, <3>9 DEF processSessionClosed, ClosingsOK, chain, progress
        <5>1. Advances(r) /\ done = closedLogs[r] /\ pc[r] = "closed"
          BY <1>0, <2>2, <3>9 DEF processSessionClosed, Advances, shouldAdvanceCursor
        <5>2. s \in done
          BY <2>2, <5>1 DEF ClosingsOK, Advances, shouldAdvanceCursor
        <5>3. sessions[s] # "none"
          <6>1. openedAt[s] <= range[r].toBlock
            <7>1. openedAt[s] <= closedAt[s] /\ closedAt[s] <= range[r].toBlock
              BY <2>2, <5>1 DEF ChainOK, InRange
            <7>2. openedAt[s] \in Nat /\ closedAt[s] \in Nat
              OBVIOUS
            <7>3. range[r].toBlock \in Int
              BY <1>0, <5>1 DEF Planned, Steps
            <7> QED
              BY <7>1, <7>2, <7>3
          <6>2. openedAt[s] < range[r].fromBlock => sessions[s] # "none"
            BY <1>0, <2>2, <5>1 DEF GapInv, BeforeOK, Planned, Steps
          <6>3. range[r].fromBlock <= openedAt[s] => sessions[s] # "none"
            BY <1>0, <5>1, <6>1 DEF GapInv, WithinOK, InRange
          <6> QED
            BY <1>0, <5>1, <6>2, <6>3 DEF Planned, Steps
        <5> QED
          BY <3>9, <5>2, <5>3 DEF processSessionClosed, Place
      <4> QED
        BY <2>1, <2>2, <2>4, <3>9, <4>1, <4>2 DEF processSessionClosed, FromCursor, HeldOK,
                                      Working, chain, progress
    <3>10. ASSUME NEW done \in SUBSET morLogs[r], processMarket(r) \/ processMorTransfers(r, done)
           PROVE  SoloInv'
      <4>1. /\ pc[r] \in {"market", "transfers"} /\ pc'[r] \in {"transfers", "advance"}
            /\ UNCHANGED <<chain, sessions, progress, locals>>
        BY <3>10 DEF processMarket, processMorTransfers, tables
      <4>2. ClosingsOK(r)'
        BY <2>2, <4>1 DEF ClosingsOK, Advances, shouldAdvanceCursor, chain, progress, locals, flags
      <4> QED
        BY <2>1, <2>2, <2>4, <4>1, <4>2 DEF ClosedGapProof, FromCursor, HeldOK, Working,
                                chain, progress, locals
    <3>11. CASE AdvanceCursor(r)
      <4>1. /\ pc[r] = "advance" /\ cursor' = range[r].toBlock /\ range[r].fromBlock = cursor + 1
            /\ base' = base /\ heldFrom' = 0
        BY <2>2, <3>11 DEF AdvanceCursor, FromCursor, HeldOK, Working, GapInv, CursorOK
      <4>2. ClosedGapProof'
        <5> SUFFICES ASSUME NEW s \in Sessions, base < openedAt[s], closedAt[s] # 0,
                            closedAt[s] <= range[r].toBlock
                     PROVE  sessions[s] = "closed"
          BY <2>1, <2>2, <2>4, <3>11, <4>1 DEF AdvanceCursor, ClosedGapProof, chain, tables
        <5>1. CASE closedAt[s] <= cursor
          BY <2>2, <5>1 DEF ClosedGapProof
        <5>2. CASE closedAt[s] > cursor
          BY <1>0, <2>2, <3>11, <4>1, <5>2 DEF AdvanceCursor, ClosingsOK, InRange, Planned, Steps
        <5> QED
          BY <5>1, <5>2
      <4>3. lastBlock' <= cursor'
        BY <1>0, <2>2, <3>11, <4>1 DEF AdvanceCursor, Planned, Steps
      <4> QED
        BY <2>1, <2>2, <2>4, <3>11, <4>1, <4>2, <4>3
           DEF AdvanceCursor, FromCursor, HeldOK, ClosingsOK, Working,
                                             locals, logs, flags
    <3>12. CASE HoldCursor(r)
      BY <2>1, <2>2, <2>4, <3>12 DEF HoldCursor, ClosedGapProof, FromCursor, HeldOK, ClosingsOK,
                         Working, chain, tables, locals
    <3>13. CASE MirrorCursor(r)
      BY <2>1, <2>2, <2>4, <3>13 DEF MirrorCursor, ClosedGapProof, FromCursor, HeldOK, ClosingsOK,
                         Working, chain, tables, locals
    <3>14. CASE StampSync(r)
      BY <3>14, <1>2 DEF StampSync
    <3> QED
      BY <2>7, <3>4, <3>5, <3>6, <3>7, <3>8, <3>9, <3>10, <3>11, <3>12, <3>13, <3>14 DEF SyncStep
  <2> QED
    BY <1>3, <2>5, <2>6, <2>7
<1>4. CASE UNCHANGED vars
  BY <1>4 DEF SoloInv, ChainOK, MirrorBehindCursor, ClosedGapProof, OneRuns, FromCursor, HeldOK,
              ClosingsOK, Advances, shouldAdvanceCursor, vars, chain, tables, progress, locals, logs, flags
<1> QED
  BY <1>1, <1>2, <1>3, <1>4 DEF Next, Abort

LEMMA SoloInvariant ==
  ASSUME 0 \notin StartCursors
  PROVE  Spec => [](TypeInv /\ FinalInv /\ GapInv /\ SoloInv)
<1>1. Init => TypeInv /\ FinalInv /\ GapInv /\ SoloInv
  BY TypeInit, FinalInit, GapInit, SoloInit
<1>2. TypeInv /\ FinalInv /\ GapInv /\ SoloInv /\ [Next]_vars
        => (TypeInv /\ FinalInv /\ GapInv /\ SoloInv)'
  BY TypeStep, FinalStep, GapStep, SoloStep
<1> QED
  BY <1>1, <1>2, PTL DEF Spec

(***************************************************************************)
(* Gap-proof closings, for any runners, sessions, ranges and failures:     *)
(* from a cursor that exists, and as long as no two runs overlap, every    *)
(* session opened after base whose closing lies at or below                *)
(* last_event_block is closed in the table.  An overlap breaks it.         *)
(***************************************************************************)
THEOREM ClosingsAreGapProof ==
  ASSUME 0 \notin StartCursors
  PROVE  Spec => []ClosedGapProof
BY SoloInvariant, PTL DEF SoloInv
-----------------------------------------------------------------------------
\* The steps that touch a row, the cursor or a plan, each for what it may do to it.
LEMMA SoloSteps ==
  ASSUME TypeInv, TypeInv', FinalInv, GapInv, SoloInv, [Next]_vars, ~overlapped'
  PROVE  /\ \A s \in Sessions : Revived(s) => cursor < openedAt[s]
         /\ ResetOrForward
         /\ RetriesHeld
<1> USE DEF TypeInv, TypeOK, Revived, ResetOrForward, RetriesHeld
<1>1. CASE ChainStep \/ UNCHANGED vars
  BY <1>1, ConfirmedIsFixed DEF vars, tables, progress
<1>2. ASSUME NEW R \in SUBSET Runners, Leave(R), UNCHANGED <<tables, progress>>
      PROVE  /\ UNCHANGED <<sessions, cursor>>
             /\ \A r \in Runners : pc'[r] = pc[r] \/ pc'[r] = "idle"
  BY <1>2, LeaveFacts DEF tables, progress
<1>3. ASSUME NEW r \in Runners,
             Start(r) \/ SyncStep(r) \/ \E b \in ResetBlocks : initSync(r, b)
      PROVE  /\ \A s \in Sessions : Revived(s) => cursor < openedAt[s]
             /\ ResetOrForward
             /\ RetriesHeld
  <2>1. ~overlapped
    BY <1>3, RunsStepAside
  <2>2. \A q \in Runners \ {r} : pc'[q] = "idle"
    BY <1>3, <2>1, OthersAreIdle
  <2>3. FromCursor(r) /\ HeldOK(r)
    BY <2>1 DEF SoloInv
  <2>4. pc[r] \in Planned =>
          /\ range[r].fromBlock \in Int /\ range[r].toBlock \in Int
          /\ range[r].fromBlock <= range[r].toBlock
    BY DEF RangeOK, SeenOK, Planned, Steps, Range
  <2>5. SUFFICES /\ \A s \in Sessions : Revived(s) => cursor < openedAt[s]
                 /\ cursor' < cursor => pc[r] = "idle" /\ pc'[r] = "head"
                 /\ heldFrom # 0 /\ pc[r] = "plan" /\ pc'[r] = "fetch" => range'[r].fromBlock = heldFrom
    BY <2>2
  <2>6. CASE Start(r) \/ \E b \in ResetBlocks : initSync(r, b)
    BY <2>6 DEF Start, initSync, Enter, Goto, tables, progress
  <2>7. CASE UpToDate(r) \/ StampSync(r)
    BY <1>2, <2>7 DEF UpToDate, StampSync
  <2>8. CASE PlanRange(r)
    <3>1. planSyncRange(cursor, seenHead[r]).fromBlock = cursor + 1
      BY <2>8, PlannedRange DEF PlanRange, Goto, SeenOK, GapInv, CursorOK, planFrom
    <3> QED
      BY <2>3, <2>8, <3>1 DEF PlanRange, Goto, tables, HeldOK
  <2>9. ASSUME NEW done \in SUBSET openedLogs[r], NEW ok \in BOOLEAN,
               processSessionOpened(r, done, ok)
        PROVE  /\ \A s \in Sessions : Revived(s) => cursor < openedAt[s]
               /\ UNCHANGED cursor /\ pc[r] # "plan"
    <3>1. \A s \in done : openedAt[s] > cursor
      BY <2>3, <2>4, <2>9 DEF processSessionOpened, Goto, FinalInv, LogsOK, InRange, FromCursor,
                              Working, Planned, Steps
    <3> QED
      BY <2>9, <3>1 DEF processSessionOpened, Goto, Place, progress
  <2>10. ASSUME NEW done \in SUBSET closedLogs[r], processSessionClosed(r, done)
         PROVE  /\ UNCHANGED cursor /\ pc[r] # "plan"
                /\ \A s \in Sessions : sessions'[s] = sessions[s] \/ sessions'[s] = "closed"
    BY <2>10 DEF processSessionClosed, Place, Goto, progress
  <2>11. CASE AdvanceCursor(r)
    <3>1. cursor' > cursor
      BY <2>3, <2>4, <2>11 DEF AdvanceCursor, Goto, FromCursor, Working, Planned, Steps
    <3> QED
      BY <2>11, <3>1 DEF AdvanceCursor, Goto, tables
  <2>12. ASSUME \/ ReadHead(r) \/ processMarket(r) \/ HoldCursor(r) \/ MirrorCursor(r)
                \/ \E d, m \in BOOLEAN : FetchLogs(r, d, m)
                \/ \E done \in SUBSET morLogs[r] : processMorTransfers(r, done)
         PROVE  UNCHANGED <<sessions, cursor>> /\ pc'[r] # "fetch"
    BY <2>12 DEF ReadHead, processMarket, HoldCursor, MirrorCursor, FetchLogs, processMorTransfers,
                 Goto, tables, progress
  <2>13. CASE \/ ReadHead(r) \/ processMarket(r) \/ HoldCursor(r) \/ MirrorCursor(r)
              \/ \E d, m \in BOOLEAN : FetchLogs(r, d, m)
              \/ \E done \in SUBSET morLogs[r] : processMorTransfers(r, done)
    BY <2>12, <2>13
  <2>14. CASE \E done \in SUBSET openedLogs[r], ok \in BOOLEAN : processSessionOpened(r, done, ok)
    BY <2>9, <2>14
  <2>15. CASE \E done \in SUBSET closedLogs[r] : processSessionClosed(r, done)
    BY <2>10, <2>15
  <2> QED
    BY <1>3, <2>6, <2>7, <2>8, <2>11, <2>13, <2>14, <2>15 DEF SyncStep
<1>4. ASSUME NEW R \in SUBSET Runners, Abort(R)
      PROVE  /\ UNCHANGED <<sessions, cursor>>
             /\ \A r \in Runners : pc'[r] = pc[r] \/ pc'[r] = "idle"
  BY <1>2, <1>4 DEF Abort
<1> QED
  BY <1>1, <1>3, <1>4 DEF Next

(***************************************************************************)
(* What no step of a run that meets no other does, for any runners taking  *)
(* turns: a closed row becomes active only ahead of the cursor, only a     *)
(* reset rewinds, the range planned after a held one begins where it       *)
(* began, and the mirror never passes the cursor.                          *)
(***************************************************************************)
THEOREM OneWriterKeepsOrder ==
  ASSUME 0 \notin StartCursors
  PROVE  Spec => OneWriterSteps
<1> DEFINE Inv == TypeInv /\ FinalInv /\ GapInv /\ SoloInv
<1>1. Spec => []Inv
  BY SoloInvariant
<1>2. Inv => MirrorBehindCursor
  BY DEF SoloInv
<1>3. Inv /\ Inv' /\ [Next]_vars =>
        [~overlapped' => \A s \in Sessions : Revived(s) => cursor < openedAt[s]]_vars
  BY SoloSteps
<1>4. Inv /\ Inv' /\ [Next]_vars => [ResetOrForward]_vars
  BY SoloSteps DEF ResetOrForward
<1>5. Inv /\ Inv' /\ [Next]_vars => [RetriesHeld]_vars
  BY SoloSteps DEF RetriesHeld
<1> HIDE DEF Inv
<1>6. Spec => []MirrorBehindCursor
  BY <1>1, <1>2, PTL
<1>7. Spec => NoResurrection
  BY <1>1, <1>3, PTL DEF Spec, NoResurrection
<1>8. Spec => OnlyResetRewinds
  BY <1>1, <1>4, PTL DEF Spec, OnlyResetRewinds
<1>9. Spec => HeldRangeIsRetried
  BY <1>1, <1>5, PTL DEF Spec, HeldRangeIsRetried
<1> QED
  BY <1>6, <1>7, <1>8, <1>9 DEF OneWriterSteps
-----------------------------------------------------------------------------
(***************************************************************************)
(* The coordinator only ever does to the indexer what ComputeSync allows,  *)
(* so what is proved of the indexer holds with the object driving it.      *)
(***************************************************************************)
LEMMA RunStepRefines ==
  ASSUME NEW r \in Runners, RunStep(r)
  PROVE  Next
BY DEF RunStep, CleanStep, Next

LEMMA CronStepRefines == CronStep => [Next]_vars
<1> SUFFICES ASSUME CronStep PROVE [Next]_vars
  OBVIOUS
<1>1. CASE CronForces
  BY <1>1, RunnersAssumption DEF CronForces, Next
<1>2. CASE ~CronForces
  BY <1>2 DEF CronStep, CronObserves, CronLeavesIt, CronRecords
<1> QED
  BY <1>1, <1>2

LEMMA MeddleRefines == Meddle => [Next]_vars
<1> SUFFICES ASSUME Meddle PROVE [Next]_vars
  OBVIOUS
<1> USE DEF Requests
<1>1. CASE StopRequest \/ StartRequest \/ CronAborts
  BY <1>1 DEF StopRequest, StartRequest, CronAborts
<1>2. ASSUME NEW survives \in BOOLEAN, Redeploy(survives)
      PROVE  Next
  <2>1. {AlarmTick, CronTick} \in SUBSET Runners
    BY RunnersAssumption
  <2> QED
    BY <1>2, <2>1 DEF Redeploy, Next
<1>3. ASSUME NEW r \in Requests, TriggerRequest(r) \/ Start(r)
      PROVE  Next
  BY <1>3 DEF TriggerRequest, Next
<1>4. ASSUME NEW r \in Runners, Abort({r})
      PROVE  Next
  <2>1. {r} \in SUBSET Runners
    OBVIOUS
  <2> QED
    BY <1>4, <2>1 DEF Next
<1>5. ASSUME NEW r \in Requests, NEW b \in ResetBlocks, initSync(r, b)
      PROVE  Next
  BY <1>5 DEF Next
<1> QED
  BY <1>1, <1>2, <1>3, <1>4, <1>5 DEF Meddle

LEMMA CoordinatorStep == [CoordinatorNext]_allVars => [Next]_vars
<1> SUFFICES ASSUME [CoordinatorNext]_allVars PROVE [Next]_vars
  OBVIOUS
<1>1. CASE ChainStep
  BY <1>1 DEF Next
<1>2. ASSUME NEW rescheduled \in BOOLEAN, AlarmFires(rescheduled)
      PROVE  Next
  BY <1>2, RunnersAssumption DEF AlarmFires, Next
<1>3. CASE CalmDown \/ UNCHANGED allVars
  BY <1>3 DEF CalmDown, allVars
<1> QED
  BY <1>1, <1>2, <1>3, RunStepRefines, CronStepRefines, MeddleRefines DEF CoordinatorNext

(***************************************************************************)
(* The Durable Object, its alarm, the watchdog cron and the routes around  *)
(* them implement the indexer's specification: each of their steps is a    *)
(* step of some sync(), a step of the chain, or leaves the indexer alone.  *)
(***************************************************************************)
THEOREM CoordinatorImplementsSync == CoordinatorSpec => Spec
<1>1. CoordinatorInit => Init
  BY DEF CoordinatorInit
<1> QED
  BY <1>1, CoordinatorStep, PTL DEF CoordinatorSpec, Spec

(***************************************************************************)
(* No deploy, lost alarm, forced tick, request or reset, in any order and  *)
(* number, opens a gap behind a cursor that was planted before.            *)
(***************************************************************************)
THEOREM CoordinatorGapProof ==
  ASSUME 0 \notin StartCursors
  PROVE  CoordinatorSpec => []OpenedGapProof
BY CoordinatorImplementsSync, GapProof, PTL
-----------------------------------------------------------------------------
(***************************************************************************)
(* A backfill pass that reports no error has filled its range, beside any  *)
(* number of live runs.  The argument is the confirmation buffer's again:  *)
(* what was confirmed when the pass began is there when its chunk is       *)
(* fetched, and nobody deletes a row.                                      *)
(***************************************************************************)
PassOK ==
  /\ step \in PassSteps /\ from \in Nat /\ to \in Nat /\ at \in Nat
  /\ at <= to + 1 /\ (step # "idle" => at <= to)
  /\ opened \in SUBSET Sessions /\ closed \in SUBSET Sessions
  /\ errors \in BOOLEAN /\ settled \in Int
  /\ settled <= head - CONFIRMATION_BUFFER

\* Opened in the blocks a .. b of the pass, and confirmed when it began.
Due(s, a, b) == openedAt[s] # 0 /\ a <= openedAt[s] /\ openedAt[s] <= b /\ openedAt[s] <= settled

ChunksFilled == step # "idle" /\ errors = FALSE =>
  \A s \in Sessions : Due(s, from, at - 1) => sessions[s] # "none"

ChunkFetched == step = "opened" =>
  \A s \in Sessions : Due(s, at, Chunk.toBlock) => s \in opened

ChunkFilled == step \in {"closed", "rest"} /\ errors = FALSE =>
  \A s \in Sessions : Due(s, at, Chunk.toBlock) => sessions[s] # "none"

PassInv == PassOK /\ ChunksFilled /\ ChunkFetched /\ ChunkFilled

FillInv == TypeInv /\ PassInv

LEMMA FillStarts == BackfillInit => FillInv
<1> SUFFICES ASSUME BackfillInit
             PROVE  FillInv
  OBVIOUS
<1>1. TypeInv
  BY TypeInit DEF BackfillInit
<1>2. 0 <= head - CONFIRMATION_BUFFER
  BY ResetBackAssumption, ConfirmationBufferAssumption DEF BackfillInit, Init
<1>3. /\ step = "idle" /\ from = 0 /\ to = 0 /\ at = 0
      /\ opened = {} /\ closed = {} /\ errors = FALSE /\ settled = 0
  BY DEF BackfillInit
<1>4. PassOK
  <2>1. step \in PassSteps /\ from \in Nat /\ to \in Nat /\ at \in Nat /\ settled \in Int
    BY <1>3 DEF PassSteps
  <2>2. at <= to + 1 /\ settled <= head - CONFIRMATION_BUFFER
    BY <1>2, <1>3
  <2>3. errors \in BOOLEAN
    BY <1>3
  <2> QED
    BY <1>3, <2>1, <2>2, <2>3 DEF PassOK
<1> QED
  BY <1>1, <1>3, <1>4 DEF FillInv, PassInv, ChunksFilled, ChunkFetched, ChunkFilled

\* A chunk begins where the pass is and ends within the range.
LEMMA ChunkIsWithin ==
  ASSUME PassOK, at <= to
  PROVE  /\ Chunk.fromBlock = at /\ Chunk.toBlock \in Nat
         /\ at <= Chunk.toBlock /\ Chunk.toBlock <= to
  BY ChunkAssumption DEF PassOK, Chunk, Lesser

(***************************************************************************)
(* A step of the live syncs or of the chain: no row goes away, and no      *)
(* confirmed block changes.                                                *)
(***************************************************************************)
LEMMA LiveStepKeeps ==
  ASSUME TypeInv, Next
  PROVE  /\ RowsStay /\ head <= head'
         /\ Fixed(openedAt)
<1> USE DEF TypeInv, TypeOK
<1>1. CASE ChainStep
  BY <1>1, ConfirmedIsFixed DEF RowsStay, tables
<1>2. ASSUME UNCHANGED chain, RowsStay
      PROVE  RowsStay /\ head <= head' /\ Fixed(openedAt)
  BY <1>2 DEF chain, Fixed
<1>3. ASSUME NEW r \in Runners, Start(r) \/ SyncStep(r)
      PROVE  UNCHANGED chain /\ RowsStay
  <2>1. CASE UNCHANGED <<chain, sessions>>
    BY <2>1 DEF RowsStay
  <2>2. ASSUME NEW done \in SUBSET openedLogs[r], NEW ok \in BOOLEAN, processSessionOpened(r, done, ok)
        PROVE  UNCHANGED chain /\ RowsStay
    BY <2>2 DEF processSessionOpened, Place, RowsStay
  <2>3. ASSUME NEW done \in SUBSET closedLogs[r], processSessionClosed(r, done)
        PROVE  UNCHANGED chain /\ RowsStay
    BY <2>3 DEF processSessionClosed, Place, RowsStay
  <2>4. ASSUME NEW a \in BOOLEAN, NEW b \in BOOLEAN, FetchLogs(r, a, b)
        PROVE  UNCHANGED <<chain, sessions>>
    BY <2>4 DEF FetchLogs, tables
  <2>5. ASSUME NEW done \in SUBSET morLogs[r], processMorTransfers(r, done)
        PROVE  UNCHANGED <<chain, sessions>>
    BY <2>5 DEF processMorTransfers
  <2>6. Start(r) \/ ReadHead(r) \/ UpToDate(r) \/ PlanRange(r) \/ processMarket(r)
        \/ AdvanceCursor(r) \/ HoldCursor(r) \/ MirrorCursor(r) \/ StampSync(r)
        => UNCHANGED <<chain, sessions>>
    BY DEF Start, ReadHead, UpToDate, PlanRange, processMarket, AdvanceCursor, HoldCursor, MirrorCursor,
           StampSync, tables
  <2> QED
    BY <1>3, <2>1, <2>2, <2>3, <2>4, <2>5, <2>6 DEF SyncStep
<1>4. ASSUME NEW R \in SUBSET Runners, Abort(R)
      PROVE  UNCHANGED chain /\ RowsStay
  BY <1>4 DEF Abort, tables, RowsStay
<1>5. ASSUME NEW r \in Runners, NEW b \in ResetBlocks, initSync(r, b)
      PROVE  UNCHANGED chain /\ RowsStay
  BY <1>5 DEF initSync, tables, RowsStay
<1> QED
  BY <1>1, <1>2, <1>3, <1>4, <1>5 DEF Next

LEMMA LiveStepFills ==
  ASSUME FillInv, Next, UNCHANGED pass
  PROVE  FillInv'
<1>1. TypeInv'
  BY TypeStep DEF FillInv
<1>2. RowsStay /\ head <= head' /\ Fixed(openedAt)
  BY LiveStepKeeps DEF FillInv
<1>3. head \in Nat /\ head' \in Nat /\ DOMAIN openedAt = Sessions /\ \A s \in Sessions : openedAt'[s] \in Nat
  BY <1>1 DEF FillInv, TypeInv, TypeOK
<1>4. PassOK'
  <2>1. settled <= head' - CONFIRMATION_BUFFER
    <3>1. settled \in Int /\ settled <= head - CONFIRMATION_BUFFER /\ CONFIRMATION_BUFFER \in Nat
      BY ConfirmationBufferAssumption DEF FillInv, PassInv, PassOK
    <3>2. head \in Nat /\ head' \in Nat /\ head <= head'
      BY <1>2, <1>3
    <3>3. \A m \in Int, h, k, c \in Nat : m <= h - c /\ h <= k => m <= k - c
      OBVIOUS
    <3> QED
      BY <3>1, <3>2, <3>3, Zenon
  <2>2. UNCHANGED <<step, from, to, at, opened, closed, errors, settled>>
    BY DEF pass
  <2> QED
    BY <2>1, <2>2, Zenon DEF FillInv, PassInv, PassOK
<1>5. Chunk' = Chunk
  BY DEF Chunk, pass
<1>6. ASSUME NEW s \in Sessions, NEW a, NEW b,
             openedAt'[s] # 0 /\ a <= openedAt'[s] /\ openedAt'[s] <= b /\ openedAt'[s] <= settled
      PROVE  Due(s, a, b)
  <2>1. openedAt'[s] <= head - CONFIRMATION_BUFFER
    BY <1>3, <1>6, ConfirmationBufferAssumption DEF FillInv, PassInv, PassOK
  <2>2. openedAt'[s] = openedAt[s]
    BY <1>2, <1>3, <1>6, <2>1 DEF Fixed
  <2> QED
    BY <1>6, <2>2 DEF Due
<1>7. ChunksFilled' /\ ChunkFetched' /\ ChunkFilled'
  BY <1>2, <1>5, <1>6 DEF FillInv, PassInv, ChunksFilled, ChunkFetched, ChunkFilled, RowsStay, pass, Due
<1> QED
  BY <1>1, <1>4, <1>7 DEF FillInv, PassInv
-----------------------------------------------------------------------------
\* The pass writes rows and nothing else of the live sync's.
LEMMA PassStepKeepsTypes ==
  ASSUME TypeInv, PassStep
  PROVE  TypeInv' /\ RowsStay /\ UNCHANGED chain
<1>1. ASSUME UNCHANGED vars
      PROVE  TypeInv' /\ RowsStay /\ UNCHANGED chain
  BY <1>1, TypeStep DEF vars, tables, RowsStay
<1>2. ASSUME NEW rows \in [Sessions -> {"none", "active", "closed"}], sessions' = rows,
             \A s \in Sessions : sessions[s] # "none" => rows[s] # "none",
             UNCHANGED <<chain, holders, progress, clocks, pc, locals>>
      PROVE  TypeInv' /\ RowsStay /\ UNCHANGED chain
  <2>1. TypeOK'
    BY <1>2 DEF TypeInv, TypeOK, chain, progress, clocks, locals, logs, flags
  <2>2. RESET_BACK < head' /\ \A r \in Runners : SeenOK(r)' /\ RangeOK(r)'
    BY <1>2 DEF TypeInv, SeenOK, RangeOK, chain, locals
  <2> QED
    BY <1>2, <2>1, <2>2 DEF TypeInv, RowsStay
<1>3. ASSUME NEW done \in SUBSET opened, StoreOpened(done)
      PROVE  TypeInv' /\ RowsStay /\ UNCHANGED chain
  <2>1. /\ Place(sessions, done, "active") \in [Sessions -> {"none", "active", "closed"}]
        /\ \A s \in Sessions : sessions[s] # "none" => Place(sessions, done, "active")[s] # "none"
    BY DEF Place, TypeInv, TypeOK
  <2> QED
    BY <1>2, <1>3, <2>1 DEF StoreOpened
<1>4. ASSUME NEW done \in SUBSET closed, StoreClosed(done)
      PROVE  TypeInv' /\ RowsStay /\ UNCHANGED chain
  <2> DEFINE found == {s \in done : sessions[s] # "none"}
  <2>1. /\ Place(sessions, found, "closed") \in [Sessions -> {"none", "active", "closed"}]
        /\ \A s \in Sessions : sessions[s] # "none" => Place(sessions, found, "closed")[s] # "none"
    BY DEF Place, TypeInv, TypeOK
  <2>2. sessions' = Place(sessions, found, "closed") /\ UNCHANGED <<chain, holders, progress, clocks, pc, locals>>
    BY <1>4 DEF StoreClosed
  <2> HIDE DEF found
  <2> QED
    BY <1>2, <2>1, <2>2
<1>5. (\E q \in Requested : Request(q[1], q[2])) \/ FetchChunk \/ NextChunk \/ PassStops => UNCHANGED vars
  BY DEF Request, FetchChunk, NextChunk, PassStops
<1> QED
  BY <1>1, <1>3, <1>4, <1>5 DEF PassStep

LEMMA PassStepFills ==
  ASSUME FillInv, PassStep
  PROVE  FillInv'
<1>1. TypeInv /\ PassOK /\ ChunksFilled /\ ChunkFetched /\ ChunkFilled
  BY DEF FillInv, PassInv
<1>2. TypeInv' /\ RowsStay /\ UNCHANGED chain
  BY <1>1, PassStepKeepsTypes
<1>3. head \in Nat /\ head' = head /\ openedAt' = openedAt /\ openedAt \in [Sessions -> Nat]
      /\ closedAt \in [Sessions -> Nat]
  BY <1>1, <1>2 DEF TypeInv, TypeOK, chain
<1>4. CONFIRMATION_BUFFER \in Nat
  BY ConfirmationBufferAssumption
<1>5. CASE \E q \in Requested : Request(q[1], q[2])
  <2>1. PICK q \in Requested : Request(q[1], q[2])
    BY <1>5
  <2>2. q[1] \in Nat /\ q[2] \in Nat /\ q[1] <= q[2]
    BY RequestedAssumption
  <2>3. /\ step' = "fetch" /\ from' = q[1] /\ to' = q[2] /\ at' = q[1] /\ errors' = FALSE
        /\ settled' = head - CONFIRMATION_BUFFER /\ UNCHANGED <<opened, closed>>
    BY <2>1 DEF Request
  <2>4. PassOK'
    <3>1. step' \in PassSteps
      BY <2>3 DEF PassSteps
    <3>2. /\ from' \in Nat /\ to' \in Nat /\ at' \in Nat /\ at' <= to' + 1 /\ at' <= to'
          /\ settled' \in Int /\ settled' <= head' - CONFIRMATION_BUFFER
      BY <1>3, <1>4, <2>2, <2>3
    <3>3. errors' \in BOOLEAN
      BY <2>3
    <3> QED
      BY <1>1, <2>3, <3>1, <3>2, <3>3 DEF PassOK
  <2>5. ChunksFilled'
    <3>1. \A s \in Sessions : ~(from' <= openedAt[s] /\ openedAt[s] <= at' - 1)
      BY <1>3, <2>2, <2>3
    <3> QED
      BY <1>3, <3>1 DEF ChunksFilled, Due
  <2> QED
    BY <1>2, <2>3, <2>4, <2>5 DEF FillInv, PassInv, ChunkFetched, ChunkFilled
<1>6. CASE FetchChunk
  <2>1. /\ step = "fetch" /\ step' = "opened" /\ opened' = EventsIn(openedAt, Chunk) /\ closed' = EventsIn(closedAt, Chunk)
        /\ UNCHANGED <<vars, from, to, at, errors, settled>>
    BY <1>6 DEF FetchChunk
  <2>2. PassOK'
    <3>1. step' \in PassSteps
      BY <2>1 DEF PassSteps
    <3>2. opened' \in SUBSET Sessions /\ closed' \in SUBSET Sessions
      BY <1>3, <2>1 DEF EventsIn
    <3>3. at' <= to' /\ step # "idle"
      BY <1>1, <2>1 DEF PassOK
    <3> QED
      BY <1>1, <1>3, <2>1, <3>1, <3>2, <3>3 DEF PassOK
  <2>3. ChunkFetched'
    <3>1. Chunk.fromBlock = at
      BY <1>1, <2>1, ChunkIsWithin DEF PassOK
    <3>2. \A s \in Sessions : Due(s, at, Chunk.toBlock) => s \in opened'
      BY <1>3, <2>1, <3>1 DEF Due, EventsIn, InRange
    <3> QED
      BY <1>3, <2>1, <3>2 DEF ChunkFetched, Due, Chunk
  <2>4. ChunksFilled'
    BY <1>1, <1>3, <2>1 DEF ChunksFilled, Due, vars, tables
  <2> QED
    BY <1>2, <2>1, <2>2, <2>3, <2>4 DEF FillInv, PassInv, ChunkFilled
<1>7. ASSUME NEW done \in SUBSET opened, StoreOpened(done)
      PROVE  FillInv'
  <2>1. /\ step = "opened" /\ step' = "closed" /\ sessions' = Place(sessions, done, "active")
        /\ errors' = (errors \/ done # opened)
        /\ UNCHANGED <<from, to, at, opened, closed, settled>>
    BY <1>7 DEF StoreOpened
  <2>2. PassOK'
    <3>1. step' \in PassSteps /\ errors' \in BOOLEAN
      BY <2>1 DEF PassSteps
    <3>2. at' <= to' /\ step # "idle"
      BY <1>1, <2>1 DEF PassOK
    <3> QED
      BY <1>1, <1>3, <2>1, <3>1, <3>2 DEF PassOK
  <2>3. errors' = FALSE => errors = FALSE /\ done = opened
    BY <1>1, <2>1 DEF PassOK
  <2>4. ChunksFilled'
    BY <1>1, <1>2, <1>3, <2>1, <2>3 DEF ChunksFilled, Due, RowsStay
  <2>5. ChunkFilled'
    <3>1. done = opened => \A s \in opened : sessions'[s] # "none"
      BY <1>1, <2>1 DEF Place, TypeInv, TypeOK, PassOK
    <3> QED
      BY <1>1, <1>3, <2>1, <2>3, <3>1 DEF ChunkFilled, ChunkFetched, Due, Chunk
  <2> QED
    BY <1>2, <2>1, <2>2, <2>4, <2>5 DEF FillInv, PassInv, ChunkFetched
<1>8. ASSUME NEW done \in SUBSET closed, StoreClosed(done)
      PROVE  FillInv'
  <2>1. /\ step = "closed" /\ step' = "rest"
        /\ errors' = (errors \/ done # closed)
        /\ UNCHANGED <<from, to, at, opened, closed, settled>>
    BY <1>8 DEF StoreClosed
  <2>2. PassOK'
    <3>1. step' \in PassSteps /\ errors' \in BOOLEAN
      BY <2>1 DEF PassSteps
    <3>2. at' <= to' /\ step # "idle"
      BY <1>1, <2>1 DEF PassOK
    <3> QED
      BY <1>1, <1>3, <2>1, <3>1, <3>2 DEF PassOK
  <2>3. errors' = FALSE => errors = FALSE
    BY <1>1, <2>1 DEF PassOK
  <2>4. ChunksFilled'
    BY <1>1, <1>2, <1>3, <2>1, <2>3 DEF ChunksFilled, Due, RowsStay
  <2>5. ChunkFilled'
    BY <1>1, <1>2, <1>3, <2>1, <2>3 DEF ChunkFilled, Due, RowsStay, Chunk
  <2> QED
    BY <1>2, <2>1, <2>2, <2>4, <2>5 DEF FillInv, PassInv, ChunkFetched
<1>9. CASE NextChunk
  <2>1. /\ step = "rest" /\ at' = Chunk.toBlock + 1 /\ step' = IF at' <= to THEN "fetch" ELSE "idle"
        /\ opened' = {} /\ closed' = {} /\ UNCHANGED <<vars, from, to, errors, settled>>
    BY <1>9 DEF NextChunk
  <2>2. at \in Nat /\ to \in Nat /\ at <= Chunk.toBlock /\ Chunk.toBlock <= to /\ Chunk.toBlock \in Nat
    BY <1>1, <2>1, ChunkIsWithin DEF PassOK
  <2>3. PassOK'
    <3>1. step' \in PassSteps
      BY <2>1 DEF PassSteps
    <3>2. at' \in Nat /\ at' <= to + 1 /\ (step' # "idle" => at' <= to)
      BY <2>1, <2>2
    <3> QED
      BY <1>1, <1>3, <2>1, <3>1, <3>2 DEF PassOK
  <2>4. ChunksFilled'
    <3> SUFFICES ASSUME errors = FALSE, NEW s \in Sessions, Due(s, from, Chunk.toBlock)
                 PROVE  sessions[s] # "none"
      <4>1. at' - 1 = Chunk.toBlock
        BY <2>1, <2>2
      <4> QED
        BY <1>3, <2>1, <4>1 DEF ChunksFilled, Due, vars, tables
    <3>1. Due(s, from, at - 1) \/ Due(s, at, Chunk.toBlock)
      BY <1>3, <2>2 DEF Due
    <3> QED
      BY <1>1, <2>1, <3>1 DEF ChunksFilled, ChunkFilled
  <2> QED
    BY <1>2, <2>1, <2>3, <2>4 DEF FillInv, PassInv, ChunkFetched, ChunkFilled
<1>10. CASE PassStops
  <2>1. /\ step' = "idle" /\ opened' = {} /\ closed' = {} /\ errors' = TRUE
        /\ UNCHANGED <<vars, from, to, at, settled>>
    BY <1>10 DEF PassStops
  <2>2. PassOK'
    <3>1. step' \in PassSteps /\ errors' \in BOOLEAN
      BY <2>1 DEF PassSteps
    <3> QED
      BY <1>1, <1>3, <2>1, <3>1 DEF PassOK
  <2> QED
    BY <1>2, <2>1, <2>2 DEF FillInv, PassInv, ChunksFilled, ChunkFetched, ChunkFilled
<1> QED
  BY <1>5, <1>6, <1>7, <1>8, <1>9, <1>10 DEF PassStep

LEMMA FillStep == FillInv /\ [BackfillNext]_bothVars => FillInv'
<1> SUFFICES ASSUME FillInv, [BackfillNext]_bothVars
             PROVE  FillInv'
  OBVIOUS
<1>1. CASE UNCHANGED bothVars
  <2>1. TypeInv'
    BY <1>1, TypeStep DEF FillInv, bothVars
  <2>2. UNCHANGED <<head, openedAt, sessions, step, from, to, at, opened, closed, errors, settled>>
    BY <1>1 DEF bothVars, vars, chain, tables, pass
  <2>3. Chunk' = Chunk /\ \A s \in Sessions : \A a, b : Due(s, a, b)' = Due(s, a, b)
    BY <2>2 DEF Chunk, Due
  <2>4. PassOK'
    BY <2>2, Zenon DEF FillInv, PassInv, PassOK
  <2> QED
    BY <2>1, <2>2, <2>4 DEF FillInv, PassInv, ChunksFilled, ChunkFetched, ChunkFilled, Due, Chunk
<1> QED
  BY <1>1, LiveStepFills, PassStepFills DEF BackfillNext

LEMMA PassEndsFull ==
  ASSUME FillInv, [BackfillNext]_bothVars,
         step = "rest", step' = "idle", errors' = FALSE,
         NEW s \in Sessions, openedAt[s] # 0, from <= openedAt[s], openedAt[s] <= Lesser(to, settled)
  PROVE  sessions[s] # "none"
<1>1. NextChunk
  <2>1. step' # step
    OBVIOUS
  <2>2. ~UNCHANGED bothVars /\ ~UNCHANGED pass
    BY <2>1 DEF bothVars, pass
  <2>3. ~PassStops
    BY DEF PassStops
  <2> QED
    BY <2>2, <2>3 DEF BackfillNext, PassStep, Request, FetchChunk, StoreOpened, StoreClosed
<1>2. PassOK /\ ChunksFilled /\ ChunkFilled /\ TypeInv
  BY DEF FillInv, PassInv
<1>3. /\ at \in Nat /\ to \in Nat /\ from \in Nat /\ settled \in Int
      /\ Chunk.toBlock \in Nat /\ at <= Chunk.toBlock /\ Chunk.toBlock <= to
  BY <1>2, ChunkIsWithin DEF PassOK
<1>4. errors = FALSE /\ ~(Chunk.toBlock + 1 <= to)
  BY <1>1 DEF NextChunk
<1>5. openedAt[s] \in Nat /\ openedAt[s] <= to /\ openedAt[s] <= settled
  BY <1>2, <1>3 DEF TypeInv, TypeOK, Lesser
<1>6. Due(s, from, at - 1) \/ Due(s, at, Chunk.toBlock)
  BY <1>3, <1>4, <1>5 DEF Due
<1> QED
  BY <1>2, <1>4, <1>6 DEF ChunksFilled, ChunkFilled

(***************************************************************************)
(* A pass that reports its range done without an error has left no session *)
(* without a row that was opened in it in a block confirmed when it began, *)
(* for any range and chunk, and whatever the live runs, their failures and *)
(* the operators' resets did meanwhile.                                    *)
(***************************************************************************)
THEOREM CleanPassesFill == BackfillSpec => CleanPassFills
<1> DEFINE Full == step = "rest" /\ step' = "idle" /\ ~errors' =>
             \A s \in Sessions :
               openedAt[s] # 0 /\ from <= openedAt[s] /\ openedAt[s] <= Lesser(to, settled)
                 => sessions[s] # "none"
<1>1. BackfillInit => FillInv
  BY FillStarts
<1>2. FillInv /\ [BackfillNext]_bothVars => FillInv'
  BY FillStep
<1>3. FillInv => BackfillTypeOK
  <2> SUFFICES ASSUME FillInv
               PROVE  BackfillTypeOK
    OBVIOUS
  <2>1. at \in 0 .. to + 1
    BY DEF FillInv, PassInv, PassOK
  <2> QED
    BY <2>1, Zenon DEF FillInv, TypeInv, PassInv, PassOK, BackfillTypeOK
<1>4. FillInv /\ FillInv' /\ [BackfillNext]_bothVars => Full
  <2> SUFFICES ASSUME FillInv, FillInv', [BackfillNext]_bothVars, step = "rest", step' = "idle", ~errors'
               PROVE  \A s \in Sessions :
                        openedAt[s] # 0 /\ from <= openedAt[s] /\ openedAt[s] <= Lesser(to, settled)
                          => sessions[s] # "none"
    OBVIOUS
  <2>1. errors' = FALSE
    BY DEF FillInv, PassInv, PassOK
  <2> QED
    BY <2>1, PassEndsFull
<1> QED
  BY <1>1, <1>2, <1>3, <1>4, PTL DEF BackfillSpec, CleanPassFills
=============================================================================
