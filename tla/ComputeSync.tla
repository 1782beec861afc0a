---------------------------- MODULE ComputeSync -----------------------------
(***************************************************************************)
(* The compute indexer: sync() of src/src/sync/compute.ts, its plan.ts and *)
(* the event processors of src/src/sync/compute-events.ts, run by any      *)
(* number of runners against one D1 database and one growing, reorganising chain.    *)
(*                                                                         *)
(* A runner is one execution context that may be inside sync(): the alarm  *)
(* of the SyncCoordinator, its forced cron tick, its /trigger, or a worker *)
(* serving /trigger-sync, /sync/events or /sync/reset-events.  No lock is  *)
(* taken, so runners interleave at every await; each action below is the   *)
(* code between two awaits that touch shared state.                        *)
(***************************************************************************)
EXTENDS Integers, FiniteSets

CONSTANTS
  CONFIRMATION_BUFFER, \* blocks below the head that are never indexed (5)
  MAX_LOG_RANGE, \* most blocks one eth_getLogs call asks for (50000)
  Sessions,     \* Morpheus compute sessions
  Wallets,      \* wallets that move MOR
  Runners,      \* execution contexts that can be inside sync()
  StartCursors, \* values last_event_block may have when the model starts
  ResetBlocks,  \* blocks an operator may pass to reset-events (0: none given)
  RESET_BACK,   \* a reset without a block rewinds to head - RESET_BACK (100)
  MaxHead       \* bound: the chain stops growing here

ASSUME ConfirmationBufferAssumption == CONFIRMATION_BUFFER \in Nat
ASSUME MaxLogRangeAssumption == MAX_LOG_RANGE \in Nat \ {0}
ASSUME ResetBackAssumption    == RESET_BACK \in Nat /\ RESET_BACK > CONFIRMATION_BUFFER
ASSUME ResetBlocksAssumption  == ResetBlocks \subseteq Nat
ASSUME MaxHeadAssumption      == MaxHead \in Nat
ASSUME StartCursorsAssumption == StartCursors \subseteq Nat

(***************************************************************************)
(* The pure decisions (plan.ts): which block range a tick fetches, and     *)
(* whether its cursor may move.                                            *)
(***************************************************************************)
Lesser(a, b) == IF a <= b THEN a ELSE b

\* Mutant: scans the block of the cursor once more.
planFrom_overlapping(lastEventBlock, currentBlock) ==
  IF lastEventBlock > 0 THEN lastEventBlock
                        ELSE currentBlock - CONFIRMATION_BUFFER

(***************************************************************************)
(* A cold start (no cursor yet) begins CONFIRMATION_BUFFER blocks back     *)
(* from the head; otherwise the range resumes just past the cursor.        *)
(***************************************************************************)
planFrom(lastEventBlock, currentBlock) ==
  IF lastEventBlock > 0 THEN lastEventBlock + 1
                        ELSE currentBlock - CONFIRMATION_BUFFER

\* Mutant: fetches up to the head itself.
planSyncRange_unconfirmed(lastEventBlock, currentBlock) ==
  LET fromBlock == planFrom(lastEventBlock, currentBlock)
  IN  [fromBlock |-> fromBlock,
       toBlock   |-> Lesser(fromBlock + MAX_LOG_RANGE - 1, currentBlock),
       upToDate  |-> fromBlock > currentBlock]

planSyncRange(lastEventBlock, currentBlock) ==
  LET fromBlock == planFrom(lastEventBlock, currentBlock)
      safeHead  == currentBlock - CONFIRMATION_BUFFER
  IN  IF fromBlock > safeHead
      THEN [fromBlock |-> fromBlock, toBlock |-> safeHead, upToDate |-> TRUE]
      ELSE [fromBlock |-> fromBlock,
            toBlock   |-> Lesser(fromBlock + MAX_LOG_RANGE - 1, safeHead),
            upToDate  |-> FALSE]

\* Mutant: a session that could not be stored does not hold the cursor.
shouldAdvanceCursor_unprocessed(fetchFailed, sessionErrors) == ~fetchFailed

\* Mutant: a failed eth_getLogs does not hold the cursor.
shouldAdvanceCursor_unfetched(fetchFailed, sessionErrors) == ~sessionErrors

shouldAdvanceCursor(fetchFailed, sessionErrors) ==
  ~fetchFailed /\ ~sessionErrors
-----------------------------------------------------------------------------
VARIABLES
  \* the chain: its head, and the block of each event (0: not on chain)
  head, openedAt, closedAt, movedAt,
  \* D1: the sessions and mor_holders tables
  sessions, holders,
  \* D1: sync_state rows last_event_block, last_block, current_block, and
  \* last_sync_ts, in blocks of chain time
  cursor, lastBlock, currentBlock, lastSyncTs,
  \* the locals of the sync() each runner is inside
  pc, seenHead, range, openedLogs, closedLogs, morLogs,
  fetchFailed, sessionErrors,
  \* history: blocks up to base were skipped on purpose (where the cursor
  \* was first planted, or where an operator moved it forward), the start
  \* of the range held last and not retried yet (0: none), and whether a run
  \* ever began while another was under way
  base, heldFrom, overlapped

chain    == <<head, openedAt, closedAt, movedAt>>
tables   == <<sessions, holders>>
progress == <<cursor, lastBlock, base, heldFrom, overlapped>>
clocks   == <<currentBlock, lastSyncTs>>
logs     == <<openedLogs, closedLogs, morLogs>>
flags    == <<fetchFailed, sessionErrors>>
locals   == <<seenHead, range, logs, flags>>
vars     == <<chain, tables, progress, clocks, pc, locals>>

Range == [fromBlock : Int, toBlock : Int, upToDate : BOOLEAN]

NoRange == [fromBlock |-> 0, toBlock |-> 0, upToDate |-> TRUE]

Steps == {"idle", "head", "plan", "fetch", "opened", "closed", "market",
          "transfers", "advance", "mirror", "stamp"}

Init ==
  /\ head = RESET_BACK + 1
  /\ openedAt = [s \in Sessions |-> 0]
  /\ closedAt = [s \in Sessions |-> 0]
  /\ movedAt  = [w \in Wallets  |-> 0]
  /\ sessions = [s \in Sessions |-> "none"]
  /\ holders  = {}
  /\ cursor \in StartCursors
  /\ lastBlock = cursor
  /\ currentBlock = 0
  /\ lastSyncTs = 0
  /\ pc = [r \in Runners |-> "idle"]
  /\ seenHead = [r \in Runners |-> 0]
  /\ range = [r \in Runners |-> NoRange]
  /\ openedLogs = [r \in Runners |-> {}]
  /\ closedLogs = [r \in Runners |-> {}]
  /\ morLogs    = [r \in Runners |-> {}]
  /\ fetchFailed   = [r \in Runners |-> FALSE]
  /\ sessionErrors = [r \in Runners |-> FALSE]
  /\ base = cursor
  /\ heldFrom = 0
  /\ overlapped = FALSE
-----------------------------------------------------------------------------
(***************************************************************************)
(* The chain (external).  A block carries any set of new events; a session *)
(* may open and close in one block.  A reorganisation drops events of      *)
(* blocks the indexer does not yet count as confirmed.                     *)
(***************************************************************************)
Place(f, S, n) == [x \in DOMAIN f |-> IF x \in S THEN n ELSE f[x]]

Mine(O, C, M) ==
  /\ head < MaxHead
  /\ head' = head + 1
  /\ \A s \in O : openedAt[s] = 0
  /\ \A s \in C : closedAt[s] = 0 /\ (openedAt[s] # 0 \/ s \in O)
  /\ \A w \in M : movedAt[w] = 0
  /\ openedAt' = Place(openedAt, O, head + 1)
  /\ closedAt' = Place(closedAt, C, head + 1)
  /\ movedAt'  = Place(movedAt, M, head + 1)
  /\ UNCHANGED <<tables, progress, clocks, pc, locals>>

Unconfirmed(n) == n > head - CONFIRMATION_BUFFER

Reorg(O, C, M) ==
  /\ \A s \in O : Unconfirmed(openedAt[s]) /\ (closedAt[s] # 0 => s \in C)
  /\ \A s \in C : Unconfirmed(closedAt[s])
  /\ \A w \in M : Unconfirmed(movedAt[w])
  /\ openedAt' = Place(openedAt, O, 0)
  /\ closedAt' = Place(closedAt, C, 0)
  /\ movedAt'  = Place(movedAt, M, 0)
  /\ UNCHANGED <<head, tables, progress, clocks, pc, locals>>
-----------------------------------------------------------------------------
Goto(r, from, to) ==
  /\ pc[r] = from
  /\ pc' = [pc EXCEPT ![r] = to]

Cleared(f, R, v) == [r \in Runners |-> IF r \in R THEN v ELSE f[r]]

\* The sync() of every runner in R returns or throws, and its locals are gone.
Leave(R) ==
  /\ pc' = Cleared(pc, R, "idle")
  /\ seenHead' = Cleared(seenHead, R, 0)
  /\ range' = Cleared(range, R, NoRange)
  /\ openedLogs' = Cleared(openedLogs, R, {})
  /\ closedLogs' = Cleared(closedLogs, R, {})
  /\ morLogs' = Cleared(morLogs, R, {})
  /\ fetchFailed' = Cleared(fetchFailed, R, FALSE)
  /\ sessionErrors' = Cleared(sessionErrors, R, FALSE)

Enter(r) ==
  /\ Goto(r, "idle", "head")
  /\ overlapped' = (overlapped \/ \E q \in Runners \ {r} : pc[q] # "idle")

Start(r) ==
  /\ Enter(r)
  /\ UNCHANGED <<chain, tables, cursor, lastBlock, base, heldFrom, clocks, locals>>

(***************************************************************************)
(* Any uncaught throw (no endpoint answers eth_blockNumber, D1 rejects a   *)
(* sync_state write, a bid or diamond-cut batch fails) leaves sync() at    *)
(* once, and the death of an isolate ends all the runs R inside it.  What  *)
(* was written stays written.                                              *)
(***************************************************************************)
Abort(R) ==
  /\ Leave(R)
  /\ UNCHANGED <<chain, tables, progress, clocks>>

ReadHead(r) ==
  /\ Goto(r, "head", "plan")
  /\ seenHead' = [seenHead EXCEPT ![r] = head]
  /\ currentBlock' = head
  /\ UNCHANGED <<chain, tables, progress, lastSyncTs, range, logs, flags>>

UpToDate(r) ==
  /\ pc[r] = "plan"
  /\ planSyncRange(cursor, seenHead[r]).upToDate
  /\ Leave({r})
  /\ UNCHANGED <<chain, tables, progress, clocks>>

PlanRange(r) ==
  /\ Goto(r, "plan", "fetch")
  /\ ~planSyncRange(cursor, seenHead[r]).upToDate
  /\ range' = [range EXCEPT ![r] = planSyncRange(cursor, seenHead[r])]
  /\ heldFrom' = 0
  /\ UNCHANGED <<chain, tables, cursor, lastBlock, base, overlapped, clocks, seenHead, logs, flags>>

InRange(n, p) == n # 0 /\ p.fromBlock <= n /\ n <= p.toBlock

EventsIn(at, p) == {x \in DOMAIN at : InRange(at[x], p)}

Fetched(ok, at, p) == IF ok THEN EventsIn(at, p) ELSE {}

(***************************************************************************)
(* Both eth_getLogs calls.  A call that throws leaves its logs empty and   *)
(* raises fetchFailed; the logs of the other call are processed anyway.    *)
(***************************************************************************)
FetchLogs(r, diamondOk, morOk) ==
  /\ Goto(r, "fetch", "opened")
  /\ openedLogs' = [openedLogs EXCEPT ![r] = Fetched(diamondOk, openedAt, range[r])]
  /\ closedLogs' = [closedLogs EXCEPT ![r] = Fetched(diamondOk, closedAt, range[r])]
  /\ morLogs'    = [morLogs EXCEPT ![r] = Fetched(morOk, movedAt, range[r])]
  /\ fetchFailed' = [fetchFailed EXCEPT ![r] = ~(diamondOk /\ morOk)]
  /\ UNCHANGED <<chain, tables, progress, clocks, seenHead, range, sessionErrors>>

(***************************************************************************)
(* INSERT OR REPLACE: the row becomes active whatever it was.  A session   *)
(* whose getSession came back null is skipped, and so is a D1 batch that   *)
(* fails; both report a session error, as does any throw after the writes. *)
(***************************************************************************)
processSessionOpened(r, done, ok) ==
  /\ Goto(r, "opened", "closed")
  /\ ok => done = openedLogs[r]
  /\ sessions' = Place(sessions, done, "active")
  /\ sessionErrors' = [sessionErrors EXCEPT ![r] = @ \/ ~ok]
  /\ UNCHANGED <<chain, holders, progress, clocks, seenHead, range, logs, fetchFailed>>

(***************************************************************************)
(* UPDATE ... WHERE id: a session whose row does not exist is left alone.  *)
(***************************************************************************)
processSessionClosed(r, done) ==
  /\ Goto(r, "closed", "market")
  /\ sessions' = Place(sessions, {s \in done : sessions[s] # "none"}, "closed")
  /\ sessionErrors' = [sessionErrors EXCEPT ![r] = @ \/ done # closedLogs[r]]
  /\ UNCHANGED <<chain, holders, progress, clocks, seenHead, range, logs, fetchFailed>>

(***************************************************************************)
(* Bids, diamond cuts and provider discovery, whose tables other modules   *)
(* model.  Here they only matter for the throw, which is Abort.            *)
(***************************************************************************)
processMarket(r) ==
  /\ Goto(r, "market", "transfers")
  /\ UNCHANGED <<chain, tables, progress, clocks, locals>>

(***************************************************************************)
(* A D1 batch of holder upserts that fails is swallowed: no error is       *)
(* recorded, and the cursor moves past those transfers.                    *)
(***************************************************************************)
processMorTransfers(r, done) ==
  /\ Goto(r, "transfers", "advance")
  /\ holders' = holders \cup done
  /\ UNCHANGED <<chain, sessions, progress, clocks, locals>>

Advances(r) == shouldAdvanceCursor(fetchFailed[r], sessionErrors[r])

(***************************************************************************)
(* The cursor is written unconditionally: nothing compares it with what    *)
(* another runner has written since this one read it.                      *)
(***************************************************************************)
AdvanceCursor(r) ==
  /\ Goto(r, "advance", "mirror")
  /\ Advances(r)
  /\ cursor' = range[r].toBlock
  /\ base' = IF cursor = 0 THEN range[r].fromBlock - 1 ELSE base
  /\ UNCHANGED <<chain, tables, lastBlock, heldFrom, overlapped, clocks, locals>>

HoldCursor(r) ==
  /\ Goto(r, "advance", "stamp")
  /\ ~Advances(r)
  /\ heldFrom' = range[r].fromBlock
  /\ UNCHANGED <<chain, tables, cursor, lastBlock, base, overlapped, clocks, locals>>

MirrorCursor(r) ==
  /\ Goto(r, "mirror", "stamp")
  /\ lastBlock' = range[r].toBlock
  /\ UNCHANGED <<chain, tables, cursor, base, heldFrom, overlapped, clocks, locals>>

StampSync(r) ==
  /\ pc[r] = "stamp"
  /\ lastSyncTs' = head
  /\ Leave({r})
  /\ UNCHANGED <<chain, tables, progress, currentBlock>>

(***************************************************************************)
(* /sync/reset-events?block=b: initSync writes both cursor rows in one     *)
(* batch, then the route runs sync() itself.                               *)
(***************************************************************************)
\* Mutant: a reset without a block rewinds from the cursor, not the head.
resetTo_fromCursor(b) == IF b # 0 THEN b ELSE cursor - RESET_BACK

Greater(a, b) == IF a >= b THEN a ELSE b

resetTo(b) == IF b # 0 THEN b ELSE head - RESET_BACK

initSync(r, b) ==
  /\ Enter(r)
  /\ cursor' = resetTo(b)
  /\ lastBlock' = resetTo(b)
  /\ base' = IF resetTo(b) > cursor THEN Greater(base, resetTo(b)) ELSE base
  /\ heldFrom' = 0
  /\ UNCHANGED <<chain, tables, clocks, locals>>
-----------------------------------------------------------------------------
\* One step of the sync() runner r is inside, in the order the code takes them.
SyncStep(r) ==
  \/ ReadHead(r)
  \/ UpToDate(r)
  \/ PlanRange(r)
  \/ \E diamondOk, morOk \in BOOLEAN : FetchLogs(r, diamondOk, morOk)
  \/ \E done \in SUBSET openedLogs[r], ok \in BOOLEAN : processSessionOpened(r, done, ok)
  \/ \E done \in SUBSET closedLogs[r] : processSessionClosed(r, done)
  \/ processMarket(r)
  \/ \E done \in SUBSET morLogs[r] : processMorTransfers(r, done)
  \/ AdvanceCursor(r)
  \/ HoldCursor(r)
  \/ MirrorCursor(r)
  \/ StampSync(r)

ChainStep ==
  \E O \in SUBSET Sessions, C \in SUBSET Sessions : \E M \in SUBSET Wallets :
    Mine(O, C, M) \/ Reorg(O, C, M)

Next ==
  \/ ChainStep
  \/ \E r \in Runners : Start(r) \/ SyncStep(r)
  \/ \E R \in SUBSET Runners : Abort(R)
  \/ \E r \in Runners, b \in ResetBlocks : initSync(r, b)

Spec == Init /\ [][Next]_vars
-----------------------------------------------------------------------------
TypeOK ==
  /\ head \in Nat
  /\ openedAt \in [Sessions -> Nat] /\ closedAt \in [Sessions -> Nat]
  /\ movedAt \in [Wallets -> Nat]
  /\ sessions \in [Sessions -> {"none", "active", "closed"}]
  /\ holders \subseteq Wallets
  /\ cursor \in Nat /\ lastBlock \in Nat /\ base \in Nat /\ heldFrom \in Nat
  /\ overlapped \in BOOLEAN
  /\ currentBlock \in Nat /\ lastSyncTs \in Nat
  /\ pc \in [Runners -> Steps]
  /\ seenHead \in [Runners -> Nat]
  /\ range \in [Runners -> Range]
  /\ openedLogs \in [Runners -> SUBSET Sessions]
  /\ closedLogs \in [Runners -> SUBSET Sessions]
  /\ morLogs \in [Runners -> SUBSET Wallets]
  /\ fetchFailed \in [Runners -> BOOLEAN] /\ sessionErrors \in [Runners -> BOOLEAN]

(***************************************************************************)
(* Gap-proof for openings: every session opened after base and at or below *)
(* last_event_block has a row, whatever fetches, batches or runners failed *)
(* and however many runners and resets interleave.                         *)
(***************************************************************************)
OpenedGapProof ==
  \A s \in Sessions :
    base < openedAt[s] /\ openedAt[s] <= cursor => sessions[s] # "none"

(***************************************************************************)
(* Gap-proof for closings: a session opened after base whose SessionClosed *)
(* lies at or below last_event_block is closed in the table, as long as no *)
(* two runs of sync() overlap (they die, hold, are reset and hand over to  *)
(* each other as they like).  INSERT OR REPLACE ... is_active = 1 of a run *)
(* that planned earlier is what an overlap undoes it with.                 *)
(***************************************************************************)
ClosedGapProof ==
  ~overlapped =>
    \A s \in Sessions :
      base < openedAt[s] /\ closedAt[s] # 0 /\ closedAt[s] <= cursor
        => sessions[s] = "closed"

(***************************************************************************)
(* The confirmation buffer: no reorganisation can take away an event the   *)
(* table already reflects, though runners act on heads they read earlier.  *)
(***************************************************************************)
IndexedIsFinal ==
  \A s \in Sessions :
    /\ sessions[s] # "none"   => openedAt[s] # 0 /\ ~Unconfirmed(openedAt[s])
    /\ sessions[s] = "closed" => closedAt[s] # 0 /\ ~Unconfirmed(closedAt[s])

(***************************************************************************)
(* While no two runs overlap, a closed session becomes active again only   *)
(* while its opening is ahead of the cursor, that is while its range is    *)
(* being scanned once more (a held range, a reset) and its closing will be *)
(* applied again.                                                          *)
(***************************************************************************)
Revived(s) == sessions[s] = "closed" /\ sessions'[s] = "active"

NoResurrection ==
  [][~overlapped' => \A s \in Sessions : Revived(s) => cursor < openedAt[s]]_vars

(***************************************************************************)
(* The last_block mirror that /health reports and the cron watchdog judges *)
(* by never claims a block the real cursor has not reached.                *)
(***************************************************************************)
MirrorBehindCursor == ~overlapped => lastBlock <= cursor

(***************************************************************************)
(* Only an operator's reset moves last_event_block backwards.              *)
(***************************************************************************)
ResetOrForward ==
  ~overlapped' /\ cursor' < cursor => \E r \in Runners : pc[r] = "idle" /\ pc'[r] = "head"

OnlyResetRewinds == [][ResetOrForward]_vars

(***************************************************************************)
(* "Holding the cursor retries this exact range next tick": the range      *)
(* planned next after a held one, by whichever run plans next, begins      *)
(* where that one began.                                                   *)
(***************************************************************************)
RetriesHeld ==
  \A r \in Runners :
    ~overlapped' /\ heldFrom # 0 /\ pc[r] = "plan" /\ pc'[r] = "fetch"
      => range'[r].fromBlock = heldFrom

HeldRangeIsRetried == [][RetriesHeld]_vars

(***************************************************************************)
(* What a step of a run that meets no other may never do: bring a row back *)
(* to life, rewind the cursor without a reset, leave a held range behind,  *)
(* or let the mirror pass the cursor.                                      *)
(***************************************************************************)
OneWriterSteps ==
  []MirrorBehindCursor /\ NoResurrection /\ OnlyResetRewinds /\ HeldRangeIsRetried
=============================================================================
