--------------------------- MODULE HealthVerdict ----------------------------
(***************************************************************************)
(* What /health concludes from the rows the sync tick leaves behind.  It   *)
(* asks no RPC: the head it knows is the one the last tick wrote, so a     *)
(* dead sync freezes head and cursor together.  Time is counted in blocks. *)
(***************************************************************************)
EXTENDS Integers

CONSTANTS
  BUFFER,          \* CONFIRMATION_BUFFER
  RANGE_CAP,       \* MAX_LOG_RANGE
  BEHIND_DEGRADED, BEHIND_ERROR,   \* blocks (50, 500)
  BUILDER_DEGRADED, BUILDER_ERROR, \* blocks (100, 500)
  STALE, VERY_STALE,               \* blocks of wall clock (120 s, 300 s)
  STUCK_BEHIND,    \* blocks (30)
  MAX_TICK,        \* blocks a tick lasts at most, its RPC calls timing out
  MaxNow           \* bound: blocks mined

ASSUME HealthAssumption ==
  /\ BUFFER \in Nat /\ RANGE_CAP \in Nat /\ MAX_TICK \in Nat /\ MaxNow \in Nat
  /\ STALE \in Nat /\ VERY_STALE \in Nat /\ STUCK_BEHIND \in Nat
  /\ BEHIND_DEGRADED \in Nat /\ BEHIND_ERROR \in Nat
  /\ BUILDER_DEGRADED \in Nat /\ BUILDER_ERROR \in Nat

VARIABLES
  blockNow,     \* the head of the chain, and the clock
  mirrorRow, eventRow, currentRow, builderRow, \* last_block, last_event_block, current_block, builder cursor
  stampRow,     \* last_sync_ts, -1 when there is none
  tickHead      \* the head the running tick has read, -1 when none runs

healthVars == <<blockNow, mirrorRow, eventRow, currentRow, builderRow, stampRow, tickHead>>

Smaller(a, b) == IF a <= b THEN a ELSE b

HealthInit ==
  /\ blockNow = BUFFER + 2
  /\ mirrorRow = 1 /\ eventRow = 1 /\ currentRow = 0
  /\ builderRow \in {0, 1}
  /\ stampRow = -1 /\ tickHead = -1

BlockPasses ==
  /\ blockNow < MaxNow
  /\ tickHead # -1 => blockNow < tickHead + MAX_TICK
  /\ blockNow' = blockNow + 1
  /\ UNCHANGED <<mirrorRow, eventRow, currentRow, builderRow, stampRow, tickHead>>

TickReadsHead ==
  /\ tickHead = -1
  /\ tickHead' = blockNow /\ currentRow' = blockNow
  /\ UNCHANGED <<blockNow, mirrorRow, eventRow, builderRow, stampRow>>

Planned == Smaller(eventRow + RANGE_CAP, tickHead - BUFFER)

\* A tick that finds nothing to plan, or throws, leaves without a stamp.
TickLeaves ==
  /\ tickHead # -1
  /\ tickHead' = -1
  /\ UNCHANGED <<blockNow, mirrorRow, eventRow, currentRow, builderRow, stampRow>>

\* A tick that dies between the two writes moves the cursor only.
TickMovesCursor ==
  /\ tickHead # -1 /\ Planned > eventRow
  /\ eventRow' = Planned
  /\ tickHead' = -1
  /\ UNCHANGED <<blockNow, mirrorRow, currentRow, builderRow, stampRow>>

TickCompletes ==
  /\ tickHead # -1 /\ Planned > eventRow
  /\ eventRow' = Planned /\ mirrorRow' = Planned
  /\ stampRow' = blockNow /\ tickHead' = -1
  /\ UNCHANGED <<blockNow, currentRow, builderRow>>

\* A failed getLogs holds the cursor, and the tick is stamped all the same.
TickHolds ==
  /\ tickHead # -1 /\ Planned > eventRow
  /\ stampRow' = blockNow /\ tickHead' = -1
  /\ UNCHANGED <<blockNow, mirrorRow, eventRow, currentRow, builderRow>>

BuilderAdvances ==
  /\ builderRow' = blockNow - BUFFER /\ builderRow # builderRow'
  /\ UNCHANGED <<blockNow, mirrorRow, eventRow, currentRow, stampRow, tickHead>>

HealthNext ==
  \/ BlockPasses \/ TickReadsHead \/ TickLeaves \/ TickMovesCursor
  \/ TickCompletes \/ TickHolds \/ BuilderAdvances
-----------------------------------------------------------------------------
\* An unknown head is taken to be the mirror.
KnownHead    == IF currentRow = 0 THEN mirrorRow ELSE currentRow
BlocksBehind == KnownHead - mirrorRow
OlderThan(t) == stampRow = -1 \/ blockNow - stampRow > t

EventCursorStuck ==
  stampRow # -1 /\ OlderThan(STALE) /\ eventRow > 0 /\ KnownHead - eventRow > STUCK_BEHIND

BuilderStatus ==
  IF builderRow = 0 \/ KnownHead = 0 THEN "none"
  ELSE IF KnownHead - builderRow >= BUILDER_ERROR THEN "error"
  ELSE IF KnownHead - builderRow >= BUILDER_DEGRADED THEN "degraded" ELSE "ok"

\* Mutant: the verdict of before the wall clock, from block numbers alone.
Degraded_byBlocks ==
  EventCursorStuck \/ BuilderStatus = "degraded" \/ BlocksBehind >= BEHIND_DEGRADED

Failing == OlderThan(VERY_STALE) \/ BlocksBehind >= BEHIND_ERROR \/ BuilderStatus = "error"

Degraded ==
  OlderThan(STALE) \/ EventCursorStuck \/ BuilderStatus = "degraded" \/ BlocksBehind >= BEHIND_DEGRADED

HealthStatus == IF Failing THEN "error" ELSE IF Degraded THEN "degraded" ELSE "ok"
-----------------------------------------------------------------------------
(***************************************************************************)
(* A dead sync does not look healthy: whatever ticks held, died, threw or  *)
(* never ran, a verdict of ok bounds how far the mirrored cursor and a     *)
(* configured builder cursor are behind the real head, though /health only *)
(* knows a head as old as the rows.                                        *)
(***************************************************************************)
OkMeansFresh ==
  HealthStatus = "ok" =>
    /\ blockNow - mirrorRow < BEHIND_DEGRADED + STALE + MAX_TICK
    /\ builderRow # 0 => blockNow - builderRow < BUILDER_DEGRADED + STALE + MAX_TICK
=============================================================================
