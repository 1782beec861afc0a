------------------------------ MODULE Warehouse -------------------------------
(***************************************************************************)
(* The copy of the tables in BigQuery: rows are shipped as the sync writes *)
(* them, by writes that swallow their failure, and page by page by a caller *)
(* who walks POST /mor/v1/bq/backfill until it answers written = 0; and    *)
(* the pulse the minute cron dumps, spaced by a stamp in KV                *)
(* (src/src/utils/bigquery/, src/src/handlers/bq.ts, src/src/db/ops.ts,    *)
(* src/src/sync/warehouse-dump.ts).  A row is its key and a version.       *)
(***************************************************************************)
EXTENDS Integers, FiniteSets

CONSTANTS
  Keys,        \* the keys of a table, numbers in the order of its walk
  Versions,    \* bound on the versions of a row: 1 is written, 2 changed once
  LIMIT,       \* rows of a page
  MaxRefusals, \* bound on the pages BigQuery does not acknowledge
  Ticks,       \* runs of dumpWarehousePulse
  PULSE_AGE,   \* NETWORK_INTERVAL_MS
  LAG,         \* a run has read its stamp within this time of its start
  LastPulse    \* bound on the pulse's clock

ASSUME WarehouseAssumption ==
  /\ Keys \subseteq Nat \ {0} /\ IsFiniteSet(Keys)
  /\ {Versions, LIMIT} \subseteq Nat \ {0}
  /\ {MaxRefusals, PULSE_AGE, LAG, LastPulse} \subseteq Nat

VARIABLES
  d1,       \* the table: the version of each row, 0 before it is written
  unsent,   \* rows a sync has written and not yet shipped
  bq,       \* the versions BigQuery holds
  walk,     \* the caller's walk: "none", "read", "insert" or "done"
  keyed,    \* whether the table's walk has a cursor; economics_history has none
  after,    \* the cursor the caller sends
  page,     \* the rows read for the page
  owed,     \* history: the rows there were when the walk began
  refusals, \* pages not acknowledged so far
  pulseNow, \* the clock of the pulse
  stamp,    \* the KV stamp, -1 before the first
  run,      \* by tick: its step, its start and the stamp it asks for
  pulses,   \* history: the last two starts of a run that dumped, the later first
  lapped    \* history: two runs have been under way at once

copyVars  == <<d1, unsent, bq, walk, keyed, after, page, owed, refusals>>
pulseVars == <<pulseNow, stamp, run, pulses, lapped>>
warehouseVars == <<copyVars, pulseVars>>

NoRun == [step |-> "idle", start |-> 0, asked |-> 0]

WarehouseInit ==
  /\ d1 = [k \in Keys |-> 0] /\ unsent = {} /\ bq = {}
  /\ walk = "none" /\ keyed \in BOOLEAN /\ after = 0 /\ page = {} /\ owed = {} /\ refusals = 0
  /\ pulseNow = 0 /\ stamp = -1 /\ pulses = <<-1, -1>> /\ lapped = FALSE
  /\ run = [t \in Ticks |-> NoRun]

Table == {<<k, d1[k]>> : k \in {j \in Keys : d1[j] > 0}}

\* A sync inserts a row, and keeps it to ship at the end of its batch.
RowWritten(k) ==
  /\ d1[k] = 0
  /\ d1' = [d1 EXCEPT ![k] = 1] /\ unsent' = unsent \union {<<k, 1>>}
  /\ UNCHANGED <<bq, walk, keyed, after, page, owed, refusals>>

\* A close or a retraction changes the row and ships nothing.
RowChanged(k) ==
  /\ d1[k] \in 1 .. Versions - 1
  /\ d1' = [d1 EXCEPT ![k] = @ + 1]
  /\ UNCHANGED <<unsent, bq, walk, keyed, after, page, owed, refusals>>

\* writeBqSafe; where the insert fails, or the tick dies first, the rows stay out.
ShipLive(taken) ==
  /\ unsent # {}
  /\ bq' = IF taken THEN bq \union unsent ELSE bq
  /\ unsent' = {}
  /\ UNCHANGED <<d1, walk, keyed, after, page, owed, refusals>>

BeginWalk ==
  /\ walk \in {"none", "done"}
  /\ walk' = "read" /\ after' = 0 /\ owed' = Table
  /\ UNCHANGED <<d1, unsent, bq, keyed, page, refusals>>

\* Mutant: the page is not ordered by the key.
PageAfter_unordered(cursor) ==
  LET rest == {r \in Table : r[1] > cursor} IN
  {r \in rest : Cardinality({q \in rest : q[1] >= r[1]}) <= LIMIT}

\* WHERE id > ? ORDER BY id LIMIT ?
PageAfter(cursor) ==
  LET rest == {r \in Table : r[1] > cursor} IN
  {r \in rest : Cardinality({q \in rest : q[1] <= r[1]}) <= LIMIT}

\* An empty page is answered with written = 0, which ends the walk.
ReadPage ==
  /\ walk = "read"
  /\ page' = PageAfter(after)
  /\ walk' = IF page' = {} THEN "done" ELSE "insert"
  /\ UNCHANGED <<d1, unsent, bq, keyed, after, owed, refusals>>

\* Mutant: the caller is given the cursor it sent.
NextCursor_sent == after

\* lastId; economics_history has no cursor to go on from.
NextCursor ==
  IF keyed THEN CHOOSE k \in {r[1] : r \in page} : \A r \in page : r[1] <= k ELSE 0

\* insertRows acknowledged: the caller is given the next cursor.
PageShipped ==
  /\ walk = "insert"
  /\ bq' = bq \union page /\ after' = NextCursor
  /\ walk' = "read" /\ page' = {}
  /\ UNCHANGED <<d1, unsent, keyed, owed, refusals>>

\* 500 names no cursor: the caller asks for the same page again.
CursorAfterRefusal == after

\* insertRows throws, whether the rows were taken or not.
PageRefused(taken) ==
  /\ walk = "insert" /\ refusals < MaxRefusals
  /\ bq' = IF taken THEN bq \union page ELSE bq
  /\ after' = CursorAfterRefusal
  /\ walk' = "read" /\ page' = {} /\ refusals' = refusals + 1
  /\ UNCHANGED <<d1, unsent, keyed, owed>>
-----------------------------------------------------------------------------
PulseEnds(t, here) == run[t].step = here /\ run' = [run EXCEPT ![t] = NoRun]

TickStarts(t) ==
  /\ run[t].step = "idle"
  /\ run' = [run EXCEPT ![t] = [step |-> "due", start |-> pulseNow, asked |-> 0]]
  /\ lapped' = (lapped \/ \E u \in Ticks \ {t} : run[u].step # "idle")
  /\ UNCHANGED <<pulseNow, stamp, pulses>>

StampIsOld == stamp = -1 \/ pulseNow - stamp >= PULSE_AGE

\* due: KV gives the stamp, and where it is old one of this moment is asked for.
StampRead(t) ==
  /\ run[t].step = "due"
  /\ run' = [run EXCEPT ![t] = IF StampIsOld THEN [@ EXCEPT !.step = "put", !.asked = pulseNow] ELSE NoRun]
  /\ UNCHANGED <<pulseNow, stamp, pulses, lapped>>

\* "Fail-open=false so a KV hiccup skips a tick".
StampNotRead(t) ==
  /\ PulseEnds(t, "due")
  /\ UNCHANGED <<pulseNow, stamp, pulses, lapped>>

\* The stamp is in KV before anything is dumped.
StampPut(t) ==
  /\ run[t].step = "put"
  /\ run' = [run EXCEPT ![t].step = "dump", ![t].asked = 0]
  /\ stamp' = run[t].asked
  /\ UNCHANGED <<pulseNow, pulses, lapped>>

\* The put throws, whether KV has taken the stamp or not: the tick is skipped too.
StampNotPut(t, taken) ==
  /\ PulseEnds(t, "put") /\ stamp' = IF taken THEN run[t].asked ELSE stamp
  /\ UNCHANGED <<pulseNow, pulses, lapped>>

\* dumpSafe, under the start of the run; a failure is swallowed.
DumpPulse(t) ==
  /\ PulseEnds(t, "dump")
  /\ pulses' = <<run[t].start, pulses[1]>>
  /\ UNCHANGED <<pulseNow, stamp, lapped>>

PulseTime ==
  /\ pulseNow < LastPulse
  /\ \A t \in Ticks : run[t].step = "due" => pulseNow - run[t].start < LAG
  /\ pulseNow' = pulseNow + 1
  /\ UNCHANGED <<stamp, run, pulses, lapped>>

\* The copy and the pulse share no state.
CopyNext ==
  /\ \/ \E k \in Keys : RowWritten(k) \/ RowChanged(k)
     \/ \E taken \in BOOLEAN : ShipLive(taken) \/ PageRefused(taken)
     \/ BeginWalk \/ ReadPage \/ PageShipped
  /\ UNCHANGED pulseVars

PulseNext ==
  /\ \/ \E t \in Ticks : \/ TickStarts(t) \/ StampRead(t) \/ StampNotRead(t)
                         \/ StampPut(t) \/ DumpPulse(t)
                         \/ \E taken \in BOOLEAN : StampNotPut(t, taken)
     \/ PulseTime
  /\ UNCHANGED copyVars
-----------------------------------------------------------------------------
WarehouseTypeOK ==
  /\ d1 \in [Keys -> 0 .. Versions] /\ unsent \subseteq Keys \X {1}
  /\ bq \subseteq Keys \X (1 .. Versions) /\ page \subseteq Keys \X (1 .. Versions)
  /\ walk \in {"none", "read", "insert", "done"} /\ after \in Keys \union {0}
  /\ refusals \in 0 .. MaxRefusals /\ stamp \in -1 .. pulseNow

(***************************************************************************)
(* A walk that has ended left every row there was at its start in BigQuery, *)
(* as it was then or as it has become, though pages failed and were asked  *)
(* for again, rows came and changed under it, and live writes were lost.   *)
(***************************************************************************)
WalkShipsAll == walk = "done" /\ keyed =>
  \A r \in owed : \E v \in r[2] .. Versions : <<r[1], v>> \in bq

(***************************************************************************)
(* "Callers loop until written=0": a walk with a cursor comes to its end.  *)
(* The walk of economics_history, which has none, need not.                *)
(***************************************************************************)
WalkEnds == (walk = "read" /\ keyed) ~> (walk = "done")

(***************************************************************************)
(* Two pulses lie as far apart as the stamp's age asks, less the time a run *)
(* takes to read it, where KV fails before or after a put is taken too, and *)
(* however long a put takes, unless runs have overlapped.                  *)
(***************************************************************************)
PulsesSpaced == ~lapped /\ pulses[2] # -1 => pulses[1] - pulses[2] >= PULSE_AGE - LAG

(***************************************************************************)
(* BigQuery is fed: a walk ships what it owes, and pulses come no faster   *)
(* than they should.                                                       *)
(***************************************************************************)
WarehouseIsFed == WarehouseTypeOK /\ WalkShipsAll /\ PulsesSpaced
=============================================================================
