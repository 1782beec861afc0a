-------------------------- MODULE BackfillCoverage --------------------------
(***************************************************************************)
(* The historical backfill and the coverage it reports: backfillRange and  *)
(* backfillHolders of src/src/sync/backfill.ts, the campaign frontier of   *)
(* src/src/sync/holder-coverage.ts, the two routes that start a pass, and  *)
(* the minute cron's locked grind in src/src/providers/compose.ts.         *)
(*                                                                         *)
(* A pass scans blocks upwards in chunks, then moves the one frontier all  *)
(* passes share by reading it and writing it back.  Passes interleave at   *)
(* every await, and one killed in the middle leaves what it wrote.         *)
(***************************************************************************)
EXTENDS Integers

CONSTANTS
  Passes,                \* execution contexts that can be inside a backfill
  MOR_DEPLOY_BLOCK,      \* where the history of MOR transfers begins
  DIAMOND_DEPLOY_BLOCK,  \* where the history of sessions begins, later
  LIVE_FROM,             \* head when the live sync began: it owns what follows
  LIVE_TAIL_BLOCKS,      \* a frontier this close to the head counts as complete
  CHUNK_BLOCKS,          \* BACKFILL_CHUNK_BLOCKS
  MAX_CHUNKS,            \* BACKFILL_MAX_CHUNKS_PER_RUN
  Requested,             \* <<from, to>> pairs an operator may ask for
  MaxHead                \* bound: the head stops growing here

ASSUME DeployBlocksAssumption ==
  /\ MOR_DEPLOY_BLOCK \in Nat \ {0} /\ DIAMOND_DEPLOY_BLOCK \in Nat
  /\ MOR_DEPLOY_BLOCK < DIAMOND_DEPLOY_BLOCK
ASSUME LiveAssumption ==
  /\ LIVE_FROM \in Nat /\ LIVE_TAIL_BLOCKS \in Nat /\ MaxHead \in Nat
  /\ DIAMOND_DEPLOY_BLOCK < LIVE_FROM /\ LIVE_FROM <= MaxHead
  /\ MOR_DEPLOY_BLOCK + LIVE_TAIL_BLOCKS < LIVE_FROM
ASSUME ChunksAssumption ==
  CHUNK_BLOCKS \in Nat \ {0} /\ MAX_CHUNKS \in Nat \ {0}
ASSUME RequestedAssumption ==
  Requested \subseteq Nat \X Nat /\ \A q \in Requested : q[1] <= q[2]

VARIABLES
  head,      \* the synced head the passes aim for
  frontier,  \* D1: mor_holder_backfill_block (0: no campaign yet)
  lock,      \* D1: backfill_cron_lock, as cron ticks since its timestamp
  \* the locals of each pass
  pc, kind, from, to, at, chunks, failed, prevFrontier, age,
  calm,      \* the environment has stopped failing and meddling for good
  \* history: blocks whose transfers were fetched, and whose holders were all
  \* stored, by some backfill
  scanned, stored

campaign == <<frontier, lock>>
history  == <<scanned, stored>>
window   == <<kind, from, to, at, chunks, failed>>
vars     == <<head, campaign, pc, window, prevFrontier, age, calm, history>>

NoLock  == -1
Stale   == 2           \* bound: two ticks (120 s) is past the lock's 90 s
Ages    == 0 .. Stale
Kinds   == {"range", "holders", "grind"}
History == MOR_DEPLOY_BLOCK .. LIVE_FROM

Lesser(a, b)  == IF a <= b THEN a ELSE b
Greater(a, b) == IF a >= b THEN a ELSE b

Init ==
  /\ head = LIVE_FROM
  /\ frontier = 0
  /\ lock = NoLock
  /\ pc = [p \in Passes |-> "idle"]
  /\ kind = [p \in Passes |-> "grind"]
  /\ from = [p \in Passes |-> 0]
  /\ to   = [p \in Passes |-> 0]
  /\ at   = [p \in Passes |-> 0]
  /\ chunks = [p \in Passes |-> 0]
  /\ failed = [p \in Passes |-> FALSE]
  /\ prevFrontier = [p \in Passes |-> 0]
  /\ age = [p \in Passes |-> 0]
  /\ calm = FALSE
  /\ scanned = {} /\ stored = {}

Goto(p, step, next) ==
  /\ pc[p] = step
  /\ pc' = [pc EXCEPT ![p] = next]

\* The pass returns or dies, and its locals are gone.
Leave(p) ==
  /\ pc' = [pc EXCEPT ![p] = "idle"]
  /\ kind' = [kind EXCEPT ![p] = "grind"]
  /\ from' = [from EXCEPT ![p] = 0]
  /\ to'   = [to EXCEPT ![p] = 0]
  /\ at'   = [at EXCEPT ![p] = 0]
  /\ chunks' = [chunks EXCEPT ![p] = 0]
  /\ failed' = [failed EXCEPT ![p] = FALSE]
  /\ prevFrontier' = [prevFrontier EXCEPT ![p] = 0]

\* A call of backfillRange or backfillHolders over start..end.
OpenWindow(p, start, end) ==
  /\ from' = [from EXCEPT ![p] = start]
  /\ to'   = [to EXCEPT ![p] = end]
  /\ at'   = [at EXCEPT ![p] = start]
  /\ chunks' = [chunks EXCEPT ![p] = 0]
  /\ failed' = [failed EXCEPT ![p] = FALSE]
-----------------------------------------------------------------------------
\* The live sync stores a newer head.
HeadMoves ==
  /\ head < MaxHead
  /\ head' = head + 1
  /\ UNCHANGED <<campaign, pc, window, prevFrontier, age, calm, history>>

\* Where a pass that is given no start resumes.
Resume == IF frontier >= MOR_DEPLOY_BLOCK THEN frontier + 1 ELSE MOR_DEPLOY_BLOCK

(***************************************************************************)
(* /sync/backfill takes any 0 <= from <= to, also beyond the head;         *)
(* /sync/backfill-holders defaults to the rest of the campaign.            *)
(***************************************************************************)
Request(p, k, start, end) ==
  /\ Goto(p, "idle", "scan")
  /\ start <= end
  /\ kind' = [kind EXCEPT ![p] = k]
  /\ OpenWindow(p, start, end)
  /\ UNCHANGED <<head, campaign, prevFrontier, age, calm, history>>

\* Mutant: the lock never expires.
Held_forever(n) == n # NoLock

Held(n) == n # NoLock /\ n < Stale

Older(n) == IF n = NoLock THEN NoLock ELSE Lesser(n + 1, Stale)

(***************************************************************************)
(* The minute cron: a tick that finds a lock younger than 90 s (set by the *)
(* tick before) or an unhealthy live sync returns at once.                 *)
(***************************************************************************)
CronFires(p, healthy) ==
  /\ pc[p] = "idle"
  /\ lock' = Older(lock)
  /\ age' = [q \in Passes |-> IF pc[q] \in {"plan", "lock"} THEN Older(age[q]) ELSE 0]
  /\ pc' = [pc EXCEPT ![p] = IF healthy /\ ~Held(lock') THEN "plan" ELSE @]
  /\ UNCHANGED <<head, frontier, window, prevFrontier, calm, history>>

GrindPlans(p) ==
  /\ Goto(p, "plan", "lock")
  /\ Resume <= head
  /\ OpenWindow(p, Resume, head)
  /\ UNCHANGED <<head, campaign, kind, prevFrontier, age, calm, history>>

FullyCaughtUp(p) ==
  /\ Goto(p, "plan", "idle")
  /\ Resume > head
  /\ UNCHANGED <<head, campaign, window, prevFrontier, age, calm, history>>

\* Written long after it was read, with the tick's own scheduled time.
TakeLock(p) ==
  /\ Goto(p, "lock", "scan")
  /\ lock' = age[p]
  /\ UNCHANGED <<head, frontier, window, prevFrontier, age, calm, history>>
-----------------------------------------------------------------------------
Scans(p)   == ~failed[p] /\ at[p] <= to[p] /\ chunks[p] < MAX_CHUNKS
ChunkTo(p) == Lesser(at[p] + CHUNK_BLOCKS - 1, to[p])
Chunk(p)   == (at[p] .. ChunkTo(p)) \cap History

(***************************************************************************)
(* One chunk: fetch its logs and upsert them.  A holder batch D1 rejects   *)
(* is swallowed by processMorTransfers, so kept can be less than the chunk.*)
(***************************************************************************)
ScanChunk(p, kept) ==
  /\ pc[p] = "scan" /\ Scans(p)
  /\ at' = [at EXCEPT ![p] = ChunkTo(p) + 1]
  /\ chunks' = [chunks EXCEPT ![p] = @ + 1]
  /\ scanned' = scanned \cup Chunk(p)
  /\ stored' = stored \cup kept
  /\ UNCHANGED <<head, campaign, pc, kind, from, to, failed, prevFrontier, age, calm>>

\* Mutant: a chunk that cannot be fetched is skipped.
FetchFails_skipping(p) ==
  /\ pc[p] = "scan" /\ Scans(p)
  /\ at' = [at EXCEPT ![p] = ChunkTo(p) + 1]
  /\ chunks' = [chunks EXCEPT ![p] = @ + 1]
  /\ UNCHANGED <<head, campaign, pc, kind, from, to, failed, prevFrontier, age, calm, history>>

\* No endpoint serves the chunk: stop here rather than skip it.
FetchFails(p) ==
  /\ pc[p] = "scan" /\ Scans(p)
  /\ failed' = [failed EXCEPT ![p] = TRUE]
  /\ UNCHANGED <<head, campaign, pc, kind, from, to, at, chunks, prevFrontier, age, calm, history>>

(***************************************************************************)
(* persistBackfillProgress: read the frontier, and later write it back,    *)
(* moved to scannedTo when this window began at or below its end.          *)
(***************************************************************************)
ReadProgress(p) ==
  /\ Goto(p, "scan", "persist")
  /\ ~Scans(p)
  /\ prevFrontier' = [prevFrontier EXCEPT ![p] = frontier]
  /\ UNCHANGED <<head, campaign, window, age, calm, history>>

ScannedTo(p) == at[p] - 1

NewFrontier(p) ==
  IF from[p] <= MOR_DEPLOY_BLOCK \/ from[p] <= prevFrontier[p] + 1
  THEN Greater(prevFrontier[p], ScannedTo(p))
  ELSE prevFrontier[p]

PersistProgress(p) ==
  /\ pc[p] = "persist"
  /\ frontier' = NewFrontier(p)
  /\ IF kind[p] = "grind"
     THEN pc' = [pc EXCEPT ![p] = "next"] /\ UNCHANGED <<window, prevFrontier>>
     ELSE Leave(p)
  /\ UNCHANGED <<head, lock, age, calm, history>>

\* The D1 batch fails: reported among the errors, like a fetch that failed.
PersistFails(p) ==
  /\ pc[p] = "persist"
  /\ IF kind[p] = "grind"
     THEN /\ pc' = [pc EXCEPT ![p] = "next"]
          /\ failed' = [failed EXCEPT ![p] = TRUE]
          /\ UNCHANGED <<kind, from, to, at, chunks, prevFrontier>>
     ELSE Leave(p)
  /\ UNCHANGED <<head, campaign, age, calm, history>>

\* The grind opens its next window, with time and blocks left in its budget.
GrindContinues(p) ==
  /\ Goto(p, "next", "scan")
  /\ ~failed[p] /\ at[p] <= to[p]
  /\ OpenWindow(p, at[p], to[p])
  /\ UNCHANGED <<head, campaign, kind, prevFrontier, age, calm, history>>

\* An error, the end of the range or of the budget; finally deletes the lock.
GrindEnds(p) ==
  /\ pc[p] = "next"
  /\ lock' = NoLock
  /\ Leave(p)
  /\ UNCHANGED <<head, frontier, age, calm, history>>

\* The isolate dies, or a processor of a range pass throws: nothing is persisted.
Dies(p) ==
  /\ pc[p] # "idle"
  /\ Leave(p)
  /\ UNCHANGED <<head, campaign, age, calm, history>>
-----------------------------------------------------------------------------
PassStep(p) ==
  \/ GrindPlans(p) \/ FullyCaughtUp(p) \/ TakeLock(p)
  \/ ScanChunk(p, Chunk(p))
  \/ ReadProgress(p) \/ PersistProgress(p)
  \/ GrindContinues(p) \/ GrindEnds(p)

Trouble(p) ==
  /\ ~calm
  /\ \/ \E k \in {"range", "holders"}, q \in Requested : Request(p, k, q[1], q[2])
     \/ Request(p, "holders", Resume, head)
     \/ CronFires(p, FALSE)
     \/ \E kept \in SUBSET Chunk(p) : ScanChunk(p, kept)
     \/ FetchFails(p) \/ PersistFails(p) \/ Dies(p)

CalmDown ==
  /\ ~calm /\ calm' = TRUE
  /\ UNCHANGED <<head, campaign, pc, window, prevFrontier, age, history>>

(***************************************************************************)
(* A pass whose calls are served ends within its budget of 25 s, before    *)
(* the next minute; while calls fail, windows outlast ticks and the lock.  *)
(***************************************************************************)
CronIsDue == calm => \A p \in Passes : pc[p] = "idle"

Next ==
  \/ HeadMoves
  \/ \E p \in Passes : CronIsDue /\ CronFires(p, TRUE)
  \/ \E p \in Passes : PassStep(p) \/ Trouble(p)
  \/ CalmDown

Spec == Init /\ [][Next]_vars

\* The cron comes every minute, and a pass that is not killed goes on.
FairSpec ==
  /\ Spec
  /\ WF_vars(\E p \in Passes : CronIsDue /\ CronFires(p, TRUE))
  /\ \A p \in Passes : WF_vars(PassStep(p))
-----------------------------------------------------------------------------
(***************************************************************************)
(* computeHolderCoverage and datasetCoverage: what /health reports of a    *)
(* head, 0 when its D1 query timed out.  Percentages are left out.         *)
(***************************************************************************)
ScannedUpTo == IF frontier > 0 THEN Greater(frontier, MOR_DEPLOY_BLOCK) ELSE MOR_DEPLOY_BLOCK
ValidHead(h) == h > MOR_DEPLOY_BLOCK
ReportedHead(h) == IF ValidHead(h) THEN Greater(h, ScannedUpTo) ELSE ScannedUpTo

\* Mutant: any head is trusted, also the 0 of a query that timed out.
HoldersComplete_anyHead(h) ==
  frontier > 0 /\ ReportedHead(h) - ScannedUpTo <= LIVE_TAIL_BLOCKS

HoldersComplete(h) ==
  frontier > 0 /\ ValidHead(h) /\ ReportedHead(h) - ScannedUpTo <= LIVE_TAIL_BLOCKS
-----------------------------------------------------------------------------
TypeOK ==
  /\ head \in Nat /\ frontier \in Nat
  /\ lock \in {NoLock} \cup Ages
  /\ pc \in [Passes -> {"idle", "plan", "lock", "scan", "persist", "next"}]
  /\ kind \in [Passes -> Kinds]
  /\ from \in [Passes -> Nat] /\ to \in [Passes -> Nat] /\ at \in [Passes -> Nat]
  /\ chunks \in [Passes -> 0 .. MAX_CHUNKS] /\ failed \in [Passes -> BOOLEAN]
  /\ prevFrontier \in [Passes -> Nat] /\ age \in [Passes -> Ages]
  /\ calm \in BOOLEAN
  /\ scanned \subseteq History /\ stored \subseteq scanned

(***************************************************************************)
(* The frontier is the highest block scanned contiguously from the deploy  *)
(* block: every transfer up to it was fetched by some backfill, though     *)
(* passes over any ranges race to read it and write it back.               *)
(***************************************************************************)
FrontierIsContiguous == (MOR_DEPLOY_BLOCK .. frontier) \cap History \subseteq scanned

(***************************************************************************)
(* Holder coverage is honest: whatever head /health has in hand, perhaps   *)
(* an old one, or 0 for one it could not read, it calls the holders        *)
(* complete only if every block of that head's history was fetched, up to  *)
(* the tail the live sync covers.                                          *)
(***************************************************************************)
CompleteIsScanned ==
  \A h \in {0} \cup LIVE_FROM .. head :
    HoldersComplete(h) =>
      /\ (MOR_DEPLOY_BLOCK .. h - LIVE_TAIL_BLOCKS) \cap History \subseteq scanned
      /\ h # 0

(***************************************************************************)
(* "converges with zero babysitting": once calls stop failing, the cron    *)
(* alone brings the frontier to the head and keeps it there, whatever      *)
(* grinds were killed holding the lock and whatever passes raced.          *)
(***************************************************************************)
GrindConverges == <>calm => <>[](frontier >= head)

(***************************************************************************)
(* "STOP rather than skip - a skipped range leaves a permanent hole": the  *)
(* holders of every block up to the frontier are stored.                   *)
(***************************************************************************)
NoHoleBehindFrontier == (MOR_DEPLOY_BLOCK .. frontier) \cap History \subseteq stored
=============================================================================
