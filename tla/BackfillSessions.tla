-------------------------- MODULE BackfillSessions --------------------------
(***************************************************************************)
(* backfillRange of src/src/sync/backfill.ts beside the live sync: a pass  *)
(* over an operator's [from, to] writes the same sessions rows with the    *)
(* same processors, chunk by chunk, and never touches the live cursor.     *)
(* Unlike sync() it goes on after a session error, and it fetches up to    *)
(* any block it is given, confirmed or not.                                *)
(***************************************************************************)
EXTENDS ComputeSync

CONSTANTS
  CHUNK_BLOCKS,  \* BACKFILL_CHUNK_BLOCKS
  Requested      \* <<from, to>> pairs an operator may ask for

ASSUME ChunkAssumption == CHUNK_BLOCKS \in Nat \ {0}
ASSUME RequestedAssumption ==
  Requested \subseteq Nat \X Nat /\ \A q \in Requested : q[1] <= q[2]

VARIABLES
  step,        \* where the pass is
  from, to,    \* the range asked for
  at,          \* the start of the chunk being scanned
  opened, closed, errors,  \* the logs of the chunk, and whether any error came up
  settled      \* history: the safe head when the pass began

pass     == <<step, from, to, at, opened, closed, errors, settled>>
bothVars == <<vars, pass>>

PassSteps == {"idle", "fetch", "opened", "closed", "rest"}

BackfillInit ==
  /\ Init
  /\ step = "idle" /\ from = 0 /\ to = 0 /\ at = 0
  /\ opened = {} /\ closed = {} /\ errors = FALSE /\ settled = 0

Request(start, end) ==
  /\ step = "idle"
  /\ step' = "fetch"
  /\ from' = start /\ to' = end /\ at' = start
  /\ errors' = FALSE
  /\ settled' = head - CONFIRMATION_BUFFER
  /\ UNCHANGED <<vars, opened, closed>>

Chunk == [fromBlock |-> at, toBlock |-> Lesser(at + CHUNK_BLOCKS - 1, to)]

FetchChunk ==
  /\ step = "fetch"
  /\ step' = "opened"
  /\ opened' = EventsIn(openedAt, Chunk)
  /\ closed' = EventsIn(closedAt, Chunk)
  /\ UNCHANGED <<vars, from, to, at, errors, settled>>

\* Mutant: the processors' errors are not collected over the chunks.
StoreOpened_forgetful(done) ==
  /\ step = "opened"
  /\ step' = "closed"
  /\ sessions' = Place(sessions, done, "active")
  /\ UNCHANGED <<chain, holders, progress, clocks, pc, locals>>
  /\ UNCHANGED <<from, to, at, opened, closed, errors, settled>>

\* processSessionOpened: what cannot be stored is an error, and the pass goes on.
StoreOpened(done) ==
  /\ step = "opened"
  /\ step' = "closed"
  /\ sessions' = Place(sessions, done, "active")
  /\ errors' = (errors \/ done # opened)
  /\ UNCHANGED <<chain, holders, progress, clocks, pc, locals>>
  /\ UNCHANGED <<from, to, at, opened, closed, settled>>

StoreClosed(done) ==
  /\ step = "closed"
  /\ step' = "rest"
  /\ sessions' = Place(sessions, {s \in done : sessions[s] # "none"}, "closed")
  /\ errors' = (errors \/ done # closed)
  /\ UNCHANGED <<chain, holders, progress, clocks, pc, locals>>
  /\ UNCHANGED <<from, to, at, opened, closed, settled>>

\* Bids, diamond cuts and transfers; then the next chunk, or the refreshes.
NextChunk ==
  /\ step = "rest"
  /\ at' = Chunk.toBlock + 1
  /\ step' = IF at' <= to THEN "fetch" ELSE "idle"
  /\ opened' = {} /\ closed' = {}
  /\ UNCHANGED <<vars, from, to, errors, settled>>

(***************************************************************************)
(* The pass ends short of to: no endpoint serves the chunk, the chunks of  *)
(* one call are used up, a bid or cut batch throws, or the isolate dies.   *)
(***************************************************************************)
PassStops ==
  /\ step # "idle"
  /\ step' = "idle"
  /\ opened' = {} /\ closed' = {} /\ errors' = TRUE
  /\ UNCHANGED <<vars, from, to, at, settled>>
-----------------------------------------------------------------------------
PassStep ==
  \/ \E q \in Requested : Request(q[1], q[2])
  \/ FetchChunk
  \/ \E done \in SUBSET opened : StoreOpened(done)
  \/ \E done \in SUBSET closed : StoreClosed(done)
  \/ NextChunk
  \/ PassStops

BackfillNext == PassStep \/ (Next /\ UNCHANGED pass)

BackfillSpec == BackfillInit /\ [][BackfillNext]_bothVars

\* The same without a call that fails: every log is fetched and every row stored.
FaultlessNext ==
  /\ BackfillNext
  /\ \A r \in Runners : ~fetchFailed'[r] /\ ~sessionErrors'[r]
  /\ ~errors'

FaultlessSpec == BackfillInit /\ [][FaultlessNext]_bothVars
-----------------------------------------------------------------------------
BackfillTypeOK ==
  /\ TypeOK
  /\ step \in PassSteps /\ from \in Nat /\ to \in Nat /\ at \in 0 .. to + 1
  /\ opened \subseteq Sessions /\ closed \subseteq Sessions
  /\ errors \in BOOLEAN /\ settled \in Int

(***************************************************************************)
(* A pass that reports its range done and no errors has filled it: every   *)
(* session opened in it has a row, as far as blocks were confirmed when    *)
(* the pass began, whatever the live sync did meanwhile.                   *)
(***************************************************************************)
CleanPassFills ==
  /\ []BackfillTypeOK
  /\ [][step = "rest" /\ step' = "idle" /\ ~errors' =>
          \A s \in Sessions :
            openedAt[s] # 0 /\ from <= openedAt[s] /\ openedAt[s] <= Lesser(to, settled)
              => sessions[s] # "none"]_bothVars
=============================================================================
