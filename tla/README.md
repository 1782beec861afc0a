# MorScan, specified

MorScan is a Cloudflare Worker that indexes the Morpheus compute market on Base
into D1 (SQLite) and serves it. This directory specifies the parts of it that
run concurrently, fail halfway and have to come back: TLA+ modules written from
the code under `src/src/`, TLC runs that check them on small instances, and
proofs that TLAPS checks for every instance. All paths below are relative to
the repository; `compute.ts` is `src/src/sync/compute.ts`.

## The system

| component | state | operations | hard behaviour |
| --- | --- | --- | --- |
| compute indexer (`sync/compute.ts`, `plan.ts`, `compute-events.ts`) | D1 `sessions`, `mor_holders`, bids; `sync_state` rows `last_event_block`, `last_block`, `current_block`, `last_sync_ts` | `sync()`, `initSync()` | no lock: any number of runs interleave at each await; fetches, batches and isolates fail in the middle; the chain reorganises |
| sync coordinator (`durable/SyncCoordinator.ts`) | the Durable Object's alarm, `cronLastSeenBlock` | `alarm`, `/cron`, `/start`, `/stop`, `/trigger` | deploys lose alarms; the watchdog, the alarm and requests start runs of one `sync()` |
| historical backfill (`sync/backfill.ts`, `holder-coverage.ts`, the grind in `providers/compose.ts`) | `mor_holder_backfill_block`, `backfill_cron_lock` | `/sync/backfill`, `/sync/backfill-holders`, minute cron | passes race on one frontier; a lock that expires; chunk caps; writes beside the live sync |
| builder indexer (`sync/builder*.ts`) | D1 `builder_events`, `builder_stakes`, `builder_subnets`, two `builder_sync_state` rows | event sync, full reconciliation | a cursor with no lock; batches that stop half-way; three writers of one total, one late and one that never writes zero |
| bid market (`compute-events.ts`, `compute-discovery.ts`) | bids, models, a KV memo of known providers | event processors, discovery | events applied against chain state read later |
| MOR holders (`compute-events.ts`, `db/sync-builder.ts`) | `mor_holders` | discovery, balance sweep, ranked pages | overlapping sweeps stamped with the time they began |
| rate limits and quotas (`utils/auth/rate-limit.ts`, `keyless-gate.ts`, `d1-budget.ts`, `stake-tier.ts`) | counters per key, address, minute, day and month; caches of each isolate | check and count, flush, prune | read-then-write under concurrency, caches, windows that roll |
| keys and sessions (`routes/auth`, `utils/auth`, `vendor/drm3-sdk-sso.ts`) | challenges, `api_keys`, launch-token claims, a cached revocation feed | verify, create, rotate, revoke, sign in, sweep of caps | one use of a challenge or a token; revocation against a cache; a stake read long before it is written |
| paid access (`utils/x402.ts`) | `x402_payments` | verify, gate, settle, answer | replays, refusals and failures between payment and answer |
| alerts (`alerts/index.ts`) | `sync_state.alert_state` | detect, page | a page per transition, through failing calls and overlapping runs |
| provenance chain (`utils/provenance-*.ts`) | receipts and attested roots | store, chain, attest, prune | overlapping and dying runs |
| snapshots and caches (`utils/snapshot*.ts`, `cache.ts`) | R2 objects and a pointer, KV entries | publish, prune, memoize, warm | a cache that outlives its stamp, an object deleted behind its pointer |
| warehouse (`utils/bigquery`, `warehouse-dump.ts`) | a copy in BigQuery, a stamp in KV | ship, walk, pulse | writes that swallow failure, a cursor over a moving table |
| accounting, explorer queries, price history, model pages, RPC endpoints, ABI decoders, health verdict | derived | read, render, repair | answers read at different times that must fit together |
| pages and documents | none | render | none; not modelled |

How they interact: the crons (`* * * * *`, `*/3`, `0 3 * * *`) and HTTP routes
call the Durable Object and, directly, the same `sync()`; all of them meet only
in D1 rows, with no transaction longer than one batch. The backfill writes the
rows of the live sync and reads the head that sync stores. Health, coverage,
alerts, accounts and pages read what the others wrote.

What makes each part correct: no event behind a cursor is missing; nothing
indexed can be reorganised away; a stuck loop heals; the backfill frontier and
the coverage claimed from it are true; a quota lands within its window, a
challenge, token or payment is not used twice, a page to the operator is a
transition; what a reader is told was true no longer ago than the lifetimes of
the caches it passed, and two answers to one question agree.

## Modules

Each module gives its variables, `Init`, one action per step between two awaits
that touch shared state, `Next`, and its properties. The property a run checks
is usually one conjunction: the type invariant and the named parts that make the
component correct (`BookIsTrue == BookTypeOK /\ AnswersAgree /\ ...`), so that a
counterexample or a theorem can speak of a part by name.

| module | models |
| --- | --- |
| `ComputeSync` | `sync()`, `planSyncRange`, `shouldAdvanceCursor`, `initSync()`, their D1 rows, and the chain |
| `SyncCoordinator` | the Durable Object, the watchdog cron and the routes, composed with `ComputeSync` |
| `BackfillCoverage` | the passes, their frontier and lock, the coverage report |
| `BackfillSessions` | `backfillRange` writing session rows beside the live sync: composed with `ComputeSync` |
| `BuilderSync` | `syncBuilderEvents()`, `syncBuilderFullState()`, their rows, the chain and the subgraph |
| `Access` | composes `VolumeCaps`, `SsoSessions`, `PaidCalls`, `ReadBudget`, `KeylessGate` |
| `Operations` | composes `Alerts`, `WalletKeys`, `Snapshots`, `ReceiptChain`, `MarketSync`, `Warehouse`; states the fairness of the crons |
| `Readers` | composes `SessionBook`, `ResponseCache`, `Prices`, `EndpointWalk`, `AbiDecode`, `ModelPages`, `HealthVerdict`, `BidBook`, `BuilderPages`, `FrontPage`, `HolderSweep` |
| `Paging` | the abstract specification of the alerts: pages are transitions |
| `FiniteSums` | sums, counts, least and greatest elements over finite sets, as lemmas the proofs cite |
| `...Proofs` | theorems about the module of that name; `ComputeSyncProofs` also holds those about `SyncCoordinator` and `BackfillSessions` |
| `MC...` | TLC definitions: views, symmetry, small sets of inputs |

### Composition

`SyncCoordinator` and `BackfillSessions` extend `ComputeSync` and interleave
with it on shared rows: there the composition is where the hazards are. The
components of `Access`, `Operations` and `Readers` keep their state in tables,
KV keys and isolates of their own and never read each other's, so their product
would hold nothing new. Each of the three therefore picks a *scene* in its
initial state and plays that component's `Next` while the others rest. The
theorems are about the composition. Four properties of `Readers`
(`DecodersHold`, `BidBookHolds`, `StakePagesHold`, `HolderPagesHold`) are asked in
their own scene only (`scene = "bids" => BidBookIsTrue`): a part at rest stays
in an initial state of its own, which that scene has visited, and evaluating
its queries in every state of the others would cost most of the run.

### ComputeSync

A *runner* is an execution context that may be inside `sync()`. `ReadHead`
(88-93), `UpToDate`/`PlanRange` (95-124), `FetchLogs` (126-203),
`processSessionOpened`, `processSessionClosed`, `processMarket`,
`processMorTransfers` (206-214), `AdvanceCursor` or `HoldCursor` (246-254),
`MirrorCursor` (249), `StampSync` (268-283). `Abort` is any uncaught throw and
the death of an isolate; what was written stays written.

A session row is `none`, `active` or `closed`: an opening is an INSERT OR
REPLACE that makes it active whatever it was, a closing an UPDATE that finds
the row or does nothing. A batch that fails part-way is the choice of the
subset `done` that was stored; a session whose `getSession` answer is missing
is skipped, and both count as session errors. A batch of holder upserts that
fails is swallowed by the code, so it is no error here. Blocks carry at most
one opening and one closing per session; `Reorg` drops events of blocks above
the confirmed head. `base` and `heldFrom` are history variables: where indexing
began (the first planned range, or a forward reset), and the start of a range
held last. `processMarket` stands for bids, diamond cuts, discovery and the
statistics refreshes, which touch other tables: what remains of them here is
that they may throw.

### SyncCoordinator

`AlarmFires` commits the next alarm before the tick (`rescheduled = FALSE` is
the `setAlarm` that throws and is logged). `cronTick` is three actions:
`CronObserves` restarts a lost alarm and reads `last_block`, `CronForces` or
`CronLeavesIt` judges by a live head (0 when no endpoint answers) and
`CronRecords` stores what it saw. `Redeploy` ends the runs in the object and may
lose the alarm; storage survives. Requests start runs of their own; resets run
`initSync` in the worker. `calm` is when the environment stops failing and
meddling, which the liveness property waits for.

### BackfillCoverage and BackfillSessions

A *pass* is a call of `backfillRange` (kind `range`), `backfillHolders`
(`holders`), or the minute cron's grind, which calls `backfillHolders` window
after window. `ScanChunk`, `FetchFails`, `ReadProgress`, `PersistProgress`
follow the loop and `persistBackfillProgress`, which reads the frontier and
writes it back in two D1 calls. The lock is its age in cron ticks: one tick
(60 s) is younger than 90 s, two are older; `age` is how old the `now` a grind
captured has become when it writes the lock. `scanned` and `stored` are history variables. Percentages, timing and ETA are left
out, and so are the numbers behind the health guard of the cron, which is a
choice (`healthy`). `BackfillSessions` is one pass of `backfillRange` over an
operator's range, with the processors of the live sync, beside any runners of
`ComputeSync`. It goes on after a session error, where `sync()` holds its
cursor, and takes any block it is given.

### BuilderSync

A *runner* may be inside `syncBuilderEvents()`, a *reconciler* inside
`syncBuilderFullState()`. `ReadCursor`, `ReadHead` and `CaughtUp` are the start
of the event sync; `FetchChunk` is a chunk whose six calls answered,
`HalveChunk` a range-limit error, `LoopEnds` every way out of the loop.
`processDeposits`, `processWithdrawals` and `processClaims` write the chunk, in
this order; a batch that fails part-way is the choice of `rows` and `done`.
`recomputeStakes` reads the sum of a stake's stored flows and
`setStakeDeposited` writes it, two D1 calls; `PersistCursor` follows when every
touched stake is done. The refreshers are reads and writes of their own:
`ReadTotals`/`WriteTotals` (`refreshSubnetData`, which keeps the old total on a
zero), `ReadGoldsky`/`WriteGoldsky` (a subgraph that may lag), `ReadStats`/
`WriteStats`. A block has at most one event; amounts are units. `claim` stands
for claims and fees, whose rows are stored alike and touch no stake.
`processSubnetCreated` is left out: it writes a subnet's row and metadata before
the deposits, no event and no stake, and a deposit's shell makes the row as well;
when its write fails, the run ends as `Abort` lets it.

### The components of Access

- `VolumeCaps`: `checkRateLimit` and its volume caps. A request awaits D1 to read
  the caps into its isolate's cache and again to count itself; the isolates' minute
  counters, the day and month counters and the cached entries are separate state.
  `overSince` is a history variable: when a counter crossed its line.
- `SsoSessions`: the callback with a single-use launch token (`check`, wait,
  claim), the session it buys, and the revocation gate, one cached copy of the
  hub's feed that concurrent requests share while it is read. The hub is external.
- `PaidCalls`: verification, pending cap, rate gate, settlement with and without a
  facilitator, and the answer of calls paid by signed authorization.
- `ReadBudget`: each isolate's estimate, its flush in a KV read and a KV write, the
  reads of the shared total and the roll at midnight.
- `KeylessGate`: the anonymous counter charged by `bump`, and the prune that runs
  while requests are under way.

### The components of Operations

- `Alerts`: load state, compare, page, record, store: five calls of which each
  may fail unnoticed, by runs that may overlap; checked against `Paging`.
- `WalletKeys`: challenges, the key of first connect, rotation, revocation, the
  sweep that writes caps read earlier, and `stake-tier.ts` in its integers. `clean`
  and `settled` are history variables: the sweeps that met nothing outdated, and
  whether one of them has written since the stake last changed.
- `Snapshots`: object, then pointer; the prune lists and then deletes by age.
- `ReceiptChain`: read unchained, mark by groups, attest; prune of the oldest.
- `MarketSync`: bids posted, retracted, discovered and named, where `getBid` answers
  from `latest` and may know more than the range it is asked for.
- `Warehouse`: rows shipped live by writes that swallow failure, the caller's walk
  over a table by cursor, and the pulse spaced by a stamp that is read in one KV
  await and put in another.

### The components of Readers

- `SessionBook`: session rows as late, repeated and lost writes leave them, the
  queries over them, the account of a wallet and the repairs it sends unawaited.
- `ResponseCache`: a page memo over a value memo, stamps, KV that answers with
  replaced entries, the coordinator's warm-up; and a client that walks the cached
  pages of the session list while sessions are indexed.
- `Prices`: a price request, its sources and fallback, `price_history` and the chart.
- `EndpointWalk`: single and batched JSON-RPC calls over endpoints that fail, omit
  or reorder. The pool's weights and cool-downs are its library's.
- `AbiDecode`: the decoders over 32-byte words against the ABI's encoding, whole
  or cut short.
- `ModelPages`: canonical keys, slugs, their owners, links, curation by an admin.
- `HealthVerdict`: what `/health` concludes from rows that dead ticks freeze.
- `BidBook`, `BuilderPages`, `HolderSweep`: the rows of bids, stakes and holders and
  the queries of their pages. Bids of one pair follow one another, and rescans and
  discoveries meet strikes of older ones. A balance call is answered, answered with
  nothing (null or `"0x"`), or not answered; `blanks` is the history of the second
  kind, the one way to a balance that never was.
- `FrontPage`: the builds of the landing page, the memos they share, the blob.

## Runs

Each passing run of the three compositions explores every scene; the constants
of each component are in its `.cfg`.

| run | checks | shows |
| --- | --- | --- |
| `ComputeSyncConcurrent` | `TypeOK`, `OpenedGapProof`, `IndexedIsFinal`, `ClosedGapProof`, `OneWriterSteps` | two runs of `sync()`, failures, resets, reorganisations: no opening behind the cursor is missing, nothing indexed can be reorganised away, and the mirror is behind the cursor; and, as long as no two runs overlap, no closing is missing, nothing is resurrected, only resets rewind, held ranges are retried |
| `SyncCoordinatorHeals` | `LoopRecovers` | after any deploys, stops, lost alarms and failed calls the loop reaches the safe head for good; with alarms that never fire the minute cron alone pulls the cursor forward |
| `BackfillCoverageFrontier` | `FrontierIsContiguous`, `CompleteIsScanned`, `GrindConverges` | racing, failing, dying passes: frontier and coverage are true, and in the end the cron alone brings the frontier to the head, whatever locks were left |
| `BackfillSessionsFills` | `CleanPassFills` | a pass that reports success has stored what its range held |
| `BuilderSyncConcurrent` | `BuilderGapProof`, `EventsAreFinal` | two overlapping event syncs, failures, reorganisations: up to the cursor the event table is the chain |
| `BuilderSyncSettles` | `StakesFollowChain`, `BuilderSettles` | one event sync beside the reconcile: stakes recover, the cursor reaches the safe head, and the totals end up right under three writers |
| `Access` | `CapLandsWithinTTL`, `CountersAgree`, `LaunchTokenOnce`, `GateFollowsFeed`, `PaymentsAreFair`, `ExactWithoutOverlap`, `AnonWithinCap` | caps from caches of two isolates over a day and a month boundary, one session per launch token, revocations that land, replayed payments, a flushed budget, the pruned anonymous cap |
| `Operations` | `KeysAreSound`, `PointerResolves`, `ReceiptsAreKept`, `MarketFollowsChain`, `WarehouseIsFed`, `PagesAreTransitions`, `CronsCatchUp` | what the crons drive, with failing calls and dying, overlapping runs, and that each part catches up with what it missed |
| `Readers` | `BookIsTrue`, `WalkFindsAll`, `AnswersAreRecent`, `PricesAreTrue`, `WalksAreTrue`, `DecodersHold`, `OkMeansFresh`, `BidBookHolds`, `StakePagesHold`, `FrontIsWhole`, `HolderPagesHold`, `ModelPagesHold` | what readers are told is true, recent, whole, and fits together |

Three runs are refutations: the property states what the repository says, and TLC
shows a behaviour of the code that breaks it.

| run | says | what happens |
| --- | --- | --- |
| `BackfillCoverageHole` | `backfill.ts` 385: a skipped range leaves a hole, so stop | a rejected holder batch is swallowed (`compute-events.ts` 414-418), its chunk counts as done, and the frontier passes holders never stored |
| `ModelTags` | `parsers-abi.ts` 197: the tags array follows the name | the length word of the name is skipped twice (201), so the count of tags is read from an offset and every model is stored without tags |
| `HoldersZeroed` | `compute-events.ts` 432-433, 465-466: a wallet whose read fails is skipped, and no false zero is written | only `undefined` is skipped (467); a result that is null or `"0x"` is written as "0" (468), over the balance the wallet has |

### Bounds

`ComputeSync` runs: MAX_LOG_RANGE 1 or 2 (50000 in the code) with 2 to 4 blocks
to index, so ranges are capped and resumed; CONFIRMATION_BUFFER 1 (5), so a
block is unconfirmed when mined and confirmed one later; RESET_BACK 2 (100);
resets to the default, back and forward; MaxHead 4 or 5. Two runners, or two passes, are enough for one to be overtaken
between any two of its steps. The builder runs take chunks of 3 blocks halved to
2 (or 2 to 1) with endpoints that accept 2 (or 1), two chunks per run (8),
confirmation buffer 1 (20) and 3 blocks to index: a chunk is refused, halved and
resumed by a later run. Single wallets and subnets are enough there because the
rows of different stakes never meet.

`Access`: windows of 3 and 6 minutes begun at minute 2 of a clock that ends at
6, so both a day and a month roll under a cap of 1 and 2; two isolates and two
requests that may wait across the roll; three visits with one launch token; three
authorizations and two requests; three requests at once would add interleavings
and no new kind of one. `Operations`: two overlapping runs of each cron with one
fault or stumble, one change between no stake and 50 MOR (which buys a larger burst
than none), two bids of one provider, two rows of two versions and pages of one
row, a pulse clock that ends at 5 under a stamp that is good for 3. `Readers`: two sessions of
two wallets; a bid, the one of the same pair that replaces it and one on a second
model; two sweeps and one call that fails or is answered with nothing; lifetimes
of one or two ticks under clocks of three or four, the smallest that let an
entry be replaced, expire and be answered by KV afterwards; three endpoints for
the walks; strings of 0, 1, 33 and 501 bytes, so none, one and two words, and one
longer than the decoders take; three listings of which two share a key and a third shares only the slug. The verdict
runs to block 10 (`MaxNow`), the least at which the bound of `OkMeansFresh` is
reached: with a bound one smaller TLC finds it violated.

`View`s drop locals that are dead and variables no property of the run mentions;
symmetry is used where only safety is checked. Deadlock is not checked in the
runs whose clocks and inputs run out: the compositions, and the decoders.

### Fairness

`CronSpec` of `SyncCoordinator` asks that the minute cron comes and its run goes
on; `LoopHeals` has `AlarmFairness` for its premise, that a scheduled alarm fires
and every run that is not killed goes on, and `CronRescues` does without it: the
platform's promises, and what is left when one is broken. Nothing is assumed of
requests, deploys or failures except that they stop at some point (`calm`);
without that no loop could be said to heal.
`FairSpec` of `BackfillCoverage` asks the same of the cron and of each pass; once
calls are served a grind ends within its 25 s budget, so the next tick comes when
it is over (`CronIsDue`). `FairSpec` of `BuilderSync` asks that the ticks and the
reconcile cron keep starting runs, that a run which is not killed goes on, and
that failures, the subgraph's lag and reorganisations end. A range an endpoint
accepts exists: `MIN_CHUNK <= RPC_LIMIT`. `OpsFairness` asks of each part that
its cron comes (`NextMinute`, `SweepRead`, `ReadUnchained`), that a run it began
goes on, that the alarm loop runs the live sync, that the memo of known
providers expires, and that the caller of a walk asks for the next page. The
safety runs assume no fairness.

## Proofs

All theorems hold for any sets of sessions, wallets, runners, requests and rows
and any values of the bounds that meet the named `ASSUME`s; theorems about
components of a composition are theorems of the composition's specification.

| theorem | states | assuming |
| --- | --- | --- |
| `TypeCorrect` | `Spec => []TypeOK` (ComputeSync) | |
| `RowsAreFinal` | `Spec => []IndexedIsFinal` | |
| `GapProof` | `Spec => []OpenedGapProof` | a cursor is stored at the start |
| `ClosingsAreGapProof` | `Spec => []ClosedGapProof` | the same; the property speaks of the time before two runs overlap |
| `OneWriterKeepsOrder` | `Spec => OneWriterSteps` | the same |
| `CoordinatorImplementsSync` | `CoordinatorSpec => Spec` | |
| `CoordinatorGapProof` | `CoordinatorSpec => []OpenedGapProof` | a cursor is stored at the start |
| `BackfillTypeCorrect` | `Spec => []TypeOK` (BackfillCoverage) | |
| `FrontierIsHonest` | `Spec => []FrontierIsContiguous` | |
| `CompletenessIsHonest` | `Spec => []CompleteIsScanned` | |
| `CleanPassesFill` | `BackfillSpec => CleanPassFills` | |
| `BuilderTypeCorrect` | `Spec => []BuilderTypeOK` | |
| `BuilderGapProofHolds` | `Spec => []BuilderGapProof` | |
| `BuilderEventsAreFinal` | `Spec => []EventsAreFinal` | |
| `StakesAreChains` | `Spec => []StakesFollowChain` | one event sync at a time |
| `CapsLand` | `AccessSpec => []CapLandsWithinTTL` | |
| `CountersStayTrue` | `AccessSpec => []CountersAgree` | |
| `LaunchTokenSignsInOnce` | `AccessSpec => []LaunchTokenOnce` | |
| `GateIsTheFeeds` | `AccessSpec => GateFollowsFeed` | |
| `PaymentsStayFair` | `AccessSpec => []PaymentsAreFair` | |
| `BudgetStaysExact` | `AccessSpec => []ExactWithoutOverlap` | |
| `AnonCapHolds` | `AccessSpec => []AnonWithinCap` | |
| `StakeNeverLowers` | `StakeBuysCaps`, for all stakes | |
| `KeysStaySound` | `OpsSpec => []KeysAreSound` | |
| `PointerHolds` | `OpsSpec => []PointerResolves` | |
| `ReceiptsStay` | `OpsSpec => []ReceiptsAreKept` | |
| `WarehouseStaysFed` | `OpsSpec => []WarehouseIsFed` | |
| `RetractedStaysUnlisted` | `OpsSpec => []MarketFollowsChain` | one live sync |
| `PagingIsImplemented` | `OpsSpec => PagesAreTransitions` | |
| `OkIsFresh` | `ReadersSpec => []OkMeansFresh` | |
| `AnswersStayRecent` | `ReadersSpec => []AnswersAreRecent` | |
| `FrontStaysWhole` | `ReadersSpec => []FrontIsWhole` | |
| `ModelPagesStayTrue` | `ReadersSpec => ModelPagesHold` | |
| `WalkFindsEvery` | `ReadersSpec => []WalkFindsAll` | |
| `PricesStayTrue` | `ReadersSpec => []PricesAreTrue` | |
| `WalksStayTrue` | `ReadersSpec => []WalksAreTrue` | |
| `BookStaysTrue` | `ReadersSpec => []BookIsTrue` | |
| `MarketStaysTrue` | `ReadersSpec => []BidBookHolds` | |
| `StakePagesStayTrue` | `ReadersSpec => []StakePagesHold` | |
| `HoldersStayTrue` | `ReadersSpec => []HolderPagesHold` | |
| `DecodersStayTrue` | `ReadersSpec => []DecodersHold` | |

*Compute indexer: types.* `TypeInv` adds to `TypeOK` that the head a run has
read lies between `RESET_BACK` and the chain's head and that the range it plans
lies within block 1 and the confirmed part of that head: without it `range`
could hold negative blocks and `cursor \in Nat` would not be inductive.

*Finality.* A block confirmed at the head a run has read stays confirmed, and
confirmed events never move. So the logs a run carries are of confirmed events
when fetched and still when they are stored (`FinalInv`).

*The gap-proof.* `OpenedGapProof` speaks of the cursor, which any run may
overwrite, so `GapInv` records what each run carries towards the value it will
write: everything opened before its range already has a row, and, once its
openings are processed without an error, so has everything in its range. Rows
never disappear, so no other run disturbs either fact. The theorem assumes a
stored cursor: concurrent first runs plan different ranges from head - 5.

*One writer.* Closings have no such argument, because a row goes back from
closed to active when an older range is scanned again. `overlapped` records that
a run has begun beside another. Until then any runners may take turns, die and
be followed by others, and `SoloInv` carries through the run under way that its
range begins behind the cursor, what of it is processed, and where a held range
began; `OthersAreIdle` and `OneRuns` give it the rows to itself. That the mirror
is behind the cursor holds overlapped or not. The parts of `OneWriterSteps` are
read off the steps. That turns are needed is not an artefact: see "Met while
modelling".

*The coordinator.* Every step is a step of `ComputeSync` or leaves the indexer
alone, so its invariants carry over without a new induction.

*The frontier.* A pass has scanned its window from its start to where it
stands, and the frontier it read, perhaps long ago, was covered then and still
is, because `scanned` only grows (`FrontierInv`). `CompleteIsScanned` follows,
given that the live sync began more than the live tail above the deploy block.

*A pass over sessions.* `PassInv` carries through a pass that every session
opened before its chunk in a block settled when it began has a row, and that the
logs of the chunk are the chain's as far as that block. Blocks below a confirmed
head never change and no run or reset deletes a row, so whatever runs beside the
pass disturbs nothing. The proof found the property false as first written: a
session that is not on chain has `openedAt` 0, which lies in a range begun at
block 0.

*The builder's cursor.* The same shape, `GapInv`: the position a run has read or
written was settled then and is settled still, its target is confirmed, its
logs are the chain's, and what it has flushed of them is stored. `INSERT OR
IGNORE` never changes a row, so another run's insert disturbs nothing. No
assumption on the cursor: a first run starts at the deploy block.

*Sums.* Most queries end in a sum, and `MapThenSumSet` is a recursion under a
`CHOOSE`, of which nothing is known until a solution is shown to exist.
`FiniteSums` shows it by a minimal counterexample (induction schemes cannot be
cited) and that the sum is the number of units it adds up (`SumIsCount`), so the
library's facts about cardinalities become facts about sums: a change of one
summand, a sum over a union, and `GroupsAddUp`, that whatever a set is grouped
by, the groups' sums are the whole's.

*The builder's stakes.* `StakesInv`: the row of a stake holds what all stored
flows of it come to, unless a flow stored beyond the cursor is not summed yet;
the run that is about to move the cursor over such flows has recomputed every
stake it touched. It needs one event sync at a time: two overlapping ones leave
the older sum (see below). Reconcilers may run beside it in any number.

*Volume caps.* `MeterInv` follows a crossing of the line from D1 to the caches:
a counter at its line stays there to the end of its window (`LineHolds`), an
entry fetched after it tells so (`EntriesTell`, `ReadsTell`), so a request that
came in more than a TTL later has met an entry that refuses it
(`CountedInTime`). Other requests' writes between its two awaits only raise
counters. `TallyInv` says that an entry's counts and the sharers it has that are
counted in D1 and not yet in it (`Ahead`, by cardinality) are together in D1, in
the buckets the sharers came in; so the increment an isolate makes after its await
never overtakes the table. `MonthInv` needs that a month is a whole number of
days: the day a late request is counted in is one of its month's.

*The read budget.* `BudgetInv`: until a flush is overtaken, at most one is under
way and carries what its isolate owes, so what KV holds of a day and what the
isolates owe of it come to what was noted; less only of a day that some isolate
has left owing rows.

*Launch tokens and the gate.* `SignInInv`: at most one visit holds the claim, a
claim outlives the token by the grace and a visit by the bounded wait, so the
sweep never reopens the token. `GateInv`: the table's limit is one the feed had,
and a table or answer knows every entry older than its read began. `GateFollowsFeed`
joins a bound on how long an ended session is served with an action property,
that no refusal happens which no entry orders.

*Payments.* `PaidInv` relates each request's step to the row of its nonce: at
most one request is past the insert that claims it. `PendingBounded` counts
the requests between check and insert, by cardinality of a map into them.

*Paging.* The refinement maps the abstract slack to `faults - repeats`.
`AlertInv` says that, on each signal, what is stored, loaded or already told
differs from the last page only where a fault has paid for it; each step then
maps to a transition, a repeat, a fault or a stutter.

*The rest of Operations.* `PointerHolds`: an object named by a pointer or about
to be named exists and is listed for deletion only when older than `KEEP`.
`ReceiptsStay`: with no stumble one run is marking, and what it has marked or has
yet to mark is what its root was built of. `CopyInv`: what the walk owes lies
behind its cursor and is shipped, or is on the page, or ahead. `PulseInv`: ticks
that do not overlap read and put the stamp in turn, and an overlapped one is the
only way to put a stamp that another has passed.
`WalletInv`: a *clean* sweep began while no call and no other sweep held caps or a
stake of another moment (`NoneMet`); it has the stake of now, and if it found the
caps right they are right still (`CleanSweeps`), so its write settles the row
(`SettledCapsStay`), and whoever writes caps from there on writes those of that
stake. That a small stake lowers nothing (`StakeBuysCaps`) is a claim on the
integers of the tiers, not on a run, and so a theorem for all stakes
(`StakeNeverLowers`) rather than an invariant of one instance.

*Readers.* `HealthInv` bounds the rows by the head they were stamped with.
`CacheInv` says that an entry's data is older than the entry by at most the life
of the value and one handling, which two lives and two handlings then bound.
`FrontInv` times each part of a build and each memo against the build that made
it. `ModelsInv` is that a row's family and creation are set once; the slug
properties need that the choice among equals is a function of the rows.
`PagesInv` says of a settled list that the count and each cached page are
current and the walk has seen every page behind it; that pages partition the
list is proved by a minimal counterexample over `Nat` (`LeastOfNaturals`).
`PriceInv` times every step of a request: the price it holds was read at its
source after it began, the row's before its `fetchedAt` by at most a request,
which with the row's life gives the bound; without a race one recorder at a time is
between its check and its insert. That a chart's times increase is an argument
by ranks (`InOrder` lists a set by the number of its elements below). `WalkInv`
says that an endpoint which
was up throughout has not been tried while a call is still without an answer, so
the walk cannot end before it; a batch is whole because its answers are as many as
its ids.

*Answers about sessions.* `BookInv` adds to the rows the repairs under way, each
of which is due: the chain had closed its session when it was sent.
`RowsAreWhole` says a row is active or closed at some second and names a provider
and a model or neither. Then each count, list, board and statistic groups or
splits the same rows, by state, wallet, day or column, and `GroupsAddUp` does
the rest.

*Bids, holders, stakes.* A pair may have any number of bids. The contract lets them
take turns (`BidsTakeTurns`), each posted before it is retracted
(`LivesAreInOrder`); rows and answers under way are dated by the chain
(`AnswersKnowBids`), and a row that is called gone is explained by a retraction
no later than that, of the bid itself or of one of its pair that it replaced
(`Explains`, `RowsKnowBids`): a strike by pair, whenever it comes, keeps that. A
sweep's answer is of a moment after the stamp it will write, or a zero for a wallet
that an endpoint answered with nothing since (`SweepsKnowBalances`); the rank of a holder is the number
of wallets the list puts before it, ranks are the numbers below the length of the
list, each taken once, and a page is a stretch of them. The proof found that the
holders' counts add up only if `MIN_WEI` is positive, as it is in the code
(`handlers/holders.ts` 139): now an assumption. For stakes, the stored head is a
block of the past and each row's stamp covers the deposits indexed;
`PositionsInv` says that the contract pays out no more than a wallet holds and that a
row holds what the indexed events come to.

*Decoders.* `DecodeInv` says that the words received are the first ones of the
answer. `LiesAt` relates a string to the word its length is in and survives
whatever is put before or behind it (`LiesAfter`, `LiesBefore`), so each string of
each kind of answer lies where its offset says, for any lengths; `FlattenSeq`, a
recursion under a `CHOOSE`, is unrolled for the four strings there are at most.
A decoder that finds a word then finds the contract's (`WordIsRead`), and one that
asks whether the string is there reads it or nothing (`TextIsFound`). The proof
found that `DecodedAsEncoded` was false beyond the lengths the runs had: an
endpoint longer than 500 bytes and a model's name longer than 100 are answered
with null. `Hidden` names both now, and the runs have such strings.

### Only model-checked, and why

Liveness is out of the prover's reach: `LoopRecovers`, `GrindConverges`,
`BuilderSettles` and `CronsCatchUp`. Every other property of the passing runs is
stated by a theorem. What the three runs that expect a violation show is TLC's alone.

## Met while modelling

- With two runs of `sync()` a closing is lost: a slower run replaces the row
  another has closed, and the cursor is past the closing (`compute.ts` 241-245
  calls the cursor gap-proof). `ClosedGapProof` therefore speaks of the time before
  two runs overlap, although they may (`README.md` 86-87 speaks of one writer).
- Holders and sessions share a frontier: `holder-coverage.ts` 168-170 derives
  session coverage from it, but the holders-only grind moves it past blocks whose
  sessions nobody scanned.
- Re-running a backfill range is not the no-op `backfill.ts` 226-227 calls it: a
  range with the opening of a session and not its closing makes a closed session
  active. Likewise a live bid can be struck: the strike is by pair of provider and
  model, and the bid that took the retracted one's place may have its row already,
  from a rescan or the discovery of a session's bid. `StruckWereRetracted` says what
  is left: the struck bid was retracted, or replaced one of its pair that was.
- The balance sweep writes a zero for a wallet whose call came back null or `"0x"`
  (`HoldersZeroed`). `BalancesWereTrue` allows that zero and no other.
- Two overlapping event syncs of the builder can leave a stake wrong until its
  next event: the older sum is written last.
- A shared read-budget total read before midnight may be written under the new
  day (`d1-budget.ts`), which is why `ExactWithoutOverlap` excludes overlap.
- Two first connects of one wallet that overlap: the answer of one names a key
  the other has replaced.
- A call paid by x402 whose insert fails after the facilitator has charged is
  refused, and its retry is refused as a replay (`x402.ts` 400).
- `SyncCoordinator.ts` 245 runs the builder's event sync every second tick where
  `docs/builder-plane.md` 60 says every sixth; a held range is not retried from
  its start when no cursor was ever stored (`plan.ts` 39-40), and for the same
  reason the cron never forces a first tick (209); a tick already running writes
  its cursor over a reset made after `/stop`; a grind whose window outlasts the
  90 s lock is joined by the next, and its `finally` deletes the other's lock;
  `readAllCoverage` calls the sessions complete when the head is unknown.

## Not modelled

Pages and documents (HTML, images, OpenAPI and machine-readable texts): they
hold no state. Within modelled components: statistics tables and their rebuild,
diamond cuts, subnet metadata and the Arbitrum subnets only the subgraph lists,
pools, economics and gas queries, admin pages, the wiring of providers, dispatch
of routes and headers, wording, percentages and ETA, the rate limiter bindings
and the per-colo Cache API of the platform, signatures and Merkle trees (taken as
valid or refused). An endpoint that answers `eth_getLogs` with fewer logs than
exist is outside the model.

## The plan

1. The tick schedule of `runSync`, which interleaves the compute and builder
   syncs in one run.
2. Statistics rebuild against the tables it is built from.
