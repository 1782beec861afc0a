---------------------------- MODULE ReadersProofs ----------------------------
(***************************************************************************)
(* Proofs about what readers are told, each in every behaviour of Readers: *)
(* the verdict of /health, the age of cached answers, the landing page,    *)
(* the pages of the models, a walk over the session list, the rows of the  *)
(* sessions and the accounts told from them, bids, balances of holders,    *)
(* the unlock countdown, prices and their chart, JSON-RPC walks, decoders. *)
(***************************************************************************)
EXTENDS Readers, FiniteSums, FunctionTheorems, SequenceTheorems

\* The thresholds are as the module assumes them, each on its own.
HealthNumbers ==
  /\ BUFFER \in Nat /\ RANGE_CAP \in Nat /\ MAX_TICK \in Nat
  /\ STALE \in Nat /\ BEHIND_DEGRADED \in Nat /\ BUILDER_DEGRADED \in Nat

(***************************************************************************)
(* A stamp is written by a tick whose head is a row by then, so it cannot  *)
(* be younger than that row by more than a tick lasts: the wall clock and  *)
(* the rows, which /health compares, never drift apart unseen.             *)
(***************************************************************************)
HeadInv ==
  /\ blockNow \in Nat /\ blockNow >= BUFFER + 2
  /\ currentRow \in Nat /\ currentRow <= blockNow
  /\ tickHead \in Int /\ tickHead <= currentRow
  /\ tickHead # -1 => tickHead >= 0 /\ blockNow <= tickHead + MAX_TICK

RowsInv ==
  /\ mirrorRow \in Nat /\ mirrorRow >= 1
  /\ eventRow \in Nat /\ mirrorRow <= eventRow
  /\ builderRow \in Nat
  /\ stampRow \in Int /\ stampRow <= currentRow + MAX_TICK

HealthInv == HeadInv /\ RowsInv

LEMMA Numbers == HealthNumbers
  BY HealthAssumption DEF HealthNumbers

LEMMA HealthStarts == HealthInit => HealthInv
  BY Numbers DEF HealthInit, HealthInv, HeadInv, RowsInv, HealthNumbers

\* A planned end is above the cursor it moves.
LEMMA PlannedIsAbove ==
  ASSUME HealthInv, tickHead # -1, Planned > eventRow
  PROVE  Planned \in Nat /\ Planned >= 1
<1>1. Planned \in Int
  BY Numbers DEF Planned, Smaller, HealthInv, HeadInv, RowsInv, HealthNumbers
<1> QED
  BY <1>1 DEF HealthInv, RowsInv

LEMMA HealthStep == HealthInv /\ [HealthNext]_healthVars => HealthInv'
<1> SUFFICES ASSUME HealthInv, [HealthNext]_healthVars
             PROVE  HealthInv'
  OBVIOUS
<1> USE Numbers DEF HealthNumbers, HealthInv, HeadInv, RowsInv
<1>1. CASE BlockPasses
  BY <1>1 DEF BlockPasses
<1>2. CASE TickReadsHead
  BY <1>2 DEF TickReadsHead
<1>3. CASE TickLeaves
  BY <1>3 DEF TickLeaves
<1>4. CASE TickMovesCursor
  <2>1. Planned \in Nat /\ Planned >= 1
    BY <1>4, PlannedIsAbove DEF TickMovesCursor
  <2> QED
    BY <1>4, <2>1 DEF TickMovesCursor
<1>5. CASE TickCompletes
  <2>1. Planned \in Nat /\ Planned >= 1
    BY <1>5, PlannedIsAbove DEF TickCompletes
  <2> QED
    BY <1>5, <2>1 DEF TickCompletes
<1>6. CASE TickHolds
  BY <1>6 DEF TickHolds
<1>7. CASE BuilderAdvances
  BY <1>7 DEF BuilderAdvances
<1>8. CASE UNCHANGED healthVars
  BY <1>8 DEF healthVars
<1> QED
  BY <1>1, <1>2, <1>3, <1>4, <1>5, <1>6, <1>7, <1>8 DEF HealthNext

\* Where no row fails a test of the verdict, the head it knows is a real head of not long ago.
LEMMA OkBounds == HealthInv => OkMeansFresh
<1> SUFFICES ASSUME HealthInv, HealthStatus = "ok"
             PROVE  /\ blockNow - mirrorRow < BEHIND_DEGRADED + STALE + MAX_TICK
                    /\ builderRow # 0 => blockNow - builderRow < BUILDER_DEGRADED + STALE + MAX_TICK
  BY DEF OkMeansFresh
<1>1. ~Failing /\ ~Degraded
  BY DEF HealthStatus
<1>2. /\ KnownHead - mirrorRow < BEHIND_DEGRADED
      /\ blockNow - stampRow <= STALE
  BY <1>1, Numbers DEF Degraded, OlderThan, BlocksBehind, KnownHead, HealthInv, HeadInv, RowsInv, HealthNumbers
<1>3. KnownHead >= currentRow /\ KnownHead >= 1 /\ KnownHead \in Nat
  BY DEF KnownHead, HealthInv, HeadInv, RowsInv
<1>4. blockNow - KnownHead <= STALE + MAX_TICK
  BY <1>2, <1>3, Numbers DEF HealthInv, HeadInv, RowsInv, HealthNumbers
<1>5. blockNow - mirrorRow < BEHIND_DEGRADED + STALE + MAX_TICK
  BY <1>2, <1>3, <1>4, Numbers DEF HealthInv, HeadInv, RowsInv, HealthNumbers
<1>6. ASSUME builderRow # 0
      PROVE  blockNow - builderRow < BUILDER_DEGRADED + STALE + MAX_TICK
  <2>1. BuilderStatus # "error" /\ BuilderStatus # "degraded"
    BY <1>1 DEF Failing, Degraded
  <2>2. KnownHead - builderRow < BUILDER_DEGRADED
    BY <1>3, <1>6, <2>1, Numbers DEF BuilderStatus, HealthInv, HeadInv, RowsInv, HealthNumbers
  <2> QED
    BY <1>3, <1>4, <2>2, Numbers DEF HealthInv, HeadInv, RowsInv, HealthNumbers
<1> QED
  BY <1>5, <1>6

\* Every step of the readers is a step of the verdict's rows, or leaves them.
LEMMA ReadersKeepHealth == [ReadersNext]_readerVars => [HealthNext]_healthVars
<1>1. ASSUME ReadersNext
      PROVE  [HealthNext]_healthVars
  <2>1. Plays("health", HealthNext, healthVars)
    BY <1>1 DEF ReadersNext
  <2> QED
    BY <2>1 DEF Plays
<1>2. ASSUME UNCHANGED readerVars
      PROVE  UNCHANGED healthVars
  BY <1>2 DEF readerVars
<1> QED
  BY <1>1, <1>2

(***************************************************************************)
(* /health is honest: in every behaviour of the readers a verdict of ok    *)
(* bounds how far the mirrored cursor and a configured builder cursor are  *)
(* behind the real head, though the head /health knows is a stored one.    *)
(***************************************************************************)
THEOREM OkIsFresh == ReadersSpec => []OkMeansFresh
<1>1. ReadersInit => HealthInv
  BY HealthStarts DEF ReadersInit
<1>2. HealthInv /\ [ReadersNext]_readerVars => HealthInv'
  BY HealthStep, ReadersKeepHealth
<1>3. HealthInv => OkMeansFresh
  BY OkBounds
<1> QED
  BY <1>1, <1>2, <1>3, PTL DEF ReadersSpec
-----------------------------------------------------------------------------
(***************************************************************************)
(* The two caches.  An entry's data is older than the entry by what a      *)
(* handler may have spent between reading it and storing it: a value's by  *)
(* one handling, a page's by the life of a value and two.                  *)
(***************************************************************************)
CacheNumbers ==
  /\ PAGE_TTL \in Nat /\ VALUE_TTL \in Nat /\ KV_MIN \in Nat /\ HANDLING \in Nat
  /\ PAGE_TTL > 0 /\ VALUE_TTL > 0

LEMMA CacheNumbersHold == CacheNumbers
  BY CacheAssumption DEF CacheNumbers

ReadersKnowTheAge ==
  \A r \in Actors :
    /\ readStep[r] = "store" => dataAge[r] <= elapsed[r]
    /\ readStep[r] = "page" => dataAge[r] < VALUE_TTL + HANDLING + elapsed[r]

EntriesKnowTheAge ==
  /\ \A e \in values : e.data <= e.age + HANDLING
  /\ \A e \in pages : e.data < e.age + VALUE_TTL + 2 * HANDLING

CacheInv == ReadersKnowTheAge /\ EntriesKnowTheAge /\ AnswersAreRecent

LEMMA CacheStarts == CacheInit => CacheInv
<1> SUFFICES ASSUME CacheInit PROVE CacheInv
  OBVIOUS
<1> USE CacheNumbersHold DEF CacheNumbers, CacheInit
<1>1. CacheTypeOK
  BY DEF CacheTypeOK
<1>2. ReadersKnowTheAge /\ EntriesKnowTheAge
  BY DEF ReadersKnowTheAge, EntriesKnowTheAge
<1> QED
  BY <1>1, <1>2 DEF CacheInv, AnswersAreRecent

LEMMA CacheStep == CacheInv /\ [CacheNext]_cacheVars => CacheInv'
<1> SUFFICES ASSUME CacheInv, [CacheNext]_cacheVars
             PROVE  CacheInv'
  OBVIOUS
<1> USE CacheNumbersHold DEF CacheNumbers
<1>1. ASSUME NEW r \in Actors, NEW entry \in pages, PageHit(r, entry)
      PROVE  CacheInv'
  BY <1>1 DEF PageHit, Young, CacheInv, AnswersAreRecent, CacheTypeOK, ReadersKnowTheAge, EntriesKnowTheAge
<1>2. ASSUME NEW r \in Actors, BeginHandler(r)
      PROVE  CacheInv'
  BY <1>2 DEF BeginHandler, Forgets, Pass, CacheInv, AnswersAreRecent, CacheTypeOK, ReadersKnowTheAge, EntriesKnowTheAge
<1>3. ASSUME NEW r \in Actors, NEW entry \in values, ValueHit(r, entry)
      PROVE  CacheInv'
  BY <1>3 DEF ValueHit, Pass, Young, CacheInv, AnswersAreRecent, CacheTypeOK, ReadersKnowTheAge, EntriesKnowTheAge
<1>4. ASSUME NEW r \in Actors, Compute(r)
      PROVE  CacheInv'
  BY <1>4 DEF Compute, Pass, CacheInv, AnswersAreRecent, CacheTypeOK, ReadersKnowTheAge, EntriesKnowTheAge
<1>5. ASSUME NEW r \in Actors, NEW kept \in BOOLEAN, StoreValue(r, kept)
      PROVE  CacheInv'
  BY <1>5 DEF StoreValue, Stamped, Pass, CacheInv, AnswersAreRecent, CacheTypeOK, ReadersKnowTheAge, EntriesKnowTheAge
<1>6. ASSUME NEW r \in Actors, NEW kept \in BOOLEAN, StorePage(r, kept)
      PROVE  CacheInv'
  BY <1>6 DEF StorePage, Forgets, Stamped, Pass, CacheInv, AnswersAreRecent, CacheTypeOK, ReadersKnowTheAge, EntriesKnowTheAge
<1>7. ASSUME NEW r \in Actors, HandlerFails(r)
      PROVE  CacheInv'
  BY <1>7 DEF HandlerFails, Forgets, CacheInv, AnswersAreRecent, CacheTypeOK, ReadersKnowTheAge, EntriesKnowTheAge
<1>8. CASE Tick
  <2>1. /\ pages' \subseteq {Older(e) : e \in pages}
        /\ values' \subseteq {Older(e) : e \in values}
    BY <1>8 DEF Tick, Aged
  <2>2. EntriesKnowTheAge' /\ pages' \subseteq [age : Nat, data : Nat] /\ values' \subseteq [age : Nat, data : Nat]
    BY <2>1 DEF Older, CacheInv, AnswersAreRecent, CacheTypeOK, EntriesKnowTheAge
  <2>3. ReadersKnowTheAge'
    BY <1>8 DEF Tick, Grown, CacheInv, AnswersAreRecent, CacheTypeOK, ReadersKnowTheAge
  <2>4. elapsed' \in [Actors -> 0 .. HANDLING] /\ dataAge' \in [Actors -> Nat]
    BY <1>8 DEF Tick, Grown, CacheInv, AnswersAreRecent, CacheTypeOK
  <2> QED
    BY <1>8, <2>2, <2>3, <2>4 DEF Tick, CacheInv, AnswersAreRecent, CacheTypeOK
<1>9. CASE UNCHANGED cacheVars
  BY <1>9 DEF cacheVars, CacheInv, AnswersAreRecent, CacheTypeOK, ReadersKnowTheAge, EntriesKnowTheAge
<1> QED
  BY <1>1, <1>2, <1>3, <1>4, <1>5, <1>6, <1>7, <1>8, <1>9 DEF CacheNext

\* Every step of the readers is a step of the caches, or leaves them.
LEMMA ReadersStepCache == [ReadersNext]_readerVars => [CacheNext]_cacheVars
  BY DEF ReadersNext, Plays, readerVars

(***************************************************************************)
(* An answer's data is younger than the two lives and two handlings, for   *)
(* any lives, any minimum that KV keeps entries for, and any number of     *)
(* readers and warmers.                                                    *)
(***************************************************************************)
THEOREM AnswersStayRecent == ReadersSpec => []AnswersAreRecent
<1>1. ReadersInit => CacheInv
  BY CacheStarts DEF ReadersInit
<1>2. CacheInv /\ [ReadersNext]_readerVars => CacheInv'
  BY CacheStep, ReadersStepCache
<1>3. CacheInv => AnswersAreRecent
  BY DEF CacheInv
<1> QED
  BY <1>1, <1>2, <1>3, PTL DEF ReadersSpec
-----------------------------------------------------------------------------
(***************************************************************************)
(* The landing page.  A part is no older than the build that has it, but   *)
(* for a memo's, which a build that began no longer than MAX_BUILD before  *)
(* the memo was kept has read: the invariant follows both ages.            *)
(***************************************************************************)
FrontNumbers == AGG_TTL \in Nat /\ AGG_TTL > 0 /\ MAX_BUILD \in Nat /\ MaxSecond \in Nat

LEMMA FrontNumbersHold == FrontNumbers
  BY FrontAssumption DEF FrontNumbers

BuildType == [began : 0 .. MaxSecond, serving : -1 .. MaxSecond, has : SUBSET PartType]
MemoType  == [oldest : 0 .. MaxSecond, cachedAt : 0 .. MaxSecond]
PageType  == [built : 0 .. MaxSecond, has : SUBSET PartType]

FrontTypes ==
  /\ frontClock \in 0 .. MaxSecond
  /\ build \in [Builders -> BuildType \union {NoFront}]
  /\ aggMemo \in [Aggregates -> MemoType \union {NoFront}]
  /\ frontRow \in PageType \union {NoFront}

\* A part as old as one of a build that began then may be.
TimesOf(p, began) ==
  /\ p.part \in Queries => p.oldest >= began
  /\ p.oldest >= began - AGG_TTL - MAX_BUILD + 1
  /\ p.oldest <= began + MAX_BUILD

Once(has) == \A p, q \in has : p.part = q.part => p = q

MemosAreTimed == \A a \in Aggregates : aggMemo[a] # NoFront =>
  /\ aggMemo[a].oldest <= aggMemo[a].cachedAt /\ aggMemo[a].cachedAt <= frontClock
  /\ aggMemo[a].cachedAt - aggMemo[a].oldest <= MAX_BUILD

BuildsAreTimed == \A b \in Builders : build[b] # NoFront =>
  /\ build[b].began <= frontClock /\ frontClock <= build[b].began + MAX_BUILD
  /\ build[b].serving <= frontClock
  /\ build[b].serving # -1 => build[b].serving >= build[b].began
  /\ Once(build[b].has)
  /\ \A p \in build[b].has : TimesOf(p, build[b].began)

HasItsParts(shown) ==
  /\ {p.part : p \in shown.has} = AllParts /\ Once(shown.has)
  /\ \A p \in shown.has : TimesOf(p, shown.built)

RowIsWhole == frontRow # NoFront => frontRow.built <= frontClock /\ HasItsParts(frontRow)

FrontInv == FrontTypes /\ MemosAreTimed /\ BuildsAreTimed /\ RowIsWhole

LEMMA FrontStarts == FrontInit => FrontInv
<1> SUFFICES ASSUME FrontInit PROVE FrontInv
  OBVIOUS
<1> USE FrontNumbersHold DEF FrontNumbers, FrontInit
<1>1. FrontTypes
  BY DEF FrontTypes
<1>2. MemosAreTimed /\ BuildsAreTimed /\ RowIsWhole
  BY DEF MemosAreTimed, BuildsAreTimed, RowIsWhole
<1> QED
  BY <1>1, <1>2 DEF FrontInv

\* A part of the right age joins a build that lacks it.
LEMMA PartJoins ==
  ASSUME FrontInv, NEW b \in Builders, NEW part \in AllParts, NEW oldest \in 0 .. MaxSecond,
         Lacks(b, part), build' = Having(b, part, oldest), UNCHANGED frontClock,
         TimesOf([part |-> part, oldest |-> oldest], build[b].began)
  PROVE  build' \in [Builders -> BuildType \union {NoFront}] /\ BuildsAreTimed'
<1> DEFINE new == [part |-> part, oldest |-> oldest]
<1>1. build[b] \in BuildType /\ build[b] # NoFront
  BY DEF Lacks, FrontInv, FrontTypes
<1>2. new \in PartType
  BY DEF PartType
<1>3. build' = [build EXCEPT ![b] = [build[b] EXCEPT !.has = @ \union {new}]]
  BY DEF Having
<1>4. [build[b] EXCEPT !.has = @ \union {new}] \in BuildType
  BY <1>1, <1>2 DEF BuildType
<1>5. build' \in [Builders -> BuildType \union {NoFront}]
  BY <1>3, <1>4 DEF FrontInv, FrontTypes
<1>6. /\ build'[b].began = build[b].began /\ build'[b].serving = build[b].serving
      /\ build'[b].has = build[b].has \union {new}
  BY <1>1, <1>3 DEF FrontInv, FrontTypes, BuildType
<1>7. \A p \in build[b].has : p.part # part
  BY DEF Lacks
<1>8. Once(build[b].has) /\ \A p \in build[b].has : TimesOf(p, build[b].began)
  BY <1>1 DEF FrontInv, BuildsAreTimed
<1>9. Once(build'[b].has) /\ \A p \in build'[b].has : TimesOf(p, build'[b].began)
  BY <1>6, <1>7, <1>8 DEF Once
<1>10. \A c \in Builders \ {b} : build'[c] = build[c]
  BY <1>3 DEF FrontInv, FrontTypes
<1> HIDE DEF new
<1>11. BuildsAreTimed'
  BY <1>1, <1>6, <1>9, <1>10 DEF FrontInv, BuildsAreTimed
<1> QED
  BY <1>5, <1>11

LEMMA FrontStep == FrontInv /\ [FrontNext]_frontVars => FrontInv'
<1> SUFFICES ASSUME FrontInv, [FrontNext]_frontVars
             PROVE  FrontInv'
  OBVIOUS
<1> USE FrontNumbersHold DEF FrontNumbers
<1>1. ASSUME NEW b \in Builders, BeginBuild(b)
      PROVE  FrontInv'
  <2>1. [began |-> frontClock, serving |-> -1, has |-> {}] \in BuildType
    BY DEF BuildType, FrontInv, FrontTypes
  <2>2. FrontTypes'
    BY <1>1, <2>1 DEF BeginBuild, FrontInv, FrontTypes
  <2>3. BuildsAreTimed'
    BY <1>1 DEF BeginBuild, FrontInv, FrontTypes, BuildsAreTimed, Once
  <2> QED
    BY <1>1, <2>2, <2>3 DEF BeginBuild, FrontInv, MemosAreTimed, RowIsWhole
<1>2. ASSUME NEW b \in Builders, ReadServing(b)
      PROVE  FrontInv'
  <2>1. build[b] \in BuildType /\ build' = [build EXCEPT ![b] = [build[b] EXCEPT !.serving = frontClock]]
    BY <1>2 DEF ReadServing, FrontInv, FrontTypes
  <2>2. [build[b] EXCEPT !.serving = frontClock] \in BuildType
    BY <2>1 DEF BuildType, FrontInv, FrontTypes
  <2>3. FrontTypes'
    BY <1>2, <2>1, <2>2 DEF ReadServing, FrontInv, FrontTypes
  <2>4. BuildsAreTimed'
    BY <1>2, <2>1 DEF ReadServing, FrontInv, FrontTypes, BuildsAreTimed, BuildType
  <2> QED
    BY <1>2, <2>3, <2>4 DEF ReadServing, FrontInv, MemosAreTimed, RowIsWhole
<1>3. ASSUME NEW b \in Builders, NEW q \in Queries, ReadPart(b, q)
      PROVE  FrontInv'
  <2>1. q \in AllParts /\ frontClock \in 0 .. MaxSecond /\ build[b] \in BuildType /\ build[b] # NoFront
    BY <1>3 DEF AllParts, ReadPart, Lacks, FrontInv, FrontTypes
  <2>2. build[b].began <= frontClock /\ frontClock <= build[b].began + MAX_BUILD /\ build[b].began \in Nat
    BY <2>1 DEF BuildType, FrontInv, BuildsAreTimed
  <2>3. TimesOf([part |-> q, oldest |-> frontClock], build[b].began)
    <3>1. frontClock \in Nat
      BY <2>1
    <3> QED
      BY <2>2, <3>1 DEF TimesOf
  <2>4. build' \in [Builders -> BuildType \union {NoFront}] /\ BuildsAreTimed'
    BY <1>3, <2>1, <2>3, PartJoins DEF ReadPart
  <2> QED
    BY <1>3, <2>4 DEF ReadPart, FrontInv, FrontTypes, MemosAreTimed, RowIsWhole
<1>4. ASSUME NEW b \in Builders, NEW a \in Aggregates, TakeMemo(b, a)
      PROVE  FrontInv'
  <2>1. /\ a \in AllParts /\ build[b] \in BuildType /\ build[b] # NoFront
        /\ aggMemo[a] # NoFront /\ aggMemo[a] \in MemoType
        /\ frontClock - aggMemo[a].cachedAt < AGG_TTL
    BY <1>4 DEF AllParts, TakeMemo, Good, Lacks, FrontInv, FrontTypes
  <2>2. /\ build[b].began <= frontClock /\ frontClock <= build[b].began + MAX_BUILD
        /\ build[b].began \in Nat /\ frontClock \in Nat
    BY <2>1 DEF BuildType, FrontInv, FrontTypes, BuildsAreTimed
  <2>3. /\ aggMemo[a].oldest <= aggMemo[a].cachedAt /\ aggMemo[a].cachedAt <= frontClock
        /\ aggMemo[a].cachedAt - aggMemo[a].oldest <= MAX_BUILD
        /\ aggMemo[a].oldest \in 0 .. MaxSecond /\ aggMemo[a].cachedAt \in Nat
    BY <2>1 DEF MemoType, FrontInv, MemosAreTimed
  <2>4. TimesOf([part |-> a, oldest |-> aggMemo[a].oldest], build[b].began)
    <3>1. a \notin Queries
      BY FrontAssumption
    <3> QED
      BY <2>1, <2>2, <2>3, <3>1 DEF TimesOf
  <2>5. build' \in [Builders -> BuildType \union {NoFront}] /\ BuildsAreTimed'
    BY <1>4, <2>1, <2>3, <2>4, PartJoins DEF TakeMemo
  <2> QED
    BY <1>4, <2>5 DEF TakeMemo, FrontInv, FrontTypes, MemosAreTimed, RowIsWhole
<1>5. ASSUME NEW b \in Builders, NEW a \in Aggregates, NEW reads \in BOOLEAN, NEW lands \in BOOLEAN,
             ComputeMemo(b, a, reads, lands)
      PROVE  FrontInv'
  <2>1. a \in AllParts /\ build[b] \in BuildType /\ build[b] # NoFront /\ build[b].serving # -1
    BY <1>5 DEF AllParts, ComputeMemo, Lacks, FrontInv, FrontTypes
  <2>2. /\ build[b].began <= frontClock /\ frontClock <= build[b].began + MAX_BUILD
        /\ build[b].serving <= frontClock /\ build[b].serving >= build[b].began
        /\ build[b].began \in Nat /\ frontClock \in 0 .. MaxSecond /\ build[b].serving \in 0 .. MaxSecond
    BY <2>1 DEF BuildType, FrontInv, FrontTypes, BuildsAreTimed
  <2>3. TimesOf([part |-> a, oldest |-> build[b].serving], build[b].began)
    <3>1. a \notin Queries
      BY FrontAssumption
    <3> QED
      BY <2>2, <3>1 DEF TimesOf
  <2>4. build' \in [Builders -> BuildType \union {NoFront}] /\ BuildsAreTimed'
    BY <1>5, <2>1, <2>2, <2>3, PartJoins DEF ComputeMemo
  <2>5. [oldest |-> build[b].serving, cachedAt |-> frontClock] \in MemoType
    BY <2>2 DEF MemoType
  <2>6. aggMemo' \in [Aggregates -> MemoType \union {NoFront}] /\ MemosAreTimed'
    <3>1. CASE lands
      <4>1. aggMemo' = [aggMemo EXCEPT ![a] = [oldest |-> build[b].serving, cachedAt |-> frontClock]]
        BY <1>5, <3>1 DEF ComputeMemo
      <4> QED
        BY <1>5, <2>2, <2>5, <4>1 DEF ComputeMemo, FrontInv, FrontTypes, MemosAreTimed
    <3>2. CASE ~lands
      BY <1>5, <3>2 DEF ComputeMemo, FrontInv, FrontTypes, MemosAreTimed
    <3> QED
      BY <3>1, <3>2
  <2> QED
    BY <1>5, <2>4, <2>6 DEF ComputeMemo, FrontInv, FrontTypes, RowIsWhole
<1>6. ASSUME NEW b \in Builders, FinishBuild(b)
      PROVE  FrontInv'
  <2>1. build[b] \in BuildType /\ build[b] # NoFront
    BY <1>6 DEF FinishBuild, Complete, FrontInv, FrontTypes
  <2>2. Page(b) \in PageType /\ Page(b).built <= frontClock /\ HasItsParts(Page(b))
    BY <1>6, <2>1 DEF FinishBuild, Complete, Page, PageType, HasItsParts, BuildType, FrontInv, BuildsAreTimed
  <2>3. build' \in [Builders -> BuildType \union {NoFront}] /\ BuildsAreTimed'
    BY <1>6 DEF FinishBuild, FrontInv, FrontTypes, BuildsAreTimed
  <2>4. frontRow' \in PageType \union {NoFront} /\ RowIsWhole'
    <3>1. CASE b \in Crons
      <4>1. frontRow' = Page(b) /\ frontClock' = frontClock
        BY <1>6, <3>1 DEF FinishBuild
      <4> QED
        BY <2>2, <4>1 DEF RowIsWhole
    <3>2. CASE b \notin Crons
      BY <1>6, <3>2 DEF FinishBuild, FrontInv, FrontTypes, RowIsWhole
    <3> QED
      BY <3>1, <3>2
  <2> QED
    BY <1>6, <2>3, <2>4 DEF FinishBuild, FrontInv, FrontTypes, MemosAreTimed
<1>7. ASSUME NEW b \in Builders, FailBuild(b)
      PROVE  FrontInv'
  BY <1>7 DEF FailBuild, FrontInv, FrontTypes, MemosAreTimed, BuildsAreTimed, RowIsWhole
<1>8. CASE FrontClockMoves
  <2>1. frontClock' \in 0 .. MaxSecond /\ frontClock' = frontClock + 1 /\ frontClock \in Nat
    BY <1>8 DEF FrontClockMoves, FrontInv, FrontTypes
  <2>2. MemosAreTimed'
    BY <1>8, <2>1 DEF FrontClockMoves, FrontInv, FrontTypes, MemosAreTimed, MemoType
  <2>3. BuildsAreTimed'
    BY <1>8, <2>1 DEF FrontClockMoves, FrontInv, FrontTypes, BuildsAreTimed, BuildType
  <2>4. RowIsWhole'
    BY <1>8, <2>1 DEF FrontClockMoves, FrontInv, FrontTypes, RowIsWhole, PageType
  <2> QED
    BY <1>8, <2>1, <2>2, <2>3, <2>4 DEF FrontClockMoves, FrontInv, FrontTypes
<1>9. CASE UNCHANGED frontVars
  BY <1>9 DEF frontVars, FrontInv, FrontTypes, MemosAreTimed, BuildsAreTimed, RowIsWhole
<1> QED
  BY <1>1, <1>2, <1>3, <1>4, <1>5, <1>6, <1>7, <1>8, <1>9 DEF FrontNext

\* Where every part comes once there are as many of them as parts.
LEMMA OncePerPart ==
  ASSUME NEW has, {p.part : p \in has} = AllParts, Once(has)
  PROVE  Cardinality(has) = Cardinality(AllParts)
<1> DEFINE partOf == [p \in has |-> p.part]
<1>1. partOf \in Injection(has, AllParts) /\ partOf \in Surjection(has, AllParts)
  BY DEF Once, Injection, Surjection, IsInjective
<1>2. IsFiniteSet(AllParts)
  BY FrontAssumption, FS_Union DEF AllParts
<1> QED
  BY <1>1, <1>2, FS_Injection

LEMMA FrontIsSeenWhole == FrontInv => FrontIsWhole
<1> SUFFICES ASSUME FrontInv PROVE FrontIsWhole
  OBVIOUS
<1> USE FrontNumbersHold DEF FrontNumbers
<1>1. ASSUME NEW shown \in FrontPages
      PROVE  shown \in PageType /\ shown.built <= frontClock /\ HasItsParts(shown)
  <2>1. CASE shown = frontRow /\ frontRow # NoFront
    BY <2>1 DEF FrontInv, FrontTypes, RowIsWhole
  <2>2. CASE \E b \in Visitors : Complete(b) /\ shown = Page(b)
    <3>1. PICK b \in Visitors : Complete(b) /\ shown = Page(b)
      BY <2>2
    <3>2. b \in Builders /\ build[b] \in BuildType /\ build[b] # NoFront
      BY <3>1 DEF Builders, Complete, FrontInv, FrontTypes
    <3> QED
      BY <3>1, <3>2 DEF Complete, Page, PageType, HasItsParts, BuildType, FrontInv, BuildsAreTimed
  <2> QED
    BY <2>1, <2>2 DEF FrontPages
<1>2. FrontTypeOK
  <2>1. \A p \in FrontPages : p.built \in 0 .. frontClock /\ p.has \subseteq PartType
    BY <1>1 DEF PageType, FrontInv, FrontTypes
  <2>2. \A a \in Aggregates : aggMemo[a] # NoFront => aggMemo[a].oldest <= aggMemo[a].cachedAt
    BY DEF FrontInv, MemosAreTimed
  <2>3. \A b \in Builders : build[b] # NoFront => build[b].serving \in -1 .. frontClock /\ build[b].has \subseteq PartType
    BY DEF FrontInv, FrontTypes, BuildsAreTimed, BuildType
  <2> QED
    BY <2>1, <2>2, <2>3 DEF FrontTypeOK, FrontInv, FrontTypes
<1>3. \A shown \in FrontPages :
        /\ {p.part : p \in shown.has} = AllParts /\ Cardinality(shown.has) = Cardinality(AllParts)
        /\ \A p \in shown.has : TimesOf(p, shown.built)
  BY <1>1, OncePerPart DEF HasItsParts
<1> QED
  BY <1>2, <1>3 DEF FrontIsWhole, TimesOf

LEMMA ReadersStepFront == [ReadersNext]_readerVars => [FrontNext]_frontVars
  BY DEF ReadersNext, Plays, readerVars

(***************************************************************************)
(* Every landing page kept or sent has each part once, its own from its    *)
(* own time and a memo's from no more than the memo's life and a build     *)
(* before, for any parts, builds that run at once, lives and failures.     *)
(***************************************************************************)
THEOREM FrontStaysWhole == ReadersSpec => []FrontIsWhole
<1>1. ReadersInit => FrontInv
  BY FrontStarts DEF ReadersInit
<1>2. FrontInv /\ [ReadersNext]_readerVars => FrontInv'
  BY FrontStep, ReadersStepFront
<1>3. FrontInv => FrontIsWhole
  BY FrontIsSeenWhole
<1> QED
  BY <1>1, <1>2, <1>3, PTL DEF ReadersSpec
-----------------------------------------------------------------------------
(***************************************************************************)
(* The pages of the models.  The owner of a slug and the newest listing of *)
(* a group are choices, which exist because times are natural numbers: the *)
(* least of any set of them is reached (LeastOfNaturals).                  *)
(***************************************************************************)
ListingType ==
  [id : Ids, name : Names, family : {NoName, "curated"}, canonical : Curated \union {NoName}, created : Nat]

ModelsInv ==
  /\ models \in Seq(ListingType)
  /\ \A i, j \in DOMAIN models : models[i].id = models[j].id => i = j
  /\ \A i \in DOMAIN models : models[i].created <= Len(models)

LEMMA ModelsStart == ModelsInit => ModelsInv
  BY DEF ModelsInit, ModelsInv

\* A row that is there is changed in place ...
LEMMA RowIsChanged ==
  ASSUME ModelsInv, NEW id \in Ids, Known(id), NEW row \in ListingType,
         row.id = id, row.created = models[RowOf(id)].created,
         models' = [models EXCEPT ![RowOf(id)] = row]
  PROVE  ModelsInv'
<1>1. RowOf(id) \in DOMAIN models /\ models[RowOf(id)].id = id
  BY DEF Known, RowOf, ModelRows, Range
<1>2. models' \in Seq(ListingType) /\ Len(models') = Len(models) /\ DOMAIN models' = DOMAIN models
  BY <1>1 DEF ModelsInv
<1>3. \A i \in DOMAIN models : models'[i].id = models[i].id /\ models'[i].created = models[i].created
  BY <1>1 DEF ModelsInv
<1> QED
  BY <1>2, <1>3 DEF ModelsInv

\* ... and another comes last.
LEMMA RowIsAdded ==
  ASSUME ModelsInv, NEW id \in Ids, ~Known(id), NEW name \in Names,
         NEW family \in {NoName, "curated"}, NEW canonical \in Curated \union {NoName},
         models' = Append(models, Listing(id, name, family, canonical))
  PROVE  ModelsInv' /\ CurationKept
<1> DEFINE new == Listing(id, name, family, canonical)
<1>1. Len(models) \in Nat /\ Len(models) \div 2 \in Nat /\ Len(models) \div 2 <= Len(models)
  BY DEF ModelsInv
<1>2. new \in ListingType /\ new.id = id /\ new.created = Len(models) \div 2
  BY <1>1 DEF Listing, ListingType
<1>3. \A i \in DOMAIN models : models[i].id # id
  BY DEF Known, ModelRows, Range
<1> HIDE DEF new
<1>4. /\ models' \in Seq(ListingType) /\ Len(models') = Len(models) + 1
      /\ DOMAIN models' = 1 .. Len(models) + 1 /\ DOMAIN models = 1 .. Len(models)
      /\ \A i \in 1 .. Len(models) : models'[i] = models[i]
      /\ models'[Len(models) + 1] = new
  BY <1>2 DEF ModelsInv, new
<1>5. \A i, j \in DOMAIN models' : models'[i].id = models'[j].id => i = j
  BY <1>1, <1>2, <1>3, <1>4 DEF ModelsInv
<1>6. \A i \in DOMAIN models' : models'[i].created <= Len(models')
  <2> SUFFICES ASSUME NEW i \in DOMAIN models' PROVE models'[i].created <= Len(models')
    OBVIOUS
  <2>1. CASE i = Len(models) + 1
    BY <1>1, <1>2, <1>4, <2>1
  <2>2. CASE i # Len(models) + 1
    <3>1. i \in DOMAIN models /\ models[i] \in ListingType
      BY <1>1, <1>4, <2>2 DEF ModelsInv
    <3>2. models[i].created <= Len(models) /\ models[i].created \in Nat
      BY <3>1 DEF ModelsInv, ListingType
    <3> QED
      BY <1>1, <1>4, <3>1, <3>2
  <2> QED
    BY <2>1, <2>2
<1> QED
  BY <1>4, <1>5, <1>6 DEF ModelsInv, CurationKept

LEMMA ModelsStep == ModelsInv /\ ModelsNext => ModelsInv' /\ CurationKept
<1> SUFFICES ASSUME ModelsInv, NEW id \in Ids, NEW name \in Names,
                    \/ Discover(id, name)
                    \/ \E family \in {NoName, "curated"}, canonical \in Curated \union {NoName} :
                         Edit(id, name, family, canonical)
             PROVE  ModelsInv' /\ CurationKept
  BY DEF ModelsNext
<1>1. ASSUME Known(id)
      PROVE  /\ RowOf(id) \in DOMAIN models /\ models[RowOf(id)] \in ListingType
             /\ models[RowOf(id)].id = id
  BY <1>1 DEF Known, RowOf, ModelRows, Range, ModelsInv
<1>2. CASE Discover(id, name)
  <2>1. CASE Known(id)
    <3> DEFINE row == [models[RowOf(id)] EXCEPT !.name = name]
    <3>1. models' = [models EXCEPT ![RowOf(id)] = row]
      BY <1>2, <2>1 DEF Discover, Refreshed
    <3>2. /\ row \in ListingType /\ row.id = id /\ row.created = models[RowOf(id)].created
          /\ row.canonical = models[RowOf(id)].canonical /\ row.family = models[RowOf(id)].family
      BY <1>1, <2>1 DEF ListingType
    <3> HIDE DEF row
    <3>3. CurationKept
      BY <1>1, <2>1, <3>1, <3>2 DEF CurationKept, ModelsInv
    <3> QED
      BY <2>1, <3>1, <3>2, <3>3, RowIsChanged
  <2>2. CASE ~Known(id)
    BY <1>2, <2>2, RowIsAdded DEF Discover
  <2> QED
    BY <2>1, <2>2
<1>3. ASSUME NEW family \in {NoName, "curated"}, NEW canonical \in Curated \union {NoName},
             Edit(id, name, family, canonical)
      PROVE  ModelsInv' /\ CurationKept
  <2>1. CASE Known(id)
    <3> DEFINE old == models[RowOf(id)]
               row == [old EXCEPT !.name = name, !.family = Coalesce(family, old.family),
                                  !.canonical = Coalesce(canonical, old.canonical)]
    <3>1. models' = [models EXCEPT ![RowOf(id)] = row]
      BY <1>3, <2>1 DEF Edit
    <3>2. /\ row \in ListingType /\ row.id = id /\ row.created = models[RowOf(id)].created
          /\ models[RowOf(id)].canonical # NoName => row.canonical # NoName
          /\ models[RowOf(id)].family # NoName => row.family # NoName
      BY <1>1, <2>1 DEF ListingType, Coalesce
    <3> HIDE DEF row
    <3>3. CurationKept
      BY <1>1, <2>1, <3>1, <3>2 DEF CurationKept, ModelsInv
    <3> QED
      BY <2>1, <3>1, <3>2, <3>3, RowIsChanged
  <2>2. CASE ~Known(id)
    BY <1>3, <2>2, RowIsAdded DEF Edit
  <2> QED
    BY <2>1, <2>2
<1> QED
  BY <1>2, <1>3

LEMMA RowsAreListings ==
  ASSUME ModelsInv, NEW r \in ModelRows
  PROVE  r \in ListingType /\ r.created <= Len(models) /\ Len(models) \in Nat
  BY DEF ModelsInv, ModelRows, Range

LEMMA GroupsAreSeen ==
  ASSUME ModelsInv, NEW key \in Keys
  PROVE  /\ FirstSeen(GroupOf(key)) \in Nat
         /\ \E r \in GroupOf(key) : \A q \in GroupOf(key) : r.created >= q.created
<1> DEFINE times == {r.created : r \in GroupOf(key)}
           ages == {Len(models) - r.created : r \in GroupOf(key)}
<1>1. GroupOf(key) # {} /\ GroupOf(key) \subseteq ModelRows
  BY DEF Keys, GroupOf
<1>2. \A r \in GroupOf(key) : r.created \in Nat /\ r.created <= Len(models) /\ Len(models) \in Nat
  BY <1>1, RowsAreListings DEF ListingType
<1>3. times \in SUBSET Nat /\ times # {} /\ ages \in SUBSET Nat /\ ages # {}
  BY <1>1, <1>2
<1>4. Min(times) \in times
  BY <1>3, LeastOfNaturals
<1>5. Min(ages) \in ages /\ \A x \in ages : Min(ages) <= x
  BY <1>3, LeastOfNaturals
<1>6. PICK r \in GroupOf(key) : Min(ages) = Len(models) - r.created
  BY <1>5
<1>7. \A q \in GroupOf(key) : r.created >= q.created
  <2> SUFFICES ASSUME NEW q \in GroupOf(key) PROVE r.created >= q.created
    OBVIOUS
  <2>1. Len(models) - q.created \in ages
    OBVIOUS
  <2>2. Min(ages) <= Len(models) - q.created
    BY <1>5, <2>1
  <2> QED
    BY <1>2, <1>6, <2>2
<1> QED
  BY <1>2, <1>4, <1>7 DEF FirstSeen

\* The owner of a slug has it, and no group that has it was seen before.
LEMMA OwnerHasItsSlug ==
  ASSUME ModelsInv, NEW slug \in listModelSlugs
  PROVE  /\ OwnerOf(slug) \in Keys /\ SlugOf(GroupOf(OwnerOf(slug))) = slug
         /\ \A key \in Keys : SlugOf(GroupOf(key)) = slug =>
              FirstSeen(GroupOf(OwnerOf(slug))) <= FirstSeen(GroupOf(key))
<1> DEFINE sharing == {key \in Keys : SlugOf(GroupOf(key)) = slug}
           times == {FirstSeen(GroupOf(key)) : key \in sharing}
<1>1. sharing # {}
  BY DEF listModelSlugs
<1>2. times \in SUBSET Nat /\ times # {}
  BY <1>1, GroupsAreSeen
<1>3. Min(times) \in times /\ \A x \in times : Min(times) <= x
  BY <1>2, LeastOfNaturals
<1>4. \E key \in sharing : \A other \in sharing : FirstSeen(GroupOf(key)) <= FirstSeen(GroupOf(other))
  BY <1>3
<1>5. /\ OwnerOf(slug) \in sharing
      /\ \A other \in sharing : FirstSeen(GroupOf(OwnerOf(slug))) <= FirstSeen(GroupOf(other))
  BY <1>4 DEF OwnerOf
<1> QED
  BY <1>5

LEMMA ListingOwnsItsSlug ==
  ASSUME ModelsInv, NEW slug \in listModelSlugs, NEW r \in GroupOf(OwnerOf(slug))
  PROVE  ownedSlug(r) = slug
<1>1. r \in ModelRows /\ effectiveCanonicalKey(r) = OwnerOf(slug)
  BY DEF GroupOf
<1>2. Members(r) = GroupOf(OwnerOf(slug))
  BY <1>1 DEF Members, GroupOf
<1>3. SlugOf(Members(r)) = slug
  BY <1>2, OwnerHasItsSlug
<1> QED
  BY <1>1, <1>3 DEF ownedSlug

LEMMA NewestIsOfTheGroup ==
  ASSUME ModelsInv, NEW slug \in listModelSlugs
  PROVE  resolveModelSlug(slug) \in GroupOf(OwnerOf(slug))
<1>1. \E r \in GroupOf(OwnerOf(slug)) : \A q \in GroupOf(OwnerOf(slug)) : r.created >= q.created
  BY OwnerHasItsSlug, GroupsAreSeen
<1> QED
  BY <1>1 DEF resolveModelSlug

LEMMA SlugsFitTogether == ModelsInv => ModelsTypeOK /\ SlugLeadsToItsPage /\ OldestOwnsItsSlug /\ SiblingLinksAreTrue
<1> SUFFICES ASSUME ModelsInv
             PROVE  ModelsTypeOK /\ SlugLeadsToItsPage /\ OldestOwnsItsSlug /\ SiblingLinksAreTrue
  OBVIOUS
<1>1. ModelsTypeOK
  BY RowsAreListings DEF ModelsTypeOK, ListingType, ModelsInv
<1>2. SlugLeadsToItsPage
  BY ListingOwnsItsSlug, NewestIsOfTheGroup DEF SlugLeadsToItsPage
<1>3. OldestOwnsItsSlug
  BY OwnerHasItsSlug DEF OldestOwnsItsSlug, listModelSlugs
<1>4. SiblingLinksAreTrue
  <2> SUFFICES ASSUME NEW r \in ModelRows, NEW key, slugFor(r, key) # NoName
               PROVE  effectiveCanonicalKey(resolveModelSlug(slugFor(r, key))) = key
    BY DEF SiblingLinksAreTrue
  <2>1. slugFor(r, key) \in listModelSlugs /\ OwnerOf(slugFor(r, key)) = key
    BY DEF slugFor
  <2> QED
    BY <2>1, NewestIsOfTheGroup DEF GroupOf
<1> QED
  BY <1>1, <1>2, <1>3, <1>4

LEMMA ReadersStepModels == [ReadersNext]_readerVars => [ModelsNext]_modelVars
  BY DEF ReadersNext, Plays, readerVars

(***************************************************************************)
(* A slug leads to a page that names it, the group seen first owns it,     *)
(* links to siblings are true and curation lasts, for any listings, names  *)
(* and edits.                                                              *)
(***************************************************************************)
THEOREM ModelPagesStayTrue == ReadersSpec => ModelPagesHold
<1>1. ReadersInit => ModelsInv
  BY ModelsStart DEF ReadersInit
<1>2. ModelsInv /\ [ReadersNext]_readerVars => ModelsInv'
  BY ModelsStep, ReadersStepModels DEF ModelsInv, modelVars
<1>3. ModelsInv /\ [ReadersNext]_readerVars => [CurationKept]_modelVars
  BY ModelsStep, ReadersStepModels
<1>4. ModelsInv => ModelsTypeOK /\ SlugLeadsToItsPage /\ OldestOwnsItsSlug /\ SiblingLinksAreTrue
  BY SlugsFitTogether
<1> QED
  BY <1>1, <1>2, <1>3, <1>4, PTL DEF ReadersSpec, ModelPagesHold, CurationLasts
-----------------------------------------------------------------------------
(***************************************************************************)
(* The walk over the cached pages.  A count made since the last session    *)
(* was indexed is right, so is a page; and a page's word that it is the    *)
(* last is as old as the page and the count together, which is what the    *)
(* walk's quiet time must cover.                                           *)
(***************************************************************************)
PagesNumbers ==
  /\ LIMIT \in Nat /\ LIMIT > 0 /\ PAGE_CAP \in Nat /\ PAGE_CAP > 0
  /\ PAGE_LIFE \in Nat /\ PAGE_LIFE > 0 /\ COUNT_LIFE \in Nat /\ COUNT_LIFE > 0 /\ MaxOpened \in Nat

LEMMA PagesNumbersHold == PagesNumbers
  BY PagesAssumption DEF PagesNumbers

CachedPage == [age : 0 .. PAGE_LIFE, rows : SUBSET (1 .. MaxOpened), more : BOOLEAN]

PagesTypes ==
  /\ listed \subseteq 1 .. MaxOpened /\ walkFound \subseteq listed
  /\ total \in [age : 0 .. COUNT_LIFE, count : 0 .. MaxOpened]
  /\ page \in [1 .. PAGE_CAP -> CachedPage]
  /\ \A p \in 1 .. PAGE_CAP : page[p].rows \subseteq listed
  /\ walkPage \in 0 .. PAGE_CAP /\ calm \in 0 .. SETTLE /\ settled \in BOOLEAN

CountIsCurrent == total.age < COUNT_LIFE /\ total.age < calm => total.count = Cardinality(listed)

PagesAreCurrent == \A p \in 1 .. PAGE_CAP : page[p].age < PAGE_LIFE =>
  /\ page[p].age < calm => page[p].rows = RowsOn(p)
  /\ page[p].age + COUNT_LIFE <= calm => page[p].more = (p < TotalPages(Cardinality(listed)))

\* A session's place in the list, newest first.
PlaceOf(t) == Cardinality({u \in listed : u > t})

WalkedSoFar == settled =>
  /\ calm = SETTLE
  /\ walkPage # 0 => \A t \in listed : PlaceOf(t) < (walkPage - 1) * LIMIT => t \in walkFound
  /\ walkPage = 0 => listed \subseteq walkFound

PagesInv == PagesTypes /\ CountIsCurrent /\ PagesAreCurrent /\ WalkedSoFar

LEMMA PlacesAreFewer ==
  ASSUME PagesTypes
  PROVE  /\ Cardinality(listed) \in 0 .. MaxOpened
         /\ \A t \in listed : PlaceOf(t) \in Nat /\ PlaceOf(t) < Cardinality(listed)
<1>1. IsFiniteSet(listed) /\ Cardinality(listed) <= MaxOpened /\ Cardinality(listed) \in Nat
  <2>1. IsFiniteSet(1 .. MaxOpened) /\ Cardinality(1 .. MaxOpened) = MaxOpened
    BY PagesNumbersHold, FS_Interval DEF PagesNumbers
  <2>2. listed \in SUBSET (1 .. MaxOpened)
    BY DEF PagesTypes
  <2>3. IsFiniteSet(listed) /\ Cardinality(listed) <= MaxOpened
    BY <2>1, <2>2, FS_Subset
  <2> QED
    BY <2>3, FS_CardinalityType
<1>2. ASSUME NEW t \in listed
      PROVE  PlaceOf(t) \in Nat /\ PlaceOf(t) < Cardinality(listed)
  <2> DEFINE above == {u \in listed : u > t}
  <2>1. above \in SUBSET listed /\ t \notin above
    BY <1>2 DEF PagesTypes
  <2>2. IsFiniteSet(above) /\ Cardinality(above) <= Cardinality(listed) /\ Cardinality(above) # Cardinality(listed)
    BY <1>1, <1>2, <2>1, FS_Subset
  <2>3. Cardinality(above) \in Nat
    BY <2>2, FS_CardinalityType
  <2> QED
    BY <1>1, <2>2, <2>3 DEF PlaceOf
<1> QED
  BY <1>1, <1>2, PagesNumbersHold DEF PagesNumbers

\* A page that is not before the last one ends the list.
LEMMA LastPageEnds ==
  ASSUME PagesNumbers, NEW count \in Nat, NEW p \in Nat, ~(p < TotalPages(count))
  PROVE  count <= p * LIMIT
<1> DEFINE q == (count + LIMIT - 1) \div LIMIT
<1>1. q \in Nat /\ count + LIMIT - 1 < q * LIMIT + LIMIT
  BY DEF PagesNumbers
<1>2. q <= p
  BY <1>1 DEF TotalPages
<1> HIDE DEF q
<1>3. q * LIMIT <= p * LIMIT
  BY <1>1, <1>2 DEF PagesNumbers
<1>4. q * LIMIT \in Nat /\ p * LIMIT \in Nat
  BY <1>1 DEF PagesNumbers
<1> QED
  BY <1>1, <1>3, <1>4 DEF PagesNumbers

LEMMA PagesStart == PagesInit => PagesInv
<1> SUFFICES ASSUME PagesInit PROVE PagesInv
  OBVIOUS
<1> USE PagesNumbersHold DEF PagesNumbers
<1>1. Blank \in CachedPage /\ Blank.rows = {} /\ Stale \in [age : 0 .. COUNT_LIFE, count : 0 .. MaxOpened]
  BY DEF Blank, CachedPage, Stale
<1>2. SETTLE \in Nat
  BY DEF SETTLE
<1>3. PagesTypes
  <2>1. page \in [1 .. PAGE_CAP -> CachedPage] /\ \A p \in 1 .. PAGE_CAP : page[p].rows \subseteq listed
    BY <1>1 DEF PagesInit
  <2>2. calm \in 0 .. SETTLE /\ walkPage \in 0 .. PAGE_CAP
    BY <1>2 DEF PagesInit
  <2>5. settled \in BOOLEAN
    BY DEF PagesInit
  <2>3. listed \subseteq 1 .. MaxOpened /\ walkFound \subseteq listed
    BY DEF PagesInit
  <2>4. total \in [age : 0 .. COUNT_LIFE, count : 0 .. MaxOpened]
    BY <1>1 DEF PagesInit
  <2> QED
    BY <2>1, <2>2, <2>3, <2>4, <2>5 DEF PagesTypes
<1>4. CountIsCurrent /\ PagesAreCurrent /\ WalkedSoFar
  BY DEF PagesInit, Stale, Blank, CountIsCurrent, PagesAreCurrent, WalkedSoFar
<1> QED
  BY <1>3, <1>4 DEF PagesInv

\* What a request answers with and leaves in the caches.
LEMMA PageIsAsked ==
  ASSUME PagesInv, NEW p \in 1 .. PAGE_CAP, AskPage(p), UNCHANGED <<listed, calm>>
  PROVE  /\ page' \in [1 .. PAGE_CAP -> CachedPage] /\ total' \in [age : 0 .. COUNT_LIFE, count : 0 .. MaxOpened]
         /\ PageNow(p).rows \subseteq listed
         /\ \A q \in 1 .. PAGE_CAP : page'[q].rows \subseteq listed
         /\ CountIsCurrent' /\ PagesAreCurrent'
         /\ calm = SETTLE => /\ PageNow(p).rows = RowsOn(p)
                             /\ PageNow(p).more = (p < TotalPages(Cardinality(listed)))
<1> USE PagesNumbersHold DEF PagesNumbers
<1>1. /\ page \in [1 .. PAGE_CAP -> CachedPage] /\ total \in [age : 0 .. COUNT_LIFE, count : 0 .. MaxOpened]
      /\ \A q \in 1 .. PAGE_CAP : page[q].rows \subseteq listed
      /\ listed \subseteq 1 .. MaxOpened /\ calm \in 0 .. SETTLE
  BY DEF PagesInv, PagesTypes
<1>2. Cardinality(listed) \in 0 .. MaxOpened
  BY PlacesAreFewer DEF PagesInv
<1>3. /\ CountNow \in [age : 0 .. COUNT_LIFE, count : 0 .. MaxOpened]
      /\ calm >= COUNT_LIFE => CountNow.count = Cardinality(listed)
      /\ CountNow.age < calm => CountNow.count = Cardinality(listed)
  BY <1>1, <1>2 DEF CountNow, CountIsCurrent, PagesInv
<1>4. total' = total \/ total' = CountNow
  BY DEF AskPage
<1>5. CountIsCurrent'
  BY <1>3, <1>4 DEF CountIsCurrent, PagesInv
<1>6. RowsOn(p) \subseteq listed
  BY DEF RowsOn
<1>7. CASE page[p].age < PAGE_LIFE
  <2>1. PageNow(p) = page[p] /\ page' = page
    BY <1>1, <1>7 DEF PageNow, AskPage
  <2>2. PagesAreCurrent'
    BY <2>1 DEF PagesAreCurrent, PagesInv, RowsOn
  <2>3. calm = SETTLE => /\ PageNow(p).rows = RowsOn(p)
                         /\ PageNow(p).more = (p < TotalPages(Cardinality(listed)))
    BY <1>1, <1>7, <2>1 DEF PagesAreCurrent, PagesInv, SETTLE, CachedPage
  <2> QED
    BY <1>1, <1>3, <1>4, <1>5, <2>1, <2>2, <2>3
<1>8. CASE ~(page[p].age < PAGE_LIFE)
  <2> DEFINE new == [age |-> 0, rows |-> RowsOn(p), more |-> p < TotalPages(CountNow.count)]
  <2>1. PageNow(p) = new /\ page' = [page EXCEPT ![p] = new]
    BY <1>8 DEF PageNow, AskPage
  <2>2. new \in CachedPage /\ new.rows = RowsOn(p) /\ new.age = 0
    <3>1. RowsOn(p) \in SUBSET (1 .. MaxOpened)
      BY <1>1, <1>6
    <3>2. (p < TotalPages(CountNow.count)) \in BOOLEAN
      OBVIOUS
    <3>3. 0 \in 0 .. PAGE_LIFE
      OBVIOUS
    <3> QED
      BY <3>1, <3>2, <3>3, Zenon DEF CachedPage
  <2>3. calm >= COUNT_LIFE => new.more = (p < TotalPages(Cardinality(listed)))
    BY <1>3
  <2> HIDE DEF new
  <2>4. PagesAreCurrent'
    <3> SUFFICES ASSUME NEW q \in 1 .. PAGE_CAP, page'[q].age < PAGE_LIFE
                 PROVE  /\ page'[q].age < calm => page'[q].rows = RowsOn(q)
                        /\ page'[q].age + COUNT_LIFE <= calm => page'[q].more = (q < TotalPages(Cardinality(listed)))
      BY DEF PagesAreCurrent, RowsOn
    <3>1. CASE q = p
      BY <1>1, <2>1, <2>2, <2>3, <3>1
    <3>2. CASE q # p
      BY <1>1, <2>1, <3>2 DEF PagesAreCurrent, PagesInv
    <3> QED
      BY <3>1, <3>2
  <2>5. calm = SETTLE => calm >= COUNT_LIFE
    BY DEF SETTLE
  <2> QED
    BY <1>1, <1>3, <1>4, <1>5, <1>6, <2>1, <2>2, <2>3, <2>4, <2>5
<1> QED
  BY <1>7, <1>8

LEMMA WalkGoesOn ==
  ASSUME PagesInv, WalkOn
  PROVE  PagesInv'
<1> USE PagesNumbersHold DEF PagesNumbers
<1> DEFINE p == walkPage
<1>1. p \in 1 .. PAGE_CAP /\ Capped(walkPage) = p /\ Capped(p + 1) \in 1 .. PAGE_CAP
      /\ (Capped(p + 1) = p + 1 \/ Capped(p + 1) = p)
  BY DEF WalkOn, Capped, PagesInv, PagesTypes
<1>2. /\ AskPage(p) /\ UNCHANGED <<listed, calm, settled>>
      /\ walkFound' = walkFound \union PageNow(p).rows
      /\ walkPage' = IF PageNow(p).more THEN Capped(p + 1) ELSE 0
  BY <1>1 DEF WalkOn
<1>3. /\ page' \in [1 .. PAGE_CAP -> CachedPage] /\ total' \in [age : 0 .. COUNT_LIFE, count : 0 .. MaxOpened]
      /\ PageNow(p).rows \subseteq listed
      /\ \A q \in 1 .. PAGE_CAP : page'[q].rows \subseteq listed
      /\ CountIsCurrent' /\ PagesAreCurrent'
      /\ calm = SETTLE => /\ PageNow(p).rows = RowsOn(p)
                          /\ PageNow(p).more = (p < TotalPages(Cardinality(listed)))
  BY <1>1, <1>2, PageIsAsked
<1>4. PagesTypes'
  <2>1. walkPage' \in 0 .. PAGE_CAP
    BY <1>1, <1>2
  <2>2. walkFound' \subseteq listed
    BY <1>2, <1>3 DEF PagesInv, PagesTypes
  <2>3. SETTLE' = SETTLE
    BY DEF SETTLE
  <2> HIDE DEF p
  <2> QED
    BY <1>2, <1>3, <2>1, <2>2, <2>3 DEF PagesInv, PagesTypes
<1>5. WalkedSoFar'
  <2> SUFFICES ASSUME settled
               PROVE  /\ walkPage' # 0 => \A t \in listed : PlaceOf(t) < (walkPage' - 1) * LIMIT => t \in walkFound'
                      /\ walkPage' = 0 => listed \subseteq walkFound'
    BY <1>2 DEF WalkedSoFar, PagesInv, PlaceOf, SETTLE
  <2>1. /\ PageNow(p).rows = RowsOn(p) /\ PageNow(p).more = (p < TotalPages(Cardinality(listed)))
        /\ \A t \in listed : PlaceOf(t) < (p - 1) * LIMIT => t \in walkFound
    BY <1>1, <1>3 DEF WalkedSoFar, PagesInv
  <2>2. \A t \in listed : PlaceOf(t) < p * LIMIT => t \in walkFound'
    <3> SUFFICES ASSUME NEW t \in listed, PlaceOf(t) < p * LIMIT PROVE t \in walkFound'
      OBVIOUS
    <3>1. PlaceOf(t) \in Nat /\ (p - 1) * LIMIT \in Nat /\ p * LIMIT \in Nat
      BY <1>1, PlacesAreFewer DEF PagesInv
    <3>2. CASE PlaceOf(t) < (p - 1) * LIMIT
      BY <1>2, <2>1, <3>2
    <3>3. CASE ~(PlaceOf(t) < (p - 1) * LIMIT)
      <4>1. PlaceOf(t) \in (p - 1) * LIMIT .. p * LIMIT - 1
        BY <3>1, <3>3
      <4>2. t \in RowsOn(p)
        BY <4>1 DEF RowsOn, PlaceOf
      <4> QED
        BY <1>2, <2>1, <4>2
    <3> QED
      BY <3>2, <3>3
  <2>3. CASE PageNow(p).more
    <3>1. walkPage' = p + 1 \/ walkPage' = p
      BY <1>1, <1>2, <2>3
    <3>2. (p + 1) - 1 = p /\ (p - 1) * LIMIT <= p * LIMIT /\ (p - 1) * LIMIT \in Nat /\ p * LIMIT \in Nat
      BY <1>1
    <3>3. \A t \in listed : PlaceOf(t) \in Nat
      BY PlacesAreFewer DEF PagesInv
    <3> QED
      BY <1>1, <2>1, <2>2, <3>1, <3>2, <3>3
  <2>4. CASE ~PageNow(p).more
    <3>1. Cardinality(listed) \in Nat
      BY PlacesAreFewer DEF PagesInv
    <3>2. ~(p < TotalPages(Cardinality(listed)))
      BY <2>1, <2>4
    <3>4. Cardinality(listed) <= p * LIMIT
      <4>1. p \in Nat
        BY <1>1
      <4> HIDE DEF p
      <4> QED
        BY <3>1, <3>2, <4>1, LastPageEnds
    <3>3. \A t \in listed : PlaceOf(t) < p * LIMIT
      <4>1. p * LIMIT \in Nat
        BY <1>1
      <4> QED
        BY <3>1, <3>4, <4>1, PlacesAreFewer DEF PagesInv
    <3> QED
      BY <1>2, <2>2, <2>4, <3>3
  <2> QED
    BY <2>3, <2>4
<1> QED
  BY <1>3, <1>4, <1>5 DEF PagesInv

LEMMA PagesStep == PagesInv /\ [PagesNext]_pagesVars => PagesInv'
<1> SUFFICES ASSUME PagesInv, [PagesNext]_pagesVars
             PROVE  PagesInv'
  OBVIOUS
<1> USE PagesNumbersHold DEF PagesNumbers
<1>1. ASSUME NEW t \in 1 .. MaxOpened, SessionIndexed(t)
      PROVE  PagesInv'
  <2>1. PagesTypes'
    <3>1. /\ listed' = listed \union {t} /\ calm' = 0 /\ settled' = FALSE
          /\ UNCHANGED <<total, page, walkPage, walkFound>>
      BY <1>1 DEF SessionIndexed
    <3>2. SETTLE' = SETTLE /\ SETTLE \in Nat
      BY DEF SETTLE
    <3>3. listed' \subseteq 1 .. MaxOpened /\ listed \subseteq listed'
      BY <3>1 DEF PagesInv, PagesTypes
    <3>4. walkFound' \subseteq listed' /\ \A p \in 1 .. PAGE_CAP : page'[p].rows \subseteq listed'
      BY <3>1, <3>3 DEF PagesInv, PagesTypes
    <3>5. calm' \in 0 .. SETTLE'
      BY <3>1, <3>2
    <3>6. settled' \in BOOLEAN
      BY <3>1
    <3> QED
      BY <3>1, <3>3, <3>4, <3>5, <3>6 DEF PagesInv, PagesTypes
  <2>2. CountIsCurrent' /\ PagesAreCurrent' /\ WalkedSoFar'
    BY <1>1 DEF SessionIndexed, PagesInv, PagesTypes, CachedPage, CountIsCurrent, PagesAreCurrent, WalkedSoFar
  <2> QED
    BY <2>1, <2>2 DEF PagesInv
<1>2. ASSUME NEW p \in 1 .. PAGE_CAP, OtherAsks(p)
      PROVE  PagesInv'
  <2>1. AskPage(p) /\ UNCHANGED <<listed, calm>> /\ UNCHANGED <<walkPage, walkFound, settled>>
    BY <1>2 DEF OtherAsks
  <2>2. /\ page' \in [1 .. PAGE_CAP -> CachedPage] /\ total' \in [age : 0 .. COUNT_LIFE, count : 0 .. MaxOpened]
        /\ \A q \in 1 .. PAGE_CAP : page'[q].rows \subseteq listed
        /\ CountIsCurrent' /\ PagesAreCurrent'
    BY <2>1, PageIsAsked
  <2>3. PagesTypes' /\ WalkedSoFar'
    BY <2>1, <2>2 DEF PagesInv, PagesTypes, WalkedSoFar, PlaceOf, SETTLE
  <2> QED
    BY <2>2, <2>3 DEF PagesInv
<1>3. CASE WalkOn
  BY <1>3, WalkGoesOn
<1>4. CASE PagesAge
  <2>1. /\ total' = [total EXCEPT !.age = Longer(total.age, COUNT_LIFE)]
        /\ page' = [q \in 1 .. PAGE_CAP |-> [page[q] EXCEPT !.age = Longer(page[q].age, PAGE_LIFE)]]
        /\ calm' = Longer(calm, SETTLE)
        /\ UNCHANGED <<listed, walkPage, walkFound, settled>>
    BY <1>4 DEF PagesAge, PagesInv, PagesTypes
  <2>2. /\ total \in [age : 0 .. COUNT_LIFE, count : 0 .. MaxOpened]
        /\ \A q \in 1 .. PAGE_CAP : page[q] \in CachedPage
        /\ calm \in 0 .. SETTLE /\ SETTLE \in Nat /\ SETTLE = COUNT_LIFE + PAGE_LIFE
    BY DEF PagesInv, PagesTypes, SETTLE
  <2>3. total' \in [age : 0 .. COUNT_LIFE, count : 0 .. MaxOpened] /\ total'.count = total.count
        /\ total'.age = Longer(total.age, COUNT_LIFE)
    <3>1. Longer(total.age, COUNT_LIFE) \in 0 .. COUNT_LIFE
      <4>1. total.age \in 0 .. COUNT_LIFE
        BY <2>2
      <4>2. COUNT_LIFE \in Nat
        BY DEF PagesInv
      <4> QED
        BY <4>1, <4>2 DEF Longer
    <3> QED
      BY <2>1, <2>2, <3>1
  <2>4. ASSUME NEW q \in 1 .. PAGE_CAP
        PROVE  /\ page'[q] \in CachedPage /\ page'[q].rows = page[q].rows /\ page'[q].more = page[q].more
               /\ page'[q].age = Longer(page[q].age, PAGE_LIFE)
    <3>1. Longer(page[q].age, PAGE_LIFE) \in 0 .. PAGE_LIFE
      BY <2>2 DEF Longer, CachedPage
    <3>2. page'[q] = [page[q] EXCEPT !.age = Longer(page[q].age, PAGE_LIFE)] /\ page[q] \in CachedPage
      BY <2>1, <2>2
    <3> QED
      BY <3>1, <3>2 DEF CachedPage
  <2>5. PagesTypes'
    <3>1. page' \in [1 .. PAGE_CAP -> CachedPage]
      BY <2>1, <2>4
    <3>2. calm' \in 0 .. SETTLE
      BY <2>1, <2>2 DEF Longer
    <3> QED
      BY <2>1, <2>3, <2>4, <3>1, <3>2 DEF PagesInv, PagesTypes, SETTLE
  <2>6. CountIsCurrent'
    BY <2>1, <2>2, <2>3 DEF PagesInv, CountIsCurrent, Longer
  <2>7. PagesAreCurrent'
    <3> SUFFICES ASSUME NEW q \in 1 .. PAGE_CAP, page'[q].age < PAGE_LIFE
                 PROVE  /\ page'[q].age < calm' => page'[q].rows = RowsOn(q)
                        /\ page'[q].age + COUNT_LIFE <= calm' => page'[q].more = (q < TotalPages(Cardinality(listed)))
      BY <2>1 DEF PagesAreCurrent, RowsOn
    <3>1. page[q].age \in 0 .. PAGE_LIFE
      BY <2>2 DEF CachedPage
    <3>2. page[q].age < PAGE_LIFE /\ page'[q].age = page[q].age + 1
      BY <2>4, <3>1 DEF Longer
    <3>3. \/ calm' = calm + 1
          \/ (calm' = calm) /\ (calm = COUNT_LIFE + PAGE_LIFE)
      <4>1. calm' = IF calm < SETTLE THEN calm + 1 ELSE SETTLE
        BY <2>1 DEF Longer
      <4>2. calm \in 0 .. SETTLE /\ SETTLE \in Nat /\ SETTLE = COUNT_LIFE + PAGE_LIFE
        BY <2>2
      <4>3. calm < SETTLE \/ calm = SETTLE
        BY <4>2
      <4> QED
        BY <4>1, <4>2, <4>3
    <3>4. /\ page'[q].age < calm' => page[q].age < calm
          /\ page'[q].age + COUNT_LIFE <= calm' => page[q].age + COUNT_LIFE <= calm
      BY <2>2, <3>1, <3>2, <3>3
    <3> QED
      BY <2>4, <3>2, <3>4 DEF PagesInv, PagesAreCurrent
  <2>8. WalkedSoFar'
    BY <2>1, <2>2 DEF PagesInv, WalkedSoFar, PlaceOf, Longer, SETTLE
  <2> QED
    BY <2>5, <2>6, <2>7, <2>8 DEF PagesInv
<1>5. CASE WalkAgain
  <2>1. /\ walkPage' = 1 /\ walkFound' = {} /\ settled' = (calm = SETTLE)
        /\ UNCHANGED <<listed, total, page, calm>>
    BY <1>5 DEF WalkAgain
  <2>2. PagesTypes'
    BY <2>1 DEF PagesInv, PagesTypes, SETTLE
  <2>3. \A t \in listed : ~(PlaceOf(t) < (1 - 1) * LIMIT)
    BY PlacesAreFewer DEF PagesInv
  <2>4. WalkedSoFar'
    <3> SUFFICES ASSUME settled'
                 PROVE  calm = SETTLE /\ \A t \in listed : PlaceOf(t) < (1 - 1) * LIMIT => t \in walkFound'
      BY <2>1 DEF WalkedSoFar, PlaceOf, SETTLE
    <3> QED
      BY <2>1, <2>3
  <2>5. CountIsCurrent' /\ PagesAreCurrent'
    BY <2>1 DEF PagesInv, CountIsCurrent, PagesAreCurrent, RowsOn
  <2> QED
    BY <2>2, <2>4, <2>5 DEF PagesInv
<1>6. CASE UNCHANGED pagesVars
  BY <1>6 DEF pagesVars, PagesInv, PagesTypes, CountIsCurrent, PagesAreCurrent, WalkedSoFar, PlaceOf, RowsOn, SETTLE
<1> QED
  BY <1>1, <1>2, <1>3, <1>4, <1>5, <1>6 DEF PagesNext

LEMMA ReadersStepPages == [ReadersNext]_readerVars => [PagesNext]_pagesVars
  BY DEF ReadersNext, Plays, readerVars

(***************************************************************************)
(* A walk that began once both caches had settled and during which no      *)
(* session was indexed finds them all, for any list, any size of a page    *)
(* and any lives of the caches.                                            *)
(***************************************************************************)
THEOREM WalkFindsEvery == ReadersSpec => []WalkFindsAll
<1>1. ReadersInit => PagesInv
  BY PagesStart DEF ReadersInit
<1>2. PagesInv /\ [ReadersNext]_readerVars => PagesInv'
  BY PagesStep, ReadersStepPages
<1>3. PagesInv => WalkFindsAll
  BY PagesNumbersHold DEF PagesNumbers, PagesInv, PagesTypes, WalkedSoFar, WalkFindsAll, PagesTypeOK, CachedPage
<1> QED
  BY <1>1, <1>2, <1>3, PTL DEF ReadersSpec
-----------------------------------------------------------------------------
(***************************************************************************)
(* The session rows and the accounts.  A repair is only sent for a session *)
(* the chain has closed, and closings come after the second an account     *)
(* began, so neither a row nor an account can run ahead of the chain.      *)
(***************************************************************************)
BookNumbers ==
  /\ StakeOf \in [Sessions -> Nat] /\ TermOf \in [Sessions -> Nat] /\ UserOf \in [Sessions -> Holders]
  /\ SellerOf \in [Bids -> Sellers] /\ ModelOfBid \in [Bids -> Listings]
  /\ MaxTime \in Nat /\ MaxTime >= 1 /\ Accounted \subseteq Holders /\ Void \notin States

LEMMA BookNumbersHold == BookNumbers
  BY BookAssumption DEF BookNumbers

ChainType == [opened : Nat, ends : Nat, closed : Nat, closeout : {0, 1}]

BookTypes ==
  /\ clock \in 1 .. MaxTime
  /\ chain \in [Sessions -> ChainType]
  /\ book \in [Sessions -> RowType \union {Void}]
  /\ fixes \subseteq Sessions
  /\ acctStep \in {"idle", "verify", "told"} /\ acctOf \in Holders \union {Void} /\ acctNow \in 0 .. MaxTime
  /\ acctState \in [Sessions -> States \union {Void}]
  /\ acctSure \in BOOLEAN

\* What has been closed was closed by now, and what is to be repaired was closed.
RepairsAreDue ==
  /\ \A s \in Sessions : chain[s].closed <= clock
  /\ \A s \in fixes : chain[s].closed # 0 /\ book[s] \in RowType
  /\ \A s \in PastEnd : book[s] \in RowType
  /\ acctNow <= clock

BookInv == BookTypes /\ RepairsAreDue /\ ReclaimableWasOpen /\ ClosedRowsAreTrue

LEMMA BookStarts == BookInit => BookInv
<1> SUFFICES ASSUME BookInit PROVE BookInv
  OBVIOUS
<1> USE BookNumbersHold DEF BookNumbers, BookInit
<1>1. Unopened \in ChainType /\ Unopened.closed = 0
  BY DEF Unopened, ChainType
<1>2. BookTypes
  <2>1. chain \in [Sessions -> ChainType]
    BY <1>1
  <2>2. clock \in 1 .. MaxTime /\ acctNow \in 0 .. MaxTime
    OBVIOUS
  <2>3. acctSure \in BOOLEAN
    OBVIOUS
  <2> QED
    BY <2>1, <2>2, <2>3 DEF BookTypes
<1>3. PastEnd = {}
  BY DEF PastEnd, States
<1>4. RepairsAreDue
  <2>1. \A s \in Sessions : chain[s].closed <= clock
    BY <1>1
  <2> QED
    BY <1>3, <2>1 DEF RepairsAreDue
<1>5. ReclaimableWasOpen /\ ClosedRowsAreTrue
  BY DEF ReclaimableWasOpen, ClosedRowsAreTrue, Rows
<1> QED
  BY <1>2, <1>4, <1>5 DEF BookInv

\* A row is written, and whatever is not told of it stays.
LEMMA RowIsWritten ==
  ASSUME BookInv, NEW s \in Sessions, NEW row \in RowType,
         book' = [book EXCEPT ![s] = row], UNCHANGED <<clock, chain, acctVars>>, fixes' \subseteq fixes,
         ~row.active => chain[s].closed # 0 /\ chain[s].closed <= row.closed
  PROVE  BookInv'
<1>1. book' \in [Sessions -> RowType \union {Void}] /\ book'[s] = row
      /\ \A r \in Sessions : r # s => book'[r] = book[r]
  BY DEF BookInv, BookTypes
<1>2. BookTypes'
  BY <1>1 DEF BookInv, BookTypes, acctVars
<1>3. RepairsAreDue'
  BY <1>1 DEF BookInv, RepairsAreDue, PastEnd, BookTypes, acctVars
<1>4. ClosedRowsAreTrue'
  BY <1>1 DEF BookInv, ClosedRowsAreTrue, Rows
<1>5. ReclaimableWasOpen'
  BY DEF BookInv, ReclaimableWasOpen, Bucket, acctVars
<1> QED
  BY <1>2, <1>3, <1>4, <1>5 DEF BookInv

\* The chain moves on: a session is opened, or closed now.
LEMMA ChainMoves ==
  ASSUME BookInv, NEW s \in Sessions, NEW event \in ChainType,
         chain' = [chain EXCEPT ![s] = event], UNCHANGED <<clock, book, acctVars, fixes>>,
         chain[s].closed = 0, event.closed \in {0, clock}
  PROVE  BookInv'
<1>1. chain' \in [Sessions -> ChainType] /\ chain'[s] = event
      /\ \A r \in Sessions : r # s => chain'[r] = chain[r]
  BY DEF BookInv, BookTypes
<1>2. BookTypes'
  BY <1>1 DEF BookInv, BookTypes, acctVars
<1>3. clock \in Nat /\ acctNow \in Nat /\ acctNow <= clock
  BY DEF BookInv, BookTypes, RepairsAreDue
<1>4. RepairsAreDue'
  BY <1>1, <1>3 DEF BookInv, RepairsAreDue, PastEnd, BookTypes, acctVars
<1>5. ClosedRowsAreTrue'
  BY <1>1 DEF BookInv, ClosedRowsAreTrue, Rows
<1>6. ReclaimableWasOpen'
  BY <1>1, <1>3 DEF BookInv, ReclaimableWasOpen, Bucket, acctVars
<1> QED
  BY <1>2, <1>4, <1>5, <1>6 DEF BookInv

LEMMA BookStep == BookInv /\ [BookNext]_bookVars => BookInv'
<1> SUFFICES ASSUME BookInv, [BookNext]_bookVars
             PROVE  BookInv'
  OBVIOUS
<1> USE BookNumbersHold DEF BookNumbers
<1>t. /\ clock \in Nat /\ clock >= 1
      /\ \A s \in Sessions : chain[s] \in ChainType /\ chain[s].closed \in Nat
      /\ \A s \in Sessions : UserOf[s] \in Holders /\ StakeOf[s] \in Nat /\ TermOf[s] \in Nat /\ BidOf[s] \in Bids
      /\ \A b \in Bids : SellerOf[b] \in Sellers /\ ModelOfBid[b] \in Listings
  BY DEF BookInv, BookTypes, ChainType, Bids
<1>1. ASSUME NEW s \in Sessions, OpenOnChain(s)
      PROVE  BookInv'
  <2> DEFINE event == [Unopened EXCEPT !.opened = clock, !.ends = clock + TermOf[s]]
  <2>1. /\ chain' = [chain EXCEPT ![s] = event] /\ UNCHANGED <<clock, book, acctVars, fixes>>
        /\ chain[s] = Unopened
    BY <1>1 DEF OpenOnChain
  <2>2. clock + TermOf[s] \in Nat
    BY <1>t
  <2>3. event \in ChainType /\ event.closed = 0
    BY <2>2, <1>t DEF Unopened, ChainType
  <2>4. chain[s].closed = 0
    BY <2>1 DEF Unopened
  <2> HIDE DEF event
  <2> QED
    BY <2>1, <2>3, <2>4, ChainMoves
<1>2. ASSUME NEW s \in Sessions, NEW how \in {0, 1}, CloseOnChain(s, how)
      PROVE  BookInv'
  <2> DEFINE event == [chain[s] EXCEPT !.closed = clock, !.closeout = how]
  <2>1. event \in ChainType /\ event.closed = clock
    BY <1>t DEF ChainType
  <2>2. /\ chain' = [chain EXCEPT ![s] = event] /\ UNCHANGED <<clock, book, acctVars, fixes>>
        /\ chain[s].closed = 0
    BY <1>2 DEF CloseOnChain
  <2> HIDE DEF event
  <2> QED
    BY <2>1, <2>2, ChainMoves
<1>3. ASSUME NEW s \in Sessions, NEW resolved \in BOOLEAN, IndexOpen(s, resolved)
      PROVE  BookInv'
  <2> DEFINE row == [user |-> UserOf[s], bid |-> BidOf[s],
        provider |-> IF resolved THEN SellerOf[BidOf[s]] ELSE Void,
        model |-> IF resolved THEN ModelOfBid[BidOf[s]] ELSE Void,
        stake |-> StakeOf[s], opened |-> chain[s].opened, ends |-> chain[s].ends,
        closed |-> 0, closeout |-> 0, active |-> TRUE]
  <2>1. /\ (IF resolved THEN SellerOf[BidOf[s]] ELSE Void) \in Sellers \union {Void}
        /\ (IF resolved THEN ModelOfBid[BidOf[s]] ELSE Void) \in Listings \union {Void}
    BY <1>t
  <2>2. chain[s].opened \in Nat /\ chain[s].ends \in Nat
    BY <1>t DEF ChainType
  <2>3. row \in RowType
    BY <1>t, <2>1, <2>2 DEF RowType
  <2>4. row.active
    OBVIOUS
  <2>5. book' = [book EXCEPT ![s] = row] /\ UNCHANGED <<clock, chain, acctVars>> /\ fixes' \subseteq fixes
    BY <1>3 DEF IndexOpen
  <2> HIDE DEF row
  <2> QED
    BY <2>3, <2>4, <2>5, RowIsWritten
<1>4. ASSUME NEW s \in Sessions, IndexClose(s)
      PROVE  BookInv'
  <2> DEFINE row == [book[s] EXCEPT !.closed = clock, !.active = FALSE]
  <2>1. book[s] \in RowType
    BY <1>4 DEF IndexClose, BookInv, BookTypes
  <2>2. row \in RowType /\ row.closed = clock
    BY <1>t, <2>1 DEF RowType
  <2>3. chain[s].closed # 0 /\ chain[s].closed <= clock
    BY <1>4 DEF IndexClose, BookInv, RepairsAreDue
  <2>4. book' = [book EXCEPT ![s] = row] /\ UNCHANGED <<clock, chain, acctVars>> /\ fixes' \subseteq fixes
    BY <1>4 DEF IndexClose
  <2> HIDE DEF row
  <2> QED
    BY <2>2, <2>3, <2>4, RowIsWritten
<1>5. ASSUME NEW s \in Sessions, NEW lands \in BOOLEAN, FixRow(s, lands)
      PROVE  BookInv'
  <2>1. s \in fixes /\ fixes' = fixes \ {s} /\ UNCHANGED <<clock, chain, acctVars>>
    BY <1>5 DEF FixRow
  <2>2. CASE lands
    <3> DEFINE row == [book[s] EXCEPT !.active = FALSE, !.closed = chain[s].closed, !.closeout = chain[s].closeout]
    <3>1. book[s] \in RowType /\ chain[s].closed # 0
      BY <2>1 DEF BookInv, RepairsAreDue
    <3>2. chain[s].closeout \in {0, 1}
      BY <1>t DEF ChainType
    <3>3. row \in RowType /\ row.closed = chain[s].closed
      BY <1>t, <3>1, <3>2 DEF RowType
    <3>4. book' = [book EXCEPT ![s] = row]
      BY <1>5, <2>2 DEF FixRow
    <3>5. chain[s].closed <= row.closed
      BY <1>t, <3>3
    <3> HIDE DEF row
    <3> QED
      BY <2>1, <3>1, <3>3, <3>4, <3>5, RowIsWritten
  <2>3. CASE ~lands
    <3>1. book' = book
      BY <1>5, <2>3 DEF FixRow
    <3> QED
      BY <2>1, <3>1 DEF BookInv, BookTypes, RepairsAreDue, PastEnd, ReclaimableWasOpen, Bucket, ClosedRowsAreTrue, Rows, acctVars
  <2> QED
    BY <2>2, <2>3
<1>6. ASSUME NEW w \in Accounted, BeginAccount(w)
      PROVE  BookInv'
  <2>1. /\ acctStep' = "verify" /\ acctOf' = w /\ acctNow' = clock /\ acctSure' = TRUE
        /\ acctState' = [s \in Sessions |-> IF s \in RowsOfUser(w) THEN classifySession(book[s], clock) ELSE Void]
        /\ UNCHANGED <<clock, chain, book, fixes>>
    BY <1>6 DEF BeginAccount
  <2>2. \A s \in Sessions : classifySession(book[s], clock) \in States
    BY DEF classifySession, States
  <2>3. BookTypes'
    <3>1. acctState' \in [Sessions -> States \union {Void}]
      BY <2>1, <2>2
    <3>2. acctOf' \in Holders \union {Void}
      BY <2>1
    <3>3. acctNow' \in 0 .. MaxTime
      BY <2>1 DEF BookInv, BookTypes
    <3>4. acctSure' \in BOOLEAN
      BY <2>1
    <3> QED
      BY <2>1, <3>1, <3>2, <3>3, <3>4 DEF BookInv, BookTypes
  <2>4. ASSUME NEW s \in PastEnd'
        PROVE  book[s] \in RowType
    <3>1. s \in Sessions /\ acctState'[s] = "expired_open"
      BY <2>4 DEF PastEnd
    <3>2. s \in RowsOfUser(w)
      BY <2>1, <3>1 DEF States
    <3> QED
      BY <3>2 DEF RowsOfUser, Rows, BookInv, BookTypes
  <2>5. RepairsAreDue'
    BY <1>t, <2>1, <2>4 DEF BookInv, RepairsAreDue
  <2>6. ReclaimableWasOpen' /\ ClosedRowsAreTrue'
    BY <2>1 DEF BookInv, ReclaimableWasOpen, ClosedRowsAreTrue, Rows
  <2> QED
    BY <2>3, <2>5, <2>6 DEF BookInv
<1>7. ASSUME NEW unread \in SUBSET PastEnd, VerifyOnChain(unread)
      PROVE  BookInv'
  <2> DEFINE told(s) == CASE s \in unread -> "unknown_partial"
                          [] s \in PastEnd \ unread /\ chain[s].closed > 0 -> "closed"
                          [] OTHER -> acctState[s]
  <2>1. /\ acctStep' = "told" /\ acctState' = [s \in Sessions |-> told(s)]
        /\ fixes' = fixes \union {s \in PastEnd \ unread : chain[s].closed > 0}
        /\ UNCHANGED <<clock, chain, book, acctOf, acctNow>>
        /\ acctSure' = (acctSure /\ "unknown_partial" \notin {acctState'[s] : s \in Sessions})
    BY <1>7 DEF VerifyOnChain
  <2>2. ASSUME NEW s \in Sessions
        PROVE  /\ told(s) \in States \union {Void}
               /\ told(s) = "expired_open" => s \in PastEnd /\ ~(chain[s].closed > 0)
    BY DEF States, PastEnd, BookInv, BookTypes
  <2> HIDE DEF told
  <2>3. BookTypes'
    <3>1. acctState' \in [Sessions -> States \union {Void}]
      BY <2>1, <2>2
    <3>2. acctSure' \in BOOLEAN
      BY <2>1
    <3>3. fixes' \subseteq Sessions
      BY <2>1 DEF BookInv, BookTypes, PastEnd
    <3> QED
      BY <2>1, <3>1, <3>2, <3>3 DEF BookInv, BookTypes
  <2>4. PastEnd' \subseteq PastEnd /\ \A s \in PastEnd' : ~(chain[s].closed > 0)
    BY <2>1, <2>2 DEF PastEnd
  <2>5. RepairsAreDue'
    BY <1>t, <2>1, <2>4 DEF BookInv, RepairsAreDue, PastEnd
  <2>6. ReclaimableWasOpen'
    <3> SUFFICES ASSUME NEW s \in PastEnd'
                 PROVE  chain[s].closed = 0
      BY <2>1 DEF ReclaimableWasOpen, Bucket, PastEnd
    <3> QED
      BY <1>t, <2>4 DEF PastEnd
  <2>7. ClosedRowsAreTrue'
    BY <2>1 DEF BookInv, ClosedRowsAreTrue, Rows
  <2> QED
    BY <2>3, <2>5, <2>6, <2>7 DEF BookInv
<1>8. CASE VerifyFails
  BY <1>8 DEF VerifyFails, BookInv, BookTypes, RepairsAreDue, PastEnd, ReclaimableWasOpen, ClosedRowsAreTrue, Rows
<1>9. CASE SecondPasses
  <2>1. clock' = clock + 1 /\ clock < MaxTime /\ UNCHANGED <<chain, book, acctVars, fixes>>
    BY <1>9 DEF SecondPasses
  <2>2. BookTypes'
    <3>1. clock' \in 1 .. MaxTime
      BY <1>t, <2>1
    <3> QED
      BY <2>1, <3>1 DEF BookInv, BookTypes, acctVars
  <2>3. RepairsAreDue'
    <3>1. acctNow \in Nat
      BY DEF BookInv, BookTypes
    <3> QED
      BY <1>t, <2>1, <3>1 DEF BookInv, RepairsAreDue, PastEnd, acctVars
  <2>4. ReclaimableWasOpen' /\ ClosedRowsAreTrue'
    BY <2>1 DEF BookInv, ReclaimableWasOpen, Bucket, ClosedRowsAreTrue, Rows, acctVars
  <2> QED
    BY <2>2, <2>3, <2>4 DEF BookInv
<1>10. CASE UNCHANGED bookVars
  BY <1>10 DEF bookVars, acctVars, BookInv, BookTypes, RepairsAreDue, PastEnd, ReclaimableWasOpen, Bucket, ClosedRowsAreTrue, Rows
<1> QED
  BY <1>1, <1>2, <1>3, <1>4, <1>5, <1>6, <1>7, <1>8, <1>9, <1>10 DEF BookNext

LEMMA ReadersStepBook == [ReadersNext]_readerVars => [BookNext]_bookVars
  BY DEF ReadersNext, Plays, readerVars

(***************************************************************************)
(* A row that says closed is right, and an account without a failed        *)
(* verification calls no session reclaimable that was closed before it     *)
(* began, for any sessions, bids and wallets and whatever writes are lost, *)
(* late or repeated.                                                       *)
(***************************************************************************)
THEOREM RowsAndAccountsAreTrue == ReadersSpec => [](BookTypeOK /\ ReclaimableWasOpen /\ ClosedRowsAreTrue)
<1>1. ReadersInit => BookInv
  BY BookStarts DEF ReadersInit
<1>2. BookInv /\ [ReadersNext]_readerVars => BookInv'
  BY BookStep, ReadersStepBook
<1>3. BookInv => BookTypeOK /\ ReclaimableWasOpen /\ ClosedRowsAreTrue
  BY DEF BookInv, BookTypes, BookTypeOK, ChainType, Rows
<1> QED
  BY <1>1, <1>2, <1>3, PTL DEF ReadersSpec
-----------------------------------------------------------------------------
(***************************************************************************)
(* The rows of the bids.  An answer of getBid not yet written, and a row,  *)
(* know when the bid was posted, and call it gone only once it was: an     *)
(* answer from the moment the chain gives, a row from one no earlier or    *)
(* from the strike of a bid it replaced.  The chain has the bids of a pair *)
(* one after another.                                                      *)
(***************************************************************************)
BidTypes ==
  LET row == [created : 1 .. MaxMoment, deleted : 0 .. MaxMoment] IN
  /\ moment \in 1 .. MaxMoment
  /\ onChain \in [Offers -> [posted : 0 .. moment, retracted : 0 .. moment]]
  /\ bidRow \in [Offers -> row \union {NoBid}] /\ fetched \in [Offers -> row \union {NoBid}]

AnswersKnowBids ==
  \A b \in Offers : fetched[b] # NoBid =>
    /\ fetched[b].created = onChain[b].posted
    /\ fetched[b].deleted # 0 => fetched[b].deleted = onChain[b].retracted

BidsTakeTurns ==
  \A a, b \in Offers : a # b /\ SamePair(a, b) /\ onChain[a].posted # 0 /\ onChain[b].posted # 0 =>
    \/ onChain[a].retracted # 0 /\ onChain[a].retracted <= onChain[b].posted
    \/ onChain[b].retracted # 0 /\ onChain[b].retracted <= onChain[a].posted

\* A bid is posted before it is retracted.
LivesAreInOrder ==
  \A b \in Offers : onChain[b].retracted # 0 =>
    onChain[b].posted # 0 /\ onChain[b].posted <= onChain[b].retracted

\* The retraction of a explains that b is called gone from a moment.
Explains(a, b, gone) ==
  /\ SamePair(a, b) /\ onChain[a].retracted # 0 /\ onChain[a].retracted <= gone
  /\ a = b \/ onChain[a].retracted <= onChain[b].posted

RowsKnowBids ==
  \A b \in Offers : bidRow[b] # NoBid =>
    /\ bidRow[b].created = onChain[b].posted
    /\ bidRow[b].deleted # 0 => \E a \in Offers : Explains(a, b, bidRow[b].deleted)

BidsInv == BidTypes /\ BidsTakeTurns /\ LivesAreInOrder /\ AnswersKnowBids /\ RowsKnowBids

LEMMA BidsStart == BidsInit => BidsInv
<1> SUFFICES ASSUME BidsInit PROVE BidsInv
  OBVIOUS
<1>1. MaxMoment \in Nat \ {0}
  BY BidsAssumption
<1> QED
  BY <1>1 DEF BidsInit, BidsInv, BidTypes, BidsTakeTurns, LivesAreInOrder, AnswersKnowBids, RowsKnowBids

\* What is on chain is posted and retracted once.
LEMMA ChainIsKept ==
  ASSUME BidsInv, bidRow' = bidRow, fetched' = fetched, moment' = moment, BidTypes',
         \A b \in Offers :
           /\ onChain[b].posted # 0 => onChain'[b].posted = onChain[b].posted
           /\ onChain[b].retracted # 0 => onChain'[b].retracted = onChain[b].retracted
  PROVE  AnswersKnowBids' /\ RowsKnowBids'
<1>1. AnswersKnowBids'
  <2>1. SUFFICES ASSUME NEW b \in Offers, fetched[b] # NoBid
                 PROVE  /\ fetched[b].created = onChain'[b].posted
                        /\ fetched[b].deleted # 0 => fetched[b].deleted = onChain'[b].retracted
    BY DEF AnswersKnowBids
  <2>2. fetched[b].created # 0
    BY <2>1 DEF BidsInv, BidTypes
  <2> QED
    BY <2>1, <2>2 DEF BidsInv, AnswersKnowBids
<1>2. ASSUME NEW b \in Offers, bidRow[b] # NoBid
      PROVE  /\ bidRow[b].created = onChain'[b].posted
             /\ bidRow[b].deleted # 0 => \E a \in Offers : Explains(a, b, bidRow[b].deleted)'
  <2>1. bidRow[b].created # 0 /\ bidRow[b].created = onChain[b].posted
    BY <1>2 DEF BidsInv, BidTypes, RowsKnowBids
  <2>2. onChain'[b].posted = onChain[b].posted
    BY <2>1
  <2>3. ASSUME bidRow[b].deleted # 0
        PROVE  \E a \in Offers : Explains(a, b, bidRow[b].deleted)'
    <3>1. PICK a \in Offers : Explains(a, b, bidRow[b].deleted)
      BY <1>2, <2>3 DEF BidsInv, RowsKnowBids
    <3>2. onChain'[a].retracted = onChain[a].retracted
      BY <3>1 DEF Explains
    <3>3. Explains(a, b, bidRow[b].deleted)'
      BY <2>2, <3>1, <3>2 DEF Explains, SamePair
    <3> QED
      BY <3>3
  <2> QED
    BY <2>1, <2>2, <2>3
<1>3. RowsKnowBids'
  BY <1>2 DEF RowsKnowBids
<1> QED
  BY <1>1, <1>3

LEMMA PostKeepsBids == ASSUME BidsInv, NEW b \in Offers, PostBid(b) PROVE BidsInv'
<1>max. MaxMoment \in Nat \ {0}
  BY BidsAssumption
<1> DEFINE gone(a) == a # b /\ SamePair(a, b) /\ OnSale(a)
<1>0. onChain'[b] = [posted |-> moment, retracted |-> 0]
  BY DEF PostBid
<1>1. \A a \in Offers :
        /\ gone(a) => onChain'[a] = [onChain[a] EXCEPT !.retracted = moment]
        /\ a # b /\ ~gone(a) => onChain'[a] = onChain[a]
  BY DEF PostBid
<1>2. moment \in 1 .. MaxMoment /\ onChain \in [Offers -> [posted : 0 .. moment, retracted : 0 .. moment]]
  BY DEF BidsInv, BidTypes
<1>3. \A a \in Offers :
        /\ onChain'[a] \in [posted : 0 .. moment, retracted : 0 .. moment]
        /\ gone(a) => onChain'[a].posted = onChain[a].posted /\ onChain'[a].retracted = moment
        /\ onChain[a].posted # 0 => onChain'[a].posted = onChain[a].posted
        /\ onChain[a].retracted # 0 => onChain'[a].retracted = onChain[a].retracted
  BY <1>max, <1>0, <1>1, <1>2 DEF BidsInv, LivesAreInOrder, OnSale, PostBid
<1>4. BidTypes'
  BY <1>2, <1>3 DEF PostBid, BidsInv, BidTypes
<1>5. BidsTakeTurns'
  <2>1. SUFFICES ASSUME NEW c \in Offers, NEW d \in Offers, c # d, SamePair(c, d),
                        onChain'[c].posted # 0, onChain'[d].posted # 0
                 PROVE  \/ onChain'[c].retracted # 0 /\ onChain'[c].retracted <= onChain'[d].posted
                        \/ onChain'[d].retracted # 0 /\ onChain'[d].retracted <= onChain'[c].posted
    BY DEF BidsTakeTurns, SamePair
  \* The one posted now comes after the others of the pair.
  <2>2. ASSUME NEW a \in Offers, a # b, SamePair(a, b), onChain'[a].posted # 0
        PROVE  onChain'[a].retracted # 0 /\ onChain'[a].retracted <= onChain'[b].posted
    <3>1. onChain'[b].posted = moment
      BY <1>0
    <3>2. CASE gone(a)
      BY <1>2, <1>3, <2>2, <3>1, <3>2
    <3>3. CASE ~gone(a)
      <4>1. onChain'[a] = onChain[a]
        BY <1>1, <2>2, <3>3
      <4>2. onChain[a].retracted # 0
        BY <2>2, <3>3, <4>1 DEF OnSale
      <4> QED
        BY <1>2, <3>1, <4>1, <4>2
    <3> QED
      BY <3>2, <3>3
  <2>3. CASE c = b
    BY <2>1, <2>2, <2>3 DEF SamePair
  <2>4. CASE d = b
    BY <2>1, <2>2, <2>4
  <2>5. CASE c # b /\ d # b
    <3>1. onChain[c].posted = onChain'[c].posted /\ onChain[d].posted = onChain'[d].posted
      BY <1>1, <1>3, <2>1, <2>5
    <3>2. \/ onChain[c].retracted # 0 /\ onChain[c].retracted <= onChain[d].posted
          \/ onChain[d].retracted # 0 /\ onChain[d].retracted <= onChain[c].posted
      BY <2>1, <3>1 DEF BidsInv, BidsTakeTurns
    <3> QED
      BY <1>3, <3>1, <3>2
  <2> QED
    BY <2>3, <2>4, <2>5
<1>6. LivesAreInOrder'
  <2>1. SUFFICES ASSUME NEW a \in Offers, onChain'[a].retracted # 0
                 PROVE  onChain'[a].posted # 0 /\ onChain'[a].posted <= onChain'[a].retracted
    BY DEF LivesAreInOrder
  <2>2. CASE gone(a)
    BY <1>2, <1>3, <2>2 DEF OnSale
  <2>3. CASE ~gone(a)
    <3>1. a # b
      BY <1>0, <2>1
    <3>2. onChain'[a] = onChain[a]
      BY <1>1, <2>3, <3>1
    <3> QED
      BY <2>1, <3>2 DEF BidsInv, LivesAreInOrder
  <2> QED
    BY <2>2, <2>3
<1>7. bidRow' = bidRow /\ fetched' = fetched /\ moment' = moment
  BY DEF PostBid
<1> QED
  BY <1>3, <1>4, <1>5, <1>6, <1>7, ChainIsKept DEF BidsInv

LEMMA RetractKeepsBids == ASSUME BidsInv, NEW b \in Offers, RetractBid(b) PROVE BidsInv'
<1>max. MaxMoment \in Nat \ {0}
  BY BidsAssumption
<1>1. /\ onChain'[b].posted = onChain[b].posted /\ onChain'[b].retracted = moment
      /\ \A a \in Offers : a # b => onChain'[a] = onChain[a]
      /\ onChain[b].posted # 0 /\ onChain[b].retracted = 0
  BY DEF RetractBid, OnSale, BidsInv, BidTypes
<1>2. BidTypes'
  BY <1>max DEF RetractBid, BidsInv, BidTypes
<1>3. BidsTakeTurns'
  BY <1>1 DEF BidsInv, BidsTakeTurns, SamePair
<1>4. LivesAreInOrder'
  BY <1>1 DEF BidsInv, BidTypes, LivesAreInOrder
<1>5. bidRow' = bidRow /\ fetched' = fetched /\ moment' = moment
  BY DEF RetractBid
<1>6. \A a \in Offers :
        /\ onChain[a].posted # 0 => onChain'[a].posted = onChain[a].posted
        /\ onChain[a].retracted # 0 => onChain'[a].retracted = onChain[a].retracted
  BY <1>1
<1> QED
  BY <1>2, <1>3, <1>4, <1>5, <1>6, ChainIsKept DEF BidsInv

\* A row that the strike of b hits is b's, or of a bid that came after b, or that was retracted too.
LEMMA StrikeKeepsBids == ASSUME BidsInv, NEW b \in Offers, StrikeBids(b) PROVE BidsInv'
<1> DEFINE row == [created : 1 .. MaxMoment, deleted : 0 .. MaxMoment]
           hit(o) == o \in ZeroRows /\ SamePair(o, b)
<1>max. MaxMoment \in Nat \ {0}
  BY BidsAssumption
<1>1. /\ moment' = moment /\ onChain' = onChain /\ fetched' = fetched
      /\ onChain[b].retracted # 0 /\ onChain[b].retracted <= moment /\ moment \in 1 .. MaxMoment
  BY DEF StrikeBids, BidsInv, BidTypes
<1>2. ASSUME NEW o \in Offers
      PROVE  /\ hit(o) => /\ bidRow'[o] = [bidRow[o] EXCEPT !.deleted = moment]
                          /\ bidRow[o] \in row /\ bidRow[o] # NoBid
             /\ ~hit(o) => bidRow'[o] = bidRow[o]
  BY DEF StrikeBids, ZeroRows, BidRows, BidsInv, BidTypes
<1>3. bidRow' \in [Offers -> row \union {NoBid}]
  <2>1. \A o \in Offers : bidRow'[o] \in row \union {NoBid}
    <3> SUFFICES ASSUME NEW o \in Offers PROVE bidRow'[o] \in row \union {NoBid}
      OBVIOUS
    <3>1. CASE hit(o)
      <4>1. [bidRow[o] EXCEPT !.deleted = moment] \in row
        BY <1>1, <1>2, <3>1
      <4> QED
        BY <1>2, <3>1, <4>1
    <3>2. CASE ~hit(o)
      BY <1>2, <3>2 DEF BidsInv, BidTypes
    <3> QED
      BY <3>1, <3>2
  <2> QED
    BY <2>1 DEF StrikeBids
<1>4. BidTypes' /\ BidsTakeTurns' /\ LivesAreInOrder' /\ AnswersKnowBids'
  BY <1>1, <1>3 DEF BidsInv, BidTypes, BidsTakeTurns, LivesAreInOrder, AnswersKnowBids, SamePair
<1>5. ASSUME NEW o \in Offers, hit(o)
      PROVE  \E a \in Offers : Explains(a, o, moment)
  <2>1. onChain[o].posted # 0 /\ onChain \in [Offers -> [posted : 0 .. moment, retracted : 0 .. moment]]
    <3>1. bidRow[o] \in row /\ bidRow[o] # NoBid
      BY <1>2, <1>5
    <3>2. bidRow[o].created # 0 /\ bidRow[o].created = onChain[o].posted
      BY <3>1 DEF BidsInv, RowsKnowBids
    <3> QED
      BY <3>2 DEF BidsInv, BidTypes
  <2>2. CASE o = b \/ onChain[b].retracted <= onChain[o].posted
    <3>1. Explains(b, o, moment)
      BY <1>1, <1>5, <2>2 DEF Explains, SamePair
    <3> QED
      BY <3>1
  <2>3. CASE o # b /\ ~(onChain[b].retracted <= onChain[o].posted)
    <3>1. onChain[b].posted # 0
      BY <1>1 DEF BidsInv, LivesAreInOrder
    <3>2. onChain[o].retracted # 0 /\ onChain[o].retracted <= moment
      BY <1>5, <2>1, <2>3, <3>1 DEF BidsInv, BidsTakeTurns
    <3>3. Explains(o, o, moment)
      BY <3>2 DEF Explains, SamePair
    <3> QED
      BY <3>3
  <2> QED
    BY <2>2, <2>3
<1>6. ASSUME NEW o \in Offers, bidRow'[o] # NoBid
      PROVE  /\ bidRow'[o].created = onChain[o].posted
             /\ bidRow'[o].deleted # 0 => \E a \in Offers : Explains(a, o, bidRow'[o].deleted)
  <2>1. CASE hit(o)
    <3>1. bidRow'[o].created = bidRow[o].created /\ bidRow'[o].deleted = moment /\ bidRow[o] # NoBid
      BY <1>2, <2>1
    <3> QED
      BY <1>5, <2>1, <3>1 DEF BidsInv, RowsKnowBids
  <2>2. CASE ~hit(o)
    BY <1>2, <1>6, <2>2 DEF BidsInv, RowsKnowBids
  <2> QED
    BY <2>1, <2>2
<1>7. RowsKnowBids'
  BY <1>1, <1>6 DEF RowsKnowBids, Explains, SamePair
<1> QED
  BY <1>4, <1>7 DEF BidsInv

LEMMA WriteKeepsBids == ASSUME BidsInv, NEW b \in Offers, NEW lands \in BOOLEAN, WriteBid(b, lands) PROVE BidsInv'
<1>max. MaxMoment \in Nat \ {0}
  BY BidsAssumption
<1>1. moment' = moment /\ onChain' = onChain
  BY DEF WriteBid
<1>2. BidTypes' /\ BidsTakeTurns' /\ LivesAreInOrder' /\ AnswersKnowBids'
  BY <1>1 DEF WriteBid, BidsInv, BidTypes, BidsTakeTurns, LivesAreInOrder, AnswersKnowBids, SamePair
<1>3. ASSUME fetched[b].deleted # 0
      PROVE  Explains(b, b, fetched[b].deleted)
  BY <1>3 DEF WriteBid, Explains, SamePair, BidsInv, BidTypes, AnswersKnowBids
<1>4. ASSUME NEW o \in Offers, bidRow'[o] # NoBid
      PROVE  /\ bidRow'[o].created = onChain[o].posted
             /\ bidRow'[o].deleted # 0 => \E a \in Offers : Explains(a, o, bidRow'[o].deleted)
  <2>1. CASE o = b /\ lands
    <3>1. bidRow'[o] = fetched[b] /\ fetched[b] # NoBid
      BY <2>1 DEF WriteBid, BidsInv, BidTypes
    <3> QED
      BY <1>3, <2>1, <3>1 DEF BidsInv, AnswersKnowBids
  <2>2. CASE ~(o = b /\ lands)
    <3>1. bidRow'[o] = bidRow[o]
      BY <2>2 DEF WriteBid
    <3> QED
      BY <1>4, <3>1 DEF BidsInv, RowsKnowBids
  <2> QED
    BY <2>1, <2>2
<1>5. RowsKnowBids'
  BY <1>1, <1>4 DEF RowsKnowBids, Explains, SamePair
<1> QED
  BY <1>2, <1>5 DEF BidsInv

LEMMA BidsStep == BidsInv /\ [BidsNext]_bidVars => BidsInv'
<1> SUFFICES ASSUME BidsInv, [BidsNext]_bidVars
             PROVE  BidsInv'
  OBVIOUS
<1>max. MaxMoment \in Nat \ {0}
  BY BidsAssumption
<1>1. ASSUME NEW b \in Offers, PostBid(b)
      PROVE  BidsInv'
  BY <1>1, PostKeepsBids
<1>2. ASSUME NEW b \in Offers, RetractBid(b)
      PROVE  BidsInv'
  BY <1>2, RetractKeepsBids
<1>3. ASSUME NEW b \in Offers, ReadBid(b)
      PROVE  BidsInv'
  BY <1>max, <1>3 DEF ReadBid, BidsInv, BidTypes, BidsTakeTurns, LivesAreInOrder, SamePair,
                      AnswersKnowBids, RowsKnowBids, Explains
<1>4. ASSUME NEW b \in Offers, NEW lands \in BOOLEAN, WriteBid(b, lands)
      PROVE  BidsInv'
  BY <1>4, WriteKeepsBids
<1>5. ASSUME NEW b \in Offers, StrikeBids(b)
      PROVE  BidsInv'
  BY <1>5, StrikeKeepsBids
<1>6. CASE MomentPasses
  BY <1>max, <1>6 DEF MomentPasses, BidsInv, BidTypes, BidsTakeTurns, LivesAreInOrder, SamePair,
                      AnswersKnowBids, RowsKnowBids, Explains
<1>7. CASE UNCHANGED bidVars
  BY <1>7 DEF bidVars, BidsInv, BidTypes, BidsTakeTurns, LivesAreInOrder, SamePair,
              AnswersKnowBids, RowsKnowBids, Explains
<1> QED
  BY <1>1, <1>2, <1>3, <1>4, <1>5, <1>6, <1>7 DEF BidsNext

\* Every step of the readers is a step of the bids, or leaves them.
LEMMA ReadersStepBids == [ReadersNext]_readerVars => [BidsNext]_bidVars
  BY DEF ReadersNext, Plays, readerVars

(***************************************************************************)
(* What the pages list as retracted was retracted, no later than they say, *)
(* or replaced a bid of its pair that was, for any bids, any number of a   *)
(* pair, and any order of strikes, rescans and discoveries.                *)
(***************************************************************************)
THEOREM BidRowsAreTrue == ReadersSpec => [](BidsTypeOK /\ StruckWereRetracted)
<1>1. ReadersInit => BidsInv
  BY BidsStart DEF ReadersInit
<1>2. BidsInv /\ [ReadersNext]_readerVars => BidsInv'
  BY BidsStep, ReadersStepBids
<1>3. BidsInv => BidsTypeOK /\ StruckWereRetracted
  <2> SUFFICES ASSUME BidsInv PROVE BidsTypeOK /\ StruckWereRetracted
    OBVIOUS
  <2>1. BidsTypeOK
    BY BidsAssumption DEF BidsInv, BidTypes, BidsTypeOK, BidRowType
  <2>2. ASSUME NEW b \in StruckRows
        PROVE  \E a \in Offers : /\ SamePair(a, b) /\ onChain[a].retracted \in 1 .. bidRow[b].deleted
                                 /\ a = b \/ onChain[a].retracted <= onChain[b].posted
    <3>1. b \in Offers /\ bidRow[b] # NoBid /\ bidRow[b].deleted # 0
      BY <2>2 DEF StruckRows, BidRows
    <3>2. PICK a \in Offers : Explains(a, b, bidRow[b].deleted)
      BY <3>1 DEF BidsInv, RowsKnowBids
    <3>3. onChain[a].retracted \in Nat /\ bidRow[b].deleted \in Nat
      BY <3>1, BidsAssumption DEF BidsInv, BidTypes
    <3> QED
      BY <3>2, <3>3 DEF Explains
  <2>3. StruckWereRetracted
    BY <2>2 DEF BidsInv, RowsKnowBids, StruckWereRetracted, BidRows
  <2> QED
    BY <2>1, <2>3
<1> QED
  BY <1>1, <1>2, <1>3, PTL DEF ReadersSpec
-----------------------------------------------------------------------------
(***************************************************************************)
(* What the pages make of the bids (MarketAnswersAgree).  No row holds a   *)
(* NULL, so the queries that take one for live and those that do not agree *)
(* on what is live; each rollup groups the same rows by another column.    *)
(***************************************************************************)
LEMMA SumOfGroups ==
  ASSUME NEW S, IsFiniteSet(S), NEW key, NEW g, IsFiniteSet(DOMAIN g),
         \A x \in S : key[x] \in DOMAIN g,
         \A k \in DOMAIN g : g[k] = Cardinality(GroupedBy(S, key, k))
  PROVE  SumOver(g) = Cardinality(S)
<1> DEFINE K == DOMAIN g
<1>1. IsFiniteSet(K) /\ (\A x \in S : key[x] \in K) /\ \A k \in K : g[k] = Cardinality(GroupedBy(S, key, k))
  OBVIOUS
<1> HIDE DEF K
<1>2. CountOf(g, K) = Cardinality(S) /\ \A k \in K : g[k] \in Nat
  BY <1>1, GroupsCover
<1>3. MapThenSumSet(LAMBDA k : g[k], K) = CountOf(g, K)
  BY <1>1, <1>2, SumIsCount
<1> QED
  BY <1>2, <1>3 DEF SumOver, K

LEMMA RowsOfBids ==
  ASSUME BidsInv
  PROVE  /\ BidRows \subseteq Offers /\ LiveRows = ZeroRows /\ LiveRows \subseteq BidRows
         /\ StruckRows = BidRows \ LiveRows
         /\ \A S \in SUBSET BidRows : IsFiniteSet(S) /\ IsFiniteSet(MakersOf(S)) /\ IsFiniteSet({OfferedOn[b] : b \in S})
<1>1. BidRows \subseteq Offers
  BY DEF BidRows
<1>2. \A b \in BidRows : bidRow[b].deleted \in Nat
  BY DEF BidRows, BidsInv, BidTypes
<1>3. LiveRows = ZeroRows
  BY <1>2, BidsAssumption DEF LiveRows, ZeroRows
<1>4. StruckRows = BidRows \ LiveRows /\ LiveRows \subseteq BidRows
  BY DEF StruckRows, LiveRows
<1>5. ASSUME NEW S \in SUBSET BidRows
      PROVE  IsFiniteSet(S) /\ IsFiniteSet(MakersOf(S)) /\ IsFiniteSet({OfferedOn[b] : b \in S})
  <2>1. IsFiniteSet(S)
    BY <1>1, BidsAssumption, FS_Subset
  <2> DEFINE mk == [b \in S |-> MakerOf[b]]
             md == [b \in S |-> OfferedOn[b]]
  <2>2. MakersOf(S) = {mk[b] : b \in S} /\ {OfferedOn[b] : b \in S} = {md[b] : b \in S}
    BY DEF MakersOf
  <2>3. mk \in Surjection(S, {mk[b] : b \in S}) /\ md \in Surjection(S, {md[b] : b \in S})
    BY DEF Surjection
  <2> HIDE DEF mk, md
  <2>4. IsFiniteSet({mk[b] : b \in S}) /\ IsFiniteSet({md[b] : b \in S})
    BY <2>1, <2>3, FS_Surjection
  <2> QED
    BY <2>1, <2>2, <2>4
<1> QED
  BY <1>1, <1>3, <1>4, <1>5

LEMMA MarketFollows == BidsInv => MarketAnswersAgree
<1> SUFFICES ASSUME BidsInv PROVE MarketAnswersAgree
  OBVIOUS
<1> DEFINE P == MakersOf(BidRows)
           M == {OfferedOn[b] : b \in LiveRows}
           active == [p \in P |-> Cardinality(OfMaker(p) \intersect ZeroRows)]
           gone == [p \in P |-> Cardinality(OfMaker(p) \intersect StruckRows)]
           Supply(m) == Cardinality(OnModels({m}) \intersect LiveRows)
<1>1. /\ BidRows \subseteq Offers /\ LiveRows = ZeroRows /\ LiveRows \subseteq BidRows
      /\ StruckRows = BidRows \ LiveRows
      /\ \A S \in SUBSET BidRows : IsFiniteSet(S) /\ IsFiniteSet(MakersOf(S)) /\ IsFiniteSet({OfferedOn[b] : b \in S})
  BY RowsOfBids
<1>2. IsFiniteSet(P) /\ IsFiniteSet(M) /\ IsFiniteSet(LiveRows) /\ IsFiniteSet(StruckRows)
  BY <1>1
<1>3. Cardinality(LiveRows) = SumOver(active)
  <2>1. \A p \in P : active[p] = Cardinality(GroupedBy(LiveRows, MakerOf, p))
    <3>1. \A p \in P : OfMaker(p) \intersect ZeroRows = GroupedBy(LiveRows, MakerOf, p)
      BY <1>1 DEF OfMaker, GroupedBy
    <3> QED
      BY <3>1
  <2>2. DOMAIN active = P /\ \A b \in LiveRows : MakerOf[b] \in P
    BY <1>1 DEF MakersOf
  <2> HIDE DEF active, P
  <2> QED
    BY <1>2, <2>1, <2>2, SumOfGroups
<1>4. Cardinality(StruckRows) = SumOver(gone)
  <2>1. \A p \in P : gone[p] = Cardinality(GroupedBy(StruckRows, MakerOf, p))
    <3>1. \A p \in P : OfMaker(p) \intersect StruckRows = GroupedBy(StruckRows, MakerOf, p)
      BY <1>1 DEF OfMaker, GroupedBy
    <3> QED
      BY <3>1
  <2>2. DOMAIN gone = P /\ \A b \in StruckRows : MakerOf[b] \in P
    BY <1>1 DEF MakersOf
  <2> HIDE DEF gone, P
  <2> QED
    BY <1>2, <2>1, <2>2, SumOfGroups
<1>5. Cardinality(LiveRows) + Cardinality(StruckRows) = Cardinality(BidRows)
  <2>1. BidRows = LiveRows \union StruckRows /\ LiveRows \intersect StruckRows = {}
    BY <1>1
  <2> QED
    BY <1>2, <2>1, ApartAddUp
<1>6. ASSUME NEW ms \in SUBSET M
      PROVE  Cardinality(OnModels(ms) \intersect LiveRows) = SumOver([m \in ms |-> Supply(m)])
  <2> DEFINE S == OnModels(ms) \intersect LiveRows
             g == [m \in ms |-> Supply(m)]
  <2>1. \A m \in ms : g[m] = Cardinality(GroupedBy(S, OfferedOn, m))
    <3>1. \A m \in ms : OnModels({m}) \intersect LiveRows = GroupedBy(S, OfferedOn, m)
      BY DEF OnModels, GroupedBy
    <3> QED
      BY <3>1
  <2>2. DOMAIN g = ms /\ \A b \in S : OfferedOn[b] \in ms
    BY DEF OnModels
  <2>3. IsFiniteSet(ms) /\ IsFiniteSet(S)
    BY <1>2, FS_Subset
  <2> HIDE DEF g, S
  <2>4. IsFiniteSet(DOMAIN g) /\ (\A b \in S : OfferedOn[b] \in DOMAIN g)
        /\ \A m \in DOMAIN g : g[m] = Cardinality(GroupedBy(S, OfferedOn, m))
    BY <2>1, <2>2, <2>3, Zenon
  <2>5. SumOver(g) = Cardinality(S)
    BY <2>3, <2>4, SumOfGroups, Zenon
  <2> QED
    BY <2>5 DEF S, g
<1>7. Cardinality(LiveRows) = SumOver([m \in M |-> Supply(m)])
  <2>1. OnModels(M) \intersect LiveRows = LiveRows
    BY <1>1 DEF OnModels
  <2> QED
    BY <1>6, <2>1
<1>8. ASSUME NEW m \in M
      PROVE  Min(Asks(OnModels({m}) \intersect LiveRows)) <= Max(Asks(OnModels({m}) \intersect LiveRows))
  <2> DEFINE S == OnModels({m}) \intersect LiveRows
             A == Asks(S)
             askOf == [b \in S |-> AskOf[b]]
  <2>1. S # {} /\ S \subseteq Offers /\ IsFiniteSet(S)
    BY <1>1, <1>2, FS_Subset DEF OnModels
  <2>2. A \in SUBSET Nat /\ A # {}
    <3>1. \A b \in Offers : AskOf[b] \in Nat
      BY BidsAssumption
    <3> HIDE DEF S
    <3> QED
      BY <2>1, <3>1 DEF Asks
  <2>3. IsFiniteSet(A)
    <3>1. A = {askOf[b] : b \in S}
      BY DEF Asks
    <3>2. askOf \in Surjection(S, {askOf[b] : b \in S})
      BY DEF Surjection
    <3> HIDE DEF askOf, S, A
    <3> QED
      BY <2>1, <3>1, <3>2, FS_Surjection
  <2> HIDE DEF A
  <2>4. Min(A) \in A /\ \A y \in A : Min(A) <= y
    BY <2>2, LeastOfNaturals
  <2>5. Max(A) \in A
    BY <2>2, <2>3, GreatestOfNaturals
  <2> QED
    BY <2>4, <2>5 DEF A
<1>9. MakersOf(LiveRows) = {p \in P : active[p] > 0}
  <2>1. ASSUME NEW p \in P
        PROVE  active[p] > 0 <=> p \in MakersOf(LiveRows)
    <3> DEFINE S == OfMaker(p) \intersect ZeroRows
    <3>1. IsFiniteSet(S) /\ (p \in MakersOf(LiveRows) <=> S # {})
      <4>1. S \in SUBSET BidRows
        BY <1>1
      <4>2. p \in MakersOf(LiveRows) <=> S # {}
        BY <1>1 DEF MakersOf, OfMaker
      <4> QED
        BY <1>1, <4>1, <4>2
    <3>2. active[p] = Cardinality(S)
      OBVIOUS
    <3> HIDE DEF S, active
    <3>3. Cardinality(S) \in Nat /\ (Cardinality(S) = 0 <=> S = {})
      BY <3>1, FS_CardinalityType, FS_EmptySet
    <3> QED
      BY <3>1, <3>2, <3>3
  <2>2. MakersOf(LiveRows) \subseteq P
    BY <1>1 DEF MakersOf
  <2> HIDE DEF active, P
  <2> QED
    BY <2>1, <2>2
<1> DEFINE counts == countBidsByProvider
           all == MarketAll(P)
<1>10. /\ \A p \in P : counts[p].active = active[p] /\ counts[p].retracted = gone[p]
       /\ [p \in P |-> counts[p].active] = active /\ [p \in P |-> counts[p].retracted] = gone
  BY DEF countBidsByProvider
<1>11. /\ all.total = Cardinality(LiveRows) /\ all.retracted = Cardinality(StruckRows)
       /\ \A p \in P : /\ all.byMaker[p].active = OfMaker(p) \intersect LiveRows
                       /\ all.byMaker[p].retracted = OfMaker(p) \intersect StruckRows
  BY DEF MarketAll
<1>12. FrontBids.bids = Cardinality(LiveRows) /\ FrontBids.models = M /\ FrontBids.serving = MakersOf(LiveRows)
  BY DEF FrontBids
<1>13. \A ms : /\ GroupSupply(ms).bids = Cardinality(OnModels(ms) \intersect LiveRows)
               /\ GroupSupply(ms).makers = MakersOf(OnModels(ms) \intersect LiveRows)
  BY DEF GroupSupply
<1>14. \A m \in M : /\ BidStats[m].bids = Supply(m)
                    /\ BidStats[m].makers = Cardinality(MakersOf(OnModels({m}) \intersect LiveRows))
                    /\ BidStats[m].low = Min(Asks(OnModels({m}) \intersect LiveRows))
                    /\ BidStats[m].high = Max(Asks(OnModels({m}) \intersect LiveRows))
  BY DEF BidStats, SupplyOf
<1>15. \A p \in P : /\ ProviderSummary(p).active = Cardinality(OfMaker(p) \intersect LiveRows)
                    /\ ProviderSummary(p).retracted = Min({LIST_CAP, gone[p]})
  BY DEF ProviderSummary
<1>16. /\ [m \in M |-> BidStats[m].bids] = [m \in M |-> Supply(m)]
       /\ \A ms : [m \in ms |-> GroupSupply({m}).bids] = [m \in ms |-> Supply(m)]
  BY <1>13, <1>14
<1>17. \A p \in P : active[p] = Cardinality(OfMaker(p) \intersect LiveRows) /\ gone[p] = Cardinality(OfMaker(p) \intersect StruckRows)
  BY <1>1
<1> HIDE DEF counts, all, active, gone, P, M, Supply
<1>18. /\ all.total = SumOver([p \in P |-> counts[p].active])
       /\ all.retracted = SumOver([p \in P |-> counts[p].retracted])
       /\ all.total + all.retracted = Cardinality(BidRows)
       /\ all.total = SumOver([m \in FrontBids.models |-> BidStats[m].bids])
  BY <1>3, <1>4, <1>5, <1>7, <1>10, <1>11, <1>12, <1>16
<1>19. \A m \in FrontBids.models : BidStats[m].low <= BidStats[m].high
                                   /\ BidStats[m].makers = Cardinality(GroupSupply({m}).makers)
  BY <1>8, <1>12, <1>13, <1>14
<1>20. \A ms \in SUBSET FrontBids.models :
         GroupSupply(ms).bids = SumOver([m \in ms |-> GroupSupply({m}).bids])
  BY <1>6, <1>12, <1>13, <1>16
<1>21. /\ FrontBids.bids = all.total
       /\ FrontBids.serving = {p \in P : counts[p].active > 0}
  <2>1. {p \in P : counts[p].active > 0} = {p \in P : active[p] > 0}
    BY <1>10
  <2> QED
    BY <1>9, <1>11, <1>12, <2>1
<1>22. \A p \in P :
         /\ ProviderSummary(p).active = counts[p].active
         /\ Cardinality(all.byMaker[p].active) = counts[p].active
         /\ Cardinality(all.byMaker[p].retracted) = counts[p].retracted
         /\ ProviderSummary(p).retracted = Min({LIST_CAP, counts[p].retracted})
  BY <1>10, <1>11, <1>15, <1>17
<1> QED
  BY <1>18, <1>19, <1>20, <1>21, <1>22 DEF MarketAnswersAgree, counts, all, P

(***************************************************************************)
(* What readers are told of bids fits together and is true of the chain,   *)
(* for any bids and any order of the writes.                               *)
(***************************************************************************)
THEOREM MarketStaysTrue == ReadersSpec => []BidBookHolds
<1>1. ReadersInit => BidsInv
  BY BidsStart DEF ReadersInit
<1>2. BidsInv /\ [ReadersNext]_readerVars => BidsInv'
  BY BidsStep, ReadersStepBids
<1>3. BidsInv => MarketAnswersAgree
  BY MarketFollows
<1> QED
  BY <1>1, <1>2, <1>3, BidRowsAreTrue, PTL DEF ReadersSpec, BidBookHolds, BidBookIsTrue
-----------------------------------------------------------------------------
(***************************************************************************)
(* What the pages make of the sessions (AnswersAgree).  A row belongs to   *)
(* one wallet, one bid and one day, and to a provider and a model or to    *)
(* neither; it is active, or was closed at some second.  So every answer   *)
(* groups or splits the same rows, and its groups add up to them.          *)
(***************************************************************************)
RowsAreWhole ==
  \A s \in Rows : /\ book[s].active => book[s].closed = 0
                  /\ book[s].provider = Void <=> book[s].model = Void

LEMMA WholeStep == BookInv /\ RowsAreWhole /\ [BookNext]_bookVars => RowsAreWhole'
<1> SUFFICES ASSUME BookInv, RowsAreWhole, [BookNext]_bookVars
             PROVE  RowsAreWhole'
  OBVIOUS
<1>1. ASSUME NEW s \in Sessions, NEW row, book' = [book EXCEPT ![s] = row],
             row.active => row.closed = 0, row.provider = Void <=> row.model = Void
      PROVE  RowsAreWhole'
  <2>1. book'[s] = row /\ \A r \in Sessions : r # s => book'[r] = book[r]
    BY <1>1 DEF BookInv, BookTypes
  <2> QED
    BY <1>1, <2>1 DEF RowsAreWhole, Rows
<1>2. ASSUME NEW s \in Sessions, NEW resolved \in BOOLEAN, IndexOpen(s, resolved)
      PROVE  RowsAreWhole'
  <2> DEFINE row == [user |-> UserOf[s], bid |-> BidOf[s],
        provider |-> IF resolved THEN SellerOf[BidOf[s]] ELSE Void,
        model |-> IF resolved THEN ModelOfBid[BidOf[s]] ELSE Void,
        stake |-> StakeOf[s], opened |-> chain[s].opened, ends |-> chain[s].ends,
        closed |-> 0, closeout |-> 0, active |-> TRUE]
  <2>1. SellerOf[BidOf[s]] # Void /\ ModelOfBid[BidOf[s]] # Void
    BY BookAssumption DEF Bids
  <2>2. row.closed = 0 /\ (row.provider = Void <=> row.model = Void)
    BY <2>1
  <2>3. book' = [book EXCEPT ![s] = row]
    BY <1>2 DEF IndexOpen
  <2> HIDE DEF row
  <2> QED
    BY <1>1, <2>2, <2>3
\* Who closes a row leaves what it is of.
<1>3. ASSUME NEW s \in Sessions, NEW at, NEW how, s \in Rows,
             book' = [book EXCEPT ![s] = [book[s] EXCEPT !.active = FALSE, !.closed = at, !.closeout = how]]
      PROVE  RowsAreWhole'
  <2> DEFINE row == [book[s] EXCEPT !.active = FALSE, !.closed = at, !.closeout = how]
  <2>1. book[s] \in RowType
    BY <1>3 DEF Rows, BookInv, BookTypes
  <2>2. ~row.active /\ row.provider = book[s].provider /\ row.model = book[s].model
    BY <2>1 DEF RowType
  <2>3. row.provider = Void <=> row.model = Void
    BY <1>3, <2>2 DEF RowsAreWhole
  <2>4. book' = [book EXCEPT ![s] = row]
    BY <1>3
  <2> HIDE DEF row
  <2> QED
    BY <1>1, <2>2, <2>3, <2>4
<1>4. ASSUME NEW s \in Sessions, IndexClose(s)
      PROVE  RowsAreWhole'
  <2>1. book[s] \in RowType /\ s \in Rows
    BY <1>4 DEF IndexClose, BookInv, BookTypes, Rows
  <2>2. [book[s] EXCEPT !.closed = clock, !.active = FALSE]
          = [book[s] EXCEPT !.active = FALSE, !.closed = clock, !.closeout = book[s].closeout]
    BY <2>1 DEF RowType
  <2>3. book' = [book EXCEPT ![s] = [book[s] EXCEPT !.closed = clock, !.active = FALSE]]
    BY <1>4 DEF IndexClose
  <2> QED
    BY <1>3, <2>1, <2>2, <2>3
<1>5. ASSUME NEW s \in Sessions, NEW lands \in BOOLEAN, FixRow(s, lands)
      PROVE  RowsAreWhole'
  <2>1. CASE lands
    <3>1. book' = [book EXCEPT ![s] = [book[s] EXCEPT !.active = FALSE, !.closed = chain[s].closed,
                                                      !.closeout = chain[s].closeout]]
      BY <1>5, <2>1 DEF FixRow
    <3>2. book[s] \in RowType
      BY <1>5 DEF FixRow, BookInv, RepairsAreDue
    <3>3. s \in Rows
      BY <3>2, BookAssumption DEF Rows
    <3> QED
      BY <1>3, <3>1, <3>3
  <2>2. CASE ~lands
    <3>1. book' = book
      BY <1>5, <2>2 DEF FixRow
    <3> QED
      BY <3>1 DEF RowsAreWhole, Rows
  <2> QED
    BY <2>1, <2>2
<1>6. CASE UNCHANGED book
  BY <1>6 DEF RowsAreWhole, Rows
<1> QED
  BY <1>2, <1>4, <1>5, <1>6 DEF BookNext, bookVars, OpenOnChain, CloseOnChain, BeginAccount, VerifyOnChain, VerifyFails, SecondPasses
-----------------------------------------------------------------------------
LEMMA RowsAreFinite ==
  ASSUME BookInv
  PROVE  Rows \subseteq Sessions /\ \A S \in SUBSET Rows : IsFiniteSet(S)
<1>1. Rows \subseteq Sessions
  BY DEF Rows
<1> QED
  BY <1>1, BookAssumption, FS_Subset

LEMMA RowIsOfOne ==
  ASSUME BookInv, RowsAreWhole, NEW s \in Rows
  PROVE  /\ book[s].user \in Holders /\ book[s].bid \in Bids
         /\ book[s].provider \in Sellers \union {Void} /\ book[s].model \in Listings \union {Void}
         /\ book[s].stake \in Nat /\ book[s].opened \in Nat /\ book[s].ends \in Nat
         /\ book[s].closed \in Nat /\ book[s].active \in BOOLEAN
         /\ book[s].active <=> book[s].closed = 0
         /\ book[s].provider = Void <=> book[s].model = Void
<1>1. s \in Sessions /\ book[s] \in RowType
  BY DEF Rows, BookInv, BookTypes
<1>2. /\ book[s].user \in Holders /\ book[s].bid \in Bids
      /\ book[s].provider \in Sellers \union {Void} /\ book[s].model \in Listings \union {Void}
      /\ book[s].stake \in Nat /\ book[s].opened \in Nat /\ book[s].ends \in Nat
      /\ book[s].closed \in Nat /\ book[s].active \in BOOLEAN
  BY <1>1 DEF RowType
<1>3. chain[s].closed \in Nat
  BY <1>1 DEF BookInv, BookTypes, ChainType
<1>4. ~book[s].active => book[s].closed # 0
  BY <1>2, <1>3 DEF BookInv, ClosedRowsAreTrue
<1> QED
  BY <1>2, <1>4 DEF RowsAreWhole

\* The columns the answers group by.
UserColumn     == [s \in Sessions |-> book[s].user]
BidColumn      == [s \in Sessions |-> book[s].bid]
ProviderColumn == [s \in Sessions |-> book[s].provider]
ModelColumn    == [s \in Sessions |-> book[s].model]
DayColumn      == [s \in Sessions |-> book[s].opened]

LEMMA ColumnsAreFinite ==
  ASSUME BookInv
  PROVE  /\ IsFiniteSet(Bids) /\ IsFiniteSet(Users(Rows)) /\ IsFiniteSet(Providers(Rows))
         /\ IsFiniteSet(Models(Rows)) /\ IsFiniteSet({book[s].opened : s \in Rows})
<1>1. IsFiniteSet(Rows) /\ Rows \subseteq Sessions
  BY RowsAreFinite
<1>2. Bids = ColumnOf(BidOf, Sessions)
  BY DEF Bids, ColumnOf
<1>3. Users(Rows) = ColumnOf(UserColumn, Rows)
  BY <1>1 DEF Users, ColumnOf, UserColumn
<1>4. Providers(Rows) = ColumnOf(ProviderColumn, Rows)
  BY <1>1 DEF Providers, ColumnOf, ProviderColumn
<1>5. Models(Rows) = ColumnOf(ModelColumn, Rows)
  BY <1>1 DEF Models, ColumnOf, ModelColumn
<1>6. {book[s].opened : s \in Rows} = ColumnOf(DayColumn, Rows)
  BY <1>1 DEF ColumnOf, DayColumn
<1> QED
  BY <1>1, <1>2, <1>3, <1>4, <1>5, <1>6, BookAssumption, ColumnIsFinite

LEMMA TotalOfGroups ==
  ASSUME NEW S, IsFiniteSet(S), NEW key, NEW g, IsFiniteSet(DOMAIN g),
         \A x \in S : key[x] \in DOMAIN g,
         \A k \in DOMAIN g : g[k] = Cardinality(GroupedBy(S, key, k))
  PROVE  Total(g) = Cardinality(S)
<1>1. SumOver(g) = Cardinality(S)
  BY SumOfGroups
<1> QED
  BY <1>1 DEF Total, SumOver

\* A total in which each row of S is counted once, under its wallet.
LEMMA TotalByUser ==
  ASSUME BookInv, RowsAreWhole, NEW S \in SUBSET Rows, NEW W, IsFiniteSet(W), NEW g, DOMAIN g = W,
         \A s \in S : book[s].user \in W,
         \A w \in W : g[w] = Cardinality(RowsOfUser(w) \intersect S)
  PROVE  Total(g) = Cardinality(S)
<1>1. IsFiniteSet(S) /\ S \subseteq Sessions
  BY RowsAreFinite
<1>2. \A w \in W : RowsOfUser(w) \intersect S = GroupedBy(S, UserColumn, w)
  BY <1>1 DEF RowsOfUser, GroupedBy, UserColumn
<1>3. \A s \in S : UserColumn[s] \in W
  BY <1>1 DEF UserColumn
<1>4. IsFiniteSet(DOMAIN g) /\ \A s \in S : UserColumn[s] \in DOMAIN g
  BY <1>1, <1>3, Zenon
<1>5. \A k \in DOMAIN g : g[k] = Cardinality(GroupedBy(S, UserColumn, k))
  BY <1>2, Zenon
<1> QED
  BY <1>1, <1>4, <1>5, TotalOfGroups, Zenon

LEMMA TotalByBid ==
  ASSUME BookInv, RowsAreWhole, NEW S \in SUBSET Rows, NEW g, DOMAIN g = Bids,
         \A b \in Bids : g[b] = Cardinality(RowsOfBid(b) \intersect S)
  PROVE  Total(g) = Cardinality(S)
<1>1. IsFiniteSet(S) /\ S \subseteq Sessions /\ IsFiniteSet(Bids)
  BY RowsAreFinite, ColumnsAreFinite
<1>2. \A b \in Bids : RowsOfBid(b) \intersect S = GroupedBy(S, BidColumn, b)
  BY <1>1 DEF RowsOfBid, GroupedBy, BidColumn
<1>3. \A s \in S : BidColumn[s] \in Bids
  BY <1>1, RowIsOfOne DEF BidColumn
<1>4. IsFiniteSet(DOMAIN g) /\ \A s \in S : BidColumn[s] \in DOMAIN g
  BY <1>1, <1>3, Zenon
<1>5. \A k \in DOMAIN g : g[k] = Cardinality(GroupedBy(S, BidColumn, k))
  BY <1>2, Zenon
<1> QED
  BY <1>1, <1>4, <1>5, TotalOfGroups, Zenon

LEMMA TotalByProvider ==
  ASSUME BookInv, RowsAreWhole, NEW S \in SUBSET Rows, NEW P, IsFiniteSet(P), NEW g, DOMAIN g = P,
         \A s \in S : book[s].provider \in P,
         \A p \in P : g[p] = Cardinality(RowsOfProvider(p) \intersect S)
  PROVE  Total(g) = Cardinality(S)
<1>1. IsFiniteSet(S) /\ S \subseteq Sessions
  BY RowsAreFinite
<1>2. \A p \in P : RowsOfProvider(p) \intersect S = GroupedBy(S, ProviderColumn, p)
  BY <1>1 DEF RowsOfProvider, GroupedBy, ProviderColumn
<1>3. \A s \in S : ProviderColumn[s] \in P
  BY <1>1 DEF ProviderColumn
<1>4. IsFiniteSet(DOMAIN g) /\ \A s \in S : ProviderColumn[s] \in DOMAIN g
  BY <1>1, <1>3, Zenon
<1>5. \A k \in DOMAIN g : g[k] = Cardinality(GroupedBy(S, ProviderColumn, k))
  BY <1>2, Zenon
<1> QED
  BY <1>1, <1>4, <1>5, TotalOfGroups, Zenon

LEMMA TotalByModel ==
  ASSUME BookInv, RowsAreWhole, NEW S \in SUBSET Rows, NEW M, IsFiniteSet(M), NEW g, DOMAIN g = M,
         \A s \in S : book[s].model \in M,
         \A m \in M : g[m] = Cardinality(RowsOfModels({m}) \intersect S)
  PROVE  Total(g) = Cardinality(S)
<1>1. IsFiniteSet(S) /\ S \subseteq Sessions
  BY RowsAreFinite
<1>2. \A m \in M : RowsOfModels({m}) \intersect S = GroupedBy(S, ModelColumn, m)
  BY <1>1 DEF RowsOfModels, GroupedBy, ModelColumn
<1>3. \A s \in S : ModelColumn[s] \in M
  BY <1>1 DEF ModelColumn
<1>4. IsFiniteSet(DOMAIN g) /\ \A s \in S : ModelColumn[s] \in DOMAIN g
  BY <1>1, <1>3, Zenon
<1>5. \A k \in DOMAIN g : g[k] = Cardinality(GroupedBy(S, ModelColumn, k))
  BY <1>2, Zenon
<1> QED
  BY <1>1, <1>4, <1>5, TotalOfGroups, Zenon
-----------------------------------------------------------------------------
\* The stake of some rows, as the units it is made of.
StakeColumn == [s \in Sessions |-> book[s].stake]

LEMMA StakeIsCount ==
  ASSUME BookInv, RowsAreWhole, NEW S \in SUBSET Rows
  PROVE  StakeSum(S) = CountOf(StakeColumn, S) /\ StakeSum(S) \in Nat
<1> DEFINE Adding(iter) == iter = [t \in SUBSET S |->
             IF t = {} THEN 0 ELSE book[Pick(t)].stake + iter[t \ {Pick(t)}]]
           sum == CHOOSE iter : Adding(iter)
<1>1. StakeSum(S) = sum[S]
  BY DEF StakeSum, MapThenSumSet, MapThenFoldSet, Pick
<1>2. IsFiniteSet(S) /\ \A s \in S : StakeColumn[s] = book[s].stake /\ StakeColumn[s] \in Nat
  BY RowsAreFinite, RowIsOfOne DEF StakeColumn
<1>3. \A t \in SUBSET S : t # {} => StakeColumn[Pick(t)] = book[Pick(t)].stake
  BY <1>2 DEF Pick
<1>4. ASSUME NEW iter
      PROVE  Adding(iter) <=> Sums(StakeColumn, S, iter)
  <2>1. \A t \in SUBSET S :
          (IF t = {} THEN 0 ELSE book[Pick(t)].stake + iter[t \ {Pick(t)}])
            = IF t = {} THEN 0 ELSE StakeColumn[Pick(t)] + iter[t \ {Pick(t)}]
    BY <1>3
  <2>2. [t \in SUBSET S |-> IF t = {} THEN 0 ELSE book[Pick(t)].stake + iter[t \ {Pick(t)}]]
          = [t \in SUBSET S |-> IF t = {} THEN 0 ELSE StakeColumn[Pick(t)] + iter[t \ {Pick(t)}]]
    BY <2>1
  <2> QED
    BY <2>2 DEF Sums
<1>5. Sums(StakeColumn, S, sum)
  <2>1. \E iter : Sums(StakeColumn, S, iter)
    BY <1>2, SumExists
  <2>2. \E iter : Adding(iter)
    BY <1>4, <2>1
  <2>3. Adding(sum)
    BY <2>2
  <2> QED
    BY <1>4, <2>3
<1> HIDE DEF sum
<1>6. sum[S] = CountOf(StakeColumn, S)
  BY <1>2, <1>5, SumsCount
<1>7. S \in SUBSET S
  OBVIOUS
<1>8. CountOf(StakeColumn, S) \in Nat
  BY <1>2, <1>7, UnitsAreFinite
<1> QED
  BY <1>1, <1>6, <1>8

\* The rows of two sets that have none in common, counted and staked.
LEMMA SplitAddsUp ==
  ASSUME BookInv, RowsAreWhole, NEW S \in SUBSET Rows, NEW T \in SUBSET Rows, S \intersect T = {}
  PROVE  /\ Cardinality(S \union T) = Cardinality(S) + Cardinality(T)
         /\ StakeSum(S \union T) = StakeSum(S) + StakeSum(T)
         /\ Cardinality(S) \in Nat /\ Cardinality(T) \in Nat
<1>1. IsFiniteSet(S) /\ IsFiniteSet(T) /\ S \union T \in SUBSET Rows
  BY RowsAreFinite
<1>2. /\ StakeSum(S) = CountOf(StakeColumn, S) /\ StakeSum(T) = CountOf(StakeColumn, T)
      /\ StakeSum(S \union T) = CountOf(StakeColumn, S \union T)
  BY <1>1, StakeIsCount
<1>3. \A s \in S \union T : StakeColumn[s] \in Nat
  BY <1>1, RowsAreFinite, RowIsOfOne DEF StakeColumn
<1>4. CountOf(StakeColumn, S \union T) = CountOf(StakeColumn, S) + CountOf(StakeColumn, T)
  BY <1>1, <1>3, CountUnion
<1>5. /\ Cardinality(S \union T) = Cardinality(S) + Cardinality(T)
      /\ Cardinality(S) \in Nat /\ Cardinality(T) \in Nat
  BY <1>1, ApartAddUp
<1> QED
  BY <1>2, <1>4, <1>5

\* At any second, an open row is active, claimable, or ends just then.
LEMMA OpenRowsSplit ==
  ASSUME BookInv, RowsAreWhole
  PROVE  /\ Rows \in SUBSET Rows /\ Flagged \in SUBSET Rows /\ clock \in Nat /\ clock >= 1
         /\ ActiveAt(clock) \subseteq Flagged /\ ClaimableAt(clock) \subseteq Flagged
         /\ ActiveAt(clock) \intersect ClaimableAt(clock) = {}
         /\ Flagged = ActiveAt(clock) \union ClaimableAt(clock) \union {s \in Flagged : book[s].ends = clock}
<1>1. clock \in Nat /\ clock >= 1
  BY BookNumbersHold DEF BookInv, BookTypes, BookNumbers
<1>2. \A s \in Flagged : book[s].ends \in Nat
  BY RowIsOfOne DEF Flagged
<1> QED
  BY <1>1, <1>2 DEF Flagged, ActiveAt, ClaimableAt

LEMMA WalletAddsUp ==
  ASSUME BookInv, RowsAreWhole, NEW w \in Holders
  PROVE  LET stats == WalletStats(w, clock) IN
         /\ stats.total = stats.active + stats.claimable + stats.closed
         /\ Cardinality(Transactions(w, clock)) + stats.active
              + Cardinality({s \in RowsOfUser(w) \intersect Flagged : book[s].ends = clock}) = 2 * stats.total
<1> DEFINE mine == RowsOfUser(w)
           active == mine \intersect ActiveAt(clock)
           due == {s \in mine : book[s].active /\ book[s].ends > 0 /\ book[s].ends <= clock}
           past == mine \intersect ClaimableAt(clock)
           ending == {s \in mine \intersect Flagged : book[s].ends = clock}
           closed == {s \in mine : book[s].closed > 0}
<1>1. mine \in SUBSET Rows
  BY DEF RowsOfUser
<1>2. /\ clock \in Nat /\ clock >= 1
      /\ \A s \in mine : /\ book[s].ends \in Nat /\ book[s].closed \in Nat
                         /\ book[s].active <=> book[s].closed = 0
  BY <1>1, OpenRowsSplit, RowIsOfOne
<1>3. /\ active \in SUBSET Rows /\ due \in SUBSET Rows /\ past \in SUBSET Rows
      /\ ending \in SUBSET Rows /\ closed \in SUBSET Rows
  BY <1>1
<1>4. /\ mine = (active \union due) \union closed /\ active \intersect due = {}
      /\ (active \union due) \intersect closed = {} /\ active \union due \in SUBSET Rows
  BY <1>1, <1>2, <1>3 DEF ActiveAt, Flagged
<1>5. due = past \union ending /\ past \intersect ending = {}
  BY <1>1, <1>2 DEF ClaimableAt, Flagged
<1>6. {t \in past : book[t].closed = 0} = past
  BY <1>2 DEF ClaimableAt, Flagged
<1> DEFINE kind == [s \in Sessions |-> IF book[s].closeout = 1 THEN "dispute" ELSE "close"]
           opens == Labelled([s \in Sessions |-> "open"], mine)
           closes == Labelled(kind, closed)
           expiries == Labelled([s \in Sessions |-> "expired"], past)
<1>7. Transactions(w, clock) = (opens \union closes) \union expiries
  <2>1. mine \subseteq Sessions /\ closed \subseteq Sessions /\ past \subseteq Sessions
    BY <1>1 DEF Rows
  <2>2. opens = {<<"open", s>> : s \in mine} /\ expiries = {<<"expired", s>> : s \in past}
    BY <2>1 DEF Labelled
  <2>3. closes = {<<IF book[s].closeout = 1 THEN "dispute" ELSE "close", s>> : s \in closed}
    BY <2>1 DEF Labelled
  <2> QED
    BY <1>6, <2>2, <2>3 DEF Transactions
<1>8. opens \intersect closes = {} /\ (opens \union closes) \intersect expiries = {}
  <2>1. mine \subseteq Sessions /\ closed \subseteq Sessions /\ past \subseteq Sessions
    BY <1>1 DEF Rows
  <2>2. \A e \in opens : e[1] = "open"
    BY <2>1 DEF Labelled
  <2>3. \A e \in closes : e[1] \in {"dispute", "close"}
    <3>1. \A s \in closed : kind[s] \in {"dispute", "close"}
      BY <2>1
    <3> HIDE DEF kind
    <3> QED
      BY <3>1 DEF Labelled
  <2>4. \A e \in expiries : e[1] = "expired"
    BY <2>1 DEF Labelled
  <2> HIDE DEF opens, closes, expiries
  <2> QED
    BY <2>2, <2>3, <2>4
<1>9. WalletStats(w, clock) = [total |-> Cardinality(mine), active |-> Cardinality(active),
                               closed |-> Cardinality(closed), claimable |-> Cardinality(due)]
  BY DEF WalletStats
<1> HIDE DEF mine, active, due, past, ending, closed
<1>10. IsFiniteSet(mine) /\ IsFiniteSet(closed) /\ IsFiniteSet(past)
  BY <1>1, <1>3, RowsAreFinite
<1>11. /\ IsFiniteSet(opens) /\ Cardinality(opens) = Cardinality(mine)
       /\ IsFiniteSet(closes) /\ Cardinality(closes) = Cardinality(closed)
       /\ IsFiniteSet(expiries) /\ Cardinality(expiries) = Cardinality(past)
  BY <1>10, LabelsCount
<1> HIDE DEF opens, closes, expiries
<1>12. Cardinality(Transactions(w, clock)) = Cardinality(mine) + Cardinality(closed) + Cardinality(past)
  <2>1. IsFiniteSet(opens \union closes) /\ Cardinality(opens \union closes) = Cardinality(opens) + Cardinality(closes)
    BY <1>8, <1>11, ApartAddUp
  <2>2. Cardinality((opens \union closes) \union expiries) = Cardinality(opens \union closes) + Cardinality(expiries)
    BY <1>8, <1>11, <2>1, ApartAddUp
  <2> QED
    BY <1>7, <1>11, <2>1, <2>2
<1>13. /\ Cardinality(mine) = Cardinality(active \union due) + Cardinality(closed)
       /\ Cardinality(active \union due) = Cardinality(active) + Cardinality(due)
       /\ Cardinality(active) \in Nat /\ Cardinality(due) \in Nat /\ Cardinality(closed) \in Nat
  BY <1>3, <1>4, SplitAddsUp
<1>14. Cardinality(due) = Cardinality(past) + Cardinality(ending) /\ Cardinality(past) \in Nat /\ Cardinality(ending) \in Nat
  BY <1>3, <1>5, SplitAddsUp
<1>15. {s \in RowsOfUser(w) \intersect Flagged : book[s].ends = clock} = ending
  BY DEF ending, mine
<1>16. /\ WalletStats(w, clock).total = Cardinality(mine) /\ WalletStats(w, clock).active = Cardinality(active)
       /\ WalletStats(w, clock).closed = Cardinality(closed) /\ WalletStats(w, clock).claimable = Cardinality(due)
  BY <1>9
<1>17. Cardinality(mine) = Cardinality(active) + Cardinality(due) + Cardinality(closed)
  BY <1>13
<1>18. Cardinality(Transactions(w, clock)) + Cardinality(active) + Cardinality(ending) = 2 * Cardinality(mine)
  BY <1>12, <1>13, <1>14, <1>17
<1> QED
  BY <1>15, <1>16, <1>17, <1>18
-----------------------------------------------------------------------------
LEMMA StatesFollow == BookInv /\ RowsAreWhole => StatesAgree
<1> SUFFICES ASSUME BookInv, RowsAreWhole PROVE StatesAgree
  OBVIOUS
<1>1. ASSUME NEW s \in Rows, book[s].ends # clock
      PROVE  /\ s \in ActiveAt(clock) <=> classifySession(book[s], clock) = "active_open"
             /\ s \in ClaimableAt(clock) <=> classifySession(book[s], clock) = "expired_open"
  <2>1. /\ book[s].ends \in Nat /\ book[s].closed \in Nat /\ book[s].active \in BOOLEAN
        /\ book[s].active <=> book[s].closed = 0
    BY RowIsOfOne
  <2>2. clock \in Nat /\ clock >= 1
    BY OpenRowsSplit
  <2> QED
    BY <1>1, <2>1, <2>2 DEF ActiveAt, ClaimableAt, Flagged, classifySession
<1> QED
  BY <1>1, OpenRowsSplit, WalletAddsUp DEF StatesAgree

LEMMA TotalsFollow == BookInv /\ RowsAreWhole => TotalsAgree
<1> SUFFICES ASSUME BookInv, RowsAreWhole PROVE TotalsAgree
  OBVIOUS
<1>0. IsFiniteSet(Holders) /\ IsFiniteSet(Sellers) /\ IsFiniteSet(Listings)
  BY BookAssumption
<1>1. Rows \in SUBSET Rows /\ \A s \in Rows : book[s].user \in Holders
  BY RowIsOfOne
<1>2. Cardinality(Rows) = Total([w \in Holders |-> WalletStats(w, clock).total])
  <2> DEFINE g == [w \in Holders |-> WalletStats(w, clock).total]
  <2>1. \A w \in Holders : RowsOfUser(w) \intersect Rows = RowsOfUser(w)
    BY DEF RowsOfUser
  <2>2. DOMAIN g = Holders /\ \A w \in Holders : g[w] = Cardinality(RowsOfUser(w) \intersect Rows)
    BY <2>1 DEF WalletStats
  <2> HIDE DEF g
  <2>3. Total(g) = Cardinality(Rows)
    BY <1>0, <1>1, <2>2, TotalByUser
  <2> QED
    BY <2>3 DEF g
<1>3. Cardinality(Rows) = Total([b \in Bids |-> SummaryOf(RowsOfBid(b), clock).total])
  <2> DEFINE g == [b \in Bids |-> SummaryOf(RowsOfBid(b), clock).total]
  <2>1. \A b \in Bids : RowsOfBid(b) \intersect Rows = RowsOfBid(b)
    BY DEF RowsOfBid
  <2>2. DOMAIN g = Bids /\ \A b \in Bids : g[b] = Cardinality(RowsOfBid(b) \intersect Rows)
    BY <2>1 DEF SummaryOf
  <2> HIDE DEF g
  <2>3. Total(g) = Cardinality(Rows)
    BY <1>1, <2>2, TotalByBid
  <2> QED
    BY <2>3 DEF g
\* A row with a provider has a model: what a provider has is by its models.
<1>4. ASSUME NEW p \in Sellers, NEW S \in SUBSET RowsOfProvider(p), NEW g, DOMAIN g = Listings,
             \A m \in Listings : g[m] = Cardinality(RowsOfModels({m}) \intersect S)
      PROVE  Total(g) = Cardinality(S)
  <2>1. S \in SUBSET Rows
    BY DEF RowsOfProvider
  <2>2. \A s \in S : book[s].provider # Void
    BY BookAssumption DEF RowsOfProvider
  <2>3. \A s \in S : book[s].model \in Listings
    BY <2>1, <2>2, RowIsOfOne
  <2> QED
    BY <1>0, <1>4, <2>1, <2>3, TotalByModel
<1>5. ASSUME NEW p \in Sellers
      PROVE  LET summary == SummaryOf(RowsOfProvider(p), clock) IN
             /\ summary.total = Total([m \in Listings |-> ProviderStats(p, m).total])
             /\ summary.early = Total([m \in Listings |-> ProviderStats(p, m).early])
             /\ summary.success = Total([m \in Listings |-> ProviderStats(p, m).success])
             /\ summary.disputed = Total([m \in Listings |-> ProviderStats(p, m).dispute])
  <2> DEFINE mine == RowsOfProvider(p)
             pair(m) == mine \intersect RowsOfModels({m})
             counted == [m \in Listings |-> ProviderStats(p, m).total]
             early == [m \in Listings |-> ProviderStats(p, m).early]
             success == [m \in Listings |-> ProviderStats(p, m).success]
             dispute == [m \in Listings |-> ProviderStats(p, m).dispute]
  <2>1. \A m \in Listings : /\ counted[m] = Cardinality(pair(m)) /\ early[m] = Cardinality(CutShort(pair(m)))
                            /\ success[m] = Cardinality(Succeeded(pair(m))) /\ dispute[m] = Cardinality(Disputed(pair(m)))
    BY DEF ProviderStats
  <2>2. \A m \in Listings : /\ pair(m) = RowsOfModels({m}) \intersect mine
                            /\ CutShort(pair(m)) = RowsOfModels({m}) \intersect CutShort(mine)
                            /\ Succeeded(pair(m)) = RowsOfModels({m}) \intersect Succeeded(mine)
                            /\ Disputed(pair(m)) = RowsOfModels({m}) \intersect Disputed(mine)
    BY DEF CutShort, Succeeded, Disputed
  <2>3. /\ mine \in SUBSET RowsOfProvider(p) /\ CutShort(mine) \in SUBSET RowsOfProvider(p)
        /\ Succeeded(mine) \in SUBSET RowsOfProvider(p) /\ Disputed(mine) \in SUBSET RowsOfProvider(p)
    BY DEF CutShort, Succeeded, Disputed
  <2>4. DOMAIN counted = Listings /\ DOMAIN early = Listings /\ DOMAIN success = Listings /\ DOMAIN dispute = Listings
    OBVIOUS
  <2>5. /\ SummaryOf(mine, clock).total = Cardinality(mine) /\ SummaryOf(mine, clock).early = Cardinality(CutShort(mine))
        /\ SummaryOf(mine, clock).success = Cardinality(Succeeded(mine))
        /\ SummaryOf(mine, clock).disputed = Cardinality(Disputed(mine))
    BY DEF SummaryOf
  <2>6. \A m \in Listings : /\ counted[m] = Cardinality(RowsOfModels({m}) \intersect mine)
                            /\ early[m] = Cardinality(RowsOfModels({m}) \intersect CutShort(mine))
                            /\ success[m] = Cardinality(RowsOfModels({m}) \intersect Succeeded(mine))
                            /\ dispute[m] = Cardinality(RowsOfModels({m}) \intersect Disputed(mine))
    BY <2>1, <2>2
  <2> HIDE DEF mine, pair, counted, early, success, dispute
  <2>7. Total(counted) = Cardinality(mine)
    BY <1>4, <2>3, <2>4, <2>6
  <2>8. Total(early) = Cardinality(CutShort(mine))
    BY <1>4, <2>3, <2>4, <2>6
  <2>9. Total(success) = Cardinality(Succeeded(mine))
    BY <1>4, <2>3, <2>4, <2>6
  <2>10. Total(dispute) = Cardinality(Disputed(mine))
    BY <1>4, <2>3, <2>4, <2>6
  <2> QED
    BY <2>5, <2>7, <2>8, <2>9, <2>10 DEF mine, counted, early, success, dispute
<1>6. SummaryOf(RowsOfModels(Listings), clock).stake = Total([p \in Sellers |-> SummaryOf(RowsOfProvider(p), clock).stake])
  <2> DEFINE S == RowsOfModels(Listings)
             g == [p \in Sellers |-> SummaryOf(RowsOfProvider(p), clock).stake]
  <2>1. S \in SUBSET Rows /\ S \subseteq Sessions /\ IsFiniteSet(S)
    <3>1. S \in SUBSET Rows
      BY DEF RowsOfModels
    <3> QED
      BY <3>1, RowsAreFinite
  <2>2. \A s \in Rows : s \in S <=> book[s].provider \in Sellers
    BY RowIsOfOne, BookAssumption DEF RowsOfModels
  <2>3. \A p \in Sellers : RowsOfProvider(p) = GroupedBy(S, ProviderColumn, p)
    BY <2>1, <2>2 DEF RowsOfProvider, GroupedBy, ProviderColumn
  <2>4. \A p \in Sellers : g[p] = StakeSum(RowsOfProvider(p))
    BY DEF SummaryOf
  <2>5. \A p \in Sellers : StakeSum(RowsOfProvider(p)) = CountOf(StakeColumn, GroupedBy(S, ProviderColumn, p))
                           /\ StakeSum(RowsOfProvider(p)) \in Nat
    <3>1. \A p \in Sellers : RowsOfProvider(p) \in SUBSET Rows
      BY DEF RowsOfProvider
    <3> QED
      BY <2>3, <3>1, StakeIsCount
  <2>6. \A s \in S : StakeColumn[s] \in Nat /\ ProviderColumn[s] \in Sellers
    BY <2>1, <2>2, RowIsOfOne DEF StakeColumn, ProviderColumn
  <2>7. DOMAIN g = Sellers
    OBVIOUS
  <2>8. SummaryOf(S, clock).stake = CountOf(StakeColumn, S)
    BY <2>1, StakeIsCount DEF SummaryOf
  <2> HIDE DEF g, S
  <2>9. CountOf(g, Sellers) = CountOf(StakeColumn, S)
    <3>1. \A p \in Sellers : g[p] = CountOf(StakeColumn, GroupedBy(S, ProviderColumn, p))
      BY <2>4, <2>5
    <3> QED
      BY <1>0, <2>1, <2>6, <3>1, GroupsAddUp
  <2>10. MapThenSumSet(LAMBDA p : g[p], Sellers) = CountOf(g, Sellers)
    <3>1. \A p \in Sellers : g[p] \in Nat
      BY <2>4, <2>5
    <3> QED
      BY <1>0, <3>1, SumIsCount
  <2>11. Total(g) = CountOf(g, Sellers)
    BY <2>7, <2>10 DEF Total
  <2> QED
    BY <2>8, <2>9, <2>11 DEF g, S
<1> QED
  BY <1>2, <1>3, <1>5, <1>6 DEF TotalsAgree
-----------------------------------------------------------------------------
LEMMA BoardsFollow == BookInv /\ RowsAreWhole => BoardsAgree
<1> SUFFICES ASSUME BookInv, RowsAreWhole PROVE BoardsAgree
  OBVIOUS
<1> DEFINE U == Users(Rows)
           P == Providers(Rows) \ {Void}
           M == Models(Rows)
           Days == {book[s].opened : s \in Rows}
           Since(t) == {s \in Rows : book[s].opened > t}
<1>1. IsFiniteSet(U) /\ IsFiniteSet(P) /\ IsFiniteSet(M) /\ IsFiniteSet(M \ {Void}) /\ IsFiniteSet(Days)
  <2>1. P \in SUBSET Providers(Rows) /\ M \ {Void} \in SUBSET M
    OBVIOUS
  <2> QED
    BY <2>1, ColumnsAreFinite, FS_Subset
<1>2. \A s \in Rows : book[s].user \in U /\ book[s].provider \in P \union {Void} /\ book[s].model \in M /\ book[s].opened \in Days
  BY DEF Users, Providers, Models
<1>3. clock \in Nat /\ clock >= 1 /\ ActiveAt(clock) \in SUBSET Rows /\ Disputed(Rows) \in SUBSET Rows
      /\ Rows \subseteq Sessions
  BY OpenRowsSplit, RowsAreFinite DEF Disputed
<1>4. \A s \in Rows : book[s].opened \in Nat /\ (book[s].provider = Void <=> book[s].model = Void)
                      /\ book[s].model \in Listings \union {Void}
  BY RowIsOfOne
<1>5. Cardinality(ActiveAt(clock)) = Total([w \in U |-> WalletBoard(0, clock)[w].active])
  <2> DEFINE g == [w \in U |-> WalletBoard(0, clock)[w].active]
  <2>1. \A w \in U : {s \in RowsOfUser(w) : book[s].opened >= 0} = RowsOfUser(w)
    BY <1>4 DEF RowsOfUser
  <2>2. \A w \in U : g[w] = Cardinality(RowsOfUser(w) \intersect ActiveAt(clock))
    BY <2>1 DEF WalletBoard, SummaryOf
  <2>3. DOMAIN g = U
    OBVIOUS
  <2> HIDE DEF g, U
  <2>4. Total(g) = Cardinality(ActiveAt(clock))
    BY <1>1, <1>2, <1>3, <2>2, <2>3, TotalByUser
  <2> QED
    BY <2>4 DEF g
<1>6. Cardinality(DisputeList) = Total([w \in U |-> WalletBoard(0, clock)[w].disputed])
  <2> DEFINE g == [w \in U |-> WalletBoard(0, clock)[w].disputed]
  <2>1. \A w \in U : Disputed({s \in RowsOfUser(w) : book[s].opened >= 0}) = RowsOfUser(w) \intersect Disputed(Rows)
    BY <1>4 DEF RowsOfUser, Disputed
  <2>2. \A w \in U : g[w] = Cardinality(RowsOfUser(w) \intersect Disputed(Rows))
    BY <2>1 DEF WalletBoard, SummaryOf
  <2>3. DOMAIN g = U
    OBVIOUS
  <2> HIDE DEF g, U
  <2>4. Total(g) = Cardinality(Disputed(Rows))
    BY <1>1, <1>2, <1>3, <2>2, <2>3, TotalByUser
  <2> QED
    BY <2>4 DEF g, DisputeList
<1>7. ASSUME NEW t \in Nat
      PROVE  Cardinality(Since(t)) = Total([w \in U |-> WalletBoard(t + 1, clock)[w].total])
  <2> DEFINE g == [w \in U |-> WalletBoard(t + 1, clock)[w].total]
  <2>1. \A w \in U : {s \in RowsOfUser(w) : book[s].opened >= t + 1} = RowsOfUser(w) \intersect Since(t)
    BY <1>4 DEF RowsOfUser
  <2>2. \A w \in U : g[w] = Cardinality(RowsOfUser(w) \intersect Since(t))
    BY <2>1 DEF WalletBoard, SummaryOf
  <2>3. DOMAIN g = U /\ Since(t) \in SUBSET Rows
    OBVIOUS
  <2> HIDE DEF g, U, Since
  <2>4. Total(g) = Cardinality(Since(t))
    BY <1>1, <1>2, <2>2, <2>3, TotalByUser
  <2> QED
    BY <2>4 DEF g
\* The rows with a name are those of the named providers, and of the named models.
<1>8. ASSUME NEW t \in Nat
      PROVE  Total([p \in P |-> ProviderBoard(t + 1, clock)[p].total]) = Total([m \in M \ {Void} |-> ModelCounts(t)[m]])
  <2> DEFINE named == {s \in Since(t) : book[s].provider # Void}
             g == [p \in P |-> ProviderBoard(t + 1, clock)[p].total]
             h == [m \in M \ {Void} |-> ModelCounts(t)[m]]
  <2>1. \A p \in P : {s \in RowsOfProvider(p) : book[s].opened >= t + 1} = RowsOfProvider(p) \intersect named
    BY <1>4 DEF RowsOfProvider
  <2>2. \A p \in P : g[p] = Cardinality(RowsOfProvider(p) \intersect named)
    BY <2>1 DEF ProviderBoard, SummaryOf
  <2>3. \A m \in M \ {Void} : {s \in RowsOfModels({m}) : book[s].opened > t} = RowsOfModels({m}) \intersect named
    BY <1>4 DEF RowsOfModels
  <2>4. \A m \in M \ {Void} : h[m] = Cardinality(RowsOfModels({m}) \intersect named)
    BY <2>3 DEF ModelCounts
  <2>5. named \in SUBSET Rows /\ \A s \in named : book[s].provider \in P /\ book[s].model \in M \ {Void}
    BY <1>2, <1>4
  <2>6. DOMAIN g = P /\ DOMAIN h = M \ {Void}
    OBVIOUS
  <2> HIDE DEF g, h, P, M, named
  <2>7. Total(g) = Cardinality(named)
    BY <1>1, <2>2, <2>5, <2>6, TotalByProvider
  <2>8. Total(h) = Cardinality(named)
    BY <1>1, <2>4, <2>5, <2>6, TotalByModel
  <2> QED
    BY <2>7, <2>8 DEF g, h
<1>9. ASSUME NEW t \in Nat
      PROVE  Total([m \in M |-> FrontDemand(t)[m].recent]) = Total([day \in Days |-> DayCounts(t)[day]])
  <2> DEFINE g == [m \in M |-> FrontDemand(t)[m].recent]
             h == [day \in Days |-> DayCounts(t)[day]]
  <2>1. \A m \in M : {s \in RowsOfModels({m}) : book[s].opened > t} = RowsOfModels({m}) \intersect Since(t)
    BY DEF RowsOfModels
  <2>2. \A m \in M : g[m] = Cardinality(RowsOfModels({m}) \intersect Since(t))
    BY <2>1 DEF FrontDemand
  <2>3. \A day \in Days : {s \in Rows : book[s].opened = day /\ day > t} = GroupedBy(Since(t), DayColumn, day)
    BY <1>3 DEF GroupedBy, DayColumn
  <2>4. \A day \in Days : h[day] = Cardinality(GroupedBy(Since(t), DayColumn, day))
    BY <2>3 DEF DayCounts
  <2>5. Since(t) \in SUBSET Rows /\ \A s \in Since(t) : book[s].model \in M /\ DayColumn[s] \in Days
    BY <1>2, <1>3 DEF DayColumn
  <2>6. DOMAIN g = M /\ DOMAIN h = Days /\ IsFiniteSet(Since(t))
    BY <2>5, RowsAreFinite
  <2> HIDE DEF g, h, M, Days, Since
  <2>7. Total(g) = Cardinality(Since(t))
    BY <1>1, <2>2, <2>5, <2>6, TotalByModel
  <2>8. Total(h) = Cardinality(Since(t))
    BY <1>1, <2>4, <2>5, <2>6, TotalOfGroups
  <2> QED
    BY <2>7, <2>8 DEF g, h
<1>10. Total([m \in M \ {Void} |-> ModelStats(clock)[m].success])
         = Total([b \in Bids |-> BidCounts(RowsOfModels(Listings), b).success])
  <2> DEFINE done == Succeeded(RowsOfModels(Listings))
             g == [m \in M \ {Void} |-> ModelStats(clock)[m].success]
             h == [b \in Bids |-> BidCounts(RowsOfModels(Listings), b).success]
  <2>1. \A m \in M \ {Void} : Succeeded(RowsOfModels({m})) = RowsOfModels({m}) \intersect done
    BY <1>4 DEF RowsOfModels, Succeeded
  <2>2. \A m \in M \ {Void} : g[m] = Cardinality(RowsOfModels({m}) \intersect done)
    BY <2>1 DEF ModelStats, SummaryOf
  <2>3. \A b \in Bids : Succeeded(RowsOfModels(Listings) \intersect RowsOfBid(b)) = RowsOfBid(b) \intersect done
    BY DEF Succeeded
  <2>4. \A b \in Bids : h[b] = Cardinality(RowsOfBid(b) \intersect done)
    BY <2>3 DEF BidCounts
  <2>5. done \in SUBSET Rows /\ \A s \in done : book[s].model \in M \ {Void}
    BY <1>2, BookAssumption DEF Succeeded, RowsOfModels
  <2>6. DOMAIN g = M \ {Void} /\ DOMAIN h = Bids
    OBVIOUS
  <2> HIDE DEF g, h, M, done
  <2>7. Total(g) = Cardinality(done)
    BY <1>1, <2>2, <2>5, <2>6, TotalByModel
  <2>8. Total(h) = Cardinality(done)
    BY <2>4, <2>5, <2>6, TotalByBid
  <2> QED
    BY <2>7, <2>8 DEF g, h
<1>11. \A t \in {0, clock - 1} : t \in Nat
  BY <1>3
<1> QED
  BY <1>5, <1>6, <1>7, <1>8, <1>9, <1>10, <1>11 DEF BoardsAgree

LEMMA FrontFollows == BookInv /\ RowsAreWhole => FrontAgrees
<1> SUFFICES ASSUME BookInv, RowsAreWhole PROVE FrontAgrees
  OBVIOUS
<1> DEFINE U == Users(Rows)
           P == Providers(Rows)
           M == Models(Rows)
<1>1. IsFiniteSet(U) /\ IsFiniteSet(P) /\ IsFiniteSet(M)
  BY ColumnsAreFinite
<1>2. \A s \in Rows : book[s].user \in U /\ book[s].provider \in P /\ book[s].model \in M
  BY DEF Users, Providers, Models
<1>3. Flagged \in SUBSET Rows
  BY DEF Flagged
<1>4. Total([p \in P |-> FrontProviders[p].active]) = Cardinality(Flagged)
  <2> DEFINE g == [p \in P |-> FrontProviders[p].active]
  <2>1. DOMAIN g = P /\ \A p \in P : g[p] = Cardinality(RowsOfProvider(p) \intersect Flagged)
    BY DEF FrontProviders
  <2>2. \A s \in Flagged : book[s].provider \in P
    BY <1>2, <1>3
  <2> HIDE DEF g, P
  <2>3. Total(g) = Cardinality(Flagged)
    BY <1>1, <1>3, <2>1, <2>2, TotalByProvider
  <2> QED
    BY <2>3 DEF g
<1>5. Total([m \in M |-> FrontDemand(0)[m].active]) = Cardinality(Flagged)
  <2> DEFINE g == [m \in M |-> FrontDemand(0)[m].active]
  <2>1. DOMAIN g = M /\ \A m \in M : g[m] = Cardinality(RowsOfModels({m}) \intersect Flagged)
    BY DEF FrontDemand
  <2>2. \A s \in Flagged : book[s].model \in M
    BY <1>2, <1>3
  <2> HIDE DEF g, M
  <2>3. Total(g) = Cardinality(Flagged)
    BY <1>1, <1>3, <2>1, <2>2, TotalByModel
  <2> QED
    BY <2>3 DEF g
<1>6. Total([b \in Bids |-> BidCounts(Rows, b).active]) = Cardinality(Flagged)
  <2> DEFINE g == [b \in Bids |-> BidCounts(Rows, b).active]
  <2>1. \A b \in Bids : (Rows \intersect RowsOfBid(b)) \intersect Flagged = RowsOfBid(b) \intersect Flagged
    BY DEF RowsOfBid
  <2>2. DOMAIN g = Bids /\ \A b \in Bids : g[b] = Cardinality(RowsOfBid(b) \intersect Flagged)
    BY <2>1 DEF BidCounts
  <2> HIDE DEF g
  <2>3. Total(g) = Cardinality(Flagged)
    BY <1>3, <2>2, TotalByBid
  <2> QED
    BY <2>3 DEF g
<1>7. ASSUME NEW lively \in SUBSET Sellers
      PROVE  /\ StakeSum(Flagged) = EscrowSplit(lively).serving + EscrowSplit(lively).zombie
             /\ Cardinality(Flagged) = Total([w \in U |-> FrontWallets(lively)[w].serving + FrontWallets(lively)[w].zombie])
  <2> DEFINE g == [w \in U |-> FrontWallets(lively)[w].serving + FrontWallets(lively)[w].zombie]
  <2>1. /\ Serving(lively) \in SUBSET Rows /\ Zombie(lively) \in SUBSET Rows
        /\ Serving(lively) \intersect Zombie(lively) = {} /\ Serving(lively) \union Zombie(lively) = Flagged
    BY <1>3 DEF Serving, Zombie
  <2>2. StakeSum(Flagged) = EscrowSplit(lively).serving + EscrowSplit(lively).zombie
    BY <2>1, SplitAddsUp DEF EscrowSplit
  <2>3. ASSUME NEW w \in U
        PROVE  g[w] = Cardinality(RowsOfUser(w) \intersect Flagged)
    <3> DEFINE on == RowsOfUser(w) \intersect Serving(lively)
               off == RowsOfUser(w) \intersect Zombie(lively)
    <3>1. on \in SUBSET Rows /\ off \in SUBSET Rows /\ on \intersect off = {} /\ on \union off = RowsOfUser(w) \intersect Flagged
      BY <2>1
    <3>2. g[w] = Cardinality(on) + Cardinality(off)
      BY DEF FrontWallets
    <3> HIDE DEF on, off, g
    <3> QED
      BY <3>1, <3>2, SplitAddsUp
  <2>4. DOMAIN g = U /\ \A s \in Flagged : book[s].user \in U
    BY <1>2, <1>3
  <2> HIDE DEF g, U
  <2>5. Total(g) = Cardinality(Flagged)
    BY <1>1, <1>3, <2>3, <2>4, TotalByUser
  <2> QED
    BY <2>2, <2>5 DEF g
<1> QED
  BY <1>4, <1>5, <1>6, <1>7 DEF FrontAgrees

(***************************************************************************)
(* What readers are told of sessions fits together, and rows and accounts  *)
(* are true of the chain where they claim to be: for any sessions, bids    *)
(* and wallets, in every state the indexer and the repairs may leave.      *)
(***************************************************************************)
THEOREM BookStaysTrue == ReadersSpec => []BookIsTrue
<1>1. ReadersInit => BookInv /\ RowsAreWhole
  BY BookStarts DEF ReadersInit, BookInit, RowsAreWhole, Rows
<1>2. BookInv /\ RowsAreWhole /\ [ReadersNext]_readerVars => BookInv' /\ RowsAreWhole'
  BY BookStep, WholeStep, ReadersStepBook
<1>3. BookInv /\ RowsAreWhole => AnswersAgree
  BY StatesFollow, TotalsFollow, BoardsFollow, FrontFollows DEF AnswersAgree
<1> QED
  BY <1>1, <1>2, <1>3, RowsAndAccountsAreTrue, PTL DEF ReadersSpec, BookIsTrue
-----------------------------------------------------------------------------
(***************************************************************************)
(* The balances of the holders.  What an answer under way will be shown as *)
(* was the wallet's balance at some moment not before the stamp it will be *)
(* written with, or the zero of an answer that was empty at such a moment; *)
(* and what a sweep has yet to do are wallets that have rows, which are    *)
(* never deleted.                                                          *)
(***************************************************************************)
HoldersNumbers ==
  /\ Purses \subseteq Nat /\ Distributions \subseteq [Purses -> Nat]
  /\ MaxInstant \in Nat \ {0} /\ MaxMisses \in Nat
  /\ NoHolder \notin [wei : Nat, stamp : Nat] /\ NoHolder \notin Nat /\ NoData \notin Nat

LEMMA HoldersNumbersHold == HoldersNumbers
  BY HoldersAssumption DEF HoldersNumbers

WasHeld(w, wei, since) ==
  \E t \in since .. Instant : t >= 1 /\ (ledger[t][w] = wei \/ (wei = 0 /\ <<w, t>> \in blanks))

\* What an answer is shown as.
ShownAs(wei) == IF wei = NoData THEN 0 ELSE wei

HolderTypes ==
  /\ ledger \in Seq(Distributions) /\ Instant \in 1 .. MaxInstant
  /\ holderRow \in [Purses -> [wei : Nat, stamp : 0 .. MaxInstant] \union {NoHolder}]
  /\ misses \in 0 .. MaxMisses
  /\ DOMAIN sweep = Sweepers
  /\ blanks \subseteq Purses \X (1 .. MaxInstant)

SweepsKnowBalances ==
  \A c \in Sweepers :
    /\ sweep[c] \in [todo : SUBSET [wallet : Purses, stamp : Nat], stamp : 0 .. Instant,
                     round : SUBSET Purses, read : SUBSET [wallet : Purses, wei : Nat \union {NoData}]]
    /\ sweep[c].round \subseteq WalletsOf(sweep[c].todo)
    /\ WalletsOf(sweep[c].todo) \subseteq HolderRows
    /\ \A a \in sweep[c].read : a.wallet \in sweep[c].round /\ WasHeld(a.wallet, ShownAs(a.wei), sweep[c].stamp)

RowsKnowBalances ==
  \A w \in Computed : WasHeld(w, holderRow[w].wei, holderRow[w].stamp)

HoldersInv == HolderTypes /\ SweepsKnowBalances /\ RowsKnowBalances

\* What was held is not forgotten.
LEMMA HeldIsHistory ==
  ASSUME ledger \in Seq(Distributions), ledger' \in Seq(Distributions),
         blanks \subseteq blanks', Len(ledger) <= Len(ledger)', \A t \in 1 .. Len(ledger) : ledger'[t] = ledger[t],
         NEW w, NEW wei, NEW since \in Nat, WasHeld(w, wei, since)
  PROVE  WasHeld(w, wei, since)'
<1>1. PICK t \in since .. Len(ledger) : t >= 1 /\ (ledger[t][w] = wei \/ (wei = 0 /\ <<w, t>> \in blanks))
  BY DEF WasHeld, Instant
<1>2. t \in 1 .. Len(ledger) /\ t \in since .. Len(ledger)'
  BY <1>1
<1> QED
  BY <1>1, <1>2 DEF WasHeld, Instant

LEMMA SliceOfList ==
  ASSUME NEW n, NEW list
  PROVE  FirstOf(n, list, Stalest) \subseteq list
  BY DEF FirstOf

LEMMA PickedList ==
  ASSUME NEW list
  PROVE  [Idle EXCEPT !.todo = list, !.stamp = Instant] = [todo |-> list, stamp |-> Instant, round |-> {}, read |-> {}]
<1>1. [Idle EXCEPT !.todo = list] = [todo |-> list, stamp |-> 0, round |-> {}, read |-> {}]
  BY DEF Idle
<1>2. [Idle EXCEPT !.todo = list, !.stamp = Instant] = [[Idle EXCEPT !.todo = list] EXCEPT !.stamp = Instant]
  BY Zenon DEF Idle
<1>3. ASSUME NEW at
      PROVE  [[todo |-> list, stamp |-> 0, round |-> {}, read |-> {}] EXCEPT !.stamp = at]
               = [todo |-> list, stamp |-> at, round |-> {}, read |-> {}]
  OBVIOUS
<1> QED
  BY <1>1, <1>2, <1>3, Zenon

LEMMA HoldersStart == HoldersInit => HoldersInv
<1> SUFFICES ASSUME HoldersInit PROVE HoldersInv
  OBVIOUS
<1> USE HoldersNumbersHold DEF HoldersNumbers
<1>1. PICK held \in Distributions : ledger = <<held>>
  BY DEF HoldersInit
<1>2. ledger \in Seq(Distributions) /\ Len(ledger) = 1
  BY <1>1
<1>3. HolderTypes
  BY <1>2 DEF HoldersInit, HolderTypes, Instant
<1>4. SweepsKnowBalances
  BY <1>2 DEF HoldersInit, SweepsKnowBalances, Idle, WalletsOf, Instant
<1>5. RowsKnowBalances
  BY DEF HoldersInit, RowsKnowBalances, Computed, HolderRows
<1> QED
  BY <1>3, <1>4, <1>5 DEF HoldersInv

LEMMA HoldersStep == HoldersInv /\ [HoldersNext]_holderVars => HoldersInv'
<1> SUFFICES ASSUME HoldersInv, [HoldersNext]_holderVars
             PROVE  HoldersInv'
  OBVIOUS
<1> USE HoldersNumbersHold DEF HoldersNumbers
<1>1. CASE Transfers
  <2>1. PICK held \in Distributions : ledger' = Append(ledger, held)
    BY <1>1 DEF Transfers
  <2>2. ledger \in Seq(Distributions) /\ Len(ledger) < MaxInstant
    BY <1>1 DEF Transfers, HoldersInv, HolderTypes, Instant
  <2>3. /\ ledger' \in Seq(Distributions) /\ Len(ledger)' = Len(ledger) + 1
        /\ \A t \in 1 .. Len(ledger) : ledger'[t] = ledger[t]
    BY <2>1, <2>2
  <2>4. HolderTypes'
    BY <1>1, <2>2, <2>3 DEF Transfers, HoldersInv, HolderTypes, Instant
  <2>5. ASSUME NEW w, NEW wei, NEW since \in Nat, WasHeld(w, wei, since)
        PROVE  WasHeld(w, wei, since)'
    <3>1. blanks \subseteq blanks'
      BY <1>1 DEF Transfers
    <3> QED
      BY <2>2, <2>3, <2>5, <3>1, HeldIsHistory
  <2>6. SweepsKnowBalances'
    <3>1. ASSUME NEW c \in Sweepers, NEW a \in sweep[c].read
          PROVE  a.wallet \in sweep[c].round /\ WasHeld(a.wallet, ShownAs(a.wei), sweep[c].stamp)'
      <4>1. WasHeld(a.wallet, ShownAs(a.wei), sweep[c].stamp) /\ sweep[c].stamp \in Nat /\ a.wallet \in sweep[c].round
        BY DEF HoldersInv, SweepsKnowBalances
      <4> QED
        BY <1>1, <4>1, <2>5 DEF Transfers
    <3> QED
      BY <1>1, <3>1 DEF Transfers, HoldersInv, SweepsKnowBalances, HolderRows, WasHeld, Instant
  <2>7. RowsKnowBalances'
    <3>1. ASSUME NEW w \in Computed
          PROVE  WasHeld(w, holderRow[w].wei, holderRow[w].stamp)'
      <4>1. WasHeld(w, holderRow[w].wei, holderRow[w].stamp) /\ holderRow[w].stamp \in Nat
        BY DEF HoldersInv, HolderTypes, RowsKnowBalances, Computed, HolderRows
      <4> QED
        BY <1>1, <4>1, <2>5 DEF Transfers
    <3> QED
      BY <1>1, <3>1 DEF Transfers, RowsKnowBalances, Computed, HolderRows, WasHeld, Instant
  <2> QED
    BY <2>4, <2>6, <2>7 DEF HoldersInv
<1>2. ASSUME NEW block \in 1 .. Instant, NEW lands \in BOOLEAN, processMorTransfers(block, lands)
      PROVE  HoldersInv'
  <2>1. misses' \in 0 .. MaxMisses
    BY <1>2 DEF processMorTransfers, MayFail, Fails, HoldersInv, HolderTypes
  <2>2. /\ holderRow' \in [Purses -> [wei : Nat, stamp : 0 .. MaxInstant] \union {NoHolder}]
        /\ \A w \in Purses : \/ holderRow'[w] = holderRow[w]
                             \/ holderRow[w] = NoHolder /\ holderRow'[w] = [wei |-> 0, stamp |-> 0]
    BY <1>2 DEF processMorTransfers, Discovered, HoldersInv, HolderTypes
  <2>3. HolderRows \subseteq HolderRows'
    BY <2>2 DEF HolderRows
  <2>r. ASSUME NEW w \in Computed'
        PROVE  w \in Computed /\ holderRow'[w] = holderRow[w]
    <3>1. w \in Purses /\ holderRow'[w] # NoHolder /\ holderRow'[w].stamp > 0
      BY DEF Computed, HolderRows
    <3>2. holderRow'[w] # [wei |-> 0, stamp |-> 0]
      BY <3>1
    <3>3. holderRow'[w] = holderRow[w]
      BY <2>2, <3>1, <3>2
    <3> QED
      BY <3>1, <3>3 DEF Computed, HolderRows
  <2>4. HolderTypes'
    BY <1>2, <2>1, <2>2 DEF processMorTransfers, HoldersInv, HolderTypes, Instant
  <2>5. SweepsKnowBalances'
    BY <1>2, <2>3 DEF processMorTransfers, HoldersInv, SweepsKnowBalances, WasHeld, Instant
  <2>6. RowsKnowBalances'
    BY <1>2, <2>r DEF processMorTransfers, HoldersInv, RowsKnowBalances, WasHeld, Instant
  <2> QED
    BY <2>4, <2>5, <2>6 DEF HoldersInv
<1>3. ASSUME NEW c \in Sweepers, PickStalest(c)
      PROVE  HoldersInv'
  <2> DEFINE met == FirstOf(PER_CALL, {Met(w) : w \in HolderRows}, Stalest)
             one == [todo |-> met, stamp |-> Instant, round |-> {}, read |-> {}]
  <2>1. /\ sweep' = [sweep EXCEPT ![c] = one]
        /\ UNCHANGED <<ledger, holderRow, misses, blanks>>
    BY <1>3, PickedList, Zenon DEF PickStalest
  <2>2. met \subseteq {Met(w) : w \in HolderRows}
    BY SliceOfList
  <2>3. met \subseteq [wallet : Purses, stamp : Nat] /\ WalletsOf(met) \subseteq HolderRows
    <3>1. ASSUME NEW m \in met
          PROVE  m \in [wallet : Purses, stamp : Nat] /\ m.wallet \in HolderRows
      <4>1. PICK w \in HolderRows : m = Met(w)
        BY <2>2
      <4>2. w \in Purses /\ holderRow[w].stamp \in Nat
        BY DEF HolderRows, HoldersInv, HolderTypes
      <4> QED
        BY <4>1, <4>2 DEF Met
    <3> HIDE DEF met
    <3> QED
      BY <3>1 DEF WalletsOf
  <2>4. HolderTypes' /\ RowsKnowBalances'
    BY <2>1 DEF HoldersInv, HolderTypes, RowsKnowBalances, Computed, HolderRows, WasHeld, Instant
  <2>5. one \in [todo : SUBSET [wallet : Purses, stamp : Nat], stamp : 0 .. Instant,
                  round : SUBSET Purses, read : SUBSET [wallet : Purses, wei : Nat \union {NoData}]]
    BY <2>3 DEF HoldersInv, HolderTypes
  <2> HIDE DEF met
  <2>6. SweepsKnowBalances'
    BY <2>1, <2>3, <2>5 DEF HoldersInv, HolderTypes, SweepsKnowBalances, HolderRows, WasHeld, Instant, WalletsOf
  <2> QED
    BY <2>4, <2>6 DEF HoldersInv
<1>4. ASSUME NEW c \in Sweepers, NEW replied \in SUBSET WalletsOf(RoundOf(sweep[c].todo)),
             NEW empty \in SUBSET replied, ReadRound(c, replied, empty)
      PROVE  HoldersInv'
  <2> DEFINE round == WalletsOf(RoundOf(sweep[c].todo))
             read  == {[wallet |-> w, wei |-> IF w \in empty THEN NoData ELSE ledger[Instant][w]] : w \in replied}
  <2>1. /\ sweep' = [sweep EXCEPT ![c].round = round, ![c].read = read]
        /\ sweep[c].todo # {} /\ UNCHANGED <<ledger, holderRow>> /\ misses' \in 0 .. MaxMisses
        /\ blanks' = blanks \union {<<w, Instant>> : w \in empty}
    BY <1>4 DEF ReadRound, MayFail, Fails, HoldersInv, HolderTypes
  <2>2. round \subseteq WalletsOf(sweep[c].todo) /\ replied \subseteq round
    BY SliceOfList DEF RoundOf, WalletsOf
  <2>3. round \subseteq Purses
    BY <2>2 DEF WalletsOf, HoldersInv, SweepsKnowBalances
  <2>4. Instant \in 1 .. MaxInstant /\ sweep[c].stamp \in 0 .. Instant /\ ledger[Instant] \in [Purses -> Nat]
    BY DEF HoldersInv, HolderTypes, SweepsKnowBalances, Instant
  <2>5. read \subseteq [wallet : Purses, wei : Nat \union {NoData}]
    <3>1. ASSUME NEW w \in replied
          PROVE  [wallet |-> w, wei |-> IF w \in empty THEN NoData ELSE ledger[Instant][w]]
                   \in [wallet : Purses, wei : Nat \union {NoData}]
      BY <2>2, <2>3, <2>4
    <3> QED
      BY <3>1
  <2>b. blanks \subseteq blanks' /\ blanks' \subseteq Purses \X (1 .. MaxInstant)
    <3>1. blanks \subseteq Purses \X (1 .. MaxInstant)
      BY DEF HoldersInv, HolderTypes
    <3>2. \A w \in empty : <<w, Instant>> \in Purses \X (1 .. MaxInstant)
      BY <2>2, <2>3, <2>4
    <3> QED
      BY <2>1, <3>1, <3>2
  <2>t. PICK mark : mark = sweep[c].stamp
    OBVIOUS
  <2>6. ASSUME NEW a \in read
        PROVE  a.wallet \in round /\ WasHeld(a.wallet, ShownAs(a.wei), mark)'
    <3>1. PICK w \in replied : a = [wallet |-> w, wei |-> IF w \in empty THEN NoData ELSE ledger[Instant][w]]
      OBVIOUS
    <3>2. w \in Purses /\ Instant >= 1 /\ Instant \in mark .. Instant /\ Instant' = Instant /\ ledger' = ledger
      <4>1. w \in Purses /\ Instant' = Instant /\ ledger' = ledger
        BY <2>1, <2>2, <2>3 DEF Instant
      <4>2. Instant >= 1 /\ Instant \in mark .. Instant
        BY <2>4, <2>t
      <4> QED
        BY <4>1, <4>2
    <3>n. ledger[Instant][w] \in Nat
      BY <3>2, <2>4
    <3>3. CASE w \in empty
      <4>1. <<w, Instant>> \in blanks' /\ ShownAs(a.wei) = 0 /\ a.wallet = w
        BY <2>1, <3>1, <3>3 DEF ShownAs
      <4> QED
        BY <2>2, <3>2, <4>1 DEF WasHeld
    <3>4. CASE w \notin empty
      <4>1. ShownAs(a.wei) = ledger[Instant][w] /\ a.wallet = w
        BY <3>1, <3>n, <3>4 DEF ShownAs
      <4> QED
        BY <2>2, <3>2, <4>1 DEF WasHeld
    <3> QED
      BY <3>3, <3>4
  <2> HIDE DEF round, read
  <2>w. ASSUME NEW w, NEW wei, NEW since, WasHeld(w, wei, since)
        PROVE  WasHeld(w, wei, since)'
    BY <2>1, <2>b, <2>w DEF WasHeld, Instant
  <2>7. HolderTypes' /\ RowsKnowBalances'
    <3>1. HolderTypes'
      BY <2>1, <2>b DEF HoldersInv, HolderTypes, Instant
    <3>2. Computed' = Computed
      BY <2>1 DEF Computed, HolderRows
    <3> QED
      BY <2>1, <2>w, <3>1, <3>2 DEF HoldersInv, RowsKnowBalances
  <2>8. SweepsKnowBalances'
    <3>1. /\ sweep'[c] = [sweep[c] EXCEPT !.round = round, !.read = read]
          /\ \A d \in Sweepers : d # c => sweep'[d] = sweep[d]
      BY <2>1 DEF HoldersInv, HolderTypes
    <3>2. sweep[c] \in [todo : SUBSET [wallet : Purses, stamp : Nat], stamp : 0 .. Instant,
                        round : SUBSET Purses, read : SUBSET [wallet : Purses, wei : Nat \union {NoData}]]
          /\ WalletsOf(sweep[c].todo) \subseteq HolderRows
      BY DEF HoldersInv, SweepsKnowBalances
    <3>3. /\ sweep'[c] \in [todo : SUBSET [wallet : Purses, stamp : Nat], stamp : 0 .. Instant,
                           round : SUBSET Purses, read : SUBSET [wallet : Purses, wei : Nat \union {NoData}]]
          /\ sweep'[c].todo = sweep[c].todo /\ sweep'[c].stamp = sweep[c].stamp
          /\ sweep'[c].round = round /\ sweep'[c].read = read
      <4>1. sweep'[c] = [todo |-> sweep[c].todo, stamp |-> sweep[c].stamp, round |-> round, read |-> read]
        BY <3>1, <3>2
      <4>2. sweep[c].todo \in SUBSET [wallet : Purses, stamp : Nat] /\ sweep[c].stamp \in 0 .. Instant
        BY <3>2
      <4> QED
        BY <2>3, <2>5, <4>1, <4>2
    <3>4. HolderRows' = HolderRows /\ Instant' = Instant
      BY <2>1 DEF HolderRows, Instant
    <3>5. ASSUME NEW d \in Sweepers, NEW a \in sweep'[d].read
          PROVE  a.wallet \in sweep'[d].round /\ WasHeld(a.wallet, ShownAs(a.wei), sweep[d].stamp)'
      <4>1. CASE d = c
        <5>1. sweep'[d].stamp = mark /\ sweep'[d].round = round /\ a \in read
          BY <2>t, <3>3, <4>1
        <5>2. a.wallet \in round /\ WasHeld(a.wallet, ShownAs(a.wei), mark)'
          BY <2>6, <5>1
        <5> QED
          BY <5>1, <5>2 DEF WasHeld
      <4>2. CASE d # c
        <5>1. PICK s : s = sweep[d].stamp
          OBVIOUS
        <5>2. sweep'[d] = sweep[d] /\ a.wallet \in sweep[d].round /\ WasHeld(a.wallet, ShownAs(a.wei), s)
          BY <3>1, <4>2, <5>1 DEF HoldersInv, SweepsKnowBalances
        <5>3. WasHeld(a.wallet, ShownAs(a.wei), s)'
          BY <2>w, <5>2
        <5> QED
          BY <5>1, <5>2, <5>3 DEF WasHeld
      <4> QED
        BY <4>1, <4>2
    <3>6. ASSUME NEW d \in Sweepers
          PROVE  /\ sweep'[d] \in [todo : SUBSET [wallet : Purses, stamp : Nat], stamp : 0 .. Instant,
                                  round : SUBSET Purses, read : SUBSET [wallet : Purses, wei : Nat \union {NoData}]]
                 /\ sweep'[d].round \subseteq WalletsOf(sweep'[d].todo)
                 /\ WalletsOf(sweep'[d].todo) \subseteq HolderRows
      BY <2>2, <3>1, <3>2, <3>3 DEF HoldersInv, SweepsKnowBalances
    <3> HIDE DEF HoldersInv
    <3> QED
      BY <3>4, <3>5, <3>6 DEF SweepsKnowBalances, WalletsOf
  <2> QED
    BY <2>7, <2>8 DEF HoldersInv
<1>5. ASSUME NEW c \in Sweepers, NEW lands \in BOOLEAN, WriteRound(c, lands)
      PROVE  HoldersInv'
  <2> DEFINE ahead  == AfterRound(sweep[c].todo)
             wrote == {w \in Purses : lands /\ Written(c, w) # NoHolder}
             one   == IF ahead = {} THEN Idle ELSE [sweep[c] EXCEPT !.todo = ahead, !.round = {}, !.read = {}]
  <2>m. misses' \in 0 .. MaxMisses
    <3>1. MayFail(lands) /\ Fails(lands)
      BY <1>5 DEF WriteRound
    <3> QED
      BY <3>1 DEF MayFail, Fails, HoldersInv, HolderTypes
  <2>s. sweep' = [sweep EXCEPT ![c] = one] /\ UNCHANGED <<ledger, blanks>>
    BY <1>5 DEF WriteRound
  <2>1. sweep' = [sweep EXCEPT ![c] = one] /\ UNCHANGED <<ledger, blanks>> /\ misses' \in 0 .. MaxMisses
    BY <2>m, <2>s
  <2>2. holderRow' = [w \in Purses |->
          IF w \in wrote THEN [holderRow[w] EXCEPT !.wei = Written(c, w), !.stamp = sweep[c].stamp] ELSE holderRow[w]]
    BY <1>5 DEF WriteRound
  <2>3. ASSUME NEW w \in wrote
        PROVE  w \in HolderRows /\ Written(c, w) \in Nat /\ WasHeld(w, Written(c, w), sweep[c].stamp)
    <3>1. Told(c, w) # {} /\ w \in Purses
      BY DEF Written
    <3>2. PICK a \in sweep[c].read : a.wallet = w /\ Written(c, w) = ShownAs(a.wei)
      <4>1. CASE NoData \in Told(c, w)
        BY <3>1, <4>1 DEF Written, Told, ShownAs
      <4>2. CASE NoData \notin Told(c, w)
        <5>1. Written(c, w) \in Told(c, w)
          BY <3>1, <4>2 DEF Written
        <5> QED
          BY <4>2, <5>1 DEF Told, ShownAs
      <4> QED
        BY <4>1, <4>2
    <3>3. /\ a \in [wallet : Purses, wei : Nat \union {NoData}] /\ WasHeld(a.wallet, ShownAs(a.wei), sweep[c].stamp)
          /\ a.wallet \in HolderRows
      BY DEF HoldersInv, SweepsKnowBalances
    <3>4. ShownAs(a.wei) \in Nat
      BY <3>3 DEF ShownAs
    <3> QED
      BY <3>2, <3>3, <3>4
  <2>4. sweep[c].stamp \in 0 .. Instant /\ Instant \in 1 .. MaxInstant
    BY DEF HoldersInv, HolderTypes, SweepsKnowBalances
  <2> HIDE DEF wrote
  <2>5. ASSUME NEW w \in Purses
        PROVE  /\ holderRow'[w] \in [wei : Nat, stamp : 0 .. MaxInstant] \union {NoHolder}
               /\ w \in HolderRows <=> holderRow'[w] # NoHolder
               /\ holderRow'[w] # NoHolder /\ holderRow'[w].stamp > 0 => WasHeld(w, holderRow'[w].wei, holderRow'[w].stamp)
    <3>1. CASE w \in wrote
      <4>1. holderRow[w] \in [wei : Nat, stamp : 0 .. MaxInstant] /\ holderRow[w] # NoHolder
        BY <2>3, <3>1 DEF HolderRows, HoldersInv, HolderTypes
      <4>2. holderRow'[w] = [wei |-> Written(c, w), stamp |-> sweep[c].stamp]
        BY <2>2, <3>1, <4>1
      <4>3. holderRow'[w] \in [wei : Nat, stamp : Nat]
        BY <2>3, <2>4, <3>1, <4>2
      <4> QED
        BY <2>3, <2>4, <3>1, <4>1, <4>2, <4>3 DEF HolderRows
    <3>2. CASE w \notin wrote
      BY <2>2, <3>2 DEF HolderRows, Computed, HoldersInv, HolderTypes, RowsKnowBalances
    <3> QED
      BY <3>1, <3>2
  <2>6. HolderTypes'
    BY <2>1, <2>2, <2>5 DEF HoldersInv, HolderTypes, Instant
  <2>7. HolderRows' = HolderRows
    BY <2>5 DEF HolderRows
  <2>8. RowsKnowBalances'
    BY <2>1, <2>5 DEF RowsKnowBalances, Computed, HolderRows, WasHeld, Instant
  <2>9. ahead \subseteq sweep[c].todo
    BY DEF AfterRound
  <2>10. one \in [todo : SUBSET [wallet : Purses, stamp : Nat], stamp : 0 .. Instant,
                   round : SUBSET Purses, read : SUBSET [wallet : Purses, wei : Nat \union {NoData}]]
         /\ one.round = {} /\ one.read = {} /\ WalletsOf(one.todo) \subseteq HolderRows
    <3>1. sweep[c] \in [todo : SUBSET [wallet : Purses, stamp : Nat], stamp : 0 .. Instant,
                        round : SUBSET Purses, read : SUBSET [wallet : Purses, wei : Nat \union {NoData}]]
          /\ WalletsOf(sweep[c].todo) \subseteq HolderRows
      BY DEF HoldersInv, SweepsKnowBalances
    <3> HIDE DEF ahead
    <3>2. CASE ahead = {}
      BY <2>4, <3>2 DEF Idle, WalletsOf
    <3>3. CASE ahead # {}
      <4>1. one = [todo |-> ahead, stamp |-> sweep[c].stamp, round |-> {}, read |-> {}]
        BY <3>1, <3>3
      <4>2. WalletsOf(ahead) \subseteq WalletsOf(sweep[c].todo)
        BY <2>9 DEF WalletsOf
      <4>3. ahead \in SUBSET [wallet : Purses, stamp : Nat]
        BY <2>9, <3>1
      <4> HIDE DEF one
      <4> QED
        BY <2>4, <3>1, <4>1, <4>2, <4>3
    <3> QED
      BY <3>2, <3>3
  <2> HIDE DEF ahead, one
  <2>11. SweepsKnowBalances'
    BY <2>1, <2>7, <2>10 DEF HoldersInv, HolderTypes, SweepsKnowBalances, WasHeld, Instant
  <2> QED
    BY <2>6, <2>8, <2>11 DEF HoldersInv
<1>6. CASE UNCHANGED holderVars
  <2>1. HolderTypes'
    BY <1>6 DEF holderVars, HoldersInv, HolderTypes, Instant
  <2>2. SweepsKnowBalances'
    BY <1>6 DEF holderVars, HoldersInv, SweepsKnowBalances, HolderRows, WasHeld, Instant
  <2>3. RowsKnowBalances'
    BY <1>6 DEF holderVars, HoldersInv, RowsKnowBalances, Computed, HolderRows, WasHeld, Instant
  <2> QED
    BY <2>1, <2>2, <2>3 DEF HoldersInv
<1> QED
  BY <1>1, <1>2, <1>3, <1>4, <1>5, <1>6 DEF HoldersNext, SweepGoesOn

\* Every step of the readers is a step of the holders, or leaves them.
LEMMA ReadersStepHolders == [ReadersNext]_readerVars => [HoldersNext]_holderVars
  BY DEF ReadersNext, Plays, readerVars

(***************************************************************************)
(* A balance on display was the wallet's at some moment not before its     *)
(* stamp, or is the zero of an answer that was empty at such a moment, for *)
(* any wallets and transfers, however many sweeps overlap, lose answers or *)
(* lose writes.                                                            *)
(***************************************************************************)
THEOREM BalancesStayTrue == ReadersSpec => [](HoldersTypeOK /\ BalancesWereTrue)
<1>1. ReadersInit => HoldersInv
  BY HoldersStart DEF ReadersInit
<1>2. HoldersInv /\ [ReadersNext]_readerVars => HoldersInv'
  BY HoldersStep, ReadersStepHolders
<1>3. HoldersInv => HoldersTypeOK /\ BalancesWereTrue
  BY DEF HoldersInv, HolderTypes, SweepsKnowBalances, RowsKnowBalances, WasHeld, HoldersTypeOK, BalancesWereTrue, WasTrue
<1> QED
  BY <1>1, <1>2, <1>3, PTL DEF ReadersSpec
-----------------------------------------------------------------------------
(***************************************************************************)
(* The pages of the holders (HolderPagesAddUp).  A wallet's rank is the    *)
(* number of wallets the list puts before it: that order is total, so the  *)
(* ranks are the numbers below the length of the list, each taken once,    *)
(* and a page is a stretch of them.                                        *)
(***************************************************************************)
RicherThan(w) == {v \in WithBalance : Richer(v, w)}
HolderRank    == [w \in WithBalance |-> Cardinality(RicherThan(w))]
FirstRanks(k) == {w \in WithBalance : HolderRank[w] < k}

LEMMA ListIsOrdered ==
  ASSUME HolderTypes
  PROVE  /\ IsFiniteSet(WithBalance) /\ Cardinality(WithBalance) \in Nat
         /\ \A w \in WithBalance : holderRow[w].wei \in Nat
         /\ \A w \in WithBalance : ~Richer(w, w)
         /\ \A v, w \in WithBalance : v = w \/ Richer(v, w) \/ Richer(w, v)
         /\ \A u, v, w \in WithBalance : Richer(u, v) /\ Richer(v, w) => Richer(u, w)
<1>1. WithBalance \in SUBSET Purses /\ \A w \in WithBalance : w \in Nat
  BY HoldersAssumption DEF WithBalance, Computed, HolderRows
<1>2. \A w \in WithBalance : holderRow[w].wei \in Nat
  BY DEF WithBalance, Computed, HolderRows, HolderTypes
<1>3. IsFiniteSet(WithBalance) /\ Cardinality(WithBalance) \in Nat
  BY <1>1, HoldersAssumption, FS_Subset, FS_CardinalityType
<1> QED
  BY <1>1, <1>2, <1>3 DEF Richer

LEMMA RanksAreTaken ==
  ASSUME HolderTypes
  PROVE  /\ HolderRank \in [WithBalance -> 0 .. Cardinality(WithBalance) - 1]
         /\ \A v, w \in WithBalance : Richer(v, w) <=> HolderRank[v] < HolderRank[w]
         /\ \A v, w \in WithBalance : HolderRank[v] = HolderRank[w] => v = w
         /\ \A k \in 0 .. Cardinality(WithBalance) - 1 : \E w \in WithBalance : HolderRank[w] = k
<1> DEFINE W == WithBalance
           n == Cardinality(W)
<1>1. /\ IsFiniteSet(W) /\ n \in Nat /\ \A w \in W : ~Richer(w, w)
      /\ \A v, w \in W : v = w \/ Richer(v, w) \/ Richer(w, v)
      /\ \A u, v, w \in W : Richer(u, v) /\ Richer(v, w) => Richer(u, w)
  BY ListIsOrdered
<1>2. ASSUME NEW w \in W
      PROVE  /\ HolderRank[w] = Cardinality(RicherThan(w)) /\ IsFiniteSet(RicherThan(w))
             /\ HolderRank[w] \in Nat /\ HolderRank[w] < n
  <2>1. RicherThan(w) \in SUBSET W /\ w \notin RicherThan(w)
    BY <1>1 DEF RicherThan
  <2>2. /\ IsFiniteSet(RicherThan(w)) /\ Cardinality(RicherThan(w)) <= n
        /\ n = Cardinality(RicherThan(w)) => W = RicherThan(w)
    BY <1>1, <2>1, FS_Subset
  <2>3. Cardinality(RicherThan(w)) \in Nat
    BY <2>2, FS_CardinalityType
  <2>4. HolderRank[w] = Cardinality(RicherThan(w))
    BY DEF HolderRank
  <2> HIDE DEF n
  <2> QED
    BY <1>1, <2>1, <2>2, <2>3, <2>4
<1>3. HolderRank \in [W -> 0 .. n - 1]
  <2>1. \A w \in W : HolderRank[w] \in 0 .. n - 1
    BY <1>1, <1>2
  <2> QED
    BY <2>1 DEF HolderRank
<1>4. ASSUME NEW v \in W, NEW w \in W, Richer(v, w)
      PROVE  HolderRank[v] < HolderRank[w]
  <2>1. RicherThan(v) \in SUBSET RicherThan(w) /\ v \in RicherThan(w) /\ v \notin RicherThan(v)
    BY <1>1, <1>4 DEF RicherThan
  <2>2. /\ Cardinality(RicherThan(v)) <= Cardinality(RicherThan(w))
        /\ Cardinality(RicherThan(w)) = Cardinality(RicherThan(v)) => RicherThan(w) = RicherThan(v)
    BY <1>2, <2>1, FS_Subset
  <2> QED
    BY <1>2, <2>1, <2>2
<1>5. \A v, w \in W : Richer(v, w) <=> HolderRank[v] < HolderRank[w]
  <2> SUFFICES ASSUME NEW v \in W, NEW w \in W, HolderRank[v] < HolderRank[w]
               PROVE  Richer(v, w)
    BY <1>4
  <2>1. HolderRank[v] \in Nat /\ HolderRank[w] \in Nat
    BY <1>2
  <2>2. v # w /\ ~Richer(w, v)
    BY <1>4, <2>1
  <2> QED
    BY <1>1, <2>2
<1>6. \A v, w \in W : HolderRank[v] = HolderRank[w] => v = w
  <2> SUFFICES ASSUME NEW v \in W, NEW w \in W, HolderRank[v] = HolderRank[w]
               PROVE  v = w
    OBVIOUS
  <2>1. ~(HolderRank[v] < HolderRank[w]) /\ ~(HolderRank[w] < HolderRank[v])
    BY <1>2
  <2> QED
    BY <1>1, <1>5, <2>1
<1>7. \A k \in 0 .. n - 1 : \E w \in W : HolderRank[w] = k
  <2>1. HolderRank \in Injection(W, 0 .. n - 1)
    BY <1>3, <1>6 DEF Injection, IsInjective
  <2>2. IsFiniteSet(0 .. n - 1) /\ Cardinality(0 .. n - 1) = n
    <3>1. n \in Nat
      BY <1>1
    <3> HIDE DEF n
    <3>2. n - 1 \in Int /\ 0 \in Int
      BY <3>1
    <3>3. /\ IsFiniteSet(0 .. n - 1)
          /\ Cardinality(0 .. n - 1) = IF 0 > n - 1 THEN 0 ELSE n - 1 - 0 + 1
      BY <3>2, FS_Interval
    <3> QED
      BY <3>1, <3>3
  <2>3. HolderRank \in Surjection(W, 0 .. n - 1)
    BY <1>1, <2>1, <2>2, FS_Injection
  <2> QED
    BY <2>3 DEF Surjection
<1> QED
  BY <1>3, <1>5, <1>6, <1>7

\* As many wallets as there are ranks below.
LEMMA FirstRanksCount ==
  ASSUME HolderTypes, NEW k \in Nat, k <= Cardinality(WithBalance)
  PROVE  IsFiniteSet(FirstRanks(k)) /\ Cardinality(FirstRanks(k)) = k
<1> DEFINE n == Cardinality(WithBalance)
           S == FirstRanks(k)
           f == [w \in S |-> HolderRank[w]]
<1>1. /\ HolderRank \in [WithBalance -> 0 .. n - 1]
      /\ \A v, w \in WithBalance : HolderRank[v] = HolderRank[w] => v = w
      /\ \A j \in 0 .. n - 1 : \E w \in WithBalance : HolderRank[w] = j
  BY RanksAreTaken
<1>2. n \in Nat /\ IsFiniteSet(WithBalance)
  BY ListIsOrdered
<1>3. S \in SUBSET WithBalance
  BY DEF FirstRanks
<1>4. IsFiniteSet(S) /\ IsFiniteSet(0 .. k - 1) /\ Cardinality(0 .. k - 1) = k
  <2>1. IsFiniteSet(0 .. k - 1) /\ Cardinality(0 .. k - 1) = k
    BY FS_Interval
  <2> HIDE DEF S
  <2> QED
    BY <1>2, <1>3, <2>1, FS_Subset
<1>5. \A w \in S : f[w] \in 0 .. k - 1
  <2> HIDE DEF n
  <2> QED
    BY <1>1, <1>2 DEF FirstRanks
<1>6. \A j \in 0 .. k - 1 : \E w \in S : f[w] = j
  <2> TAKE j \in 0 .. k - 1
  <2> HIDE DEF n
  <2>1. j \in 0 .. n - 1
    BY <1>2 DEF n
  <2>2. PICK w \in WithBalance : HolderRank[w] = j
    BY <1>1, <2>1
  <2>3. w \in S
    BY <2>2 DEF FirstRanks
  <2> QED
    BY <2>2, <2>3
<1>7. f \in Surjection(S, 0 .. k - 1)
  BY <1>5, <1>6 DEF Surjection
<1>8. f \in Injection(S, 0 .. k - 1)
  <2>1. \A v, w \in S : f[v] = f[w] => v = w
    BY <1>1, <1>3
  <2>2. f \in [S -> 0 .. k - 1] /\ DOMAIN f = S
    BY <1>5
  <2> HIDE DEF f
  <2> QED
    BY <2>1, <2>2 DEF Injection, IsInjective
<1> HIDE DEF f, S
<1> QED
  BY <1>4, <1>7, <1>8, FS_Surjection DEF S

\* The stretch of ranks that is a page.
RanksOfPage(p) == {w \in WithBalance : Offset(p) <= HolderRank[w] /\ HolderRank[w] < Offset(p) + PAGE_ROWS}

LEMMA PageIsStretch ==
  ASSUME HolderTypes, NEW p \in 1 .. HolderPages
  PROVE  HolderPage(p) = {[wallet |-> w, rank |-> HolderRank[w] + 1] : w \in RanksOfPage(p)}
<1> DEFINE n == Cardinality(WithBalance)
           rows == FirstOf(Offset(p) + PAGE_ROWS, WithBalance, Richer) \ FirstOf(Offset(p), WithBalance, Richer)
<1>1. /\ n \in Nat /\ IsFiniteSet(WithBalance)
      /\ \A u, v, w \in WithBalance : Richer(u, v) /\ Richer(v, w) => Richer(u, w)
  BY ListIsOrdered
<1>2. /\ \A w \in WithBalance : HolderRank[w] \in Nat /\ HolderRank[w] < n
      /\ \A v, w \in WithBalance : Richer(v, w) <=> HolderRank[v] < HolderRank[w]
  <2>1. /\ HolderRank \in [WithBalance -> 0 .. n - 1]
        /\ \A v, w \in WithBalance : Richer(v, w) <=> HolderRank[v] < HolderRank[w]
    BY RanksAreTaken
  <2> HIDE DEF n
  <2> QED
    BY <1>1, <2>1
<1>3. Offset(p) \in Nat /\ PAGE_ROWS \in Nat
  <2>1. p \in Nat /\ p - 1 \in Nat /\ PAGE_ROWS \in Nat
    BY HoldersAssumption
  <2> QED
    BY <2>1 DEF Offset
<1>4. \A k : FirstOf(k, WithBalance, Richer) = FirstRanks(k)
  BY DEF FirstOf, FirstRanks, HolderRank, RicherThan
<1>5. rows = RanksOfPage(p)
  <2>1. rows = FirstRanks(Offset(p) + PAGE_ROWS) \ FirstRanks(Offset(p))
    BY <1>4
  <2> HIDE DEF rows
  <2> QED
    BY <1>2, <1>3, <2>1 DEF FirstRanks, RanksOfPage
<1>6. ASSUME NEW w \in RanksOfPage(p)
      PROVE  Offset(p) + 1 + Cardinality({v \in RanksOfPage(p) : Richer(v, w)}) = HolderRank[w] + 1
  <2> DEFINE above == {v \in RanksOfPage(p) : Richer(v, w)}
             earlier == FirstRanks(Offset(p))
  <2>1. w \in WithBalance /\ Offset(p) <= HolderRank[w] /\ HolderRank[w] < Offset(p) + PAGE_ROWS
    BY DEF RanksOfPage
  <2>2. RicherThan(w) = earlier \union above /\ earlier \intersect above = {}
    <3>1. \A v \in WithBalance : Richer(v, w) <=> v \in earlier \union above
      BY <1>2, <1>3, <2>1 DEF FirstRanks, RanksOfPage
    <3>2. earlier \subseteq WithBalance /\ above \subseteq WithBalance
      BY DEF FirstRanks, RanksOfPage
    <3>3. earlier \intersect above = {}
      BY <1>2, <1>3 DEF FirstRanks, RanksOfPage
    <3> HIDE DEF earlier, above
    <3> QED
      BY <3>1, <3>2, <3>3 DEF RicherThan
  <2>3. above \in SUBSET WithBalance
    BY DEF RanksOfPage
  <2> HIDE DEF above, n
  <2>4. Offset(p) <= n
    BY <1>1, <1>2, <1>3, <2>1
  <2>5. IsFiniteSet(earlier) /\ Cardinality(earlier) = Offset(p)
    BY <1>3, <2>4, FirstRanksCount DEF n
  <2>6. IsFiniteSet(above)
    BY <1>1, <2>3, FS_Subset
  <2> HIDE DEF earlier
  <2>7. /\ Cardinality(earlier \union above) = Cardinality(earlier) + Cardinality(above)
        /\ Cardinality(above) \in Nat
    BY <2>2, <2>5, <2>6, ApartAddUp
  <2>8. HolderRank[w] = Cardinality(RicherThan(w))
    BY <2>1 DEF HolderRank
  <2>9. HolderRank[w] = Offset(p) + Cardinality(above)
    BY <2>2, <2>5, <2>7, <2>8
  <2> QED
    BY <1>3, <2>7, <2>9 DEF above
<1>7. HolderPage(p) = {[wallet |-> w, rank |-> Offset(p) + 1 + Cardinality({v \in rows : Richer(v, w)})] : w \in rows}
  BY DEF HolderPage
<1> HIDE DEF rows
<1> QED
  BY <1>5, <1>6, <1>7

\* Whoever has a rank is on a page.
LEMMA EveryRankIsListed ==
  ASSUME HolderTypes, NEW w \in WithBalance
  PROVE  \E p \in 1 .. HolderPages : w \in RanksOfPage(p)
<1> DEFINE n == Cardinality(WithBalance)
           r == HolderRank[w]
           q == r \div PAGE_ROWS
           last == (n + PAGE_ROWS - 1) \div PAGE_ROWS
<1>1. n \in Nat /\ r \in Nat /\ r < n
  <2>1. n \in Nat
    BY ListIsOrdered
  <2>2. HolderRank \in [WithBalance -> 0 .. n - 1]
    BY RanksAreTaken
  <2> HIDE DEF n
  <2> QED
    BY <2>1, <2>2
<1>2. PAGE_ROWS \in Nat \ {0}
  BY HoldersAssumption
<1> HIDE DEF n, r
<1>3. q \in Nat /\ q * PAGE_ROWS <= r /\ r < q * PAGE_ROWS + PAGE_ROWS
  BY <1>1, <1>2
<1>4. last \in Nat /\ n + PAGE_ROWS - 1 < last * PAGE_ROWS + PAGE_ROWS
  BY <1>1, <1>2
<1> HIDE DEF q, last
<1>5. q < last
  <2>1. q * PAGE_ROWS < last * PAGE_ROWS
    <3>1. q * PAGE_ROWS \in Nat /\ last * PAGE_ROWS \in Nat
      BY <1>2, <1>3, <1>4
    <3> QED
      BY <1>1, <1>2, <1>3, <1>4, <3>1
  <2>2. last <= q => last * PAGE_ROWS <= q * PAGE_ROWS
    BY <1>2, <1>3, <1>4
  <2>3. q * PAGE_ROWS \in Nat /\ last * PAGE_ROWS \in Nat
    BY <1>2, <1>3, <1>4
  <2> QED
    BY <1>3, <1>4, <2>1, <2>2, <2>3
<1>6. q + 1 \in 1 .. HolderPages
  BY <1>3, <1>4, <1>5 DEF HolderPages, last, n
<1>7. Offset(q + 1) = q * PAGE_ROWS
  <2>1. (q + 1) - 1 = q
    BY <1>3
  <2> QED
    BY <2>1 DEF Offset
<1>8. w \in RanksOfPage(q + 1)
  BY <1>3, <1>7 DEF RanksOfPage, r
<1> QED
  BY <1>6, <1>8

LEMMA HolderPagesFollow == HolderTypes => HolderPagesAddUp
<1> SUFFICES ASSUME HolderTypes PROVE HolderPagesAddUp
  OBVIOUS
<1> DEFINE W == WithBalance
           n == Cardinality(W)
           entry == [w \in W |-> [wallet |-> w, rank |-> HolderRank[w] + 1]]
           onPages == UNION {HolderPage(p) : p \in 1 .. HolderPages}
<1>1. /\ HolderRank \in [W -> 0 .. n - 1]
      /\ \A v, w \in W : Richer(v, w) <=> HolderRank[v] < HolderRank[w]
      /\ \A k \in 0 .. n - 1 : \E w \in W : HolderRank[w] = k
  BY RanksAreTaken
<1>2. IsFiniteSet(W) /\ n \in Nat /\ \A w \in W : holderRow[w].wei \in Nat
  BY ListIsOrdered
<1>3. onPages = {entry[w] : w \in W}
  <2>1. \A p \in 1 .. HolderPages : HolderPage(p) = {entry[w] : w \in RanksOfPage(p)}
    <3>1. \A p : RanksOfPage(p) \subseteq W
      BY DEF RanksOfPage
    <3> QED
      BY <3>1, PageIsStretch
  <2>2. \A w \in W : \E p \in 1 .. HolderPages : w \in RanksOfPage(p)
    BY EveryRankIsListed
  <2>3. \A p : RanksOfPage(p) \subseteq W
    BY DEF RanksOfPage
  <2> HIDE DEF entry, W
  <2> QED
    BY <2>1, <2>2, <2>3
<1>4. \A w \in W : entry[w].wallet = w /\ entry[w].rank = HolderRank[w] + 1
  OBVIOUS
<1>5. Cardinality(onPages) = n
  <2>1. entry \in Surjection(W, {entry[w] : w \in W})
    BY DEF Surjection
  <2>2. entry \in Injection(W, {entry[w] : w \in W})
    <3>1. \A v, w \in W : entry[v] = entry[w] => v = w
      BY <1>4
    <3>2. entry \in [W -> {entry[w] : w \in W}] /\ DOMAIN entry = W
      OBVIOUS
    <3> HIDE DEF entry
    <3> QED
      BY <3>1, <3>2 DEF Injection, IsInjective
  <2> HIDE DEF entry, onPages, W
  <2> QED
    BY <1>2, <1>3, <2>1, <2>2, FS_Surjection
<1> HIDE DEF entry, onPages
<1>6. {h.wallet : h \in onPages} = W
  BY <1>3, <1>4
<1>7. {h.rank : h \in onPages} = 1 .. n
  <2> HIDE DEF n, W
  <2>1. \A w \in W : HolderRank[w] + 1 \in 1 .. n
    BY <1>1, <1>2 DEF n
  <2>2. \A j \in 1 .. n : \E w \in W : HolderRank[w] + 1 = j
    <3> TAKE j \in 1 .. n
    <3>1. j - 1 \in 0 .. n - 1
      BY <1>2
    <3>2. PICK w \in W : HolderRank[w] = j - 1
      BY <1>1, <3>1
    <3> QED
      BY <1>2, <3>2
  <2> QED
    BY <1>3, <1>4, <2>1, <2>2
<1>8. ASSUME NEW a \in onPages, NEW b \in onPages, a.rank < b.rank
      PROVE  holderRow[a.wallet].wei >= holderRow[b.wallet].wei
  <2>1. PICK v \in W, w \in W : a = entry[v] /\ b = entry[w]
    BY <1>3
  <2>2. HolderRank[v] \in Nat /\ HolderRank[w] \in Nat
    <3> HIDE DEF n
    <3> QED
      BY <1>1, <1>2
  <2>3. HolderRank[v] < HolderRank[w]
    BY <1>4, <1>8, <2>1, <2>2
  <2>4. Richer(v, w)
    BY <1>1, <2>3
  <2> QED
    BY <1>2, <1>4, <2>1, <2>4 DEF Richer
<1>9. /\ MIN_WEI \in Nat \ {0} /\ \A w \in Computed : holderRow[w].wei \in Nat
  BY HoldersAssumption DEF Computed, HolderRows, HolderTypes
<1>10. Cardinality(Meaningful) + Cardinality(Dust) = n
  <2>1. Meaningful \union Dust = W /\ Meaningful \intersect Dust = {}
    BY <1>9 DEF Meaningful, Dust, WithBalance
  <2>2. IsFiniteSet(Meaningful) /\ IsFiniteSet(Dust)
    <3>1. Meaningful \in SUBSET W /\ Dust \in SUBSET W
      BY <2>1
    <3> QED
      BY <1>2, <3>1, FS_Subset
  <2> HIDE DEF W
  <2>3. Cardinality(Meaningful \union Dust) = Cardinality(Meaningful) + Cardinality(Dust)
    BY <2>1, <2>2, ApartAddUp
  <2> QED
    BY <2>1, <2>3
<1>11. DustPage \intersect Meaningful = {} /\ Computed \subseteq WithBalance \union DustPage \union Participants
  BY <1>9 DEF DustPage, Meaningful, WithBalance
<1> QED
  BY <1>5, <1>6, <1>7, <1>8, <1>10, <1>11 DEF HolderPagesAddUp, onPages

(***************************************************************************)
(* Balances on display were true, or the zero of an answer that was empty, *)
(* and the queries over them add up, for any wallets, any balances and any *)
(* size of page.                                                           *)
(***************************************************************************)
THEOREM HoldersStayTrue == ReadersSpec => []HolderPagesHold
<1>1. ReadersInit => HoldersInv
  BY HoldersStart DEF ReadersInit
<1>2. HoldersInv /\ [ReadersNext]_readerVars => HoldersInv'
  BY HoldersStep, ReadersStepHolders
<1>3. HoldersInv => HolderPagesAddUp
  BY HolderPagesFollow DEF HoldersInv
<1> QED
  BY <1>1, <1>2, <1>3, BalancesStayTrue, PTL DEF ReadersSpec, HolderPagesHold, HoldersAreTrue
-----------------------------------------------------------------------------
(***************************************************************************)
(* The countdown of a stake.  A row's stamp is no earlier than any deposit *)
(* it was stamped for, and the head a tick has stored is no later than the *)
(* chain's: so neither of the two bases puts a deposit too early.          *)
(***************************************************************************)
StakeClock ==
  /\ height \in Nat \ {0} /\ headRow \in 0 .. height
  /\ \A e \in staking : e.block \in 1 .. height
  /\ eventRows \subseteq staking

StampsCoverDeposits ==
  \A w \in Stakers : stakeRow[w] # NoStake =>
    /\ stakeRow[w].stamp \in 1 .. height
    /\ \A e \in EventsOf(eventRows, w, "deposit") : e.block <= stakeRow[w].stamp

StakesInv == StakeClock /\ StampsCoverDeposits

LEMMA StakesStart == BuilderPagesInit => StakesInv
  BY DEF BuilderPagesInit, StakesInv, StakeClock, StampsCoverDeposits, EventsOf

LEMMA StakesStep == StakesInv /\ [BuilderPagesNext]_builderPageVars => StakesInv'
<1> SUFFICES ASSUME StakesInv, [BuilderPagesNext]_builderPageVars
             PROVE  StakesInv'
  OBVIOUS
<1>1. ASSUME NEW w \in Stakers, NEW amount \in StakeMoves, NEW kind \in {"deposit", "withdraw", "claim"},
             MoveOnChain(w, kind, amount)
      PROVE  StakesInv'
  BY <1>1 DEF MoveOnChain, StakesInv, StakeClock, StampsCoverDeposits, EventsOf
<1>2. ASSUME NEW from \in 1 .. height, IndexMoves({e \in staking : e.block = from})
      PROVE  StakesInv'
  <2> DEFINE range == {e \in staking : e.block = from}
             staked(w) == EventsOf(range, w, "deposit") # {}
  <2>1. /\ eventRows' = eventRows \union range
        /\ UNCHANGED <<height, headRow, staking>>
    BY <1>2 DEF IndexMoves
  <2>2. ASSUME NEW w \in Stakers
        PROVE  \/ stakeRow'[w] = stakeRow[w] /\ ~staked(w)
               \/ \E sum : stakeRow'[w] = [deposited |-> sum, stamp |-> height] /\ staked(w)
               \/ \E sum : /\ stakeRow'[w] = [deposited |-> sum, stamp |-> stakeRow[w].stamp]
                           /\ ~staked(w) /\ stakeRow[w] # NoStake
    BY <1>2 DEF IndexMoves
  <2>3. StakeClock'
    BY <2>1 DEF StakesInv, StakeClock
  <2>4. \A e \in eventRows' : e.block <= height
    BY <2>1, <2>3 DEF StakeClock
  <2>5. ASSUME NEW w \in Stakers, ~staked(w)
        PROVE  EventsOf(eventRows', w, "deposit") = EventsOf(eventRows, w, "deposit")
    BY <2>1, <2>5 DEF EventsOf
  <2>6. ASSUME NEW w \in Stakers, stakeRow'[w] # NoStake
        PROVE  /\ stakeRow'[w].stamp \in 1 .. height
               /\ \A e \in EventsOf(eventRows', w, "deposit") : e.block <= stakeRow'[w].stamp
    <3>1. CASE staked(w)
      <4>0. PICK sum : stakeRow'[w] = [deposited |-> sum, stamp |-> height]
        BY <2>2, <3>1, Zenon
      <4>1. stakeRow'[w].stamp = height
        BY <4>0
      <4> QED
        BY <2>4, <4>1 DEF EventsOf, StakesInv, StakeClock
    <3>2. CASE ~staked(w)
      <4>0. \/ stakeRow'[w] = stakeRow[w]
            \/ \E sum : stakeRow'[w] = [deposited |-> sum, stamp |-> stakeRow[w].stamp] /\ stakeRow[w] # NoStake
        BY <2>2, <3>2, Zenon
      <4>1. stakeRow[w] # NoStake /\ stakeRow'[w].stamp = stakeRow[w].stamp
        <5>1. CASE stakeRow'[w] = stakeRow[w]
          BY <2>6, <5>1, Zenon
        <5>2. ASSUME NEW sum, stakeRow'[w] = [deposited |-> sum, stamp |-> stakeRow[w].stamp], stakeRow[w] # NoStake
              PROVE  stakeRow[w] # NoStake /\ stakeRow'[w].stamp = stakeRow[w].stamp
          BY <5>2
        <5> QED
          BY <4>0, <5>1, <5>2, Zenon
      <4> QED
        BY <2>5, <3>2, <4>1 DEF StakesInv, StampsCoverDeposits
    <3> QED
      BY <3>1, <3>2
  <2>7. StampsCoverDeposits'
    BY <2>1, <2>6 DEF StampsCoverDeposits, EventsOf
  <2> QED
    BY <2>3, <2>7 DEF StakesInv
<1>3. CASE BlockComes
  BY <1>3 DEF BlockComes, StakesInv, StakeClock, StampsCoverDeposits, EventsOf
<1>4. CASE HeadIsRead
  BY <1>4 DEF HeadIsRead, StakesInv, StakeClock, StampsCoverDeposits, EventsOf
<1>5. CASE UNCHANGED builderPageVars
  BY <1>5 DEF builderPageVars, StakesInv, StakeClock, StampsCoverDeposits, EventsOf
<1> QED
  BY <1>1, <1>2, <1>3, <1>4, <1>5 DEF BuilderPagesNext

LEMMA LastOfEvents ==
  ASSUME StakeClock, NEW events \in SUBSET staking
  PROVE  /\ LastBlock(events) \in 0 .. height
         /\ LastBlock(events) # 0 => \E e \in events : LastBlock(events) = e.block
<1> DEFINE S == {0} \union {e.block : e \in events}
<1>1. height \in Nat /\ S \in SUBSET (0 .. height) /\ S # {}
  BY DEF StakeClock
<1>2. Max(S) \in S
  BY <1>1, GreatestUpTo
<1>3. LastBlock(events) = Max(S)
  BY DEF LastBlock
<1> HIDE DEF S
<1>4. Max(S) \in 0 .. height
  BY <1>1, <1>2
<1> QED
  BY <1>2, <1>3, <1>4 DEF S

LEMMA CountdownFollows == StakesInv => CountdownIsHonest
<1> SUFFICES ASSUME StakesInv, NEW w \in RowsHeld, Indexed(w)
             PROVE  /\ UnlockAt(w) >= LastDepositOf(w) + LOCK
                    /\ LatestDeposit(w) \in 1 .. headRow =>
                         UnlockAt(w) <= LastDepositOf(w) + LOCK + (height - headRow)
  BY DEF CountdownIsHonest
<1> DEFINE block == LatestDeposit(w)
           stamp == stakeRow[w].stamp
<1>1. EventsOf(eventRows, w, "deposit") = EventsOf(staking, w, "deposit")
  BY DEF Indexed, EventsOf, StakesInv, StakeClock
<1>2. LastDepositOf(w) = block
  BY <1>1 DEF LastDepositOf, LatestDeposit
<1>3. /\ block \in 0 .. height
      /\ block # 0 => \E e \in EventsOf(eventRows, w, "deposit") : block = e.block
  <2>1. EventsOf(eventRows, w, "deposit") \in SUBSET staking
    BY DEF EventsOf, StakesInv, StakeClock
  <2> QED
    BY <2>1, LastOfEvents DEF LatestDeposit, StakesInv
<1>4. stamp \in 1 .. height /\ \A e \in EventsOf(eventRows, w, "deposit") : e.block <= stamp
  BY DEF RowsHeld, StakesInv, StampsCoverDeposits
<1>5. block <= stamp
  BY <1>3, <1>4
<1>6. headRow \in 0 .. height /\ height \in Nat /\ LOCK \in Nat
  BY StakingAssumption DEF StakesInv, StakeClock
<1>7. depositTsFromBlock(w) = IF block # 0 /\ headRow > 0 /\ block <= headRow THEN height - (headRow - block) ELSE stamp
  BY DEF depositTsFromBlock
<1>8. UnlockAt(w) = depositTsFromBlock(w) + LOCK
  BY DEF UnlockAt
<1> HIDE DEF block, stamp
<1>9. UnlockAt(w) >= block + LOCK
  BY <1>3, <1>4, <1>5, <1>6, <1>7, <1>8
<1>10. block \in 1 .. headRow => UnlockAt(w) <= block + LOCK + (height - headRow)
  BY <1>6, <1>7, <1>8
<1> QED
  BY <1>2, <1>9, <1>10 DEF block

\* Every step of the readers is a step of the builder pages, or leaves them.
LEMMA ReadersStepStakes == [ReadersNext]_readerVars => [BuilderPagesNext]_builderPageVars
  BY DEF ReadersNext, Plays, readerVars

(***************************************************************************)
(* No page shows a stake unlocked that the contract still locks, or locked *)
(* longer than by the age of the stored head, for any stakers, amounts and *)
(* locks, once its events are indexed in any order and number.             *)
(***************************************************************************)
THEOREM CountdownStaysHonest == ReadersSpec => []CountdownIsHonest
<1>1. ReadersInit => StakesInv
  BY StakesStart DEF ReadersInit
<1>2. StakesInv /\ [ReadersNext]_readerVars => StakesInv'
  BY StakesStep, ReadersStepStakes
<1>3. StakesInv => CountdownIsHonest
  BY CountdownFollows
<1> QED
  BY <1>1, <1>2, <1>3, PTL DEF ReadersSpec
-----------------------------------------------------------------------------
(***************************************************************************)
(* Who stakes and who has left (ActiveOrPrevious).  A row is made by the   *)
(* first deposit that is indexed and holds what the indexed events of its  *)
(* wallet come to, since whatever adds to them sums it up again; and the   *)
(* contract pays out no more than a wallet holds, so that the events of a  *)
(* wallet, once they are all there, come to what it holds.                 *)
(***************************************************************************)
StakeRowType == [deposited : Nat, stamp : 1 .. MaxHeight] \union {NoStake}

MovesAreCovered ==
  /\ height \in 1 .. MaxHeight
  /\ IsFiniteSet(staking) /\ Cardinality(staking) <= MaxMoves
  /\ \A e \in staking : e.index \in 0 .. Cardinality(staking) - 1 /\ e.amount \in Nat
  /\ \A w \in Stakers : AmountOf(EventsOf(staking, w, "withdraw")) <= AmountOf(EventsOf(staking, w, "deposit"))

RowsSumUp ==
  /\ stakeRow \in [Stakers -> StakeRowType]
  /\ \A w \in Stakers : stakeRow[w] = NoStake <=> EventsOf(eventRows, w, "deposit") = {}
  /\ \A w \in Stakers : stakeRow[w] # NoStake => stakeRow[w].deposited = NetOf(eventRows, w)

PositionsInv == MovesAreCovered /\ RowsSumUp

LEMMA AmountIsCount ==
  ASSUME NEW events, IsFiniteSet(events), NEW f, \A e \in events : e.amount \in Nat /\ f[e] = e.amount
  PROVE  AmountOf(events) = CountOf(f, events)
<1> DEFINE Adding(iter) == iter = [s \in SUBSET events |->
             IF s = {} THEN 0 ELSE Pick(s).amount + iter[s \ {Pick(s)}]]
           sum == CHOOSE iter : Adding(iter)
<1>1. AmountOf(events) = sum[events]
  BY DEF AmountOf, MapThenSumSet, MapThenFoldSet, Pick
<1>2. \A s \in SUBSET events : s # {} => f[Pick(s)] = Pick(s).amount
  BY DEF Pick
<1>3. \A e \in events : f[e] \in Nat
  OBVIOUS
<1>4. ASSUME NEW iter
      PROVE  Adding(iter) <=> Sums(f, events, iter)
  <2>1. \A s \in SUBSET events :
          (IF s = {} THEN 0 ELSE Pick(s).amount + iter[s \ {Pick(s)}])
            = IF s = {} THEN 0 ELSE f[Pick(s)] + iter[s \ {Pick(s)}]
    BY <1>2
  <2>2. [s \in SUBSET events |-> IF s = {} THEN 0 ELSE Pick(s).amount + iter[s \ {Pick(s)}]]
          = [s \in SUBSET events |-> IF s = {} THEN 0 ELSE f[Pick(s)] + iter[s \ {Pick(s)}]]
    BY <2>1
  <2> QED
    BY <2>2 DEF Sums
<1>5. Sums(f, events, sum)
  <2>1. \E iter : Sums(f, events, iter)
    BY <1>3, SumExists
  <2>2. \E iter : Adding(iter)
    BY <1>4, <2>1
  <2>3. Adding(sum)
    BY <2>2
  <2> QED
    BY <1>4, <2>3
<1> HIDE DEF sum
<1> QED
  BY <1>1, <1>3, <1>5, SumsCount

LEMMA AmountsAreNumbers ==
  ASSUME NEW events, IsFiniteSet(events), \A e \in events : e.amount \in Nat
  PROVE  AmountOf(events) \in Nat
<1> DEFINE f == [e \in events |-> e.amount]
<1>1. \A e \in events : f[e] = e.amount /\ f[e] \in Nat
  OBVIOUS
<1> HIDE DEF f
<1>2. AmountOf(events) = CountOf(f, events)
  BY <1>1, AmountIsCount
<1>3. events \in SUBSET events
  OBVIOUS
<1> QED
  BY <1>1, <1>2, <1>3, UnitsAreFinite

LEMMA AmountJoins ==
  ASSUME NEW events, IsFiniteSet(events), NEW x, x \notin events, x.amount \in Nat,
         \A e \in events : e.amount \in Nat
  PROVE  AmountOf(events \union {x}) = AmountOf(events) + x.amount
<1> DEFINE more == events \union {x}
           f == [e \in more |-> e.amount]
<1>1. \A e \in more : f[e] = e.amount /\ f[e] \in Nat
  OBVIOUS
<1>2. IsFiniteSet(more) /\ more \ {x} = events /\ x \in more
  BY FS_AddElement
<1> HIDE DEF f
<1>3. AmountOf(more) = CountOf(f, more)
  BY <1>1, <1>2, AmountIsCount
<1>4. AmountOf(events) = CountOf(f, events)
  BY <1>1, AmountIsCount
<1> HIDE DEF more
<1>5. CountOf(f, more) = f[x] + CountOf(f, more \ {x}) /\ CountOf(f, more \ {x}) \in Nat
  BY <1>1, <1>2, CountJoin
<1>6. f[x] = x.amount
  BY <1>1, <1>2
<1>7. AmountOf(more) = x.amount + AmountOf(events) /\ AmountOf(events) \in Nat
  BY <1>2, <1>3, <1>4, <1>5, <1>6
<1>8. AmountOf(more) = AmountOf(events) + x.amount
  BY <1>7
<1> QED
  BY <1>8 DEF more

LEMMA MovesStay ==
  ASSUME MovesAreCovered, NEW w \in Stakers, NEW amount \in StakeMoves,
         NEW kind \in {"deposit", "withdraw", "claim"}, MoveOnChain(w, kind, amount)
  PROVE  MovesAreCovered'
<1> DEFINE x == [index |-> Cardinality(staking), wallet |-> w, kind |-> kind, amount |-> amount, block |-> height]
           In(v, k) == AmountOf(EventsOf(staking, v, k))
<1>1. staking' = staking \union {x} /\ height' = height /\ Cardinality(staking) < MaxMoves
  BY DEF MoveOnChain
<1>2. amount \in Nat /\ MaxMoves \in Nat
  BY StakingAssumption
<1>3. IsFiniteSet(staking) /\ Cardinality(staking) \in Nat
  BY FS_CardinalityType DEF MovesAreCovered
<1>4. x \notin staking
  BY <1>3 DEF MovesAreCovered
<1>5. IsFiniteSet(staking') /\ Cardinality(staking') = Cardinality(staking) + 1
  BY <1>1, <1>3, <1>4, FS_AddElement
<1>6. \A e \in staking' : e.index \in 0 .. Cardinality(staking') - 1 /\ e.amount \in Nat
  BY <1>1, <1>2, <1>3, <1>5 DEF MovesAreCovered
<1>7. ASSUME NEW v, NEW k
      PROVE  /\ In(v, k) \in Nat
             /\ In(v, k)' = IF v = w /\ k = kind THEN In(v, k) + amount ELSE In(v, k)
  <2>1. /\ IsFiniteSet(EventsOf(staking, v, k)) /\ \A e \in EventsOf(staking, v, k) : e.amount \in Nat
        /\ x \notin EventsOf(staking, v, k)
    BY <1>3, <1>4, FS_Subset DEF EventsOf, MovesAreCovered
  <2>2. In(v, k) \in Nat
    BY <2>1, AmountsAreNumbers
  <2>3. CASE v = w /\ k = kind
    <3>1. EventsOf(staking', v, k) = EventsOf(staking, v, k) \union {x}
      BY <1>1, <2>3 DEF EventsOf
    <3>2. x.amount = amount
      OBVIOUS
    <3> HIDE DEF x
    <3>3. AmountOf(EventsOf(staking, v, k) \union {x}) = In(v, k) + x.amount
      BY <1>2, <2>1, <3>2, AmountJoins
    <3> QED
      BY <2>2, <2>3, <3>1, <3>2, <3>3
  <2>4. CASE ~(v = w /\ k = kind)
    <3>1. EventsOf(staking', v, k) = EventsOf(staking, v, k)
      BY <1>1, <2>4 DEF EventsOf
    <3> QED
      BY <2>2, <2>4, <3>1
  <2> QED
    BY <2>3, <2>4, <2>2
<1>8. kind = "withdraw" => amount <= In(w, "deposit") - In(w, "withdraw")
  BY DEF MoveOnChain, HeldBy
<1> HIDE DEF x, In
<1>9. ASSUME NEW v \in Stakers
      PROVE  In(v, "withdraw")' <= In(v, "deposit")'
  <2>1. In(v, "withdraw") <= In(v, "deposit")
    BY DEF MovesAreCovered, In
  <2>2. In(v, "withdraw") \in Nat /\ In(v, "deposit") \in Nat
    BY <1>7
  <2>3. CASE v = w /\ kind = "withdraw"
    <3>1. In(v, "withdraw")' = In(v, "withdraw") + amount /\ In(v, "deposit")' = In(v, "deposit")
      BY <1>7, <2>3
    <3>2. amount <= In(v, "deposit") - In(v, "withdraw")
      BY <1>8, <2>3
    <3> QED
      BY <1>2, <2>2, <3>1, <3>2
  <2>4. CASE ~(v = w /\ kind = "withdraw")
    <3>1. In(v, "withdraw")' = In(v, "withdraw")
      BY <1>7, <2>4
    <3>2. In(v, "deposit")' = In(v, "deposit") \/ In(v, "deposit")' = In(v, "deposit") + amount
      BY <1>7
    <3> QED
      BY <1>2, <2>1, <2>2, <3>1, <3>2
  <2> QED
    BY <2>3, <2>4
<1>10. height' \in 1 .. MaxHeight
  BY <1>1 DEF MovesAreCovered
<1>11. Cardinality(staking') <= MaxMoves
  BY <1>1, <1>2, <1>3, <1>5
<1> QED
  BY <1>5, <1>6, <1>9, <1>10, <1>11 DEF MovesAreCovered, In

LEMMA EventsAddUp ==
  ASSUME MovesAreCovered, StakeClock, NEW events \in SUBSET staking, NEW w \in Stakers
  PROVE  /\ \A k : AmountOf(EventsOf(events, w, k)) \in Nat
         /\ NetOf(events, w) \in Nat
<1>1. ASSUME NEW k PROVE AmountOf(EventsOf(events, w, k)) \in Nat
  <2>1. IsFiniteSet(EventsOf(events, w, k)) /\ \A e \in EventsOf(events, w, k) : e.amount \in Nat
    BY FS_Subset DEF EventsOf, MovesAreCovered
  <2> QED
    BY <2>1, AmountsAreNumbers
<1>2. /\ AmountOf(EventsOf(events, w, "deposit")) \in Nat
      /\ AmountOf(EventsOf(events, w, "withdraw")) \in Nat
  BY <1>1
<1>3. NetOf(events, w) \in Nat
  BY <1>2 DEF NetOf
<1> QED
  BY <1>1, <1>3

LEMMA RowsStaySummed ==
  ASSUME MovesAreCovered, StakesInv, RowsSumUp,
         NEW from \in 1 .. height, IndexMoves({e \in staking : e.block = from})
  PROVE  RowsSumUp'
<1> DEFINE range == {e \in staking : e.block = from}
           Staked(w) == EventsOf(range, w, "deposit") # {}
           Drawn(w) == EventsOf(range, w, "withdraw") # {}
<1>1. /\ eventRows' = eventRows \union range
      /\ UNCHANGED <<height, headRow, staking>>
      /\ \A w \in Stakers : stakeRow'[w] =
           IF ~Staked(w) /\ (stakeRow[w] = NoStake \/ ~Drawn(w)) THEN stakeRow[w]
           ELSE [deposited |-> NetOf(eventRows', w), stamp |-> IF Staked(w) THEN height ELSE stakeRow[w].stamp]
      /\ stakeRow' = [w \in Stakers |-> stakeRow'[w]]
  BY DEF IndexMoves
<1>2. eventRows' \in SUBSET staking
  BY <1>1 DEF StakesInv, StakeClock
<1>3. \A k, w : EventsOf(eventRows', w, k) = EventsOf(eventRows, w, k) \union EventsOf(range, w, k)
  BY <1>1 DEF EventsOf
<1> HIDE DEF range
<1>4. ASSUME NEW w \in Stakers
      PROVE  /\ stakeRow'[w] \in StakeRowType
             /\ stakeRow'[w] = NoStake <=> EventsOf(eventRows', w, "deposit") = {}
             /\ stakeRow'[w] # NoStake => stakeRow'[w].deposited = NetOf(eventRows', w)
  <2>1. /\ stakeRow[w] \in StakeRowType
        /\ stakeRow[w] = NoStake <=> EventsOf(eventRows, w, "deposit") = {}
        /\ stakeRow[w] # NoStake => stakeRow[w].deposited = NetOf(eventRows, w)
    BY DEF RowsSumUp
  <2>2. NetOf(eventRows', w) \in Nat
    BY <1>2, EventsAddUp DEF StakesInv
  <2>3. CASE ~Staked(w) /\ (stakeRow[w] = NoStake \/ ~Drawn(w))
    <3>1. stakeRow'[w] = stakeRow[w]
      BY <1>1, <2>3
    <3>2. EventsOf(eventRows', w, "deposit") = EventsOf(eventRows, w, "deposit")
      BY <1>3, <2>3
    <3>3. ~Drawn(w) => NetOf(eventRows', w) = NetOf(eventRows, w)
      <4>1. ~Drawn(w) => EventsOf(eventRows', w, "withdraw") = EventsOf(eventRows, w, "withdraw")
        BY <1>3
      <4> QED
        BY <3>2, <4>1 DEF NetOf
    <3> QED
      BY <2>1, <2>3, <3>1, <3>2, <3>3
  <2>4. CASE Staked(w) \/ (stakeRow[w] # NoStake /\ Drawn(w))
    <3> DEFINE stamp == IF Staked(w) THEN height ELSE stakeRow[w].stamp
    <3>1. stakeRow'[w] = [deposited |-> NetOf(eventRows', w), stamp |-> stamp]
      BY <1>1, <2>4
    <3>2. stamp \in 1 .. MaxHeight
      <4>1. Staked(w) => stamp \in 1 .. MaxHeight
        BY DEF MovesAreCovered
      <4>2. stakeRow[w] # NoStake => stakeRow[w].stamp \in 1 .. MaxHeight
        BY <2>1 DEF StakeRowType
      <4>3. ~Staked(w) => stakeRow[w] # NoStake /\ stamp = stakeRow[w].stamp
        BY <2>4
      <4> HIDE DEF stamp, Staked
      <4> QED
        BY <4>1, <4>2, <4>3
    <3>3. EventsOf(eventRows', w, "deposit") # {}
      BY <1>3, <2>1, <2>4
    <3> HIDE DEF stamp
    <3>4. stakeRow'[w] \in [deposited : Nat, stamp : Nat] /\ stakeRow'[w] \in StakeRowType
      BY <2>2, <3>1, <3>2 DEF StakeRowType
    <3>5. stakeRow'[w] # NoStake
      BY <3>4, StakingAssumption
    <3>6. stakeRow'[w].deposited = NetOf(eventRows', w)
      BY <3>1
    <3> QED
      BY <3>3, <3>4, <3>5, <3>6
  <2> QED
    BY <2>3, <2>4
<1>5. stakeRow' \in [Stakers -> StakeRowType']
  BY <1>1, <1>4 DEF StakeRowType
<1> QED
  BY <1>4, <1>5 DEF RowsSumUp

LEMMA PositionsStart == BuilderPagesInit => PositionsInv
<1> SUFFICES ASSUME BuilderPagesInit PROVE PositionsInv
  OBVIOUS
<1>1. \A w, k : EventsOf(staking, w, k) = {} /\ EventsOf(eventRows, w, k) = {}
  BY DEF BuilderPagesInit, EventsOf
<1>2. AmountOf({}) = AmountOf({}) /\ AmountOf({}) \in Nat
  BY FS_EmptySet, AmountsAreNumbers
<1>3. AmountOf({}) <= AmountOf({})
  BY <1>2
<1>4. IsFiniteSet({}) /\ Cardinality({}) = 0
  BY FS_EmptySet
<1>5. MovesAreCovered
  BY <1>1, <1>3, <1>4, StakingAssumption DEF BuilderPagesInit, MovesAreCovered
<1>6. RowsSumUp
  BY <1>1 DEF BuilderPagesInit, RowsSumUp, StakeRowType
<1> QED
  BY <1>5, <1>6 DEF PositionsInv

LEMMA PositionsStep == StakesInv /\ PositionsInv /\ [BuilderPagesNext]_builderPageVars => PositionsInv'
<1> SUFFICES ASSUME StakesInv, PositionsInv, [BuilderPagesNext]_builderPageVars PROVE PositionsInv'
  OBVIOUS
<1> MovesAreCovered /\ RowsSumUp
  BY DEF PositionsInv
<1>1. ASSUME NEW w \in Stakers, NEW amount \in StakeMoves, NEW kind \in {"deposit", "withdraw", "claim"},
             MoveOnChain(w, kind, amount)
      PROVE  PositionsInv'
  <2>1. UNCHANGED <<eventRows, stakeRow>>
    BY <1>1 DEF MoveOnChain
  <2>2. RowsSumUp'
    BY <2>1 DEF RowsSumUp, StakeRowType
  <2> QED
    BY <1>1, <2>2, MovesStay DEF PositionsInv
<1>2. ASSUME NEW from \in 1 .. height, IndexMoves({e \in staking : e.block = from})
      PROVE  PositionsInv'
  <2>1. UNCHANGED <<height, staking>>
    BY <1>2 DEF IndexMoves
  <2>2. MovesAreCovered'
    BY <2>1 DEF MovesAreCovered
  <2> QED
    BY <1>2, <2>2, RowsStaySummed DEF PositionsInv
<1>3. CASE BlockComes
  <2>1. UNCHANGED <<staking, eventRows, stakeRow>> /\ height' \in 1 .. MaxHeight
    BY <1>3, StakingAssumption DEF BlockComes, MovesAreCovered
  <2> QED
    BY <2>1 DEF PositionsInv, MovesAreCovered, RowsSumUp, StakeRowType
<1>4. CASE HeadIsRead \/ UNCHANGED builderPageVars
  <2>1. UNCHANGED <<height, staking, eventRows, stakeRow>>
    BY <1>4 DEF HeadIsRead, builderPageVars
  <2> QED
    BY <2>1 DEF PositionsInv, MovesAreCovered, RowsSumUp, StakeRowType
<1> QED
  BY <1>1, <1>2, <1>3, <1>4 DEF BuilderPagesNext

LEMMA PositionsFollow == StakesInv /\ PositionsInv => ActiveOrPrevious /\ BuilderPagesTypeOK
<1> SUFFICES ASSUME StakesInv, PositionsInv PROVE ActiveOrPrevious /\ BuilderPagesTypeOK
  OBVIOUS
<1> MovesAreCovered /\ RowsSumUp
  BY DEF PositionsInv
<1>1. eventRows \in SUBSET staking /\ staking \in SUBSET staking
  BY DEF StakesInv, StakeClock
<1>2. \A w \in Stakers : NetOf(eventRows, w) \in Nat
  BY <1>1, EventsAddUp DEF StakesInv
<1>3. \A w \in RowsHeld : w \in Stakers /\ stakeRow[w].deposited = NetOf(eventRows, w) /\ stakeRow[w].deposited \in Nat
  BY <1>2 DEF RowsHeld, RowsSumUp
<1>4. RowsHeld = DepositorsEver
  BY DEF RowsHeld, DepositorsEver, RowsSumUp
<1>5. TopStakers \intersect PreviousStakers = {}
  <2>1. ASSUME NEW w \in TopStakers, w \in PreviousStakers PROVE FALSE
    <3>1. stakeRow[w].deposited > 0 /\ stakeRow[w].deposited = 0
      BY <2>1 DEF TopStakers, PreviousStakers
    <3> QED
      BY <3>1
  <2> QED
    BY <2>1
<1>6. TopStakers \union PreviousStakers = DepositorsEver
  <2>1. \A w \in RowsHeld : stakeRow[w].deposited > 0 \/ stakeRow[w].deposited = 0
    BY <1>3
  <2>2. \A w \in RowsHeld : \E e \in eventRows : e.wallet = w
    BY <1>4 DEF DepositorsEver, EventsOf
  <2> QED
    BY <1>4, <2>1, <2>2 DEF TopStakers, PreviousStakers
<1>7. ASSUME NEW w \in DepositorsEver, Indexed(w)
      PROVE  /\ w \in TopStakers <=> HeldBy(w) > 0
             /\ Positions(w) = HeldBy(w)
             /\ CreditOf(w) = AmountOf(EventsOf(staking, w, "deposit"))
  <2> DEFINE deposits == AmountOf(EventsOf(staking, w, "deposit"))
             withdrawn == AmountOf(EventsOf(staking, w, "withdraw"))
  <2>1. w \in Stakers /\ w \in RowsHeld
    BY <1>4 DEF DepositorsEver
  <2>2. \A k : EventsOf(eventRows, w, k) = EventsOf(staking, w, k)
    BY <1>1, <1>7 DEF Indexed, EventsOf
  <2>3. deposits \in Nat /\ withdrawn \in Nat /\ withdrawn <= deposits
    BY <1>1, <2>1, EventsAddUp DEF MovesAreCovered, StakesInv
  <2>4. NetOf(eventRows, w) = IF deposits - withdrawn < 0 THEN 0 ELSE deposits - withdrawn
    BY <2>2 DEF NetOf
  <2>5. HeldBy(w) = deposits - withdrawn
    BY DEF HeldBy
  <2>6. CreditOf(w) = Max({deposits, withdrawn})
    BY <2>2 DEF CreditOf
  <2> HIDE DEF deposits, withdrawn
  <2>7. stakeRow[w].deposited = HeldBy(w) /\ HeldBy(w) \in Nat
    BY <1>3, <2>1, <2>3, <2>4, <2>5
  <2>8. w \in TopStakers <=> HeldBy(w) > 0
    BY <2>1, <2>7 DEF TopStakers
  <2>9. Positions(w) = HeldBy(w)
    BY <2>7, <2>8 DEF Positions
  <2>10. Max({deposits, withdrawn}) = deposits
    <3> DEFINE T == {deposits, withdrawn}
    <3>1. T \in SUBSET (0 .. deposits) /\ T # {} /\ \A t \in T : t <= deposits
      BY <2>3
    <3> HIDE DEF T
    <3>2. Max(T) \in T /\ \A t \in T : Max(T) >= t
      BY <2>3, <3>1, GreatestUpTo
    <3>3. Max(T) <= deposits /\ Max(T) >= deposits /\ Max(T) \in Nat
      BY <2>3, <3>1, <3>2 DEF T
    <3> QED
      BY <2>3, <3>3 DEF T
  <2> QED
    BY <2>6, <2>8, <2>9, <2>10 DEF deposits
<1>8. BuilderPagesTypeOK
  BY DEF BuilderPagesTypeOK, MovesAreCovered, RowsSumUp, StakeRowType, StakesInv, StakeClock
<1> QED
  BY <1>5, <1>6, <1>7, <1>8 DEF ActiveOrPrevious

(***************************************************************************)
(* What a subnet and a wallet page say of stakes is true once their events *)
(* are indexed, for any stakers, amounts and locks, in any order, late or  *)
(* again.                                                                  *)
(***************************************************************************)
THEOREM StakePagesStayTrue == ReadersSpec => []StakePagesHold
<1>1. ReadersInit => StakesInv /\ PositionsInv
  BY StakesStart, PositionsStart DEF ReadersInit
<1>2. StakesInv /\ PositionsInv /\ [ReadersNext]_readerVars => StakesInv' /\ PositionsInv'
  BY StakesStep, PositionsStep, ReadersStepStakes
<1>3. StakesInv /\ PositionsInv => StakePagesHold
  BY CountdownFollows, PositionsFollow DEF StakePagesHold, StakePagesAreTrue
<1> QED
  BY <1>1, <1>2, <1>3, PTL DEF ReadersSpec
-----------------------------------------------------------------------------
(***************************************************************************)
(* The price, its history and its chart.  A request holds a price no older *)
(* than the row's life and one request when it began; a run that may still *)
(* insert a point is alone unless runs have overlapped, and the second it  *)
(* checked lies the spacing after every point.                             *)
(***************************************************************************)
Reads == [read : Nat, fetchedAt : Nat]
Steps == {"idle", "pool", "store", "gecko", "fallback", "record", "insert", "answer"}

Asking == [step : Steps, from : Nat, price : Reads \union {NoPrice}, mark : Nat]

PriceTypes ==
  /\ seconds \in Nat /\ points \in SUBSET (0 .. seconds) /\ raced \in BOOLEAN
  /\ ask \in [Askers -> Asking]
  /\ priceRow \in Reads \union {NoPrice} /\ baseline \in Nat \union {NoPrice}

AskersKeepTime == \A c \in Askers :
  /\ ask[c].from <= seconds /\ ask[c].mark <= seconds
  /\ ask[c].step # "idle" => seconds - ask[c].from <= PATIENCE

RowIsRecent == priceRow # NoPrice =>
  /\ priceRow \in Reads
  /\ priceRow.read <= priceRow.fetchedAt /\ priceRow.fetchedAt <= seconds
  /\ priceRow.fetchedAt - priceRow.read <= PATIENCE

\* A quoter has just read its price, or has it from the row or by way of it.
JustRead(held) == held.price \in Reads /\ held.from <= held.price.read /\ held.price.read <= seconds
HoldsRecent(c, held) ==
  /\ held.step \in {"store", "fallback"} => JustRead(held)
  /\ held.step = "fallback" => held.price.fetchedAt = held.price.read
  /\ held.step = "answer" \/ (c \in Quoters /\ held.step \in {"record", "insert"}) =>
       held.price \in Reads /\ held.from - held.price.read <= CACHE_SECONDS + PATIENCE

AskersHoldRecent == \A c \in Askers : HoldsRecent(c, ask[c])

\* A run that found a point due and has yet to insert it, or give up.
MayInsert(c) == ask[c].step = "insert" \/ (c \in Recorders /\ ask[c].step = "pool")

OneInsertsSpaced == raced = FALSE =>
  /\ \A c, d \in Askers : MayInsert(c) /\ MayInsert(d) => c = d
  /\ \A c \in Askers : MayInsert(c) => \A p \in points : ask[c].mark - p >= SPACING
  /\ \A p, q \in points : p < q => q - p >= SPACING

PricesInv == PriceTypes /\ AskersKeepTime /\ RowIsRecent /\ AskersHoldRecent /\ OneInsertsSpaced

PriceNumbers ==
  /\ CACHE_SECONDS \in Nat /\ SPACING \in Nat /\ PATIENCE \in Nat /\ Window \in Nat
  /\ NEAR_START \in Nat /\ SPACING > 0 /\ Quoters \intersect Recorders = {}

LEMMA PriceNumbersHold == PriceNumbers
  BY PricesAssumption DEF PriceNumbers

LEMMA PricesStart == PricesInit => PricesInv
<1> SUFFICES ASSUME PricesInit
             PROVE  PricesInv
  OBVIOUS
<1>1. PriceTypes
  BY DEF PricesInit, PriceTypes, Rest, Steps, Asking
<1>2. AskersKeepTime
  BY PriceNumbersHold DEF PricesInit, AskersKeepTime, Rest
<1>3. RowIsRecent
  BY DEF PricesInit, RowIsRecent
<1>4. AskersHoldRecent
  BY DEF PricesInit, AskersHoldRecent, HoldsRecent, Rest, Askers
<1>5. OneInsertsSpaced
  BY DEF PricesInit, OneInsertsSpaced, MayInsert, Rest
<1> QED
  BY <1>1, <1>2, <1>3, <1>4, <1>5 DEF PricesInv

(***************************************************************************)
(* What c holds next settles the askers' part of the invariant, where the  *)
(* clock, the row and the points are as they were: c may go on inserting,  *)
(* but not begin to.                                                       *)
(***************************************************************************)
LEMMA AskerMovesOn ==
  ASSUME PricesInv, NEW c \in Askers,
         NEW next \in Asking,
         ask' = [ask EXCEPT ![c] = next],
         next.from <= seconds, next.mark <= seconds,
         next.step # "idle" => seconds - next.from <= PATIENCE,
         HoldsRecent(c, next),
         UNCHANGED <<seconds, baseline>>
  PROVE  /\ ask' \in [Askers -> Asking]
         /\ AskersKeepTime' /\ AskersHoldRecent'
         /\ ask'[c] = next /\ \A d \in Askers \ {c} : ask'[d] = ask[d]
<1>1. ask'[c] = next /\ \A d \in Askers \ {c} : ask'[d] = ask[d]
  BY DEF PricesInv, PriceTypes
<1>2. ask' \in [Askers -> Asking]
  BY DEF PricesInv, PriceTypes
<1>3. AskersKeepTime'
  BY <1>1 DEF AskersKeepTime, PricesInv
<1>4. AskersHoldRecent'
  <2> SUFFICES ASSUME NEW d \in Askers
               PROVE  HoldsRecent(d, ask[d])'
    BY DEF AskersHoldRecent
  <2>2. CASE d = c
    BY <1>1, <2>2 DEF HoldsRecent, JustRead
  <2>3. CASE d # c
    BY <1>1, <2>3 DEF HoldsRecent, JustRead, PricesInv, AskersHoldRecent
  <2> QED
    BY <2>2, <2>3
<1> QED
  BY <1>1, <1>2, <1>3, <1>4

\* The points stay spaced where nobody but who might have inserted before may.
LEMMA NobodyNewInserts ==
  ASSUME PricesInv, NEW c \in Askers,
         \A d \in Askers \ {c} : ask'[d] = ask[d],
         MayInsert(c)' => MayInsert(c) /\ ask'[c].mark = ask[c].mark,
         UNCHANGED <<points, raced>>
  PROVE  OneInsertsSpaced'
<1>1. \A d \in Askers : MayInsert(d)' => MayInsert(d) /\ ask'[d].mark = ask[d].mark
  BY DEF MayInsert
<1> QED
  BY <1>1 DEF PricesInv, OneInsertsSpaced
-----------------------------------------------------------------------------
\* A step of c alone: what it holds next is all there is to show.
LEMMA AskerAlone ==
  ASSUME PricesInv, NEW c \in Askers, NEW next \in Asking,
         ask' = [ask EXCEPT ![c] = next],
         next.from <= seconds, next.mark <= seconds,
         next.step # "idle" => seconds - next.from <= PATIENCE,
         HoldsRecent(c, next),
         next.step = "insert" => MayInsert(c) /\ next.mark = ask[c].mark,
         c \in Recorders => next.step # "pool",
         UNCHANGED <<seconds, priceRow, points, raced, baseline>>
  PROVE  PricesInv'
<1>1. /\ ask' \in [Askers -> Asking] /\ AskersKeepTime' /\ AskersHoldRecent'
      /\ ask'[c] = next /\ \A d \in Askers \ {c} : ask'[d] = ask[d]
  BY AskerMovesOn, Zenon
<1>2. MayInsert(c)' => MayInsert(c) /\ ask'[c].mark = ask[c].mark
  BY <1>1 DEF MayInsert
<1>3. OneInsertsSpaced'
  BY <1>1, <1>2, NobodyNewInserts
<1>4. PriceTypes'
  BY <1>1 DEF PricesInv, PriceTypes
<1>5. RowIsRecent'
  BY DEF PricesInv, RowIsRecent
<1> QED
  BY <1>1, <1>3, <1>4, <1>5 DEF PricesInv

LEMMA AskerStep ==
  ASSUME PricesInv, NEW c \in Askers,
         \/ AskPrice(c) \/ PoolAnswers(c) \/ PoolFails(c) \/ GeckoAnswers(c) \/ AnswerStale(c)
         \/ CronRecords(c) \/ SkipPoint(c) \/ AnswerPrice(c)
  PROVE  PricesInv'
<1> USE PriceNumbersHold DEF PriceNumbers
<1> DEFINE here == ask[c]
           read == [read |-> seconds, fetchedAt |-> seconds]
<1>1. /\ here \in Asking /\ here.from <= seconds /\ here.mark <= seconds
      /\ here.step # "idle" => seconds - here.from <= PATIENCE
      /\ seconds \in Nat
      /\ HoldsRecent(c, here)
  BY DEF PricesInv, PriceTypes, AskersKeepTime, AskersHoldRecent
<1>2. UNCHANGED <<seconds, priceRow, points, raced, baseline>>
  BY DEF AskPrice, PoolAnswers, PoolFails, GeckoAnswers, AnswerStale, CronRecords, SkipPoint, AnswerPrice
<1>3. Rest \in Asking /\ Rest.from <= seconds /\ Rest.mark <= seconds /\ Rest.step = "idle" /\ HoldsRecent(c, Rest)
  BY <1>1 DEF Rest, Asking, Steps, HoldsRecent
<1>4. ASSUME ask' = [ask EXCEPT ![c] = Rest]
      PROVE  PricesInv'
  BY <1>2, <1>3, <1>4, AskerAlone
<1>5. ASSUME NEW step \in Steps, ask' = [ask EXCEPT ![c].step = step], here.step # "idle",
             HoldsRecent(c, [here EXCEPT !.step = step]),
             step # "insert", step # "pool"
      PROVE  PricesInv'
  <2> DEFINE next == [here EXCEPT !.step = step]
  <2>1. next \in Asking /\ next.from = here.from /\ next.mark = here.mark /\ next.step = step
    BY <1>1 DEF Asking
  <2>2. ask' = [ask EXCEPT ![c] = next]
    BY <1>5
  <2>3. HoldsRecent(c, next)
    BY <1>5
  <2> HIDE DEF next, here
  <2> QED
    BY <1>1, <1>2, <1>5, <2>1, <2>2, <2>3, AskerAlone
<1>6. CASE AskPrice(c)
  <2> DEFINE next == [step |-> IF FreshRow THEN "answer" ELSE "pool", from |-> seconds,
                      price |-> IF FreshRow THEN priceRow ELSE NoPrice, mark |-> 0]
  <2>1. next \in Asking /\ next.from = seconds /\ next.mark = 0 /\ next.step \in {"answer", "pool"}
    BY <1>1 DEF Asking, Steps, FreshRow, PricesInv, RowIsRecent
  <2>2. ask' = [ask EXCEPT ![c] = next]
    BY <1>6 DEF AskPrice
  <2>3. HoldsRecent(c, next)
    <3>1. CASE FreshRow
      BY <3>1, <1>1 DEF HoldsRecent, FreshRow, PricesInv, RowIsRecent, Reads
    <3>2. CASE ~FreshRow
      BY <3>2 DEF HoldsRecent
    <3> QED
      BY <3>1, <3>2
  <2>4. c \notin Recorders
    BY <1>6 DEF AskPrice
  <2>5. seconds - next.from <= PATIENCE /\ next.from <= seconds /\ next.mark <= seconds
    BY <2>1, <1>1
  <2>6. next.step # "insert"
    BY <2>1
  <2> HIDE DEF next, here
  <2> QED
    BY <1>2, <2>1, <2>2, <2>3, <2>4, <2>5, <2>6, AskerAlone
<1>7. CASE PoolAnswers(c)
  <2> DEFINE next == [here EXCEPT !.step = IF c \in Quoters THEN "store" ELSE "insert", !.price = read]
  <2>1. next \in Asking /\ next.from = here.from /\ next.mark = here.mark /\ next.price = read
        /\ next.step = IF c \in Quoters THEN "store" ELSE "insert"
    BY <1>1 DEF Asking, Steps, Reads
  <2>2. ask' = [ask EXCEPT ![c] = next] /\ here.step = "pool"
    BY <1>7 DEF PoolAnswers, Takes
  <2>3. HoldsRecent(c, next)
    BY <1>1, <2>1 DEF HoldsRecent, JustRead, Reads
  <2>4. next.step = "insert" => MayInsert(c)
    BY <2>1, <2>2 DEF MayInsert, Askers
  <2> HIDE DEF next, here, read
  <2>5. next.step # "idle" => seconds - next.from <= PATIENCE
    BY <1>1, <2>1, <2>2
  <2>6. next.from <= seconds /\ next.mark <= seconds /\ next.step # "pool"
    BY <1>1, <2>1
  <2>7. next.mark = ask[c].mark
    BY <2>1 DEF here
  <2> QED
    BY <1>2, <2>1, <2>2, <2>3, <2>4, <2>5, <2>6, <2>7, AskerAlone
<1>8. CASE PoolFails(c)
  <2>1. CASE c \in Quoters
    BY <2>1, <1>8, <1>5 DEF PoolFails, Moves, HoldsRecent, Steps
  <2> QED
    BY <2>1, <1>8, <1>4 DEF PoolFails, Done
<1>9. CASE GeckoAnswers(c)
  <2> DEFINE next == [here EXCEPT !.step = "fallback", !.price = read]
  <2>1. next \in Asking /\ next.from = here.from /\ next.mark = here.mark /\ next.price = read
        /\ next.step = "fallback"
    BY <1>1 DEF Asking, Steps, Reads
  <2>2. ask' = [ask EXCEPT ![c] = next] /\ here.step = "gecko"
    BY <1>9 DEF GeckoAnswers, Takes
  <2>3. HoldsRecent(c, next)
    BY <1>1, <2>1 DEF HoldsRecent, JustRead, Reads
  <2> HIDE DEF next, here, read
  <2>5. seconds - next.from <= PATIENCE
    BY <1>1, <2>1, <2>2
  <2> QED
    BY <1>1, <1>2, <2>1, <2>2, <2>3, <2>5, AskerAlone
<1>10. CASE AnswerStale(c) \/ AnswerPrice(c)
  BY <1>10, <1>4 DEF AnswerStale, AnswerPrice, Done
<1>11. CASE CronRecords(c)
  <2> DEFINE next == [here EXCEPT !.from = seconds, !.step = "record"]
  <2>1. next \in Asking /\ next.from = seconds /\ next.mark = here.mark /\ next.step = "record"
    BY <1>1 DEF Asking, Steps
  <2>2. ask' = [ask EXCEPT ![c] = next]
    BY <1>11 DEF CronRecords
  <2>3. HoldsRecent(c, next)
    BY <1>11, <2>1 DEF CronRecords, HoldsRecent
  <2>4. seconds - next.from <= PATIENCE /\ next.from <= seconds /\ next.mark <= seconds
    BY <1>1, <2>1
  <2>5. next.step # "insert" /\ next.step # "pool"
    BY <2>1
  <2> HIDE DEF next, here
  <2> QED
    BY <1>2, <2>1, <2>2, <2>3, <2>4, <2>5, AskerAlone
<1>12. CASE SkipPoint(c)
  <2>1. CASE c \in Quoters
    <3>1. HoldsRecent(c, [here EXCEPT !.step = "answer"])
      BY <1>1, <1>12, <2>1 DEF SkipPoint, Moves, HoldsRecent, Asking
    <3> QED
      BY <2>1, <3>1, <1>12, <1>5 DEF SkipPoint, Moves, Steps
  <2> QED
    BY <2>1, <1>12, <1>4 DEF SkipPoint, Done
<1> QED
  BY <1>6, <1>7, <1>8, <1>9, <1>10, <1>11, <1>12
-----------------------------------------------------------------------------
\* A row is stored at the second it is stamped, of a read within the request.
LEMMA RowStep ==
  ASSUME PricesInv, NEW c \in Askers, NEW kept \in BOOLEAN,
         StampAndStore(c, kept) \/ StoreFallback(c, kept)
  PROVE  PricesInv'
<1> USE PriceNumbersHold DEF PriceNumbers
<1> DEFINE here == ask[c]
<1>1. /\ here \in Asking /\ here.from <= seconds /\ here.mark <= seconds
      /\ here.step # "idle" => seconds - here.from <= PATIENCE
      /\ seconds \in Nat
      /\ HoldsRecent(c, here)
  BY DEF PricesInv, PriceTypes, AskersKeepTime, AskersHoldRecent
<1>2. UNCHANGED <<seconds, points, raced, baseline>>
  BY DEF StampAndStore, StoreFallback
<1>3. ASSUME NEW next \in Asking, ask' = [ask EXCEPT ![c] = next],
             next.from = here.from, next.mark = here.mark, next.step \in {"record", "answer"},
             here.step # "idle",
             HoldsRecent(c, next),
             RowIsRecent', priceRow' \in Reads \union {NoPrice}
      PROVE  PricesInv'
  <2>1. /\ ask' \in [Askers -> Asking] /\ AskersKeepTime' /\ AskersHoldRecent'
        /\ ask'[c] = next /\ \A d \in Askers \ {c} : ask'[d] = ask[d]
    <3>1. next.from <= seconds /\ next.mark <= seconds /\ seconds - next.from <= PATIENCE
      BY <1>1, <1>3
    <3> HIDE DEF here
    <3> QED
      BY <1>2, <1>3, <3>1, AskerMovesOn, Zenon
  <2>2. OneInsertsSpaced'
    <3>1. ~MayInsert(c)'
      BY <2>1, <1>3 DEF MayInsert
    <3> QED
      BY <1>2, <2>1, <3>1, NobodyNewInserts
  <2>3. PriceTypes'
    BY <1>2, <1>3, <2>1 DEF PricesInv, PriceTypes
  <2> QED
    BY <1>3, <2>1, <2>2, <2>3 DEF PricesInv
<1>4. PricesInv /\ priceRow' = priceRow => RowIsRecent' /\ priceRow' \in Reads \union {NoPrice}
  BY <1>2 DEF PricesInv, RowIsRecent, PriceTypes
<1>5. CASE StoreFallback(c, kept)
  <2> DEFINE next == [here EXCEPT !.step = "answer"]
  <2>1. next \in Asking /\ next.from = here.from /\ next.mark = here.mark /\ next.step = "answer" /\ next.price = here.price
    BY <1>1 DEF Asking, Steps
  <2>2. ask' = [ask EXCEPT ![c] = next] /\ here.step = "fallback"
    BY <1>5 DEF StoreFallback, Moves
  <2>3. HoldsRecent(c, next)
    BY <1>1, <2>1, <2>2 DEF HoldsRecent, JustRead, Reads, Asking
  <2>4. RowIsRecent' /\ priceRow' \in Reads \union {NoPrice}
    <3>1. CASE kept
      BY <1>1, <1>2, <1>5, <2>2, <3>1 DEF StoreFallback, RowIsRecent, HoldsRecent, JustRead, Reads
    <3> QED
      BY <3>1, <1>4, <1>5 DEF StoreFallback
  <2> HIDE DEF next, here
  <2> QED
    BY <1>3, <2>1, <2>2, <2>3, <2>4
<1>6. CASE StampAndStore(c, kept)
  <2> DEFINE price == [here.price EXCEPT !.fetchedAt = seconds]
             next == [here EXCEPT !.step = "record", !.price = price]
  <2>1. /\ ask' = [ask EXCEPT ![c] = next] /\ here.step = "store"
        /\ priceRow' = IF kept THEN price ELSE priceRow
    BY <1>6 DEF StampAndStore, Takes
  <2>2. here.price \in Reads /\ here.from <= here.price.read /\ here.price.read <= seconds
    BY <1>1, <2>1 DEF HoldsRecent, JustRead
  <2>3. price \in Reads /\ price.read = here.price.read /\ price.fetchedAt = seconds
    BY <1>1, <2>2 DEF Reads
  <2> HIDE DEF price
  <2>4. /\ next \in Asking /\ next.from = here.from /\ next.mark = here.mark
        /\ next.step = "record" /\ next.price = price
    BY <1>1, <2>3 DEF Asking, Steps
  <2> HIDE DEF next
  <2>5. here.from \in Nat /\ here.price.read \in Nat
    BY <1>1, <2>2 DEF Asking, Reads
  <2>6. seconds - here.from <= PATIENCE
    BY <1>1, <2>1
  <2>7. HoldsRecent(c, next)
    BY <2>2, <2>3, <2>4, <2>5 DEF HoldsRecent
  <2>8. RowIsRecent' /\ priceRow' \in Reads \union {NoPrice}
    <3>1. CASE kept
      <4>1. price.fetchedAt - price.read <= PATIENCE /\ price.read <= price.fetchedAt
        BY <1>1, <2>2, <2>3, <2>5, <2>6
      <4> QED
        BY <1>1, <1>2, <2>1, <2>3, <3>1, <4>1 DEF RowIsRecent
    <3> QED
      BY <3>1, <1>4, <2>1
  <2> HIDE DEF here
  <2> QED
    BY <1>3, <2>1, <2>4, <2>7, <2>8
<1> QED
  BY <1>5, <1>6
-----------------------------------------------------------------------------
\* A point found due lies the spacing after the latest, and one that is
\* inserted is the only one that may be.
LEMMA PointStep ==
  ASSUME PricesInv, NEW c \in Askers, NEW kept \in BOOLEAN,
         PointIsDue(c) \/ InsertPoint(c, kept)
  PROVE  PricesInv'
<1> USE PriceNumbersHold DEF PriceNumbers
<1> DEFINE here == ask[c]
<1>1. /\ here \in Asking /\ here.from <= seconds /\ here.mark <= seconds
      /\ here.step # "idle" => seconds - here.from <= PATIENCE
      /\ seconds \in Nat
      /\ HoldsRecent(c, here)
      /\ points \in SUBSET (0 .. seconds)
  BY DEF PricesInv, PriceTypes, AskersKeepTime, AskersHoldRecent
<1>2. UNCHANGED <<seconds, priceRow, baseline>>
  BY DEF PointIsDue, InsertPoint
<1>3. ASSUME NEW next \in Asking, ask' = [ask EXCEPT ![c] = next],
             next.from <= seconds, next.mark <= seconds,
             next.step # "idle" => seconds - next.from <= PATIENCE,
             HoldsRecent(c, next),
             points' \in SUBSET (0 .. seconds), raced' \in BOOLEAN,
             /\ ask'[c] = next
             /\ \A d \in Askers \ {c} : ask'[d] = ask[d]
             => OneInsertsSpaced'
      PROVE  PricesInv'
  <2> HIDE DEF here
  <2>1. /\ ask' \in [Askers -> Asking] /\ AskersKeepTime' /\ AskersHoldRecent'
        /\ ask'[c] = next /\ \A d \in Askers \ {c} : ask'[d] = ask[d]
    BY <1>2, <1>3, AskerMovesOn, Zenon
  <2>2. PriceTypes'
    BY <1>1, <1>2, <1>3, <2>1 DEF PricesInv, PriceTypes
  <2>3. RowIsRecent'
    BY <1>2 DEF PricesInv, RowIsRecent
  <2> QED
    BY <1>3, <2>1, <2>2, <2>3 DEF PricesInv
<1>4. CASE PointIsDue(c)
  <2> DEFINE due == IF c \in Quoters THEN "insert" ELSE "pool"
             next == [here EXCEPT !.step = due, !.mark = seconds]
  <2>1. /\ ask' = [ask EXCEPT ![c] = next] /\ here.step = "record" /\ ~TooSoon
        /\ points' = points /\ raced' = (raced \/ Recording(c))
    BY <1>4 DEF PointIsDue
  <2>2. /\ next \in Asking /\ next.from = here.from /\ next.mark = seconds
        /\ next.step = due /\ next.price = here.price
    BY <1>1 DEF Asking, Steps
  <2>3. HoldsRecent(c, next)
    BY <1>1, <2>1, <2>2 DEF HoldsRecent
  <2>4. \A p \in points : seconds - p >= SPACING
    <3> SUFFICES ASSUME NEW p \in points
                 PROVE  seconds - p >= SPACING
      OBVIOUS
    <3>1. Max(points) \in points /\ \A x \in points : x <= Max(points)
      BY <1>1, GreatestUpTo
    <3>2. ~(seconds - Max(points) < SPACING)
      BY <2>1, <3>1 DEF TooSoon
    <3> HIDE DEF here, next, due
    <3>4. \A x \in points : x \in Nat
      BY <1>1
    <3>3. Max(points) \in Nat /\ p \in Nat /\ p <= Max(points)
      BY <3>1, <3>4
    <3> QED
      BY <1>1, <3>2, <3>3
  <2>5. raced' \in BOOLEAN
    BY <2>1 DEF PricesInv, PriceTypes
  <2>6. ASSUME ask'[c] = next, \A d \in Askers \ {c} : ask'[d] = ask[d]
        PROVE  OneInsertsSpaced'
    <3> SUFFICES ASSUME raced' = FALSE
                 PROVE  /\ \A a, b \in Askers : MayInsert(a)' /\ MayInsert(b)' => a = b
                        /\ \A a \in Askers : MayInsert(a)' => \A p \in points : ask'[a].mark - p >= SPACING
                        /\ \A p, q \in points : p < q => q - p >= SPACING
      BY <2>1 DEF OneInsertsSpaced
    <3>1. raced = FALSE /\ ~Recording(c)
      BY <2>1 DEF PricesInv, PriceTypes
    <3>2. \A a \in Askers : MayInsert(a)' => a = c
      BY <2>6, <3>1 DEF Recording, MayInsert
    <3>3. ask'[c].mark = seconds
      BY <2>2, <2>6
    <3> HIDE DEF next, here, due
    <3>4. \A p, q \in points : p < q => q - p >= SPACING
      BY <3>1 DEF PricesInv, OneInsertsSpaced
    <3>5. \A a \in Askers : MayInsert(a)' => \A p \in points : ask'[a].mark - p >= SPACING
      BY <2>4, <3>2, <3>3
    <3>6. \A a, b \in Askers : MayInsert(a)' /\ MayInsert(b)' => a = b
      BY <3>2
    <3> QED
      BY <3>4, <3>5, <3>6
  <2>7. /\ next.from <= seconds /\ next.mark <= seconds /\ seconds - next.from <= PATIENCE
        /\ points' \in SUBSET (0 .. seconds)
    BY <1>1, <2>1, <2>2
  <2> HIDE DEF next, due, here
  <2> QED
    BY <1>3, <2>1, <2>2, <2>3, <2>5, <2>6, <2>7
<1>5. CASE InsertPoint(c, kept)
  <2>1. PICK next \in {Rest, [here EXCEPT !.step = "answer"]} :
          /\ ask' = [ask EXCEPT ![c] = next]
          /\ c \notin Quoters => next = Rest
    BY <1>5 DEF InsertPoint, Moves, Done
  <2>2. /\ here.step = "insert" /\ raced' = raced
        /\ points' = IF kept THEN points \union {here.mark} ELSE points
    BY <1>5 DEF InsertPoint, Moves, Done
  <2>3. /\ next \in Asking /\ next.from <= seconds /\ next.mark <= seconds
        /\ next.step \in {"idle", "answer"} /\ (next.step # "idle" => seconds - next.from <= PATIENCE)
    <3>1. CASE next = Rest
      BY <1>1, <3>1 DEF Rest, Asking, Steps
    <3>2. CASE next = [here EXCEPT !.step = "answer"]
      BY <1>1, <2>2, <3>2 DEF Asking, Steps
    <3> QED
      BY <2>1, <3>1, <3>2
  <2>4. HoldsRecent(c, next)
    <3>1. CASE next = Rest
      BY <3>1 DEF HoldsRecent, Rest
    <3>2. CASE next # Rest
      <4>1. c \in Quoters /\ next = [here EXCEPT !.step = "answer"]
        BY <2>1, <3>2
      <4>2. next.step = "answer" /\ next.from = here.from /\ next.price = here.price
        BY <1>1, <4>1 DEF Asking
      <4> QED
        BY <1>1, <2>2, <4>1, <4>2 DEF HoldsRecent
    <3> QED
      BY <3>1, <3>2
  <2>5. here.mark \in Nat
    BY <1>1 DEF Asking
  <2>6. points' \in SUBSET (0 .. seconds)
    BY <1>1, <2>2, <2>5
  <2>7. ASSUME ask'[c] = next, \A d \in Askers \ {c} : ask'[d] = ask[d]
        PROVE  OneInsertsSpaced'
    <3> SUFFICES ASSUME raced = FALSE
                 PROVE  /\ \A a \in Askers : ~MayInsert(a)'
                        /\ \A p, q \in points' : p < q => q - p >= SPACING
      BY <2>2 DEF OneInsertsSpaced
    <3>1. MayInsert(c)
      BY <2>2 DEF MayInsert
    <3>2. \A a \in Askers \ {c} : ~MayInsert(a)
      BY <3>1 DEF PricesInv, OneInsertsSpaced
    <3>3. \A a \in Askers : ~MayInsert(a)'
      BY <2>3, <2>7, <3>2 DEF MayInsert
    <3>4. /\ \A p \in points : here.mark - p >= SPACING
          /\ \A p, q \in points : p < q => q - p >= SPACING
      BY <3>1 DEF PricesInv, OneInsertsSpaced
    <3> HIDE DEF here
    <3>5. \A p, q \in points \union {here.mark} : p < q => q - p >= SPACING
      BY <1>1, <2>5, <3>4
    <3> QED
      BY <2>2, <3>3, <3>4, <3>5
  <2>8. raced' \in BOOLEAN
    BY <2>2 DEF PricesInv, PriceTypes
  <2>9. next \in Asking /\ ask' = [ask EXCEPT ![c] = next]
    BY <2>1, <2>3
  <2> HIDE DEF here
  <2> QED
    BY <1>3, <2>3, <2>4, <2>6, <2>7, <2>8, <2>9
<1> QED
  BY <1>4, <1>5

LEMMA PricesStep == PricesInv /\ [PricesNext]_priceVars => PricesInv'
<1> SUFFICES ASSUME PricesInv, [PricesNext]_priceVars
             PROVE  PricesInv'
  OBVIOUS
<1>1. CASE FetchBaseline
  BY <1>1 DEF FetchBaseline, PricesInv, PriceTypes, AskersKeepTime, RowIsRecent, AskersHoldRecent,
              HoldsRecent, JustRead, OneInsertsSpaced, MayInsert
<1>2. CASE SecondPassesBy
  <2>1. /\ seconds' = seconds + 1 /\ seconds \in Nat
        /\ UNCHANGED <<priceRow, points, ask, raced, baseline>>
        /\ \A a \in Askers : ask[a] # Rest => seconds - ask[a].from < PATIENCE
    BY <1>2 DEF SecondPassesBy, PricesInv, PriceTypes
  <2>2. PriceTypes'
    BY <2>1 DEF PricesInv, PriceTypes
  <2>3. AskersKeepTime'
    <3> SUFFICES ASSUME NEW a \in Askers
                 PROVE  /\ ask[a].from <= seconds + 1 /\ ask[a].mark <= seconds + 1
                        /\ ask[a].step # "idle" => (seconds + 1) - ask[a].from <= PATIENCE
      BY <2>1 DEF AskersKeepTime
    <3>1. ask[a].from \in Nat /\ ask[a].mark \in Nat
      BY DEF PricesInv, PriceTypes, Asking
    <3>2. ask[a].step # "idle" => ask[a] # Rest
      BY DEF Rest
    <3>3. ask[a].from <= seconds /\ ask[a].mark <= seconds
      BY DEF PricesInv, AskersKeepTime
    <3>4. ask[a].step # "idle" => seconds - ask[a].from < PATIENCE
      BY <2>1, <3>2
    <3> QED
      BY <2>1, <3>1, <3>3, <3>4, PriceNumbersHold DEF PriceNumbers
  <2>4. RowIsRecent'
    BY <2>1 DEF PricesInv, RowIsRecent, Reads
  <2>5. AskersHoldRecent'
    <3> SUFFICES ASSUME NEW a \in Askers
                 PROVE  HoldsRecent(a, ask[a])'
      BY DEF AskersHoldRecent
    <3>1. HoldsRecent(a, ask[a])
      BY DEF PricesInv, AskersHoldRecent
    <3>2. JustRead(ask[a]) => JustRead(ask[a])'
      BY <2>1 DEF JustRead, Reads
    <3> QED
      BY <2>1, <3>1, <3>2 DEF HoldsRecent
  <2>6. OneInsertsSpaced'
    BY <2>1 DEF PricesInv, OneInsertsSpaced, MayInsert
  <2> QED
    BY <2>2, <2>3, <2>4, <2>5, <2>6 DEF PricesInv
<1>3. CASE UNCHANGED priceVars
  BY <1>3 DEF priceVars, PricesInv, PriceTypes, AskersKeepTime, RowIsRecent, AskersHoldRecent,
              HoldsRecent, JustRead, OneInsertsSpaced, MayInsert
<1> QED
  BY <1>1, <1>2, <1>3, AskerStep, RowStep, PointStep DEF PricesNext
-----------------------------------------------------------------------------
(***************************************************************************)
(* Times in order.  The time of a set that has k earlier ones exists: of   *)
(* those with at least k, take the least; the time just before it has one  *)
(* fewer earlier, which is fewer than k.                                   *)
(***************************************************************************)
LEMMA FewerBefore ==
  ASSUME NEW T, IsFiniteSet(T), T \in SUBSET Nat, NEW t \in T, NEW u \in T
  PROVE  /\ Cardinality(Before(t, T)) \in Nat
         /\ u < t => Cardinality(Before(u, T)) < Cardinality(Before(t, T))
<1>1. IsFiniteSet(Before(t, T)) /\ Cardinality(Before(t, T)) \in Nat
  BY FS_Subset, FS_CardinalityType DEF Before
<1>2. CASE u < t
  <2>1. Before(u, T) \in SUBSET Before(t, T)
    <3>1. \A x \in T : x < u => x < t
      BY <1>2
    <3> QED
      BY <3>1 DEF Before
  <2>2. u \in Before(t, T) /\ u \notin Before(u, T)
    BY <1>2 DEF Before
  <2>3. /\ IsFiniteSet(Before(u, T))
        /\ Cardinality(Before(u, T)) <= Cardinality(Before(t, T))
        /\ Cardinality(Before(t, T)) = Cardinality(Before(u, T)) => Before(t, T) = Before(u, T)
    BY <1>1, <2>1, FS_Subset
  <2>4. Cardinality(Before(u, T)) \in Nat
    BY <2>3, FS_CardinalityType
  <2> QED
    BY <1>1, <2>2, <2>3, <2>4
<1> QED
  BY <1>1, <1>2

LEMMA CountedBelow ==
  ASSUME NEW top \in Nat, NEW T \in SUBSET (0 .. top)
  PROVE  IsFiniteSet(T) /\ T \in SUBSET Nat /\ Cardinality(T) \in Nat
<1>1. IsFiniteSet(0 .. top)
  BY FS_Interval
<1>2. IsFiniteSet(T)
  BY <1>1, FS_Subset
<1> QED
  BY <1>2, FS_CardinalityType

LEMMA PlaceIsTaken ==
  ASSUME NEW top \in Nat, NEW T \in SUBSET (0 .. top), NEW k \in Nat, k < Cardinality(T)
  PROVE  \E t \in T : Cardinality(Before(t, T)) = k
<1>1. IsFiniteSet(T) /\ T \in SUBSET Nat /\ Cardinality(T) \in Nat
  BY CountedBelow
<1>2. \A t \in T : Cardinality(Before(t, T)) \in Nat
  BY <1>1, FewerBefore
<1>3. T # {}
  BY <1>1, FS_EmptySet
<1> DEFINE last == Max(T)
           late == {t \in T : Cardinality(Before(t, T)) >= k}
<1>4. last \in T /\ \A x \in T : x <= last
  BY <1>3, GreatestUpTo
<1>5. Cardinality(Before(last, T)) = Cardinality(T) - 1
  <2> HIDE DEF last
  <2>1. Before(last, T) = T \ {last}
    <3>1. \A x \in T : x < last <=> x # last
      BY <1>1, <1>4
    <3> QED
      BY <3>1 DEF Before
  <2> QED
    BY <1>1, <1>4, <2>1, FS_RemoveElement
<1>6. last \in late
  <2> HIDE DEF last
  <2>1. Cardinality(Before(last, T)) >= k
    BY <1>1, <1>5
  <2> QED
    BY <1>4, <2>1
<1> DEFINE t == Min(late)
<1>7. t \in late /\ \A x \in late : t <= x
  <2>1. late \in SUBSET Nat /\ late # {}
    BY <1>1, <1>6
  <2> HIDE DEF late
  <2> QED
    BY <2>1, LeastOfNaturals
<1>8. CASE Before(t, T) = {}
  <2>1. Cardinality(Before(t, T)) = 0
    BY <1>8, FS_EmptySet
  <2>2. t \in T /\ Cardinality(Before(t, T)) >= k
    BY <1>7
  <2> HIDE DEF t
  <2> QED
    BY <2>1, <2>2
<1>9. CASE Before(t, T) # {}
  <2> DEFINE B == Before(t, T)
             u == Max(B)
  <2>1. t \in T /\ Cardinality(B) >= k
    BY <1>7
  <2> HIDE DEF t
  <2>2. B \in SUBSET (0 .. top) /\ IsFiniteSet(B)
    BY <1>1, FS_Subset DEF Before
  <2>3. u \in B /\ \A x \in B : x <= u
    BY <1>9, <2>2, GreatestUpTo
  <2>4. u \in T /\ u < t /\ u \in Nat /\ t \in Nat
    BY <1>1, <2>1, <2>3 DEF Before
  <2>5. Before(u, T) = B \ {u}
    <3> HIDE DEF u
    <3>1. \A x \in T : x < u => x < t
      BY <1>1, <2>4
    <3>2. \A x \in T : x < t /\ x # u => x < u
      <4> SUFFICES ASSUME NEW x \in T, x < t, x # u
                   PROVE  x < u
        OBVIOUS
      <4>1. x \in B
        BY DEF Before
      <4>2. x <= u /\ x \in Nat
        BY <1>1, <2>3, <4>1
      <4> QED
        BY <2>4, <4>2
    <3>3. ~(u < u)
      BY <2>4
    <3> QED
      BY <2>4, <3>1, <3>2, <3>3 DEF Before
  <2>6. Cardinality(Before(u, T)) = Cardinality(B) - 1
    <3> HIDE DEF u, B
    <3> QED
      BY <2>2, <2>3, <2>5, FS_RemoveElement
  <2>7. ~(Cardinality(Before(u, T)) >= k)
    <3> HIDE DEF u
    <3>1. ~(t <= u)
      BY <2>4
    <3> QED
      BY <1>7, <2>4, <3>1
  <2>8. Cardinality(B) \in Nat
    BY <1>2, <2>1
  <2> HIDE DEF u, B
  <2>9. Cardinality(B) = k
    BY <2>1, <2>6, <2>7, <2>8
  <2> QED
    BY <2>1, <2>9 DEF B
<1> QED
  BY <1>8, <1>9

LEMMA LineIsInOrder ==
  ASSUME NEW top \in Nat, NEW T \in SUBSET (0 .. top)
  PROVE  /\ InOrder(T) \in Seq(Nat)
         /\ \A i \in 1 .. Len(InOrder(T)) : InOrder(T)[i] \in T
         /\ \A i \in 1 .. Len(InOrder(T)) - 1 : InOrder(T)[i] < InOrder(T)[i + 1]
<1> DEFINE line == InOrder(T)
           n == Cardinality(T)
<1>1. IsFiniteSet(T) /\ T \in SUBSET Nat /\ n \in Nat
  BY CountedBelow
<1>2. \A i \in 1 .. n : line[i] \in T /\ Cardinality(Before(line[i], T)) = i - 1
  <2> SUFFICES ASSUME NEW i \in 1 .. n
               PROVE  line[i] \in T /\ Cardinality(Before(line[i], T)) = i - 1
    OBVIOUS
  <2>1. line[i] = CHOOSE t \in T : Cardinality(Before(t, T)) = i - 1
    BY DEF InOrder
  <2> HIDE DEF line
  <2>2. i - 1 \in Nat /\ i - 1 < n
    BY <1>1
  <2>3. \E t \in T : Cardinality(Before(t, T)) = i - 1
    BY <2>2, PlaceIsTaken
  <2> QED
    BY <2>1, <2>3, Zenon
<1>3. line \in [1 .. n -> T]
  <2>1. line = [i \in 1 .. n |-> line[i]]
    BY DEF InOrder
  <2> HIDE DEF line
  <2> QED
    BY <1>2, <2>1
<1> HIDE DEF line
<1>4. line \in Seq(Nat) /\ Len(line) = n
  <2>1. line \in [1 .. n -> Nat]
    BY <1>1, <1>3
  <2> QED
    BY <1>1, <2>1
<1>5. \A i \in 1 .. n - 1 : line[i] < line[i + 1]
  <2> SUFFICES ASSUME NEW i \in 1 .. n - 1
               PROVE  line[i] < line[i + 1]
    OBVIOUS
  <2>1. i \in 1 .. n /\ i + 1 \in 1 .. n /\ i \in Nat
    BY <1>1
  <2>2. /\ line[i] \in T /\ Cardinality(Before(line[i], T)) = i - 1
        /\ line[i + 1] \in T /\ Cardinality(Before(line[i + 1], T)) = (i + 1) - 1
    BY <1>2, <2>1
  <2>3. line[i + 1] < line[i] => (i + 1) - 1 < i - 1
    <3>1. line[i + 1] < line[i] => Cardinality(Before(line[i + 1], T)) < Cardinality(Before(line[i], T))
      BY <1>1, <2>2, FewerBefore
    <3> QED
      BY <2>2, <3>1
  <2>4. line[i] # line[i + 1]
    <3> SUFFICES ASSUME line[i] = line[i + 1]
                 PROVE  FALSE
      OBVIOUS
    <3>1. i - 1 = (i + 1) - 1
      BY <2>2
    <3> QED
      BY <2>1, <3>1
  <2>5. line[i] \in Nat /\ line[i + 1] \in Nat
    BY <1>1, <2>2
  <2> QED
    BY <2>1, <2>3, <2>4, <2>5
<1> QED
  BY <1>2, <1>4, <1>5 DEF line

LEMMA LinesJoin ==
  ASSUME NEW s \in Seq(Nat), NEW t \in Seq(Nat),
         \A i \in 1 .. Len(s) - 1 : s[i] < s[i + 1],
         \A i \in 1 .. Len(t) - 1 : t[i] < t[i + 1],
         \A i \in 1 .. Len(s), j \in 1 .. Len(t) : s[i] < t[j]
  PROVE  \A i \in 1 .. Len(s \o t) - 1 : (s \o t)[i] < (s \o t)[i + 1]
<1>1. Len(s) \in Nat /\ Len(t) \in Nat /\ Len(s \o t) = Len(s) + Len(t)
  OBVIOUS
<1>2. /\ \A i \in 1 .. Len(s) : (s \o t)[i] = s[i]
      /\ \A i \in Len(s) + 1 .. Len(s) + Len(t) : (s \o t)[i] = t[i - Len(s)]
  OBVIOUS
<1> SUFFICES ASSUME NEW i \in 1 .. Len(s) + Len(t) - 1
             PROVE  (s \o t)[i] < (s \o t)[i + 1]
  BY <1>1
<1>3. CASE i + 1 <= Len(s)
  <2>1. i \in 1 .. Len(s) - 1 /\ i \in 1 .. Len(s) /\ i + 1 \in 1 .. Len(s)
    BY <1>1, <1>3
  <2> QED
    BY <1>2, <2>1
<1>4. CASE i = Len(s)
  <2>1. i \in 1 .. Len(s) /\ i + 1 \in Len(s) + 1 .. Len(s) + Len(t) /\ (i + 1) - Len(s) = 1 /\ 1 \in 1 .. Len(t)
    BY <1>1, <1>4
  <2> QED
    BY <1>2, <2>1
<1>5. CASE i > Len(s)
  <2>1. /\ i \in Len(s) + 1 .. Len(s) + Len(t) /\ i + 1 \in Len(s) + 1 .. Len(s) + Len(t)
        /\ i - Len(s) \in 1 .. Len(t) - 1 /\ (i + 1) - Len(s) = (i - Len(s)) + 1
    BY <1>1, <1>5
  <2> QED
    BY <1>2, <2>1
<1> QED
  BY <1>1, <1>3, <1>4, <1>5

LEMMA ChartIsInOrder == PricesInv => ChartIsOneSeries
<1> SUFFICES ASSUME PricesInv
             PROVE  ChartIsOneSeries
  OBVIOUS
<1> DEFINE own == InOrder(OwnPoints)
           old == InOrder(Historical)
<1>1. seconds \in Nat /\ OwnPoints \in SUBSET (0 .. seconds)
  BY DEF PricesInv, PriceTypes, OwnPoints
<1>2. PICK top \in Nat : Historical \in SUBSET (0 .. top)
  <2>1. CASE baseline = NoPrice
    <3>1. Historical = {}
      BY <2>1 DEF Historical, Series
    <3> QED
      BY <3>1
  <2>2. CASE baseline \in Nat /\ baseline # NoPrice
    BY <2>2 DEF Historical, Series
  <2> QED
    BY <2>1, <2>2 DEF PricesInv, PriceTypes
<1>3. \A t \in Historical, p \in OwnPoints : t < p
  BY DEF Historical
<1>4. /\ own \in Seq(Nat) /\ old \in Seq(Nat)
      /\ \A i \in 1 .. Len(own) - 1 : own[i] < own[i + 1]
      /\ \A i \in 1 .. Len(old) - 1 : old[i] < old[i + 1]
      /\ \A i \in 1 .. Len(old) : old[i] \in Historical
      /\ \A j \in 1 .. Len(own) : own[j] \in OwnPoints
  BY <1>1, <1>2, LineIsInOrder
<1>5. Chart = own \/ Chart = old \o own
  BY DEF Chart
<1> HIDE DEF own, old
<1>7. \A i \in 1 .. Len(old), j \in 1 .. Len(own) : old[i] < own[j]
  BY <1>3, <1>4
<1>9. \A i \in 1 .. Len(old \o own) - 1 : (old \o own)[i] < (old \o own)[i + 1]
  BY <1>4, <1>7, LinesJoin
<1> QED
  BY <1>4, <1>5, <1>9 DEF ChartIsOneSeries

LEMMA PricesFollow == PricesInv => PricesAreTrue
<1> SUFFICES ASSUME PricesInv
             PROVE  PricesAreTrue
  OBVIOUS
<1>1. PricesTypeOK
  <2>1. \A c \in Askers : ask[c] \in Asking /\ ask[c].from <= seconds /\ ask[c].mark <= seconds
    BY DEF PricesInv, PriceTypes, AskersKeepTime
  <2>2. seconds \in Nat /\ points \subseteq 0 .. seconds /\ raced \in BOOLEAN
    BY DEF PricesInv, PriceTypes
  <2>3. \A c \in Askers : ask[c].from \in 0 .. seconds /\ ask[c].mark \in 0 .. seconds /\ ask[c].step \in Steps
    BY <2>1, <2>2 DEF Asking
  <2> QED
    BY <2>2, <2>3, Zenon DEF PricesTypeOK, Steps
<1>2. PriceIsRecent
  <2> SUFFICES ASSUME NEW c \in Quoters, ask[c].step = "answer"
               PROVE  seconds - ask[c].price.read <= CACHE_SECONDS + 2 * PATIENCE
    BY DEF PriceIsRecent
  <2>1. c \in Askers
    BY DEF Askers
  <2>2. /\ ask[c].price \in Reads /\ ask[c].from - ask[c].price.read <= CACHE_SECONDS + PATIENCE
        /\ seconds - ask[c].from <= PATIENCE /\ ask[c] \in Asking /\ seconds \in Nat
    BY <2>1 DEF PricesInv, AskersHoldRecent, HoldsRecent, AskersKeepTime, PriceTypes
  <2>3. ask[c].from \in Nat /\ ask[c].price.read \in Nat
    BY <2>2 DEF Asking, Reads
  <2> QED
    BY <2>2, <2>3, PriceNumbersHold DEF PriceNumbers
<1>3. PointsSpaced
  BY DEF PricesInv, PriceTypes, OneInsertsSpaced, PointsSpaced
<1> QED
  BY <1>1, <1>2, <1>3, ChartIsInOrder DEF PricesAreTrue

\* Every step of the readers is a step of the price, or leaves it.
LEMMA ReadersStepPrices == [ReadersNext]_readerVars => [PricesNext]_priceVars
  BY DEF ReadersNext, Plays, readerVars

(***************************************************************************)
(* For any number of requests and recording runs, any lives and spacing: a *)
(* price answered as fresh was read within the row's life and two          *)
(* requests, points are spaced unless recording runs overlapped, and a     *)
(* chart is one series, wherever baseline and own points meet.             *)
(***************************************************************************)
THEOREM PricesStayTrue == ReadersSpec => []PricesAreTrue
<1>1. ReadersInit => PricesInv
  BY PricesStart DEF ReadersInit
<1>2. PricesInv /\ [ReadersNext]_readerVars => PricesInv'
  BY PricesStep, ReadersStepPrices
<1>3. PricesInv => PricesAreTrue
  BY PricesFollow
<1> QED
  BY <1>1, <1>2, <1>3, PTL DEF ReadersSpec
-----------------------------------------------------------------------------
(***************************************************************************)
(* The walks over endpoints.  An endpoint that has been up since the walk  *)
(* began answers when it is tried, so it is untried for as long as the     *)
(* walk goes on; and a reply with a value for each of as many calls as     *)
(* were asked has one for every call, in whatever order.                   *)
(***************************************************************************)
WholeKinds == {"checked", "prices"}
PlainKinds == {"block", "call", "balances"}

WalkTypes ==
  /\ caller \in Single \union Batch /\ todo \in SUBSET (0 .. CALLS)
  /\ left \in [0 .. CALLS -> SUBSET Endpoints]
  /\ answer \in [Calls -> Calls \union {Nil}] /\ \A i \in Calls : answer[i] \in {i, Nil}
  /\ up \in SUBSET Endpoints /\ stayed \in SUBSET up

WholeInv == caller \in WholeKinds =>
  /\ todo \in SUBSET {0}
  /\ 0 \in todo => stayed \subseteq left[0] /\ \A i \in Calls : answer[i] = Nil
  /\ 0 \notin todo => \/ \A i \in Calls : answer[i] = i
                      \/ stayed = {} /\ \A i \in Calls : answer[i] = Nil

PlainInv == caller \in PlainKinds =>
  /\ todo \in SUBSET {1}
  /\ 1 \in todo => stayed \subseteq left[1]
  /\ 1 \notin todo => answer[1] = 1 \/ stayed = {}

WalkInv == WalkTypes /\ WholeInv /\ PlainInv

WalkNumbers == CALLS \in Nat \ {0} /\ Nil \notin Nat

LEMMA WalkNumbersHold == WalkNumbers
  BY EndpointWalkAssumption DEF WalkNumbers

LEMMA WalkStarts == WalkInit => WalkInv
  BY WalkNumbersHold DEF WalkNumbers, WalkInit, WalkInv, WalkTypes, WholeInv, PlainInv, WholeKinds, PlainKinds,
                         Single, Batch, Calls

Enters(reply, ids, entries) == \A k \in DOMAIN reply :
  reply[k].id \in ids /\ reply[k] = [id |-> reply[k].id, is |-> entries[reply[k].id]]
Lists(reply, ids) == \A i \in ids : \E k \in DOMAIN reply : reply[k].id = i

\* A reply to some of the calls lists each of them once.
LEMMA OrderedReply ==
  ASSUME NEW ids \in SUBSET Calls, NEW F, NEW entries \in [ids -> F], NEW reply \in Ordered(entries)
  PROVE  /\ Len(reply) = Cardinality(ids) /\ DOMAIN reply = 1 .. Cardinality(ids)
         /\ Enters(reply, ids, entries)
         /\ Lists(reply, ids)
<1> DEFINE n == Cardinality(ids)
<1>1. IsFiniteSet(ids) /\ n \in Nat
  <2>1. IsFiniteSet(Calls)
    BY WalkNumbersHold, FS_Interval DEF WalkNumbers, Calls
  <2>2. IsFiniteSet(ids)
    BY <2>1, FS_Subset
  <2> QED
    BY <2>2, FS_CardinalityType
<1>2. PICK order \in SetToSeqs(DOMAIN entries) :
        reply = [k \in DOMAIN order |-> [id |-> order[k], is |-> entries[order[k]]]]
  BY DEF Ordered
<1>3. order \in [1 .. n -> ids] /\ \A i, j \in 1 .. n : i # j => order[i] # order[j]
  BY <1>2 DEF SetToSeqs
<1>4. \A i \in ids : \E k \in 1 .. n : order[k] = i
  <2>1. order \in Injection(1 .. n, ids)
    BY <1>3 DEF Injection, IsInjective
  <2>2. IsFiniteSet(1 .. n) /\ Cardinality(1 .. n) = n
    BY <1>1, FS_Interval
  <2>3. order \in Surjection(1 .. n, ids)
    BY <1>1, <2>1, <2>2, FS_Injection
  <2> QED
    BY <2>3 DEF Surjection
<1> HIDE DEF n
<1>5. DOMAIN order = 1 .. n
  BY <1>3
<1>6. DOMAIN reply = 1 .. n
  BY <1>2, <1>5
<1>7. \A k \in 1 .. n : reply[k].id = order[k] /\ order[k] \in ids
                        /\ reply[k] = [id |-> order[k], is |-> entries[order[k]]]
  BY <1>2, <1>3, <1>5
<1>8. Len(reply) = n
  <2>1. reply = [k \in 1 .. n |-> [id |-> order[k], is |-> entries[order[k]]]]
    BY <1>2, <1>5
  <2> QED
    BY <1>1, <2>1
<1>9. /\ \A k \in DOMAIN reply : reply[k].id \in ids /\ reply[k] = [id |-> reply[k].id, is |-> entries[reply[k].id]]
      /\ \A i \in ids : \E k \in DOMAIN reply : reply[k].id = i
  <2>1. \A k \in 1 .. n : reply[k].id \in ids /\ reply[k] = [id |-> reply[k].id, is |-> entries[reply[k].id]]
    <3> SUFFICES ASSUME NEW k \in 1 .. n
                 PROVE  reply[k].id \in ids /\ reply[k] = [id |-> reply[k].id, is |-> entries[reply[k].id]]
      OBVIOUS
    <3>1. reply[k].id = order[k] /\ order[k] \in ids /\ reply[k] = [id |-> order[k], is |-> entries[order[k]]]
      BY <1>7
    <3> QED
      BY <3>1, Zenon
  <2>2. \A i \in ids : \E k \in 1 .. n : reply[k].id = i
    <3> SUFFICES ASSUME NEW i \in ids
                 PROVE  \E k \in 1 .. n : reply[k].id = i
      OBVIOUS
    <3>1. PICK k \in 1 .. n : order[k] = i
      BY <1>4
    <3>2. reply[k].id = i
      BY <1>7, <3>1
    <3> QED
      BY <3>2
  <2> QED
    BY <1>6, <2>1, <2>2, Zenon
<1> QED
  BY <1>6, <1>8, <1>9 DEF n, Enters, Lists

LEMMA RepliesAnswer ==
  ASSUME NEW e \in Endpoints, NEW reply \in Replies(e)
  PROVE  /\ e \in up => Accepted(reply)
         /\ Fates(reply) \subseteq {"value"} /\ Len(reply) = CALLS
              => \A i \in Calls : AnswersOf(reply)[i] = i
<1>1. IsFiniteSet(Calls) /\ Cardinality(Calls) = CALLS
  BY WalkNumbersHold, FS_Interval DEF WalkNumbers, Calls
<1>2. ASSUME NEW ids \in SUBSET Calls, NEW F, NEW entries \in [ids -> F], reply \in Ordered(entries),
             Fates(reply) \subseteq {"value"}, Len(reply) = CALLS, NEW i \in Calls
      PROVE  AnswersOf(reply)[i] = i
  <2>1. ids = Calls
    <3>1. Cardinality(ids) = Cardinality(Calls)
      BY <1>1, <1>2, OrderedReply
    <3> QED
      BY <1>1, <3>1, FS_Subset
  <2>2. PICK k \in DOMAIN reply : reply[k].id = i
    <3>1. Lists(reply, ids)
      BY <1>2, OrderedReply
    <3> QED
      BY <2>1, <3>1 DEF Lists
  <2>3. reply[k] = [id |-> reply[k].id, is |-> entries[reply[k].id]]
    <3>1. Enters(reply, ids, entries)
      BY <1>2, OrderedReply
    <3> QED
      BY <2>2, <3>1 DEF Enters
  <2>4. reply[k].is \in Fates(reply)
    BY DEF Fates
  <2>5. reply[k] = [id |-> i, is |-> "value"]
    BY <1>2, <2>2, <2>3, <2>4
  <2> QED
    BY <2>5 DEF AnswersOf
<1>3. CASE e \in up
  <2> DEFINE entries == [i \in Calls |-> "value"]
  <2>1. reply \in Ordered(entries) /\ entries \in [Calls -> {"value"}]
    BY <1>3 DEF Replies
  <2> HIDE DEF entries
  <2>2. Len(reply) = CALLS
    BY <1>1, <2>1, OrderedReply
  <2>3. \A k \in DOMAIN reply : reply[k].id \in Calls /\ reply[k].is = entries[reply[k].id]
    <3>1. Enters(reply, Calls, entries)
      BY <2>1, OrderedReply
    <3> QED
      BY <3>1 DEF Enters
  <2>4. Fates(reply) \subseteq {"value"}
    BY <2>1, <2>3 DEF Fates
  <2>5. Accepted(reply)
    BY <2>2, <2>4 DEF Accepted, CheckedTakes, PricesTake, UncheckedTakes, RpcBatchTakes
  <2> QED
    BY <1>2, <2>1, <2>5
<1>4. CASE e \notin up
  <2>1. reply = NoArray \/ \E ids \in SUBSET Calls : \E entries \in [ids -> {"value", "error", "nothing"}] :
                             reply \in Ordered(entries)
    BY <1>4 DEF Replies, Entries
  <2>2. CASE reply = NoArray
    <3>1. 1 \in DOMAIN reply /\ reply[1].is = "noarray"
      BY <2>2 DEF NoArray
    <3>2. "noarray" \in Fates(reply)
      BY <3>1 DEF Fates
    <3> QED
      BY <1>4, <3>2
  <2> QED
    BY <1>2, <1>4, <2>1, <2>2
<1> QED
  BY <1>3, <1>4
-----------------------------------------------------------------------------
LEMMA WalkStep == WalkInv /\ [WalkNext]_walkVars => WalkInv'
<1> SUFFICES ASSUME WalkInv, [WalkNext]_walkVars
             PROVE  WalkInv'
  OBVIOUS
<1> USE WalkNumbersHold DEF WalkNumbers
<1>0. /\ WalkTypes /\ WholeInv /\ PlainInv
      /\ 0 \in 0 .. CALLS /\ 1 \in 0 .. CALLS /\ 1 \in Calls /\ 0 \notin Calls /\ Calls \subseteq 0 .. CALLS
  BY DEF WalkInv, Calls
<1>1. ASSUME NEW what \in Single \union Batch, Ask(what)
      PROVE  WalkInv'
  <2>1. what \in WholeKinds => what \in Batch
    BY DEF WholeKinds, Batch
  <2>2. what \in PlainKinds => what \notin Batch
    BY DEF PlainKinds, Batch
  <2>3. /\ caller' = what /\ todo' = (IF what \in Batch THEN {0} ELSE {1})
        /\ left' = [w \in 0 .. CALLS |-> Endpoints] /\ answer' = [i \in Calls |-> Nil]
        /\ stayed' = up /\ up' = up
    BY <1>1 DEF Ask
  <2>4. WalkTypes'
    BY <1>0, <2>3 DEF WalkTypes
  <2>5. left'[0] = Endpoints /\ left'[1] = Endpoints /\ stayed' \subseteq Endpoints
    BY <1>0, <2>3 DEF WalkTypes
  <2>6. WholeInv'
    BY <2>1, <2>3, <2>5 DEF WholeInv
  <2>7. PlainInv'
    BY <2>2, <2>3, <2>5 DEF PlainInv
  <2> QED
    BY <2>4, <2>6, <2>7 DEF WalkInv
<1>2. ASSUME NEW e \in Endpoints, NEW reply \in Replies(e), TryBatch(e, reply)
      PROVE  WalkInv'
  <2>1. 0 \in todo /\ e \in left[0] /\ UNCHANGED <<caller, up, stayed>>
    BY <1>2 DEF TryBatch
  <2>2. caller \notin PlainKinds
    BY <1>0, <2>1 DEF PlainInv
  <2>3. CASE Accepted(reply)
    <3>1. answer' = AnswersOf(reply) /\ todo' = {} /\ left' = left
      BY <1>2, <2>3 DEF TryBatch
    <3>2. AnswersOf(reply) \in [Calls -> Calls \union {Nil}] /\ \A i \in Calls : AnswersOf(reply)[i] \in {i, Nil}
      BY DEF AnswersOf
    <3>3. WalkTypes'
      BY <1>0, <2>1, <3>1, <3>2 DEF WalkTypes
    <3>4. caller \in WholeKinds => Fates(reply) \subseteq {"value"} /\ Len(reply) = CALLS
      BY <2>3 DEF Accepted, WholeKinds, CheckedTakes, PricesTake
    <3>5. WholeInv'
      BY <2>1, <3>1, <3>4, RepliesAnswer DEF WholeInv
    <3> QED
      BY <2>1, <2>2, <3>3, <3>5 DEF WalkInv, PlainInv
  <2>4. CASE ~Accepted(reply)
    <3>1. e \notin up
      BY <2>4, RepliesAnswer
    <3>2. left' = [left EXCEPT ![0] = @ \ {e}] /\ UNCHANGED <<answer, todo>>
      BY <1>2, <2>4 DEF TryBatch, AfterFailure
    <3>3. WalkTypes'
      BY <1>0, <2>1, <3>2 DEF WalkTypes
    <3>4. e \notin stayed /\ left'[0] = left[0] \ {e}
      BY <1>0, <3>1, <3>2 DEF WalkTypes
    <3>5. WholeInv'
      BY <1>0, <2>1, <3>2, <3>4 DEF WholeInv
    <3> QED
      BY <2>1, <2>2, <3>3, <3>5 DEF WalkInv, PlainInv
  <2> QED
    BY <2>3, <2>4
<1>3. ASSUME NEW e \in Endpoints, NEW w \in 0 .. CALLS, Throws(w, e)
      PROVE  WalkInv'
  <2>1. /\ left' = [left EXCEPT ![w] = @ \ {e}] /\ e \notin up
        /\ UNCHANGED <<caller, todo, answer, up, stayed>>
    BY <1>3 DEF Throws, AfterFailure
  <2>2. WalkTypes'
    BY <1>0, <2>1 DEF WalkTypes
  <2>3. \A v \in 0 .. CALLS : stayed \subseteq left[v] => stayed \subseteq left'[v]
    BY <1>0, <2>1 DEF WalkTypes
  <2>4. WholeInv' /\ PlainInv'
    BY <1>0, <2>1, <2>3 DEF WholeInv, PlainInv
  <2> QED
    BY <2>2, <2>4 DEF WalkInv
<1>4. ASSUME NEW e \in Endpoints, NEW i \in Calls, NEW is \in {"value", "error", "nothing"}, TryAlone(i, e, is)
      PROVE  WalkInv'
  <2>1. i \in todo /\ i # 0 /\ i \in 0 .. CALLS /\ e \in left[i] /\ (e \in up => is = "value") /\ UNCHANGED <<caller, up, stayed>>
    BY <1>0, <1>4 DEF TryAlone, Alone
  <2>2. caller \notin WholeKinds
    BY <1>0, <2>1 DEF WholeInv
  <2>3. CASE Ends(is)
    <3>1. /\ answer' = [answer EXCEPT ![i] = IF is = "value" THEN i ELSE Nil]
          /\ todo' = todo \ {i} /\ left' = left
      BY <1>4, <2>3 DEF TryAlone
    <3>2. WalkTypes'
      BY <1>0, <2>1, <3>1 DEF WalkTypes
    <3>3. caller \in PlainKinds => is = "value" /\ i = 1
      BY <1>0, <2>1, <2>3 DEF Ends, PlainKinds, PlainInv, BlockTakes, CallTakes, BalancesTake
    <3>4. caller \in PlainKinds => answer'[1] = 1
      BY <1>0, <3>1, <3>3 DEF WalkTypes
    <3>5. PlainInv'
      BY <1>0, <2>1, <3>1, <3>3, <3>4 DEF PlainInv
    <3> QED
      BY <2>1, <2>2, <3>2, <3>5 DEF WalkInv, WholeInv
  <2>4. CASE ~Ends(is)
    <3>1. e \notin up
      BY <2>1, <2>4 DEF Ends, BlockTakes, CallTakes, BalancesTake, LogsTake, HoldsTake, RpcTakes
    <3>2. left' = [left EXCEPT ![i] = @ \ {e}] /\ UNCHANGED <<answer, todo>>
      BY <1>4, <2>4 DEF TryAlone, AfterFailure
    <3>3. WalkTypes'
      BY <1>0, <2>1, <3>2 DEF WalkTypes
    <3>4. \A v \in 0 .. CALLS : stayed \subseteq left[v] => stayed \subseteq left'[v]
      BY <1>0, <3>1, <3>2 DEF WalkTypes
    <3>5. PlainInv'
      BY <1>0, <2>1, <3>2, <3>4 DEF PlainInv
    <3> QED
      BY <2>1, <2>2, <3>3, <3>5 DEF WalkInv, WholeInv
  <2> QED
    BY <2>3, <2>4
<1>5. ASSUME NEW e \in Endpoints, Flaps(e)
      PROVE  WalkInv'
  <2>1. /\ up' = (IF e \in up THEN up \ {e} ELSE up \union {e}) /\ stayed' = stayed \ {e}
        /\ UNCHANGED <<caller, todo, left, answer>>
    BY <1>5 DEF Flaps
  <2>2. WalkTypes'
    BY <1>0, <2>1 DEF WalkTypes
  <2>3. stayed' \subseteq stayed
    BY <2>1
  <2>4. WholeInv' /\ PlainInv'
    BY <1>0, <2>1, <2>3 DEF WholeInv, PlainInv
  <2> QED
    BY <2>2, <2>4 DEF WalkInv
<1>6. ASSUME NEW i \in Calls, PoolServes(i)
      PROVE  WalkInv'
  <2>1. caller \in {"rpc", "batch"} /\ caller \notin PlainKinds /\ caller \notin WholeKinds
    BY <1>6 DEF PoolServes, PlainKinds, WholeKinds
  <2>2. /\ answer' = [answer EXCEPT ![i] = i] /\ todo' = todo \ {i} /\ UNCHANGED <<caller, left, up, stayed>>
    BY <1>6 DEF PoolServes
  <2>3. WalkTypes'
    BY <1>0, <2>2 DEF WalkTypes
  <2> QED
    BY <2>1, <2>2, <2>3 DEF WalkInv, WholeInv, PlainInv
<1>7. ASSUME NEW i \in Calls, GivesUp(i)
      PROVE  WalkInv'
  <2>1. i \in todo /\ i # 0 /\ left[i] = {} /\ todo' = todo \ {i} /\ UNCHANGED <<caller, left, answer, up, stayed>>
    BY <1>0, <1>7 DEF GivesUp, Alone
  <2>2. caller \notin WholeKinds
    BY <1>0, <2>1 DEF WholeInv
  <2>3. WalkTypes'
    BY <1>0, <2>1 DEF WalkTypes
  <2>4. PlainInv'
    BY <1>0, <2>1 DEF PlainInv
  <2> QED
    BY <2>1, <2>2, <2>3, <2>4 DEF WalkInv, WholeInv
<1>8. CASE BatchGivesUp
  <2>1. /\ 0 \in todo /\ left[0] = {} /\ UNCHANGED <<caller, left, answer, up>>
        /\ todo' = (IF caller = "batch" THEN Calls ELSE {})
        /\ stayed' = (IF caller = "batch" THEN up ELSE stayed)
    BY <1>8 DEF BatchGivesUp
  <2>2. caller \notin PlainKinds
    BY <1>0, <2>1 DEF PlainInv
  <2>3. WalkTypes'
    BY <1>0, <2>1 DEF WalkTypes
  <2>4. caller \in WholeKinds => caller # "batch"
    BY DEF WholeKinds
  <2>5. WholeInv'
    BY <1>0, <2>1, <2>4 DEF WholeInv
  <2> QED
    BY <2>1, <2>2, <2>3, <2>5 DEF WalkInv, PlainInv
<1>9. CASE UNCHANGED walkVars
  BY <1>0, <1>9 DEF walkVars, WalkInv, WalkTypes, WholeInv, PlainInv
<1> QED
  BY <1>1, <1>2, <1>3, <1>4, <1>5, <1>6, <1>7, <1>8, <1>9 DEF WalkNext

LEMMA WalkFollows == WalkInv => WalksAreTrue
<1> SUFFICES ASSUME WalkInv
             PROVE  WalksAreTrue
  OBVIOUS
<1> USE WalkNumbersHold DEF WalkNumbers
<1>0. WalkTypes /\ WholeInv /\ PlainInv /\ \A i \in Calls : i # Nil
  BY DEF WalkInv, Calls
<1>1. WalkTypeOK
  BY <1>0 DEF WalkTypes, WalkTypeOK
<1>2. WalkFindsAnswer
  <2> SUFFICES ASSUME todo = {}, caller \in WholeKinds \union PlainKinds, stayed # {}, NEW i \in Asked
               PROVE  answer[i] # Nil
    BY DEF WalkFindsAnswer, WholeKinds, PlainKinds
  <2>1. CASE caller \in WholeKinds
    BY <1>0, <2>1 DEF WholeInv, Asked, WholeKinds, Batch
  <2>2. CASE caller \in PlainKinds
    <3>1. i = 1 /\ 1 \in Calls
      BY <2>2 DEF Asked, PlainKinds, Batch, Calls
    <3> QED
      BY <1>0, <2>2, <3>1 DEF PlainInv
  <2> QED
    BY <2>1, <2>2
<1>3. AnswersAreReal
  <2>1. \A i \in Calls : answer[i] \in {i, Nil}
    BY <1>0 DEF WalkTypes
  <2>2. todo = {} /\ caller \in WholeKinds => (\A i \in Calls : answer[i] = i) \/ (\A i \in Calls : answer[i] = Nil)
    BY <1>0 DEF WholeInv
  <2> QED
    BY <2>1, <2>2 DEF AnswersAreReal, WholeKinds
<1> QED
  BY <1>1, <1>2, <1>3 DEF WalksAreTrue

\* Every step of the readers is a step of the walks, or leaves them.
LEMMA ReadersStepWalks == [ReadersNext]_readerVars => [WalkNext]_walkVars
  BY DEF ReadersNext, Plays, readerVars

(***************************************************************************)
(* For any endpoints, calls and outages: a call that one endpoint could    *)
(* have answered throughout is answered, no call gets another's answer,    *)
(* and a checked batch is answered whole or not at all.                    *)
(***************************************************************************)
THEOREM WalksStayTrue == ReadersSpec => []WalksAreTrue
<1>1. ReadersInit => WalkInv
  BY WalkStarts DEF ReadersInit
<1>2. WalkInv /\ [ReadersNext]_readerVars => WalkInv'
  BY WalkStep, ReadersStepWalks
<1>3. WalkInv => WalksAreTrue
  BY WalkFollows
<1> QED
  BY <1>1, <1>2, <1>3, PTL DEF ReadersSpec
-----------------------------------------------------------------------------
(***************************************************************************)
(* The decoders.  A text lies at a word of a sequence when its length is   *)
(* that word and its own words follow.  Wherever a sequence is put before  *)
(* or after, the text lies where it is moved to; so each string of an      *)
(* answer lies where its offset says, and a decoder that finds the offset  *)
(* reads the string or finds that the answer ends before it.               *)
(***************************************************************************)
TextNames == {"e", "n", "t", "u", "d", "l"}
Word == [n : Nat, of : TextNames \union {"number"}, part : Nat]

IsText(t) ==
  /\ t = [len |-> t.len, words |-> t.words]
  /\ t.len \in Nat /\ Chunks(t.len) \in Nat
  /\ t.words \in Seq(Word) /\ Len(t.words) = Chunks(t.len)

LiesAt(seq, t, at) ==
  /\ at + 1 + Chunks(t.len) <= Len(seq)
  /\ seq[at + 1] = Num(t.len)
  /\ \A k \in 1 .. Chunks(t.len) : seq[at + 1 + k] = t.words[k]

LEMMA NumIsWord == \A n \in Nat : Num(n) \in Word /\ Num(n).n = n
  BY DEF Num, Word, TextNames

LEMMA TextsAreTexts ==
  ASSUME NEW name \in TextNames, NEW t \in Texts(name)
  PROVE  IsText(t) /\ t.len \in Lengths
<1>1. PICK len \in Lengths : t = Text(name, len)
  BY DEF Texts
<1>2. len \in Nat /\ Chunks(len) \in Nat
  BY <1>1, AbiDecodeAssumption DEF Chunks
<1>3. \A k \in 1 .. Chunks(len) : Part(name, k) \in Word
  BY <1>2 DEF Part, Word
<1>4. t.words = [k \in 1 .. Chunks(len) |-> Part(name, k)] /\ t.len = len
  BY <1>1 DEF Text
<1>5. t.words \in Seq(Word) /\ Len(t.words) = Chunks(len)
  BY <1>2, <1>3, <1>4
<1> QED
  BY <1>1, <1>2, <1>4, <1>5 DEF IsText, Text

LEMMA StoredFacts ==
  ASSUME NEW t, IsText(t)
  PROVE  /\ Stored(t) \in Seq(Word) /\ Len(Stored(t)) = 1 + Chunks(t.len)
         /\ LiesAt(Stored(t), t, 0)
<1>1. <<Num(t.len)>> \in Seq(Word) /\ Len(<<Num(t.len)>>) = 1 /\ <<Num(t.len)>>[1] = Num(t.len)
  BY NumIsWord DEF IsText
<1>2. /\ Stored(t) \in Seq(Word) /\ Len(Stored(t)) = 1 + Chunks(t.len)
      /\ \A i \in 1 .. 1 + Chunks(t.len) :
           Stored(t)[i] = IF i <= 1 THEN <<Num(t.len)>>[i] ELSE t.words[i - 1]
  BY <1>1, ConcatProperties DEF Stored, IsText
<1>3. Chunks(t.len) \in Nat
  BY DEF IsText
<1>4. Stored(t)[0 + 1] = Num(t.len)
  <2>1. 0 + 1 \in 1 .. 1 + Chunks(t.len) /\ 0 + 1 <= 1 /\ 0 + 1 = 1
    BY <1>3
  <2> QED
    BY <1>1, <1>2, <2>1
<1>5. ASSUME NEW k \in 1 .. Chunks(t.len) PROVE Stored(t)[0 + 1 + k] = t.words[k]
  <2>1. 0 + 1 + k \in 1 .. 1 + Chunks(t.len) /\ ~(0 + 1 + k <= 1) /\ 0 + 1 + k - 1 = k
    BY <1>3
  <2> QED
    BY <1>2, <2>1
<1>6. 0 + 1 + Chunks(t.len) <= 1 + Chunks(t.len)
  BY <1>3
<1> QED
  BY <1>2, <1>4, <1>5, <1>6 DEF LiesAt

LEMMA LiesAfter ==
  ASSUME NEW a \in Seq(Word), NEW r \in Seq(Word), NEW t, IsText(t), NEW at \in Nat, LiesAt(r, t, at)
  PROVE  LiesAt(a \o r, t, Len(a) + at)
<1>1. /\ Len(a) \in Nat /\ Len(r) \in Nat /\ Len(a \o r) = Len(a) + Len(r)
      /\ \A i \in 1 .. Len(a) + Len(r) : (a \o r)[i] = IF i <= Len(a) THEN a[i] ELSE r[i - Len(a)]
  BY ConcatProperties, LenProperties
<1>2. Chunks(t.len) \in Nat /\ at + 1 + Chunks(t.len) <= Len(r)
  BY DEF LiesAt, IsText
<1>0. Len(a) \in Nat /\ Len(r) \in Nat
  BY LenProperties
<1>3. ASSUME NEW k \in 0 .. Chunks(t.len)
      PROVE  (a \o r)[Len(a) + at + 1 + k] = r[at + 1 + k]
  <2> DEFINE j == Len(a) + at + 1 + k
  <2>1. j \in 1 .. Len(a) + Len(r) /\ ~(j <= Len(a)) /\ j - Len(a) = at + 1 + k
    BY <1>0, <1>2
  <2> HIDE DEF j
  <2>2. (a \o r)[j] = r[j - Len(a)]
    BY <1>1, <2>1
  <2> QED
    BY <2>1, <2>2 DEF j
<1>4. (a \o r)[Len(a) + at + 1] = Num(t.len)
  <2>1. 0 \in 0 .. Chunks(t.len) /\ Len(a) + at + 1 + 0 = Len(a) + at + 1 /\ at + 1 + 0 = at + 1
    BY <1>0, <1>2
  <2>2. (a \o r)[Len(a) + at + 1 + 0] = r[at + 1 + 0]
    BY <1>3, <2>1, Zenon
  <2> QED
    BY <2>1, <2>2 DEF LiesAt
<1>5. ASSUME NEW k \in 1 .. Chunks(t.len)
      PROVE  (a \o r)[Len(a) + at + 1 + k] = t.words[k]
  <2>1. k \in 0 .. Chunks(t.len)
    BY <1>2
  <2>2. (a \o r)[Len(a) + at + 1 + k] = r[at + 1 + k]
    BY <1>3, <2>1, Zenon
  <2> QED
    BY <2>2 DEF LiesAt
<1> QED
  BY <1>1, <1>2, <1>4, <1>5 DEF LiesAt

LEMMA LiesBefore ==
  ASSUME NEW r \in Seq(Word), NEW b \in Seq(Word), NEW t, IsText(t), NEW at \in Nat, LiesAt(r, t, at)
  PROVE  LiesAt(r \o b, t, at)
<1>1. /\ Len(b) \in Nat /\ Len(r) \in Nat /\ Len(r \o b) = Len(r) + Len(b)
      /\ \A i \in 1 .. Len(r) + Len(b) : (r \o b)[i] = IF i <= Len(r) THEN r[i] ELSE b[i - Len(r)]
  BY ConcatProperties, LenProperties
<1>2. \A k \in 0 .. Chunks(t.len) : (r \o b)[at + 1 + k] = r[at + 1 + k]
  <2> SUFFICES ASSUME NEW k \in 0 .. Chunks(t.len) PROVE (r \o b)[at + 1 + k] = r[at + 1 + k]
    OBVIOUS
  <2>1. at + 1 + k \in 1 .. Len(r) /\ Chunks(t.len) \in Nat
    BY <1>1 DEF LiesAt, IsText
  <2> QED
    BY <1>1, <2>1
<1>3. Chunks(t.len) \in Nat /\ at + 1 + Chunks(t.len) <= Len(r)
  BY DEF LiesAt, IsText
<1>4. (r \o b)[at + 1] = Num(t.len)
  <2>1. 0 \in 0 .. Chunks(t.len) /\ at + 1 + 0 = at + 1
    BY <1>3
  <2>2. (r \o b)[at + 1 + 0] = r[at + 1 + 0]
    BY <1>2, <2>1, Zenon
  <2> QED
    BY <2>1, <2>2 DEF LiesAt
<1>5. ASSUME NEW k \in 1 .. Chunks(t.len) PROVE (r \o b)[at + 1 + k] = t.words[k]
  <2>1. k \in 0 .. Chunks(t.len)
    BY <1>3
  <2>2. (r \o b)[at + 1 + k] = r[at + 1 + k]
    BY <1>2, <2>1, Zenon
  <2> QED
    BY <2>2 DEF LiesAt
<1>6. at + 1 + Chunks(t.len) <= Len(r \o b)
  <2>1. Len(r) \in Nat /\ Len(b) \in Nat /\ Len(r \o b) = Len(r) + Len(b)
    BY <1>1
  <2> QED
    BY <1>3, <2>1
<1> QED
  BY <1>4, <1>5, <1>6 DEF LiesAt

(***************************************************************************)
(* FlattenSeq, a recursion under a CHOOSE, for up to four sequences: the   *)
(* equation has a solution, which is written out, and so what it chooses.  *)
(***************************************************************************)
Joined(s, i) ==
  IF i = 1 THEN s[1]
  ELSE IF i = 2 THEN s[1] \o s[2]
  ELSE IF i = 3 THEN (s[1] \o s[2]) \o s[3]
  ELSE ((s[1] \o s[2]) \o s[3]) \o s[4]

LEMMA JoinedIs ==
  ASSUME NEW s
  PROVE  /\ Joined(s, 1) = s[1] /\ Joined(s, 2) = s[1] \o s[2]
         /\ Joined(s, 3) = (s[1] \o s[2]) \o s[3] /\ Joined(s, 4) = ((s[1] \o s[2]) \o s[3]) \o s[4]
  BY DEF Joined

LEMMA FlattenUpToFour ==
  ASSUME NEW s, Len(s) \in 1 .. 4
  PROVE  FlattenSeq(s) = Joined(s, Len(s))
<1> DEFINE Joins(f) == f = [i \in 1 .. Len(s) |-> IF i = 1 THEN s[i] ELSE f[i - 1] \o s[i]]
           flat == CHOOSE f : Joins(f)
           joined == [i \in 1 .. Len(s) |-> Joined(s, i)]
<1>0. Len(s) # 0
  OBVIOUS
<1>1. FlattenSeq(s) = flat[Len(s)]
  BY <1>0, Zenon DEF FlattenSeq
<1>2. Joins(joined)
  <2>1. \A i \in 1 .. Len(s) : joined[i] = IF i = 1 THEN s[i] ELSE joined[i - 1] \o s[i]
    BY DEF Joined
  <2> QED
    BY <2>1
<1>3. Joins(flat)
  BY <1>2
<1>4. \A i \in 1 .. Len(s) : flat[i] = IF i = 1 THEN s[i] ELSE flat[i - 1] \o s[i]
  BY <1>3
<1> HIDE DEF flat
<1>5. flat[1] = s[1]
  BY <1>4
<1>6. ASSUME Len(s) >= 2 PROVE flat[2] = s[1] \o s[2]
  <2>1. 2 \in 1 .. Len(s) /\ 2 # 1 /\ 2 - 1 = 1
    BY <1>6
  <2>2. flat[2] = flat[2 - 1] \o s[2]
    BY <1>4, <2>1, Zenon
  <2> QED
    BY <1>5, <2>1, <2>2
<1>7. ASSUME Len(s) >= 3 PROVE flat[3] = (s[1] \o s[2]) \o s[3]
  <2>1. 3 \in 1 .. Len(s) /\ 3 # 1 /\ 3 - 1 = 2
    BY <1>7
  <2>2. flat[3] = flat[3 - 1] \o s[3]
    BY <1>4, <2>1, Zenon
  <2>3. flat[2] = s[1] \o s[2]
    <3>1. Len(s) >= 2
      BY <1>7
    <3> QED
      BY <1>6, <3>1, Zenon
  <2> QED
    BY <2>1, <2>2, <2>3, Zenon
<1>8. ASSUME Len(s) >= 4 PROVE flat[4] = ((s[1] \o s[2]) \o s[3]) \o s[4]
  <2>1. 4 \in 1 .. Len(s) /\ 4 # 1 /\ 4 - 1 = 3
    BY <1>8
  <2>2. flat[4] = flat[4 - 1] \o s[4]
    BY <1>4, <2>1, Zenon
  <2>3. flat[3] = (s[1] \o s[2]) \o s[3]
    <3>1. Len(s) >= 3
      BY <1>8
    <3> QED
      BY <1>7, <3>1, Zenon
  <2> QED
    BY <2>1, <2>2, <2>3, Zenon
<1>9. /\ Joined(s, 1) = s[1] /\ Joined(s, 2) = s[1] \o s[2]
      /\ Joined(s, 3) = (s[1] \o s[2]) \o s[3] /\ Joined(s, 4) = ((s[1] \o s[2]) \o s[3]) \o s[4]
  BY JoinedIs
<1>10. Len(s) = 1 \/ Len(s) = 2 \/ Len(s) = 3 \/ Len(s) = 4
  OBVIOUS
<1>11. CASE Len(s) = 1
  BY <1>1, <1>5, <1>9, <1>11, Zenon
<1>12. CASE Len(s) = 2
  <2>1. flat[2] = s[1] \o s[2]
    BY <1>6, <1>12
  <2> QED
    BY <1>1, <1>9, <1>12, <2>1, Zenon
<1>13. CASE Len(s) = 3
  <2>1. Len(s) >= 3
    BY <1>13
  <2> QED
    BY <1>1, <1>7, <1>9, <1>13, <2>1, Zenon
<1>14. CASE Len(s) = 4
  <2>1. Len(s) >= 4
    BY <1>14
  <2> QED
    BY <1>1, <1>8, <1>9, <1>14, <2>1, Zenon
<1> QED
  BY <1>10, <1>11, <1>12, <1>13, <1>14
-----------------------------------------------------------------------------
(***************************************************************************)
(* What reaches a decoder: a sequence that agrees with the whole one as    *)
(* far as it goes.                                                         *)
(***************************************************************************)
Received(whole) ==
  /\ words \in Seq(Word) /\ Len(words) <= Len(whole)
  /\ \A i \in 1 .. Len(words) : words[i] = whole[i]

LEMMA PrefixIsReceived ==
  ASSUME NEW whole \in Seq(Word), words \in Seq(Word), IsPrefix(words, whole)
  PROVE  Received(whole)
<1>1. Len(words) \in Nat /\ Len(whole) \in Nat /\ Len(words) <= Len(whole)
  BY LenProperties DEF IsPrefix
<1>2. SubSeq(words, 1, Len(words)) = words /\ SubSeq(words, 1, Len(words)) = SubSeq(whole, 1, Len(words))
  BY SubSeqFull DEF IsPrefix
<1>3. \A i \in 1 .. Len(words) : SubSeq(whole, 1, Len(words))[i] = whole[i]
  <2>1. \A i \in 1 .. Len(words) : whole[i] \in Word
    BY <1>1, ElementOfSeq
  <2>2. \A i \in 1 .. Len(words) - 1 + 1 : SubSeq(whole, 1, Len(words))[i] = whole[1 + i - 1]
    BY <1>1, <2>1, SubSeqProperties
  <2> QED
    BY <1>1, <2>2
<1> QED
  BY <1>1, <1>2, <1>3 DEF Received

LEMMA WordIsRead ==
  ASSUME NEW whole \in Seq(Word), Received(whole), NEW i \in Nat, Has(i)
  PROVE  At(i) = whole[i + 1].n
  BY LenProperties DEF Received, Has, At

LEMMA TextIsRead ==
  ASSUME NEW whole \in Seq(Word), Received(whole), NEW t, IsText(t), NEW at \in Nat, LiesAt(whole, t, at)
  PROVE  /\ Has(at) => At(at) = t.len
         /\ Holds(at + 1, t.len) => Slice(at + 1, t.len) = t
         /\ words = whole => Has(at) /\ Holds(at + 1, t.len)
<1>0. Len(words) \in Nat /\ Len(whole) \in Nat /\ Chunks(t.len) \in Nat
  BY LenProperties DEF Received, IsText
<1>1. Has(at) => At(at) = t.len
  <2>1. whole[at + 1].n = t.len
    BY DEF LiesAt, Num
  <2> QED
    BY <2>1, WordIsRead
<1>2. ASSUME Holds(at + 1, t.len) PROVE Slice(at + 1, t.len) = t
  <2> DEFINE to == at + 1 + Chunks(t.len)
             cut == SubSeq(words, at + 1 + 1, to)
  <2>1. to \in Nat /\ to <= Len(words)
    BY <1>0, <1>2 DEF Holds
  <2>2. \A i \in at + 1 + 1 .. to : words[i] \in Word
    BY <1>0, <2>1, ElementOfSeq DEF Received
  <2>3. /\ cut \in Seq(Word) /\ Len(cut) = Chunks(t.len)
        /\ \A i \in 1 .. Chunks(t.len) : cut[i] = words[at + 1 + i]
    <3>1. /\ cut \in Seq(Word)
          /\ Len(cut) = IF at + 1 + 1 <= to THEN to - (at + 1 + 1) + 1 ELSE 0
          /\ \A i \in 1 .. to - (at + 1 + 1) + 1 : cut[i] = words[at + 1 + 1 + i - 1]
      BY <2>1, <2>2, SubSeqProperties
    <3>2. to - (at + 1 + 1) + 1 = Chunks(t.len)
      BY <1>0
    <3> HIDE DEF cut
    <3>3. Len(cut) = Chunks(t.len)
      BY <1>0, <3>1, <3>2
    <3>4. \A i \in 1 .. Chunks(t.len) : cut[i] = words[at + 1 + i]
      BY <1>0, <3>1, <3>2
    <3> QED
      BY <3>1, <3>3, <3>4
  <2>4. \A i \in 1 .. Chunks(t.len) : words[at + 1 + i] = t.words[i]
    <3> SUFFICES ASSUME NEW i \in 1 .. Chunks(t.len) PROVE words[at + 1 + i] = t.words[i]
      OBVIOUS
    <3>1. at + 1 + i \in 1 .. Len(words)
      BY <1>0, <2>1
    <3>2. words[at + 1 + i] = whole[at + 1 + i]
      BY <3>1, Zenon DEF Received
    <3>3. whole[at + 1 + i] = t.words[i]
      BY Zenon DEF LiesAt
    <3> QED
      BY <3>2, <3>3, Zenon
  <2> HIDE DEF cut
  <2>5. cut = t.words
    BY <2>3, <2>4, SeqEqual DEF IsText
  <2>6. Slice(at + 1, t.len) = [len |-> t.len, words |-> cut]
    BY <1>2 DEF Slice, cut, to
  <2> QED
    BY <2>5, <2>6 DEF IsText
<1>3. words = whole => Has(at) /\ Holds(at + 1, t.len)
  BY <1>0 DEF Has, Holds, LiesAt
<1> QED
  BY <1>1, <1>2, <1>3

\* TextAt finds the string or nothing.
LEMMA TextIsFound ==
  ASSUME NEW whole \in Seq(Word), Received(whole), NEW t, IsText(t), NEW at \in Nat, LiesAt(whole, t, at)
  PROVE  TextAt(at) \in {t, EmptyText} /\ (words = whole => TextAt(at) = t)
  BY TextIsRead DEF TextAt
-----------------------------------------------------------------------------
(***************************************************************************)
(* Strings one after the other.  Each lies behind those before it, which   *)
(* is what its offset says.                                                *)
(***************************************************************************)
StoredEach(ts) == [i \in DOMAIN ts |-> Stored(ts[i])]

LEMMA StoredEachFacts ==
  ASSUME NEW T, \A t \in T : IsText(t), NEW ts \in Seq(T)
  PROVE  /\ StoredEach(ts) \in Seq(Seq(Word)) /\ Len(StoredEach(ts)) = Len(ts)
         /\ \A i \in 1 .. Len(ts) : StoredEach(ts)[i] = Stored(ts[i]) /\ Stored(ts[i]) \in Seq(Word)
<1>1. Len(ts) \in Nat /\ DOMAIN ts = 1 .. Len(ts) /\ \A i \in 1 .. Len(ts) : IsText(ts[i])
  BY LenProperties, ElementOfSeq
<1>2. \A i \in 1 .. Len(ts) : Stored(ts[i]) \in Seq(Word)
  BY <1>1, StoredFacts
<1>3. StoredEach(ts) = [i \in 1 .. Len(ts) |-> Stored(ts[i])]
  BY <1>1 DEF StoredEach
<1>4. StoredEach(ts) \in [1 .. Len(ts) -> Seq(Word)]
  BY <1>2, <1>3
<1>5. StoredEach(ts) \in Seq(Seq(Word))
  BY <1>1, <1>4
<1>6. Len(StoredEach(ts)) = Len(ts)
  BY <1>1, <1>3, <1>5, LenProperties
<1> QED
  BY <1>2, <1>3, <1>5, <1>6

LEMMA StoredAllIsJoined ==
  ASSUME NEW T, \A t \in T : IsText(t), NEW ts \in Seq(T), Len(ts) <= 4
  PROVE  /\ StoredAll(ts) \in Seq(Word)
         /\ Len(ts) = 0 => Len(StoredAll(ts)) = 0
         /\ Len(ts) # 0 => StoredAll(ts) = Joined(StoredEach(ts), Len(ts))
<1> DEFINE F == StoredEach(ts)
<1>1. /\ F \in Seq(Seq(Word)) /\ Len(F) = Len(ts) /\ Len(ts) \in Nat
      /\ \A i \in 1 .. Len(ts) : F[i] \in Seq(Word)
  BY StoredEachFacts, LenProperties
<1>2. StoredAll(ts) = FlattenSeq(F)
  BY DEF StoredAll, StoredEach
<1> HIDE DEF F
<1>3. CASE Len(ts) = 0
  <2>1. FlattenSeq(F) = F
    BY <1>1, <1>3, Zenon DEF FlattenSeq
  <2>2. F = <<>>
    BY <1>1, <1>3, EmptySeq
  <2> QED
    BY <1>2, <1>3, <2>1, <2>2, EmptySeq
<1>4. CASE Len(ts) # 0
  <2>1. Len(F) \in 1 .. 4
    <3>1. Len(ts) \in Nat /\ Len(F) = Len(ts)
      BY <1>1
    <3> QED
      BY <1>4, <3>1
  <2>2. StoredAll(ts) = Joined(F, Len(ts))
    BY <1>1, <1>2, <2>1, FlattenUpToFour
  <2>3. Joined(F, Len(ts)) \in Seq(Word)
    <3>1. \A n \in 1 .. 4 : n <= Len(ts) => F[n] \in Seq(Word)
      BY <1>1
    <3>2. \A a, b \in Seq(Word) : a \o b \in Seq(Word)
      BY ConcatProperties
    <3>3. CASE Len(ts) = 1
      BY <3>1, <3>3 DEF Joined
    <3>4. CASE Len(ts) = 2
      BY <3>1, <3>2, <3>4 DEF Joined
    <3>5. CASE Len(ts) = 3
      BY <3>1, <3>2, <3>5 DEF Joined
    <3>6. CASE Len(ts) = 4
      BY <3>1, <3>2, <3>6 DEF Joined
    <3>7. Len(ts) = 1 \/ Len(ts) = 2 \/ Len(ts) = 3 \/ Len(ts) = 4
      <4>1. Len(F) = Len(ts)
        BY <1>1
      <4> QED
        BY <2>1, <4>1
    <3> QED
      BY <3>3, <3>4, <3>5, <3>6, <3>7, Zenon
  <2> QED
    BY <1>4, <2>2, <2>3 DEF F
<1> QED
  BY <1>3, <1>4

LEMMA OffsetsAreWords ==
  ASSUME NEW T, \A t \in T : IsText(t), NEW ts \in Seq(T), Len(ts) <= 4, NEW head \in Nat
  PROVE  /\ Offsets(ts, head) \in Seq(Word) /\ Len(Offsets(ts, head)) = Len(ts)
         /\ \A i \in 1 .. Len(ts) :
              /\ SubSeq(ts, 1, i - 1) \in Seq(T) /\ Len(SubSeq(ts, 1, i - 1)) = i - 1
              /\ Offsets(ts, head)[i].n = 32 * (head + Len(StoredAll(SubSeq(ts, 1, i - 1))))
<1>1. Len(ts) \in Nat /\ DOMAIN ts = 1 .. Len(ts) /\ \A i \in 1 .. Len(ts) : ts[i] \in T
  BY LenProperties, ElementOfSeq
<1>2. ASSUME NEW i \in 1 .. Len(ts)
      PROVE  /\ SubSeq(ts, 1, i - 1) \in Seq(T) /\ Len(SubSeq(ts, 1, i - 1)) = i - 1
             /\ Len(StoredAll(SubSeq(ts, 1, i - 1))) \in Nat
  <2>1. 1 \in Int /\ i - 1 \in Int /\ i - 1 <= 4 /\ \A j \in 1 .. i - 1 : ts[j] \in T
    BY <1>1
  <2>2. SubSeq(ts, 1, i - 1) \in Seq(T)
    BY <2>1, SubSeqProperties
  <2>3. Len(SubSeq(ts, 1, i - 1)) = IF 1 <= i - 1 THEN i - 1 - 1 + 1 ELSE 0
    BY <2>1, SubSeqProperties
  <2>4. Len(SubSeq(ts, 1, i - 1)) = i - 1
    BY <1>1, <2>3
  <2> QED
    BY <2>1, <2>2, <2>4, StoredAllIsJoined, LenProperties
<1>3. Offsets(ts, head) = [i \in 1 .. Len(ts) |-> OffsetTo(ts, i, head)]
  BY <1>1 DEF Offsets
<1>4. ASSUME NEW i \in 1 .. Len(ts)
      PROVE  /\ OffsetTo(ts, i, head) \in Word
             /\ OffsetTo(ts, i, head).n = 32 * (head + Len(StoredAll(SubSeq(ts, 1, i - 1))))
  <2>1. 32 * (head + Len(StoredAll(SubSeq(ts, 1, i - 1)))) \in Nat
    BY <1>2
  <2> QED
    BY <2>1, NumIsWord DEF OffsetTo
<1>5. Offsets(ts, head) \in Seq(Word)
  <2>1. Offsets(ts, head) \in [1 .. Len(ts) -> Word]
    BY <1>3, <1>4
  <2> QED
    BY <1>1, <2>1
<1>6. Len(Offsets(ts, head)) = Len(ts)
  BY <1>1, <1>3, <1>5, LenProperties
<1> QED
  BY <1>2, <1>3, <1>4, <1>5, <1>6

\* A list of strings, as it stands for the tags of a model.
LEMMA StringArrayIsWords ==
  ASSUME NEW T, \A t \in T : IsText(t), NEW ts \in Seq(T), Len(ts) <= 4
  PROVE  StringArray(ts) \in Seq(Word)
<1>1. Len(ts) \in Nat /\ Num(Len(ts)) \in Word
  BY LenProperties, NumIsWord
<1>2. <<Num(Len(ts))>> \in Seq(Word)
  BY <1>1
<1>3. Offsets(ts, Len(ts)) \in Seq(Word) /\ StoredAll(ts) \in Seq(Word)
  BY <1>1, OffsetsAreWords, StoredAllIsJoined
<1>4. \A a, b \in Seq(Word) : a \o b \in Seq(Word)
  BY ConcatProperties
<1> QED
  BY <1>2, <1>3, <1>4 DEF StringArray
-----------------------------------------------------------------------------
(***************************************************************************)
(* The answers, each with the numbers of its head and where its strings    *)
(* lie.                                                                    *)
(***************************************************************************)
HeadIs(whole, ns) == Len(ns) <= Len(whole) /\ \A i \in 1 .. Len(ns) : whole[i].n = ns[i]

LEMMA RowIsWords ==
  ASSUME NEW ns \in Seq(Nat)
  PROVE  Row(ns) \in Seq(Word) /\ Len(Row(ns)) = Len(ns) /\ HeadIs(Row(ns), ns)
<1>1. Len(ns) \in Nat /\ DOMAIN ns = 1 .. Len(ns) /\ \A i \in 1 .. Len(ns) : ns[i] \in Nat
  BY LenProperties, ElementOfSeq
<1>2. Row(ns) = [i \in 1 .. Len(ns) |-> Num(ns[i])] /\ \A i \in 1 .. Len(ns) : Num(ns[i]) \in Word
  BY <1>1, NumIsWord DEF Row
<1>3. Row(ns) \in [1 .. Len(ns) -> Word]
  BY <1>2
<1>4. Row(ns) \in Seq(Word)
  BY <1>1, <1>3
<1>5. Len(Row(ns)) = Len(ns)
  BY <1>1, <1>2, <1>4, LenProperties
<1> QED
  BY <1>1, <1>2, <1>4, <1>5, NumIsWord DEF HeadIs

\* The numbers of a head followed by other words.
LEMMA HeadStays ==
  ASSUME NEW a \in Seq(Word), NEW b \in Seq(Word), NEW ns \in Seq(Nat), HeadIs(a, ns)
  PROVE  HeadIs(a \o b, ns)
<1>1. Len(a) \in Nat /\ Len(b) \in Nat /\ Len(ns) \in Nat
  BY LenProperties
<1>2. Len(a \o b) = Len(a) + Len(b) /\ \A i \in 1 .. Len(a) + Len(b) : i <= Len(a) => (a \o b)[i] = a[i]
  BY ConcatProperties
<1> QED
  BY <1>1, <1>2 DEF HeadIs

\* A head and a string behind it.
LEMMA HeadThenText ==
  ASSUME NEW ns \in Seq(Nat), NEW t, IsText(t)
  PROVE  /\ Row(ns) \o Stored(t) \in Seq(Word)
         /\ HeadIs(Row(ns) \o Stored(t), ns) /\ LiesAt(Row(ns) \o Stored(t), t, Len(ns))
<1>1. Row(ns) \in Seq(Word) /\ Len(Row(ns)) = Len(ns) /\ HeadIs(Row(ns), ns) /\ Len(ns) \in Nat
  BY RowIsWords, LenProperties
<1>2. Stored(t) \in Seq(Word) /\ LiesAt(Stored(t), t, 0)
  BY StoredFacts
<1>3. LiesAt(Row(ns) \o Stored(t), t, Len(Row(ns)) + 0)
  BY <1>1, <1>2, LiesAfter
<1> QED
  BY <1>1, <1>2, <1>3, HeadStays, ConcatProperties

LEMMA NullHasNoField == DOMAIN Null = {}
  BY EmptySeq, LenProperties DEF Null
-----------------------------------------------------------------------------
\* The numbers and texts that structs are made of.
LEMMA StructParts ==
  /\ Amounts \subseteq Nat /\ \A b \in BOOLEAN : Flag(b) \in Nat /\ (Flag(b) = 0 <=> ~b)
  /\ \A name \in TextNames : \A t \in Texts(name) : IsText(t)
  /\ \A t \in {Text("t", 3), Text("u", 33)} : IsText(t)
<1>1. \A b \in BOOLEAN : Flag(b) \in Nat /\ (Flag(b) = 0 <=> ~b)
  BY DEF Flag
<1>2. ASSUME NEW name \in TextNames, NEW len \in Nat PROVE IsText(Text(name, len))
  <2> DEFINE ws == [k \in 1 .. Chunks(len) |-> Part(name, k)]
  <2>1. Chunks(len) \in Nat
    BY DEF Chunks
  <2>2. \A k \in 1 .. Chunks(len) : Part(name, k) \in Word
    BY <2>1 DEF Part, Word
  <2>3. ws \in [1 .. Chunks(len) -> Word] /\ DOMAIN ws = 1 .. Chunks(len)
    BY <2>2
  <2>4. ws \in Seq(Word)
    BY <2>1, <2>3
  <2>5. Len(ws) = Chunks(len)
    BY <2>1, <2>3, <2>4, LenProperties
  <2> HIDE DEF ws
  <2>6. [len |-> len, words |-> ws].len = len /\ [len |-> len, words |-> ws].words = ws
    OBVIOUS
  <2>7. IsText([len |-> len, words |-> ws])
    BY <2>1, <2>4, <2>5, <2>6 DEF IsText
  <2> QED
    BY <2>7 DEF Text, ws
<1>3. \A name \in TextNames : \A t \in Texts(name) : IsText(t)
  BY <1>2, AbiDecodeAssumption DEF Texts
<1>4. IsText(Text("t", 3)) /\ IsText(Text("u", 33))
  BY <1>2 DEF TextNames
<1> QED
  BY <1>1, <1>3, <1>4, AbiDecodeAssumption

LEMMA ProviderLaidOut ==
  ASSUME struct \in Structs, struct.kind = "provider", NEW whole, whole = Encoded(struct)
  PROVE  /\ whole \in Seq(Word) /\ IsText(struct.endpoint) /\ LiesAt(whole, struct.endpoint, 7)
         /\ DOMAIN struct = {"kind", "stake", "createdAt", "isDeleted", "endpoint"}
         /\ struct.isDeleted \in BOOLEAN /\ Len(whole) >= 7
         /\ whole[2].n = 192 /\ whole[3].n = struct.stake /\ whole[4].n = struct.createdAt
         /\ whole[7].n = Flag(struct.isDeleted)
<1> DEFINE ns == <<32, 192, struct.stake, struct.createdAt, 0, 0, Flag(struct.isDeleted)>>
<1>1. struct \in [kind: {"provider"}, stake: Amounts, createdAt: Amounts, isDeleted: BOOLEAN, endpoint: Texts("e")]
  BY DEF Structs
<1>2. /\ struct.stake \in Nat /\ struct.createdAt \in Nat /\ Flag(struct.isDeleted) \in Nat
      /\ struct.isDeleted \in BOOLEAN /\ IsText(struct.endpoint)
      /\ DOMAIN struct = {"kind", "stake", "createdAt", "isDeleted", "endpoint"}
  BY <1>1, StructParts DEF TextNames
<1>3. ns \in Seq(Nat) /\ Len(ns) = 7
  BY <1>2
<1>4. whole = Row(ns) \o Stored(struct.endpoint)
  BY DEF Encoded
<1>5. /\ ns[2] = 192 /\ ns[3] = struct.stake /\ ns[4] = struct.createdAt /\ ns[7] = Flag(struct.isDeleted)
  OBVIOUS
<1> HIDE DEF ns
<1>6. whole \in Seq(Word) /\ HeadIs(whole, ns) /\ LiesAt(whole, struct.endpoint, 7)
  BY <1>2, <1>3, <1>4, HeadThenText
<1>7. Len(whole) >= 7 /\ \A i \in 1 .. 7 : whole[i].n = ns[i]
  BY <1>3, <1>6, LenProperties DEF HeadIs
<1> QED
  BY <1>2, <1>5, <1>6, <1>7
-----------------------------------------------------------------------------
LEMMA BidLaidOut ==
  ASSUME struct \in Structs, struct.kind = "bid", NEW whole, whole = Encoded(struct)
  PROVE  /\ whole \in Seq(Word) /\ Len(whole) = 6
         /\ DOMAIN struct = {"kind", "provider", "modelId", "price", "createdAt", "deletedAt"}
         /\ whole[1].n = struct.provider /\ whole[2].n = struct.modelId /\ whole[3].n = struct.price
         /\ whole[5].n = struct.createdAt /\ whole[6].n = struct.deletedAt
<1> DEFINE ns == <<struct.provider, struct.modelId, struct.price, 0, struct.createdAt, struct.deletedAt>>
<1>1. struct \in [kind: {"bid"}, provider: Amounts, modelId: Amounts, price: Amounts, createdAt: Amounts,
                  deletedAt: Amounts]
  BY DEF Structs
<1>2. /\ struct.provider \in Nat /\ struct.modelId \in Nat /\ struct.price \in Nat
      /\ struct.createdAt \in Nat /\ struct.deletedAt \in Nat
      /\ DOMAIN struct = {"kind", "provider", "modelId", "price", "createdAt", "deletedAt"}
  BY <1>1, StructParts
<1>3. ns \in Seq(Nat) /\ Len(ns) = 6
  BY <1>2
<1>4. whole = Row(ns)
  BY DEF Encoded
<1>5. /\ ns[1] = struct.provider /\ ns[2] = struct.modelId /\ ns[3] = struct.price
      /\ ns[5] = struct.createdAt /\ ns[6] = struct.deletedAt
  OBVIOUS
<1> HIDE DEF ns
<1>6. whole \in Seq(Word) /\ Len(whole) = 6 /\ HeadIs(whole, ns)
  BY <1>3, <1>4, RowIsWords
<1>7. \A i \in 1 .. 6 : whole[i].n = ns[i]
  BY <1>3, <1>6 DEF HeadIs
<1>8. 1 \in 1 .. 6 /\ 2 \in 1 .. 6 /\ 3 \in 1 .. 6 /\ 5 \in 1 .. 6 /\ 6 \in 1 .. 6
  OBVIOUS
<1>9. /\ whole[1].n = ns[1] /\ whole[2].n = ns[2] /\ whole[3].n = ns[3] /\ whole[5].n = ns[5]
      /\ whole[6].n = ns[6]
  BY <1>7, <1>8, Zenon
<1> QED
  BY <1>2, <1>5, <1>6, <1>9, Zenon

LEMMA SessionLaidOut ==
  ASSUME struct \in Structs, struct.kind = "session", NEW whole, whole = Encoded(struct)
  PROVE  /\ whole \in Seq(Word) /\ Len(whole) = 13 /\ struct.isActive \in BOOLEAN
         /\ DOMAIN struct = {"kind", "user", "stake", "closeoutType", "openedAt", "endsAt", "closedAt", "isActive"}
         /\ whole[2].n = struct.user /\ whole[4].n = struct.stake /\ whole[6].n = struct.closeoutType
         /\ whole[8].n = struct.openedAt /\ whole[9].n = struct.endsAt /\ whole[10].n = struct.closedAt
         /\ whole[11].n = Flag(struct.isActive)
<1> DEFINE ns == <<32, struct.user, 7, struct.stake, 352, struct.closeoutType, 0, struct.openedAt,
                   struct.endsAt, struct.closedAt, Flag(struct.isActive), 0, 0>>
<1>1. struct \in [kind: {"session"}, user: Amounts, stake: Amounts, closeoutType: Amounts, openedAt: Amounts,
                  endsAt: Amounts, closedAt: Amounts, isActive: BOOLEAN]
  BY DEF Structs
<1>2. /\ struct.user \in Nat /\ struct.stake \in Nat /\ struct.closeoutType \in Nat
      /\ struct.openedAt \in Nat /\ struct.endsAt \in Nat /\ struct.closedAt \in Nat
      /\ struct.isActive \in BOOLEAN /\ Flag(struct.isActive) \in Nat
      /\ DOMAIN struct = {"kind", "user", "stake", "closeoutType", "openedAt", "endsAt", "closedAt", "isActive"}
  BY <1>1, StructParts
<1>3. ns \in Seq(Nat) /\ Len(ns) = 13
  BY <1>2
<1>4. whole = Row(ns)
  BY DEF Encoded
<1>5. /\ ns[2] = struct.user /\ ns[4] = struct.stake /\ ns[6] = struct.closeoutType
      /\ ns[8] = struct.openedAt /\ ns[9] = struct.endsAt /\ ns[10] = struct.closedAt
      /\ ns[11] = Flag(struct.isActive)
  OBVIOUS
<1> HIDE DEF ns
<1>6. whole \in Seq(Word) /\ Len(whole) = 13 /\ HeadIs(whole, ns)
  BY <1>3, <1>4, RowIsWords
<1>7. \A i \in 1 .. 13 : whole[i].n = ns[i]
  BY <1>3, <1>6 DEF HeadIs
<1>8. /\ 2 \in 1 .. 13 /\ 4 \in 1 .. 13 /\ 6 \in 1 .. 13 /\ 8 \in 1 .. 13 /\ 9 \in 1 .. 13
      /\ 10 \in 1 .. 13 /\ 11 \in 1 .. 13
  OBVIOUS
<1>9. /\ whole[2].n = ns[2] /\ whole[4].n = ns[4] /\ whole[6].n = ns[6] /\ whole[8].n = ns[8]
      /\ whole[9].n = ns[9] /\ whole[10].n = ns[10] /\ whole[11].n = ns[11]
  BY <1>7, <1>8, Zenon
<1> QED
  BY <1>2, <1>5, <1>6, <1>9, Zenon

LEMMA ModelLaidOut ==
  ASSUME struct \in Structs, struct.kind = "model", NEW whole, whole = Encoded(struct)
  PROVE  /\ whole \in Seq(Word) /\ IsText(struct.name) /\ LiesAt(whole, struct.name, 9)
         /\ "name" \in DOMAIN struct
<1> DEFINE ns == <<32, 7, 8, 9, 3, 256, 256 + 32 * Len(Stored(struct.name)), 5, 0>>
           T == {Text("t", 3), Text("u", 33)}
<1>1. struct \in [kind: {"model"}, name: Texts("n"),
                  tags: {<<>>, <<Text("t", 3)>>, <<Text("t", 3), Text("u", 33)>>}]
  BY DEF Structs
<1>2. IsText(struct.name) /\ "name" \in DOMAIN struct
  BY <1>1, StructParts DEF TextNames
<1>3. struct.tags \in Seq(T) /\ Len(struct.tags) <= 4
  <2>1. struct.tags = <<>> \/ struct.tags = <<Text("t", 3)>> \/ struct.tags = <<Text("t", 3), Text("u", 33)>>
    BY <1>1
  <2>2. CASE struct.tags = <<>>
    BY <2>2, EmptySeq
  <2> DEFINE t == Text("t", 3)
             u == Text("u", 33)
  <2>3. t \in T /\ u \in T
    OBVIOUS
  <2> HIDE DEF t, u, T
  <2>4. CASE struct.tags = <<t>>
    BY <2>3, <2>4
  <2>5. CASE struct.tags = <<t, u>>
    BY <2>3, <2>5
  <2> QED
    BY <2>1, <2>2, <2>4, <2>5 DEF t, u
<1>4. Len(Stored(struct.name)) \in Nat
  BY <1>2, StoredFacts, LenProperties
<1>5. ns \in Seq(Nat) /\ Len(ns) = 9
  BY <1>4
<1>6. whole = (Row(ns) \o Stored(struct.name)) \o StringArray(struct.tags)
  BY DEF Encoded
<1> HIDE DEF ns
<1>7. StringArray(struct.tags) \in Seq(Word)
  BY <1>3, StructParts, StringArrayIsWords
<1>8. /\ Row(ns) \o Stored(struct.name) \in Seq(Word)
      /\ LiesAt(Row(ns) \o Stored(struct.name), struct.name, 9)
  BY <1>2, <1>5, HeadThenText
<1> QED
  BY <1>2, <1>6, <1>7, <1>8, LiesBefore, ConcatProperties

LEMMA CreatedLaidOut ==
  ASSUME struct \in Structs, struct.kind = "created", NEW whole, whole = Encoded(struct)
  PROVE  /\ whole \in Seq(Word) /\ IsText(struct.name) /\ LiesAt(whole, struct.name, 6)
         /\ DOMAIN struct = {"kind", "admin", "deposit", "lock", "name"} /\ Len(whole) >= 6
         /\ whole[2].n = 160 /\ whole[3].n = struct.admin /\ whole[5].n = struct.deposit
         /\ whole[6].n = struct.lock
<1> DEFINE ns == <<32, 160, struct.admin, 6, struct.deposit, struct.lock>>
<1>1. struct \in [kind: {"created", "subnet"}, admin: Amounts, deposit: Amounts, lock: Amounts, name: Texts("n")]
  BY DEF Structs
<1>2. /\ struct.admin \in Nat /\ struct.deposit \in Nat /\ struct.lock \in Nat /\ IsText(struct.name)
      /\ DOMAIN struct = {"kind", "admin", "deposit", "lock", "name"}
  BY <1>1, StructParts DEF TextNames
<1>3. ns \in Seq(Nat) /\ Len(ns) = 6
  BY <1>2
<1>4. whole = Row(ns) \o Stored(struct.name)
  BY DEF Encoded
<1>5. ns[2] = 160 /\ ns[3] = struct.admin /\ ns[5] = struct.deposit /\ ns[6] = struct.lock
  OBVIOUS
<1> HIDE DEF ns
<1>6. whole \in Seq(Word) /\ HeadIs(whole, ns) /\ LiesAt(whole, struct.name, 6)
  BY <1>2, <1>3, <1>4, HeadThenText
<1>7. Len(whole) >= 6 /\ \A i \in 1 .. 6 : whole[i].n = ns[i]
  BY <1>3, <1>6, LenProperties DEF HeadIs
<1> QED
  BY <1>2, <1>5, <1>6, <1>7

LEMMA SubnetLaidOut ==
  ASSUME struct \in Structs, struct.kind = "subnet", NEW whole, whole = Encoded(struct)
  PROVE  /\ whole \in Seq(Word) /\ IsText(struct.name) /\ LiesAt(whole, struct.name, 5)
         /\ DOMAIN struct = {"kind", "admin", "deposit", "lock", "name"} /\ Len(whole) >= 5
         /\ whole[1].n = 160 /\ whole[2].n = struct.admin /\ whole[4].n = struct.deposit
         /\ whole[5].n = struct.lock
<1> DEFINE ns == <<160, struct.admin, 6, struct.deposit, struct.lock>>
<1>1. struct \in [kind: {"created", "subnet"}, admin: Amounts, deposit: Amounts, lock: Amounts, name: Texts("n")]
  BY DEF Structs
<1>2. /\ struct.admin \in Nat /\ struct.deposit \in Nat /\ struct.lock \in Nat /\ IsText(struct.name)
      /\ DOMAIN struct = {"kind", "admin", "deposit", "lock", "name"}
  BY <1>1, StructParts DEF TextNames
<1>3. ns \in Seq(Nat) /\ Len(ns) = 5
  BY <1>2
<1>4. whole = Row(ns) \o Stored(struct.name)
  BY DEF Encoded
<1>5. ns[1] = 160 /\ ns[2] = struct.admin /\ ns[4] = struct.deposit /\ ns[5] = struct.lock
  OBVIOUS
<1> HIDE DEF ns
<1>6. whole \in Seq(Word) /\ HeadIs(whole, ns) /\ LiesAt(whole, struct.name, 5)
  BY <1>2, <1>3, <1>4, HeadThenText
<1>7. Len(whole) >= 5 /\ \A i \in 1 .. 5 : whole[i].n = ns[i]
  BY <1>3, <1>6, LenProperties DEF HeadIs
<1> QED
  BY <1>2, <1>5, <1>6, <1>7

\* Four strings after their four offsets.
LEMMA MetadataLaidOut ==
  ASSUME struct \in Structs, struct.kind = "metadata", NEW whole, whole = Encoded(struct)
  PROVE  /\ whole \in Seq(Word) /\ DOMAIN struct = {"kind", "name", "description", "url", "logo"}
         /\ IsText(struct.name) /\ IsText(struct.description) /\ IsText(struct.url) /\ IsText(struct.logo)
         /\ \E p \in [1 .. 4 -> Nat] :
              /\ \A i \in 1 .. 4 : p[i] >= 4 /\ whole[i].n = 32 * p[i]
              /\ LiesAt(whole, struct.name, p[1]) /\ LiesAt(whole, struct.description, p[2])
              /\ LiesAt(whole, struct.url, p[3]) /\ LiesAt(whole, struct.logo, p[4])
              /\ Len(whole) >= 8
<1> DEFINE ts == <<struct.name, struct.description, struct.url, struct.logo>>
           T == {struct.name, struct.description, struct.url, struct.logo}
           S(i) == Stored(ts[i])
           L(i) == Len(S(i))
           R == StoredAll(ts)
           before(i) == StoredAll(SubSeq(ts, 1, i - 1))
<1>1. struct \in [kind: {"metadata"}, name: Texts("n"), description: Texts("d"), url: Texts("u"), logo: Texts("l")]
  BY DEF Structs
<1>2. /\ IsText(struct.name) /\ IsText(struct.description) /\ IsText(struct.url) /\ IsText(struct.logo)
      /\ DOMAIN struct = {"kind", "name", "description", "url", "logo"}
  BY <1>1, StructParts DEF TextNames
<1>3. /\ ts \in Seq(T) /\ Len(ts) = 4 /\ \A t \in T : IsText(t)
      /\ ts[1] = struct.name /\ ts[2] = struct.description /\ ts[3] = struct.url /\ ts[4] = struct.logo
  BY <1>2
<1>4. whole = Offsets(ts, 4) \o R
  BY DEF Encoded
<1> HIDE DEF ts, T
<1>5. \A i \in 1 .. 4 : IsText(ts[i]) /\ S(i) \in Seq(Word) /\ L(i) \in Nat /\ L(i) >= 1 /\ LiesAt(S(i), ts[i], 0)
  <2> SUFFICES ASSUME NEW i \in 1 .. 4
               PROVE  IsText(ts[i]) /\ S(i) \in Seq(Word) /\ L(i) \in Nat /\ L(i) >= 1 /\ LiesAt(S(i), ts[i], 0)
    OBVIOUS
  <2>1. IsText(ts[i])
    BY <1>3, ElementOfSeq
  <2>2. Chunks(ts[i].len) \in Nat
    BY <2>1 DEF IsText
  <2> QED
    BY <2>1, <2>2, StoredFacts
<1>6. \A i \in 1 .. 4 :
        /\ SubSeq(ts, 1, i - 1) \in Seq(T) /\ Len(SubSeq(ts, 1, i - 1)) = i - 1
        /\ Offsets(ts, 4)[i].n = 32 * (4 + Len(before(i)))
  <2>1. 4 \in Nat /\ Len(ts) <= 4
    BY <1>3
  <2>2. \A i \in 1 .. Len(ts) :
          /\ SubSeq(ts, 1, i - 1) \in Seq(T) /\ Len(SubSeq(ts, 1, i - 1)) = i - 1
          /\ Offsets(ts, 4)[i].n = 32 * (4 + Len(before(i)))
    BY <1>3, <2>1, OffsetsAreWords
  <2> QED
    BY <1>3, <2>2
<1>7. Offsets(ts, 4) \in Seq(Word) /\ Len(Offsets(ts, 4)) = 4
  <2>1. 4 \in Nat /\ Len(ts) <= 4
    BY <1>3
  <2>2. Offsets(ts, 4) \in Seq(Word) /\ Len(Offsets(ts, 4)) = Len(ts)
    BY <1>3, <2>1, OffsetsAreWords
  <2> QED
    BY <1>3, <2>2
<1>8. ASSUME NEW i \in 1 .. 4, NEW k \in 1 .. i - 1
      PROVE  StoredEach(SubSeq(ts, 1, i - 1))[k] = S(k)
  <2>0. \A j \in 1 .. Len(ts) : ts[j] \in T
    BY <1>3, ElementOfSeq
  <2>1. i - 1 \in Int /\ \A j \in 1 .. i - 1 : ts[j] \in T
    BY <1>3, <2>0
  <2>2. SubSeq(ts, 1, i - 1)[k] = ts[k]
    <3>1. \A j \in 1 .. i - 1 - 1 + 1 : SubSeq(ts, 1, i - 1)[j] = ts[1 + j - 1]
      BY <2>1, SubSeqProperties
    <3> QED
      BY <3>1
  <2>3. StoredEach(SubSeq(ts, 1, i - 1))[k] = Stored(SubSeq(ts, 1, i - 1)[k])
    BY <1>3, <1>6, StoredEachFacts
  <2> QED
    BY <2>2, <2>3
<1>9. /\ R = ((S(1) \o S(2)) \o S(3)) \o S(4)
      /\ Len(before(1)) = 0 /\ before(2) = S(1)
      /\ before(3) = S(1) \o S(2) /\ before(4) = (S(1) \o S(2)) \o S(3)
  <2>0. Len(ts) <= 4 /\ Len(ts) # 0
    BY <1>3
  <2>1. R = Joined(StoredEach(ts), 4) /\ \A k \in 1 .. 4 : StoredEach(ts)[k] = S(k)
    <3>1. StoredAll(ts) = Joined(StoredEach(ts), Len(ts))
      BY <1>3, <2>0, StoredAllIsJoined
    <3>2. \A k \in 1 .. Len(ts) : StoredEach(ts)[k] = Stored(ts[k])
      BY <1>3, StoredEachFacts
    <3> QED
      BY <1>3, <3>1, <3>2
  <2>2. \A i \in 2 .. 4 : before(i) = Joined(StoredEach(SubSeq(ts, 1, i - 1)), i - 1)
    <3> SUFFICES ASSUME NEW i \in 2 .. 4
                 PROVE  before(i) = Joined(StoredEach(SubSeq(ts, 1, i - 1)), i - 1)
      OBVIOUS
    <3> DEFINE X == SubSeq(ts, 1, i - 1)
    <3>1. X \in Seq(T) /\ Len(X) = i - 1 /\ Len(X) # 0 /\ Len(X) <= 4
      BY <1>6
    <3> HIDE DEF X
    <3>2. StoredAll(X) = Joined(StoredEach(X), Len(X))
      BY <1>3, <3>1, StoredAllIsJoined
    <3> QED
      BY <3>1, <3>2 DEF X
  <2>3. Len(before(1)) = 0
    <3> DEFINE X == SubSeq(ts, 1, 1 - 1)
    <3>1. X \in Seq(T) /\ Len(X) = 0 /\ Len(X) <= 4
      BY <1>6
    <3> HIDE DEF X
    <3>2. Len(StoredAll(X)) = 0
      BY <1>3, <3>1, StoredAllIsJoined
    <3> QED
      BY <3>2 DEF X
  <2> HIDE DEF R, S, before
  <2>4. R = ((S(1) \o S(2)) \o S(3)) \o S(4)
    <3> DEFINE e == StoredEach(ts)
    <3>1. e[1] = S(1) /\ e[2] = S(2) /\ e[3] = S(3) /\ e[4] = S(4)
      BY <2>1
    <3> HIDE DEF e
    <3>2. Joined(e, 4) = ((e[1] \o e[2]) \o e[3]) \o e[4]
      BY JoinedIs, Zenon
    <3> QED
      BY <2>1, <3>1, <3>2, Zenon DEF e
  <2>5. before(2) = S(1)
    <3> DEFINE e == StoredEach(SubSeq(ts, 1, 2 - 1))
    <3>1. 2 \in 1 .. 4 /\ 2 \in 2 .. 4 /\ 2 - 1 = 1 /\ 1 \in 1 .. 2 - 1
      OBVIOUS
    <3>2. e[1] = S(1)
      BY <1>8, <3>1, Zenon
    <3>3. before(2) = Joined(e, 2 - 1)
      BY <2>2, <3>1, Zenon
    <3> HIDE DEF e
    <3>4. Joined(e, 1) = e[1]
      BY JoinedIs, Zenon
    <3> QED
      BY <3>1, <3>2, <3>3, <3>4, Zenon
  <2>6. before(3) = S(1) \o S(2)
    <3> DEFINE e == StoredEach(SubSeq(ts, 1, 3 - 1))
    <3>1. 3 \in 1 .. 4 /\ 3 \in 2 .. 4 /\ 3 - 1 = 2 /\ 1 \in 1 .. 3 - 1 /\ 2 \in 1 .. 3 - 1
      OBVIOUS
    <3>2. e[1] = S(1) /\ e[2] = S(2)
      BY <1>8, <3>1, Zenon
    <3>3. before(3) = Joined(e, 3 - 1)
      BY <2>2, <3>1, Zenon
    <3> HIDE DEF e
    <3>4. Joined(e, 2) = e[1] \o e[2]
      BY JoinedIs, Zenon
    <3> QED
      BY <3>1, <3>2, <3>3, <3>4, Zenon
  <2>7. before(4) = (S(1) \o S(2)) \o S(3)
    <3> DEFINE e == StoredEach(SubSeq(ts, 1, 4 - 1))
    <3>1. 4 \in 1 .. 4 /\ 4 \in 2 .. 4 /\ 4 - 1 = 3 /\ 1 \in 1 .. 4 - 1 /\ 2 \in 1 .. 4 - 1 /\ 3 \in 1 .. 4 - 1
      OBVIOUS
    <3>2. e[1] = S(1) /\ e[2] = S(2) /\ e[3] = S(3)
      BY <1>8, <3>1, Zenon
    <3>3. before(4) = Joined(e, 4 - 1)
      BY <2>2, <3>1, Zenon
    <3> HIDE DEF e
    <3>4. Joined(e, 3) = (e[1] \o e[2]) \o e[3]
      BY JoinedIs, Zenon
    <3> QED
      BY <3>1, <3>2, <3>3, <3>4, Zenon
  <2> QED
    BY <2>3, <2>4, <2>5, <2>6, <2>7
<1> DEFINE A2 == S(1) \o S(2)
           A3 == A2 \o S(3)
<1>10. \A i \in 1 .. 4 : S(i) \in Seq(Word) /\ L(i) \in Nat /\ L(i) >= 1 /\ L(i) = Len(S(i))
  BY <1>5
<1>11. A2 \in Seq(Word) /\ Len(A2) = L(1) + L(2)
  <2> HIDE DEF S
  <2> QED
    BY <1>10, ConcatProperties
<1>12. A3 \in Seq(Word) /\ Len(A3) = L(1) + L(2) + L(3)
  <2>1. S(3) \in Seq(Word) /\ Len(S(3)) = L(3)
    BY <1>10
  <2> HIDE DEF S, A2, L
  <2>2. A3 \in Seq(Word) /\ Len(A3) = Len(A2) + Len(S(3))
    BY <1>11, <2>1, ConcatProperties
  <2> QED
    BY <1>11, <2>1, <2>2
<1>13. R = A3 \o S(4) /\ R \in Seq(Word) /\ Len(R) = L(1) + L(2) + L(3) + L(4)
  <2>1. S(4) \in Seq(Word) /\ Len(S(4)) = L(4)
    BY <1>10
  <2>2. R = A3 \o S(4)
    BY <1>9
  <2> HIDE DEF S, A2, A3, L, R
  <2>3. A3 \o S(4) \in Seq(Word) /\ Len(A3 \o S(4)) = Len(A3) + Len(S(4))
    BY <1>12, <2>1, ConcatProperties
  <2> QED
    BY <1>12, <2>1, <2>2, <2>3
<1>14. \A i \in 1 .. 4 : LiesAt(S(i), ts[i], 0) /\ IsText(ts[i])
  BY <1>5
<1>15. Len(before(1)) = 0 /\ Len(before(2)) = L(1) /\ Len(before(3)) = Len(A2) /\ Len(before(4)) = Len(A3)
  BY <1>9
<1> HIDE DEF S, R, L, before, A2, A3
<1>16. LiesAt(A2, ts[1], 0) /\ LiesAt(A2, ts[2], L(1))
  <2>1. LiesAt(S(1) \o S(2), ts[1], 0)
    BY <1>10, <1>14, LiesBefore
  <2>2. LiesAt(S(1) \o S(2), ts[2], Len(S(1)) + 0)
    BY <1>10, <1>14, LiesAfter
  <2>3. Len(S(1)) + 0 = L(1)
    BY <1>10
  <2> QED
    BY <2>1, <2>2, <2>3 DEF A2
<1>17. LiesAt(A3, ts[1], 0) /\ LiesAt(A3, ts[2], L(1)) /\ LiesAt(A3, ts[3], Len(A2))
  <2>1. LiesAt(A2 \o S(3), ts[1], 0) /\ LiesAt(A2 \o S(3), ts[2], L(1))
    BY <1>10, <1>11, <1>14, <1>16, LiesBefore
  <2>2. LiesAt(A2 \o S(3), ts[3], Len(A2) + 0)
    BY <1>10, <1>11, <1>14, LiesAfter
  <2>3. Len(A2) + 0 = Len(A2)
    BY <1>10, <1>11
  <2> QED
    BY <2>1, <2>2, <2>3 DEF A3
<1>18. /\ LiesAt(R, ts[1], 0) /\ LiesAt(R, ts[2], L(1)) /\ LiesAt(R, ts[3], Len(A2))
       /\ LiesAt(R, ts[4], Len(A3))
  <2>1. Len(A2) \in Nat /\ Len(A3) \in Nat
    BY <1>10, <1>11, <1>12
  <2>2. LiesAt(A3 \o S(4), ts[1], 0) /\ LiesAt(A3 \o S(4), ts[2], L(1)) /\ LiesAt(A3 \o S(4), ts[3], Len(A2))
    BY <1>10, <1>12, <1>14, <1>17, <2>1, LiesBefore
  <2>3. LiesAt(A3 \o S(4), ts[4], Len(A3) + 0)
    BY <1>10, <1>12, <1>14, LiesAfter
  <2>4. Len(A3) + 0 = Len(A3)
    BY <2>1
  <2> QED
    BY <1>13, <2>2, <2>3, <2>4
<1> DEFINE p == [i \in 1 .. 4 |-> 4 + Len(before(i))]
<1>19. \A i \in 1 .. 4 : Len(before(i)) \in Nat /\ LiesAt(R, ts[i], Len(before(i)))
  <2>1. /\ Len(before(1)) \in Nat /\ Len(before(2)) \in Nat /\ Len(before(3)) \in Nat /\ Len(before(4)) \in Nat
    <3>1. L(1) \in Nat
      BY <1>10
    <3>2. Len(A2) \in Nat /\ Len(A3) \in Nat
      BY <1>11, <1>12, LenProperties
    <3> QED
      BY <1>15, <3>1, <3>2
  <2>2. /\ LiesAt(R, ts[1], Len(before(1))) /\ LiesAt(R, ts[2], Len(before(2)))
        /\ LiesAt(R, ts[3], Len(before(3))) /\ LiesAt(R, ts[4], Len(before(4)))
    BY <1>15, <1>18
  <2> QED
    BY <2>1, <2>2
<1>20. p \in [1 .. 4 -> Nat] /\ \A i \in 1 .. 4 : p[i] = 4 + Len(before(i)) /\ p[i] >= 4
  BY <1>19
<1>21. whole \in Seq(Word) /\ Len(whole) >= 8 /\ \A i \in 1 .. 4 : whole[i] = Offsets(ts, 4)[i]
  <2>1. /\ Offsets(ts, 4) \o R \in Seq(Word) /\ Len(Offsets(ts, 4) \o R) = 4 + Len(R)
        /\ \A i \in 1 .. 4 + Len(R) : i <= 4 => (Offsets(ts, 4) \o R)[i] = Offsets(ts, 4)[i]
    <3> DEFINE o == Offsets(ts, 4)
    <3>1. o \in Seq(Word) /\ Len(o) = 4 /\ R \in Seq(Word)
      BY <1>7, <1>13
    <3> HIDE DEF o
    <3>2. /\ o \o R \in Seq(Word) /\ Len(o \o R) = Len(o) + Len(R)
          /\ \A i \in 1 .. Len(o) + Len(R) : (o \o R)[i] = IF i <= Len(o) THEN o[i] ELSE R[i - Len(o)]
      BY <3>1, ConcatProperties
    <3>3. /\ o \o R \in Seq(Word) /\ Len(o \o R) = 4 + Len(R)
          /\ \A i \in 1 .. 4 + Len(R) : i <= 4 => (o \o R)[i] = o[i]
      BY <3>1, <3>2
    <3> QED
      BY <3>3 DEF o
  <2>2. Len(R) \in Nat /\ Len(R) >= 4
    BY <1>10, <1>13
  <2> QED
    BY <1>4, <2>1, <2>2
<1>22. \A i \in 1 .. 4 : LiesAt(whole, ts[i], p[i])
  <2> SUFFICES ASSUME NEW i \in 1 .. 4 PROVE LiesAt(whole, ts[i], p[i])
    OBVIOUS
  <2>1. LiesAt(Offsets(ts, 4) \o R, ts[i], 4 + Len(before(i)))
    BY <1>7, <1>13, <1>14, <1>19, LiesAfter
  <2> QED
    BY <1>4, <1>20, <2>1
<1>23. \A i \in 1 .. 4 : p[i] >= 4 /\ whole[i].n = 32 * p[i]
  BY <1>6, <1>20, <1>21
<1> HIDE DEF p
<1>24. /\ LiesAt(whole, struct.name, p[1]) /\ LiesAt(whole, struct.description, p[2])
       /\ LiesAt(whole, struct.url, p[3]) /\ LiesAt(whole, struct.logo, p[4])
  BY <1>3, <1>22
<1>25. /\ p \in [1 .. 4 -> Nat]
       /\ \A i \in 1 .. 4 : p[i] >= 4 /\ whole[i].n = 32 * p[i]
       /\ LiesAt(whole, struct.name, p[1]) /\ LiesAt(whole, struct.description, p[2])
       /\ LiesAt(whole, struct.url, p[3]) /\ LiesAt(whole, struct.logo, p[4])
       /\ Len(whole) >= 8
  BY <1>20, <1>21, <1>23, <1>24
<1> QED
  BY <1>2, <1>21, <1>25, Zenon
-----------------------------------------------------------------------------
(***************************************************************************)
(* The decoders, kind by kind.  What reaches them is received of the whole *)
(* answer, so a word they find is the contract's.                          *)
(***************************************************************************)
DecodeInv == struct \in Structs /\ words \in Seq(Word) /\ IsPrefix(words, Encoded(struct))

LEMMA ProviderIsDecoded ==
  ASSUME DecodeInv, struct.kind = "provider"
  PROVE  DecodedAsEncoded /\ CutIsNotMisread
<1> DEFINE whole == Encoded(struct)
<1>1. /\ whole \in Seq(Word) /\ IsText(struct.endpoint) /\ LiesAt(whole, struct.endpoint, 7)
      /\ DOMAIN struct = {"kind", "stake", "createdAt", "isDeleted", "endpoint"}
      /\ struct.isDeleted \in BOOLEAN /\ Len(whole) >= 7
      /\ whole[2].n = 192 /\ whole[3].n = struct.stake /\ whole[4].n = struct.createdAt
      /\ whole[7].n = Flag(struct.isDeleted)
  BY ProviderLaidOut DEF DecodeInv
<1>2. Received(whole) /\ Len(words) \in Nat /\ struct.endpoint.len \in Nat
  BY <1>1, PrefixIsReceived, LenProperties DEF DecodeInv, IsText
<1>3. Decoded = parseProviderResult
  BY DEF Decoded
<1>4. Whole <=> words = whole
  BY DEF Whole
<1> HIDE DEF whole
<1>5. ASSUME Has(6)
      PROVE  /\ At(1) = 192 /\ At(2) = struct.stake /\ At(3) = struct.createdAt
             /\ At(6) = Flag(struct.isDeleted) /\ EndpointAt = 7
  <2>1. Has(1) /\ Has(2) /\ Has(3)
    BY <1>2, <1>5 DEF Has
  <2>2. At(1) = whole[1 + 1].n /\ At(2) = whole[2 + 1].n /\ At(3) = whole[3 + 1].n /\ At(6) = whole[6 + 1].n
    BY <1>1, <1>2, <1>5, <2>1, WordIsRead
  <2>3. At(1) = 192 /\ At(2) = struct.stake /\ At(3) = struct.createdAt /\ At(6) = Flag(struct.isDeleted)
    BY <1>1, <2>2
  <2> QED
    BY <2>3 DEF EndpointAt
<1>6. /\ Has(7) => At(7) = struct.endpoint.len
      /\ Holds(8, struct.endpoint.len) => Slice(8, struct.endpoint.len) = struct.endpoint
      /\ words = whole => Has(7) /\ Holds(8, struct.endpoint.len)
  <2>1. 7 \in Nat /\ 7 + 1 = 8
    OBVIOUS
  <2> QED
    BY <1>1, <1>2, <2>1, TextIsRead
<1> DEFINE got == [stake |-> struct.stake, createdAt |-> struct.createdAt, endpoint |-> struct.endpoint]
<1>8. Decoded = Null \/ Decoded = got
  <2>1. CASE ~Has(6) \/ At(6) # 0
    BY <1>3, <2>1 DEF parseProviderResult
  <2>2. CASE Has(6) /\ At(6) = 0
    BY <1>3, <1>5, <1>6, <2>2 DEF parseProviderResult
  <2> QED
    BY <2>1, <2>2
<1>9. DOMAIN got = {"stake", "createdAt", "endpoint"} /\ got # Null
  BY NullHasNoField
<1>10. \A field \in DOMAIN got : Agrees(got, field)
  BY <1>1 DEF Agrees
<1>11. CutIsNotMisread
  BY <1>8, <1>10 DEF CutIsNotMisread
<1>12. DecodedAsEncoded
  <2> SUFFICES ASSUME words = whole
               PROVE  IF Hidden THEN Decoded = Null
                      ELSE Decoded # Null /\ \A field \in DOMAIN Decoded \ {"tags"} : Agrees(Decoded, field)
    BY <1>4 DEF DecodedAsEncoded
  <2>1. Has(6) /\ Has(7) /\ Holds(8, struct.endpoint.len)
    BY <1>1, <1>2, <1>6 DEF Has
  <2>2. Hidden <=> struct.isDeleted \/ struct.endpoint.len > 500
    BY DEF Hidden
  <2>3. At(6) = 0 <=> ~struct.isDeleted
    BY <1>1, <1>5, <2>1, StructParts
  <2>4. CASE Hidden
    BY <1>3, <1>5, <1>6, <2>1, <2>2, <2>3, <2>4 DEF parseProviderResult
  <2>5. CASE ~Hidden
    <3>1. Decoded = got
      <4>1. ~(struct.endpoint.len > 500) /\ At(6) = 0
        BY <2>2, <2>3, <2>5
      <4> QED
        BY <1>3, <1>5, <1>6, <2>1, <4>1 DEF parseProviderResult
    <3> QED
      BY <1>9, <1>10, <2>5, <3>1
  <2> QED
    BY <2>4, <2>5
<1> QED
  BY <1>11, <1>12
-----------------------------------------------------------------------------
LEMMA BidIsDecoded ==
  ASSUME DecodeInv, struct.kind = "bid"
  PROVE  DecodedAsEncoded /\ CutIsNotMisread
<1> DEFINE whole == Encoded(struct)
<1>1. /\ whole \in Seq(Word) /\ Len(whole) = 6
      /\ DOMAIN struct = {"kind", "provider", "modelId", "price", "createdAt", "deletedAt"}
      /\ whole[1].n = struct.provider /\ whole[2].n = struct.modelId /\ whole[3].n = struct.price
      /\ whole[5].n = struct.createdAt /\ whole[6].n = struct.deletedAt
  BY BidLaidOut DEF DecodeInv
<1>2. Received(whole) /\ Len(words) \in Nat
  BY <1>1, PrefixIsReceived, LenProperties DEF DecodeInv
<1>3. Decoded = parseBidResult
  BY DEF Decoded
<1>4. Whole <=> words = whole
  BY DEF Whole
<1> HIDE DEF whole
<1> DEFINE got == [provider |-> struct.provider, modelId |-> struct.modelId, price |-> struct.price,
                   createdAt |-> struct.createdAt, deletedAt |-> struct.deletedAt]
<1>5. ASSUME Has(5) PROVE Decoded = got
  <2>1. Has(0) /\ Has(1) /\ Has(2) /\ Has(4)
    BY <1>2, <1>5 DEF Has
  <2>2. /\ At(0) = whole[0 + 1].n /\ At(1) = whole[1 + 1].n /\ At(2) = whole[2 + 1].n
        /\ At(4) = whole[4 + 1].n /\ At(5) = whole[5 + 1].n
    BY <1>1, <1>2, <1>5, <2>1, WordIsRead
  <2>3. /\ At(0) = struct.provider /\ At(1) = struct.modelId /\ At(2) = struct.price
        /\ At(4) = struct.createdAt /\ At(5) = struct.deletedAt
    BY <1>1, <2>2
  <2> QED
    BY <1>3, <1>5, <2>3 DEF parseBidResult
<1>6. Decoded = Null \/ Decoded = got
  BY <1>3, <1>5 DEF parseBidResult
<1>7. DOMAIN got = {"provider", "modelId", "price", "createdAt", "deletedAt"} /\ got # Null
  BY NullHasNoField
<1>8. \A field \in DOMAIN got : Agrees(got, field)
  BY <1>1 DEF Agrees
<1>9. CutIsNotMisread
  BY <1>6, <1>8 DEF CutIsNotMisread
<1>10. words = whole => Decoded = got
  <2>1. words = whole => Has(5)
    <3>1. Len(whole) = 6
      BY <1>1
    <3>2. 5 < 6
      OBVIOUS
    <3> QED
      BY <3>1, <3>2, Zenon DEF Has
  <2> QED
    BY <1>5, <2>1
<1>11. ~Hidden
  BY DEF Hidden
<1>12. DecodedAsEncoded
  BY <1>4, <1>7, <1>8, <1>10, <1>11 DEF DecodedAsEncoded
<1> QED
  BY <1>9, <1>12

LEMMA SessionIsDecoded ==
  ASSUME DecodeInv, struct.kind = "session"
  PROVE  DecodedAsEncoded /\ CutIsNotMisread
<1> DEFINE whole == Encoded(struct)
<1>1. /\ whole \in Seq(Word) /\ Len(whole) = 13 /\ struct.isActive \in BOOLEAN
      /\ DOMAIN struct = {"kind", "user", "stake", "closeoutType", "openedAt", "endsAt", "closedAt", "isActive"}
      /\ whole[2].n = struct.user /\ whole[4].n = struct.stake /\ whole[6].n = struct.closeoutType
      /\ whole[8].n = struct.openedAt /\ whole[9].n = struct.endsAt /\ whole[10].n = struct.closedAt
      /\ whole[11].n = Flag(struct.isActive)
  BY SessionLaidOut DEF DecodeInv
<1>2. Received(whole) /\ Len(words) \in Nat
  BY <1>1, PrefixIsReceived, LenProperties DEF DecodeInv
<1>3. Decoded = parseSessionResult
  BY DEF Decoded
<1>4. Whole <=> words = whole
  BY DEF Whole
<1> HIDE DEF whole
<1> DEFINE got == [user |-> struct.user, stake |-> struct.stake, closeoutType |-> struct.closeoutType,
                   openedAt |-> struct.openedAt, endsAt |-> struct.endsAt, closedAt |-> struct.closedAt,
                   isActive |-> struct.isActive,
                   isEarlyTermination |-> struct.closedAt > 0 /\ struct.closedAt < struct.endsAt]
<1>5. ASSUME Has(10) PROVE Decoded = got
  <2>1. Has(1) /\ Has(3) /\ Has(5) /\ Has(7) /\ Has(8) /\ Has(9)
    BY <1>2, <1>5 DEF Has
  <2>2. /\ At(1) = whole[1 + 1].n /\ At(3) = whole[3 + 1].n /\ At(5) = whole[5 + 1].n
        /\ At(7) = whole[7 + 1].n /\ At(8) = whole[8 + 1].n /\ At(9) = whole[9 + 1].n
        /\ At(10) = whole[10 + 1].n
    BY <1>1, <1>2, <1>5, <2>1, WordIsRead
  <2>3. /\ At(1) = struct.user /\ At(3) = struct.stake /\ At(5) = struct.closeoutType
        /\ At(7) = struct.openedAt /\ At(8) = struct.endsAt /\ At(9) = struct.closedAt
        /\ At(10) = Flag(struct.isActive)
    BY <1>1, <2>2
  <2>4. (At(10) # 0) = struct.isActive
    BY <1>1, <2>3, StructParts
  <2> QED
    BY <1>3, <1>5, <2>3, <2>4 DEF parseSessionResult
<1>6. Decoded = Null \/ Decoded = got
  BY <1>3, <1>5 DEF parseSessionResult
<1>7. /\ DOMAIN got = {"user", "stake", "closeoutType", "openedAt", "endsAt", "closedAt", "isActive",
                       "isEarlyTermination"}
      /\ got # Null
  BY NullHasNoField
<1>8. \A field \in DOMAIN got : Agrees(got, field)
  BY <1>1 DEF Agrees
<1>9. CutIsNotMisread
  BY <1>6, <1>8 DEF CutIsNotMisread
<1>10. words = whole => Decoded = got
  <2>1. words = whole => Has(10)
    <3>1. Len(whole) = 13
      BY <1>1
    <3>2. 10 < 13
      OBVIOUS
    <3> QED
      BY <3>1, <3>2, Zenon DEF Has
  <2> QED
    BY <1>5, <2>1
<1>11. ~Hidden
  BY DEF Hidden
<1>12. DecodedAsEncoded
  BY <1>4, <1>7, <1>8, <1>10, <1>11 DEF DecodedAsEncoded
<1> QED
  BY <1>9, <1>12

LEMMA ModelIsDecoded ==
  ASSUME DecodeInv, struct.kind = "model"
  PROVE  DecodedAsEncoded /\ CutIsNotMisread
<1> DEFINE whole == Encoded(struct)
<1>1. /\ whole \in Seq(Word) /\ IsText(struct.name) /\ LiesAt(whole, struct.name, 9)
      /\ "name" \in DOMAIN struct
  BY ModelLaidOut DEF DecodeInv
<1>2. Received(whole) /\ struct.name.len \in Nat
  BY <1>1, PrefixIsReceived DEF DecodeInv, IsText
<1>3. Decoded = parseModelResult
  BY DEF Decoded
<1>4. Whole <=> words = whole
  BY DEF Whole
<1> HIDE DEF whole
<1>5. /\ Has(9) => At(9) = struct.name.len
      /\ Holds(10, struct.name.len) => Slice(10, struct.name.len) = struct.name
      /\ words = whole => Has(9) /\ Holds(10, struct.name.len)
  <2>1. 9 \in Nat /\ 9 + 1 = 10
    OBVIOUS
  <2> QED
    BY <1>1, <1>2, <2>1, TextIsRead
<1>6. CutIsNotMisread
  BY DEF CutIsNotMisread
<1>7. Hidden <=> struct.name.len \notin 1 .. 100
  BY DEF Hidden
<1>8. DecodedAsEncoded
  <2> SUFFICES ASSUME words = whole
               PROVE  IF Hidden THEN Decoded = Null
                      ELSE Decoded # Null /\ \A field \in DOMAIN Decoded \ {"tags"} : Agrees(Decoded, field)
    BY <1>4 DEF DecodedAsEncoded
  <2>1. Has(9) /\ At(9) = struct.name.len /\ Slice(10, struct.name.len) = struct.name
    BY <1>5
  <2>2. CASE Hidden
    <3>1. At(9) = 0 \/ At(9) > 100
      BY <1>2, <1>7, <2>1, <2>2
    <3> QED
      BY <1>3, <2>2, <3>1 DEF parseModelResult
  <2>3. CASE ~Hidden
    <3> DEFINE tags == ModelTags(TagsAt(At(9)))
    <3>1. At(9) # 0 /\ ~(At(9) > 100)
      BY <1>2, <1>7, <2>1, <2>3
    <3> HIDE DEF tags
    <3>2. Decoded = [name |-> struct.name, tags |-> tags]
      BY <1>3, <2>1, <3>1 DEF parseModelResult, tags
    <3>3. DOMAIN Decoded = {"name", "tags"} /\ Decoded.name = struct.name
      BY <3>2
    <3>4. Decoded # Null
      BY <3>3, NullHasNoField
    <3> QED
      BY <2>3, <3>3, <3>4 DEF Agrees
  <2> QED
    BY <2>2, <2>3
<1> QED
  BY <1>6, <1>8

LEMMA CreatedIsDecoded ==
  ASSUME DecodeInv, struct.kind = "created"
  PROVE  DecodedAsEncoded /\ CutIsNotMisread
<1> DEFINE whole == Encoded(struct)
<1>1. /\ whole \in Seq(Word) /\ IsText(struct.name) /\ LiesAt(whole, struct.name, 6)
      /\ DOMAIN struct = {"kind", "admin", "deposit", "lock", "name"} /\ Len(whole) >= 6
      /\ whole[2].n = 160 /\ whole[3].n = struct.admin /\ whole[5].n = struct.deposit
      /\ whole[6].n = struct.lock
  BY CreatedLaidOut DEF DecodeInv
<1>2. Received(whole) /\ Len(words) \in Nat
  BY <1>1, PrefixIsReceived, LenProperties DEF DecodeInv
<1>3. Decoded = parseSubnetCreatedEvent
  BY DEF Decoded
<1>4. Whole <=> words = whole
  BY DEF Whole
<1> HIDE DEF whole
<1> DEFINE got == [admin |-> struct.admin, deposit |-> struct.deposit, lock |-> struct.lock, name |-> struct.name]
<1>5. /\ Has(6) => At(6) = struct.name.len
      /\ Holds(7, struct.name.len) => Slice(7, struct.name.len) = struct.name
      /\ words = whole => Has(6) /\ Holds(7, struct.name.len)
  <2>1. 6 \in Nat /\ 6 + 1 = 7
    OBVIOUS
  <2> QED
    BY <1>1, <1>2, <2>1, TextIsRead
<1>6. ASSUME words = whole PROVE Decoded = got
  <2>1. Has(1) /\ Has(2) /\ Has(4) /\ Has(5) /\ Has(6)
    BY <1>1, <1>2, <1>5, <1>6 DEF Has
  <2>2. /\ At(1) = whole[1 + 1].n /\ At(2) = whole[2 + 1].n /\ At(4) = whole[4 + 1].n
        /\ At(5) = whole[5 + 1].n
    BY <1>1, <1>2, <2>1, WordIsRead
  <2>3. At(1) = 160 /\ At(2) = struct.admin /\ At(4) = struct.deposit /\ At(5) = struct.lock
    BY <1>1, <2>2
  <2>4. 1 + At(1) \div 32 = 6
    BY <2>3
  <2>5. At(6) = struct.name.len /\ Slice(6 + 1, At(6)) = struct.name
    BY <1>5, <1>6, <2>1
  <2> QED
    BY <1>3, <2>1, <2>3, <2>4, <2>5 DEF parseSubnetCreatedEvent
<1>7. DOMAIN got = {"admin", "deposit", "lock", "name"} /\ got # Null
  BY NullHasNoField
<1>8. \A field \in DOMAIN got : Agrees(got, field)
  BY <1>1 DEF Agrees
<1>9. CutIsNotMisread
  BY DEF CutIsNotMisread
<1>10. ~Hidden
  BY DEF Hidden
<1>11. DecodedAsEncoded
  BY <1>4, <1>6, <1>7, <1>8, <1>10 DEF DecodedAsEncoded
<1> QED
  BY <1>9, <1>11
-----------------------------------------------------------------------------
LEMMA SubnetIsDecoded ==
  ASSUME DecodeInv, struct.kind = "subnet"
  PROVE  DecodedAsEncoded /\ CutIsNotMisread
<1> DEFINE whole == Encoded(struct)
           name == TextAt(5)
           got == [admin |-> struct.admin, deposit |-> struct.deposit, lock |-> struct.lock, name |-> name]
<1>1. /\ whole \in Seq(Word) /\ IsText(struct.name) /\ LiesAt(whole, struct.name, 5)
      /\ DOMAIN struct = {"kind", "admin", "deposit", "lock", "name"} /\ Len(whole) >= 5
      /\ whole[1].n = 160 /\ whole[2].n = struct.admin /\ whole[4].n = struct.deposit
      /\ whole[5].n = struct.lock
  BY SubnetLaidOut DEF DecodeInv
<1>2. Received(whole) /\ Len(words) \in Nat
  BY <1>1, PrefixIsReceived, LenProperties DEF DecodeInv
<1>3. Decoded = parseSubnetStruct
  BY DEF Decoded
<1>4. Whole <=> words = whole
  BY DEF Whole
<1> HIDE DEF whole
<1>5. name \in {struct.name, EmptyText} /\ (words = whole => name = struct.name)
  BY <1>1, <1>2, TextIsFound
<1> HIDE DEF name
<1>6. ASSUME Has(4)
      PROVE  Decoded = IF struct.admin = 0 THEN Null ELSE got
  <2>1. Has(0) /\ Has(1) /\ Has(3)
    BY <1>2, <1>6 DEF Has
  <2>2. /\ At(0) = whole[0 + 1].n /\ At(1) = whole[1 + 1].n /\ At(3) = whole[3 + 1].n
        /\ At(4) = whole[4 + 1].n
    BY <1>1, <1>2, <1>6, <2>1, WordIsRead
  <2>3. At(0) = 160 /\ At(1) = struct.admin /\ At(3) = struct.deposit /\ At(4) = struct.lock
    BY <1>1, <2>2
  <2>4. At(0) \div 32 = 5
    BY <2>3
  <2> QED
    BY <1>3, <1>6, <2>3, <2>4, Zenon DEF parseSubnetStruct, name
<1>7. DOMAIN got = {"admin", "deposit", "lock", "name"} /\ got # Null
  BY NullHasNoField
<1>8. \A field \in DOMAIN got : Agrees(got, field) \/ (field \in TextFields /\ got[field] = EmptyText)
  BY <1>1, <1>5 DEF Agrees, TextFields
<1>9. Decoded = Null \/ Decoded = got
  BY <1>3, <1>6 DEF parseSubnetStruct
<1>10. CutIsNotMisread
  BY <1>8, <1>9 DEF CutIsNotMisread
<1>11. Hidden <=> struct.admin = 0
  BY DEF Hidden
<1>12. words = whole => Has(4)
  BY <1>1 DEF Has
<1>13. words = whole => \A field \in DOMAIN got : Agrees(got, field)
  BY <1>1, <1>5 DEF Agrees
<1>14. DecodedAsEncoded
  BY <1>4, <1>6, <1>7, <1>11, <1>12, <1>13 DEF DecodedAsEncoded
<1> QED
  BY <1>10, <1>14

LEMMA MetadataIsDecoded ==
  ASSUME DecodeInv, struct.kind = "metadata"
  PROVE  DecodedAsEncoded /\ CutIsNotMisread
<1> DEFINE whole == Encoded(struct)
<1>1. /\ whole \in Seq(Word) /\ DOMAIN struct = {"kind", "name", "description", "url", "logo"}
      /\ IsText(struct.name) /\ IsText(struct.description) /\ IsText(struct.url) /\ IsText(struct.logo)
  BY MetadataLaidOut DEF DecodeInv
<1>2. PICK p \in [1 .. 4 -> Nat] :
        /\ \A i \in 1 .. 4 : p[i] >= 4 /\ whole[i].n = 32 * p[i]
        /\ LiesAt(whole, struct.name, p[1]) /\ LiesAt(whole, struct.description, p[2])
        /\ LiesAt(whole, struct.url, p[3]) /\ LiesAt(whole, struct.logo, p[4])
        /\ Len(whole) >= 8
  BY MetadataLaidOut, Zenon DEF DecodeInv
<1>3. Received(whole) /\ Len(words) \in Nat
  BY <1>1, PrefixIsReceived, LenProperties DEF DecodeInv
<1>4. Decoded = parseSubnetMetadata
  BY DEF Decoded
<1>5. Whole <=> words = whole
  BY DEF Whole
<1> HIDE DEF whole
<1> DEFINE field(i) == IF Has(7) THEN TextAt(At(i) \div 32) ELSE EmptyText
           Right(t, got) == got \in {t, EmptyText} /\ (words = whole => got = t)
<1>6. p[1] \in Nat /\ p[2] \in Nat /\ p[3] \in Nat /\ p[4] \in Nat
  OBVIOUS
<1>7. /\ Right(struct.name, TextAt(p[1])) /\ Right(struct.description, TextAt(p[2]))
      /\ Right(struct.url, TextAt(p[3])) /\ Right(struct.logo, TextAt(p[4]))
  <2>1. \A t : \A at \in Nat : IsText(t) /\ LiesAt(whole, t, at) => Right(t, TextAt(at))
    BY <1>1, <1>3, TextIsFound
  <2> HIDE DEF Right
  <2>2. /\ LiesAt(whole, struct.name, p[1]) /\ LiesAt(whole, struct.description, p[2])
        /\ LiesAt(whole, struct.url, p[3]) /\ LiesAt(whole, struct.logo, p[4])
    BY <1>2, Zenon
  <2> QED
    BY <1>1, <1>6, <2>1, <2>2, Zenon
<1>8. words = whole => Has(7)
  BY <1>2 DEF Has
<1>9. ASSUME NEW i \in 0 .. 3, Has(7) PROVE field(i) = TextAt(p[i + 1])
  <2>1. Has(i) /\ i \in Nat /\ i + 1 \in 1 .. 4
    BY <1>3, <1>9 DEF Has
  <2>2. At(i) = whole[i + 1].n
    BY <1>1, <1>3, <2>1, WordIsRead
  <2>3. whole[i + 1].n = 32 * p[i + 1] /\ p[i + 1] \in Nat
    BY <1>2, <2>1
  <2>4. At(i) \div 32 = p[i + 1]
    BY <2>2, <2>3
  <2> QED
    BY <1>9, <2>4
<1>10. /\ Right(struct.name, field(0)) /\ Right(struct.description, field(1))
       /\ Right(struct.url, field(2)) /\ Right(struct.logo, field(3))
  <2>1. CASE Has(7)
    <3>1. /\ field(0) = TextAt(p[0 + 1]) /\ field(1) = TextAt(p[1 + 1])
          /\ field(2) = TextAt(p[2 + 1]) /\ field(3) = TextAt(p[3 + 1])
      BY <1>9, <2>1
    <3> QED
      BY <1>7, <3>1
  <2>2. CASE ~Has(7)
    BY <1>8, <2>2
  <2> QED
    BY <2>1, <2>2
<1>11. Decoded = [name |-> field(0), description |-> field(1), url |-> field(2), logo |-> field(3)]
  BY <1>4, Zenon DEF parseSubnetMetadata
<1> HIDE DEF field
<1>12. /\ DOMAIN Decoded = {"name", "description", "url", "logo"}
       /\ Decoded["name"] = field(0) /\ Decoded["description"] = field(1)
       /\ Decoded["url"] = field(2) /\ Decoded["logo"] = field(3)
  BY <1>11
<1>13. Decoded # Null
  BY <1>12, NullHasNoField
<1>14. CutIsNotMisread
  BY <1>10, <1>12 DEF CutIsNotMisread, Agrees, TextFields
<1>15. ~Hidden
  BY DEF Hidden
<1>16. DecodedAsEncoded
  BY <1>5, <1>10, <1>12, <1>13, <1>15 DEF DecodedAsEncoded, Agrees
<1> QED
  BY <1>14, <1>16
-----------------------------------------------------------------------------
\* The whole answer is a sequence of words, whatever it is of.
LEMMA EncodedIsWords == struct \in Structs => Encoded(struct) \in Seq(Word)
<1> SUFFICES ASSUME struct \in Structs PROVE Encoded(struct) \in Seq(Word)
  OBVIOUS
<1>1. struct.kind \in {"provider", "bid", "session", "model", "created", "subnet", "metadata"}
  BY DEF Structs
<1>2. struct.kind = "provider" => Encoded(struct) \in Seq(Word)
  BY ProviderLaidOut
<1>3. struct.kind = "bid" => Encoded(struct) \in Seq(Word)
  BY BidLaidOut
<1>4. struct.kind = "session" => Encoded(struct) \in Seq(Word)
  BY SessionLaidOut
<1>5. struct.kind = "model" => Encoded(struct) \in Seq(Word)
  BY ModelLaidOut
<1>6. struct.kind = "created" => Encoded(struct) \in Seq(Word)
  BY CreatedLaidOut
<1>7. struct.kind = "subnet" => Encoded(struct) \in Seq(Word)
  BY SubnetLaidOut
<1>8. struct.kind = "metadata" => Encoded(struct) \in Seq(Word)
  BY MetadataLaidOut
<1> QED
  BY <1>1, <1>2, <1>3, <1>4, <1>5, <1>6, <1>7, <1>8, Zenon

LEMMA DecodeStarts == AbiInit => DecodeInv
<1> SUFFICES ASSUME AbiInit PROVE DecodeInv
  OBVIOUS
<1>1. struct \in Structs /\ words = Encoded(struct)
  BY DEF AbiInit
<1>2. words \in Seq(Word)
  BY <1>1, EncodedIsWords
<1>3. IsPrefix(words, words)
  BY <1>2, LenProperties DEF IsPrefix
<1> QED
  BY <1>1, <1>2, <1>3 DEF DecodeInv

\* The words before the last of a received answer are received too.
LEMMA FrontIsReceived ==
  ASSUME NEW whole \in Seq(Word), NEW got \in Seq(Word), got # <<>>, IsPrefix(got, whole)
  PROVE  Front(got) \in Seq(Word) /\ IsPrefix(Front(got), whole)
<1> DEFINE n == Len(got) - 1
           front == SubSeq(got, 1, n)
<1>1. /\ Len(got) \in Nat /\ Len(whole) \in Nat /\ Len(got) <= Len(whole)
      /\ SubSeq(got, 1, Len(got)) = SubSeq(whole, 1, Len(got))
  BY LenProperties DEF IsPrefix
<1>2. Len(got) # 0
  BY EmptySeq
<1>3. n \in Nat /\ n <= Len(whole) /\ n <= Len(got) /\ n < Len(got)
  BY <1>1, <1>2
<1>4. (\A i \in 1 .. n : got[i] \in Word) /\ (\A i \in 1 .. n : whole[i] \in Word)
  BY <1>1, <1>3, ElementOfSeq
<1>5. \A i \in 1 .. Len(got) : got[i] = whole[i]
  <2>1. SubSeq(got, 1, Len(got)) = got
    BY SubSeqFull
  <2>2. \A i \in 1 .. Len(got) : whole[i] \in Word
    BY <1>1, ElementOfSeq
  <2>3. \A i \in 1 .. Len(got) - 1 + 1 : SubSeq(whole, 1, Len(got))[i] = whole[1 + i - 1]
    BY <1>1, <2>2, SubSeqProperties
  <2> QED
    BY <1>1, <2>1, <2>3
<1>6. /\ front \in Seq(Word) /\ Len(front) = n /\ \A i \in 1 .. n : front[i] = got[i]
  <2>1. /\ front \in Seq(Word) /\ Len(front) = IF 1 <= n THEN n - 1 + 1 ELSE 0
        /\ \A i \in 1 .. n - 1 + 1 : front[i] = got[1 + i - 1]
    BY <1>3, <1>4, SubSeqProperties
  <2>0. n \in Nat
    BY <1>3
  <2> HIDE DEF front, n
  <2>2. n - 1 + 1 = n /\ (~(1 <= n) => n = 0) /\ \A i \in 1 .. n : 1 + i - 1 = i
    BY <2>0
  <2>3. Len(front) = n
    BY <2>1, <2>2
  <2>4. \A i \in 1 .. n : front[i] = got[i]
    BY <2>1, <2>2
  <2> QED
    BY <2>1, <2>3, <2>4
<1>7. /\ SubSeq(whole, 1, n) \in Seq(Word) /\ Len(SubSeq(whole, 1, n)) = n
      /\ \A i \in 1 .. n : SubSeq(whole, 1, n)[i] = whole[i]
  <2> DEFINE part == SubSeq(whole, 1, n)
  <2>1. /\ part \in Seq(Word) /\ Len(part) = IF 1 <= n THEN n - 1 + 1 ELSE 0
        /\ \A i \in 1 .. n - 1 + 1 : part[i] = whole[1 + i - 1]
    BY <1>3, <1>4, SubSeqProperties
  <2>0. n \in Nat
    BY <1>3
  <2> HIDE DEF part, n
  <2>2. n - 1 + 1 = n /\ (~(1 <= n) => n = 0) /\ \A i \in 1 .. n : 1 + i - 1 = i
    BY <2>0
  <2>3. Len(part) = n
    BY <2>1, <2>2
  <2>4. \A i \in 1 .. n : part[i] = whole[i]
    BY <2>1, <2>2
  <2> QED
    BY <2>1, <2>3, <2>4 DEF part
<1>8. front = SubSeq(whole, 1, n)
  <2> DEFINE part == SubSeq(whole, 1, n)
  <2>1. part \in Seq(Word) /\ Len(part) = n /\ \A i \in 1 .. n : front[i] = part[i]
    BY <1>3, <1>5, <1>6, <1>7
  <2> HIDE DEF front, part
  <2>2. front = part
    BY <1>6, <2>1, SeqEqual
  <2> QED
    BY <2>2 DEF part
<1> HIDE DEF front
<1>9. SubSeq(front, 1, Len(front)) = front
  BY <1>6, SubSeqFull
<1>10. IsPrefix(front, whole)
  BY <1>3, <1>6, <1>8, <1>9 DEF IsPrefix
<1>11. Front(got) = front
  BY DEF Front, front
<1> QED
  BY <1>6, <1>10, <1>11

LEMMA DecodeStep == DecodeInv /\ [AbiNext]_abiVars => DecodeInv'
<1> SUFFICES ASSUME DecodeInv, [AbiNext]_abiVars PROVE DecodeInv'
  OBVIOUS
<1>1. CASE Cut
  <2>1. words # <<>> /\ words' = Front(words) /\ struct' = struct
    BY <1>1 DEF Cut
  <2>2. Encoded(struct) \in Seq(Word)
    BY EncodedIsWords DEF DecodeInv
  <2>3. words' \in Seq(Word) /\ IsPrefix(words', Encoded(struct))
    BY <2>1, <2>2, FrontIsReceived DEF DecodeInv
  <2> QED
    BY <2>1, <2>3, Zenon DEF DecodeInv
<1>2. CASE UNCHANGED abiVars
  BY <1>2, Zenon DEF DecodeInv, abiVars
<1> QED
  BY <1>1, <1>2 DEF AbiNext

LEMMA DecodersFollow == DecodeInv => DecodersAreTrue
<1> SUFFICES ASSUME DecodeInv PROVE DecodersAreTrue
  OBVIOUS
<1>1. struct.kind \in {"provider", "bid", "session", "model", "created", "subnet", "metadata"}
  BY DEF DecodeInv, Structs
<1>2. DecodedAsEncoded /\ CutIsNotMisread
  BY <1>1, ProviderIsDecoded, BidIsDecoded, SessionIsDecoded, ModelIsDecoded, CreatedIsDecoded,
     SubnetIsDecoded, MetadataIsDecoded, Zenon
<1>3. AbiTypeOK
  BY DEF DecodeInv, AbiTypeOK
<1> QED
  BY <1>2, <1>3 DEF DecodersAreTrue

\* Every step of the readers is a step of the decoders, or leaves them.
LEMMA ReadersStepAbi == [ReadersNext]_readerVars => [AbiNext]_abiVars
  BY DEF ReadersNext, Plays, readerVars

(***************************************************************************)
(* For any lengths of strings and any numbers: a whole answer is decoded   *)
(* to what the contract encoded, or hidden as the code means to, and of an *)
(* answer cut short nothing false is read.                                 *)
(***************************************************************************)
THEOREM DecodersStayTrue == ReadersSpec => []DecodersHold
<1>1. ReadersInit => DecodeInv
  BY DecodeStarts DEF ReadersInit
<1>2. DecodeInv /\ [ReadersNext]_readerVars => DecodeInv'
  BY DecodeStep, ReadersStepAbi
<1>3. DecodeInv => DecodersHold
  BY DecodersFollow DEF DecodersHold
<1> QED
  BY <1>1, <1>2, <1>3, PTL DEF ReadersSpec
==============================================================================
