----------------------------- MODULE FrontPage ------------------------------
(***************************************************************************)
(* The landing page's blob: some twenty queries and a few shared memos of  *)
(* the heavy ones, put together by the minute cron and by a visitor who    *)
(* finds no blob (src/src/handlers/fatboy.ts, utils/cache.ts).  What a     *)
(* query answers is the moment it is asked at; a memo's value carries the  *)
(* moment of its oldest input, the set of serving providers of the build   *)
(* that computed it.                                                       *)
(***************************************************************************)
EXTENDS Integers, FiniteSets, FiniteSetsExt

CONSTANTS
  Queries,       \* what a build asks D1 itself
  Aggregates,    \* what it takes from memos
  Crons,         \* builds that store the blob
  Visitors,      \* builds that answer a visitor
  AGG_TTL,       \* age up to which a memo is taken (300 s)
  MAX_BUILD,     \* how long a build lasts at most, its queries being cut off
  MaxSecond,     \* bound on the clock
  NoFront        \* no blob, no memo, no build

ASSUME FrontAssumption ==
  /\ AGG_TTL \in Nat \ {0} /\ {MAX_BUILD, MaxSecond} \subseteq Nat /\ Queries \intersect Aggregates = {}
  /\ IsFiniteSet(Queries) /\ IsFiniteSet(Aggregates)

VARIABLES
  frontClock,
  frontRow,    \* the blob in sync_state
  aggMemo,     \* each aggregate's memo: oldest and cachedAt
  build        \* each build: when it began, when it read the serving set, the parts it has

frontVars == <<frontClock, frontRow, aggMemo, build>>

Builders == Crons \union Visitors
AllParts == Queries \union Aggregates

FrontInit ==
  /\ frontClock = 0 /\ frontRow = NoFront
  /\ aggMemo = [a \in Aggregates |-> NoFront]
  /\ build = [b \in Builders |-> NoFront]

FrontClockMoves ==
  /\ frontClock < MaxSecond
  /\ \A b \in Builders : build[b] # NoFront => frontClock < build[b].began + MAX_BUILD
  /\ frontClock' = frontClock + 1
  /\ UNCHANGED <<frontRow, aggMemo, build>>

\* buildFatboy: by the cron, or by a visitor who finds no blob or cannot read it.
BeginBuild(b) ==
  /\ build[b] = NoFront
  /\ build' = [build EXCEPT ![b] = [began |-> frontClock, serving |-> -1, has |-> {}]]
  /\ UNCHANGED <<frontClock, frontRow, aggMemo>>

\* The serving providers come first: later queries carry them as a list.
ReadServing(b) ==
  /\ build[b] # NoFront /\ build[b].serving = -1
  /\ build' = [build EXCEPT ![b].serving = frontClock]
  /\ UNCHANGED <<frontClock, frontRow, aggMemo>>

Lacks(b, part) == build[b] # NoFront /\ build[b].serving # -1 /\ \A p \in build[b].has : p.part # part
Having(b, part, oldest) == [build EXCEPT ![b].has = @ \union {[part |-> part, oldest |-> oldest]}]

ReadPart(b, q) ==
  /\ Lacks(b, q) /\ build' = Having(b, q, frontClock)
  /\ UNCHANGED <<frontClock, frontRow, aggMemo>>

\* Mutant: a memo is good while there is one.
Good_always(a) == aggMemo[a] # NoFront

Good(a) == aggMemo[a] # NoFront /\ frontClock - aggMemo[a].cachedAt < AGG_TTL

\* withKvValue: a memo that is young, or the query and, if KV takes it, a new memo.
TakeMemo(b, a) ==
  /\ Lacks(b, a) /\ Good(a) /\ build' = Having(b, a, aggMemo[a].oldest)
  /\ UNCHANGED <<frontClock, frontRow, aggMemo>>

ComputeMemo(b, a, reads, lands) ==
  /\ Lacks(b, a) /\ (reads => ~Good(a))
  /\ build' = Having(b, a, build[b].serving)
  /\ aggMemo' = IF lands THEN [aggMemo EXCEPT ![a] = [oldest |-> build[b].serving, cachedAt |-> frontClock]] ELSE aggMemo
  /\ UNCHANGED <<frontClock, frontRow>>

Complete(b) == build[b] # NoFront /\ {p.part : p \in build[b].has} = AllParts

Page(b) == [built |-> build[b].began, has |-> build[b].has]

\* buildAndCacheFatboy keeps the page, handleUiInit answers with it.
FinishBuild(b) ==
  /\ Complete(b)
  /\ frontRow' = IF b \in Crons THEN Page(b) ELSE frontRow
  /\ build' = [build EXCEPT ![b] = NoFront]
  /\ UNCHANGED <<frontClock, aggMemo>>

\* A query or the write fails, and the last good blob is kept.
FailBuild(b) ==
  /\ build[b] # NoFront /\ build' = [build EXCEPT ![b] = NoFront]
  /\ UNCHANGED <<frontClock, frontRow, aggMemo>>

FrontNext ==
  \/ \E b \in Builders :
       \/ BeginBuild(b) \/ ReadServing(b) \/ FinishBuild(b) \/ FailBuild(b)
       \/ \E q \in Queries : ReadPart(b, q)
       \/ \E a \in Aggregates : TakeMemo(b, a) \/ \E reads, lands \in BOOLEAN : ComputeMemo(b, a, reads, lands)
  \/ FrontClockMoves
-----------------------------------------------------------------------------
\* What a visitor gets: the blob, however old, or the page of a build.
FrontPages == ({frontRow} \ {NoFront}) \union {Page(b) : b \in {v \in Visitors : Complete(v)}}

PartType == [part : AllParts, oldest : 0 .. MaxSecond]

FrontTypeOK ==
  /\ frontClock \in 0 .. MaxSecond
  /\ \A p \in FrontPages : p.built \in 0 .. frontClock /\ p.has \subseteq PartType
  /\ \A a \in Aggregates : aggMemo[a] # NoFront => aggMemo[a].oldest <= aggMemo[a].cachedAt
  /\ \A b \in Builders : build[b] # NoFront => build[b].serving \in -1 .. frontClock /\ build[b].has \subseteq PartType

(***************************************************************************)
(* "All-or-nothing": every page kept or sent has each of its parts once,  *)
(* the queries' own from its own time, and "a cached row's serving/zombie  *)
(* split may lag a bid change by up to the TTL": a memo's, from no more    *)
(* than the TTL and the length of a build before it, whichever builds ran  *)
(* at once, shared memos, failed, or missed KV.                            *)
(***************************************************************************)
FrontIsWhole == FrontTypeOK /\ \A page \in FrontPages :
  /\ {p.part : p \in page.has} = AllParts /\ Cardinality(page.has) = Cardinality(AllParts)
  /\ \A p \in page.has :
       /\ p.part \in Queries => p.oldest >= page.built
       /\ p.oldest >= page.built - AGG_TTL - MAX_BUILD + 1
       /\ p.oldest <= page.built + MAX_BUILD
=============================================================================
