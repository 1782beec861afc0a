------------------------------- MODULE Prices --------------------------------
(***************************************************************************)
(* The MOR price: /mor/v1/price serves a cached row of sync_state, or the  *)
(* DEX pool, or CoinGecko, or the old row flagged stale; requests and the  *)
(* minute cron record their reads of the pool in price_history, and the    *)
(* chart joins that history to a cached baseline (src/src/handlers/        *)
(* price.ts, src/src/utils/onchain-price.ts).  A price is known by the     *)
(* second it was read at its source.                                       *)
(***************************************************************************)
EXTENDS Integers, FiniteSets, Sequences

CONSTANTS
  Quoters,       \* requests for the price
  Recorders,     \* runs of the cron's recordPriceHistory
  CHART_LIFE,    \* CHART_CACHE_TTL
  CACHE_SECONDS, \* CACHE_TTL_SECONDS
  SPACING,       \* HISTORY_MIN_SPACING_SEC
  PATIENCE,      \* a request answers, and a run ends, within this time
  Window,        \* the chart's window
  NEAR_START,    \* DAY_MS: own points this near the window's start cover it
  LastSecond,    \* bound on the clock
  MaxAsked,      \* bound on the requests and runs of a behaviour
  NoPrice        \* no row, nothing read

ASSUME PricesAssumption ==
  /\ {CHART_LIFE, CACHE_SECONDS, SPACING, PATIENCE, Window, NEAR_START, LastSecond, MaxAsked} \subseteq Nat
  /\ SPACING > 0 /\ Quoters \intersect Recorders = {}

VARIABLES
  seconds,   \* the clock
  priceRow,  \* sync_state.token_prices: when its price was read, and fetchedAt
  points,    \* price_history, by ts
  ask,       \* of each request and run: its step, when it began, the price it
             \* holds and the second it looked for the last point in
  asked,     \* requests and runs begun
  raced,     \* history: runs of recordPriceHistory have overlapped
  baseline   \* sync_state.mor_price_chart: when it was fetched

priceVars == <<seconds, priceRow, points, ask, asked, raced, baseline>>

Askers == Quoters \union Recorders
Rest   == [step |-> "idle", from |-> 0, price |-> NoPrice, mark |-> 0]

PricesInit ==
  /\ seconds = 0 /\ priceRow = NoPrice /\ points = {}
  /\ ask = [c \in Askers |-> Rest] /\ asked = 0 /\ raced = FALSE
  /\ baseline = NoPrice

\* c leaves a step holding what it held, leaves it with a price, or is done.
Moves(c, here, next) == ask[c].step = here /\ ask' = [ask EXCEPT ![c].step = next]
Takes(c, here, next, price) ==
  ask[c].step = here /\ ask' = [ask EXCEPT ![c].step = next, ![c].price = price]
Done(c, here) == ask[c].step = here /\ ask' = [ask EXCEPT ![c] = Rest]

Begins == asked < MaxAsked /\ asked' = asked + 1

\* Mutant: the row's age is not asked.
FreshRow_anyAge == priceRow # NoPrice

\* getCachedPrice: a row no older than the TTL.
FreshRow == priceRow # NoPrice /\ seconds - priceRow.fetchedAt <= CACHE_SECONDS

AskPrice(c) ==
  /\ c \in Quoters /\ ask[c] = Rest /\ Begins
  /\ ask' = [ask EXCEPT ![c] =
       [step |-> IF FreshRow THEN "answer" ELSE "pool", from |-> seconds,
        price |-> IF FreshRow THEN priceRow ELSE NoPrice, mark |-> 0]]
  /\ UNCHANGED <<seconds, priceRow, points, raced, baseline>>

\* readOnchainPrice: some endpoint answers both calls within the sane bounds.
PoolAnswers(c) ==
  /\ Takes(c, "pool", IF c \in Quoters THEN "store" ELSE "insert", [read |-> seconds, fetchedAt |-> seconds])
  /\ UNCHANGED <<seconds, priceRow, points, asked, raced, baseline>>

PoolFails(c) ==
  /\ IF c \in Quoters THEN Moves(c, "pool", "gecko") ELSE Done(c, "pool")
  /\ UNCHANGED <<seconds, priceRow, points, asked, raced, baseline>>

GeckoAnswers(c) ==
  /\ Takes(c, "gecko", "fallback", [read |-> seconds, fetchedAt |-> seconds])
  /\ UNCHANGED <<seconds, priceRow, points, asked, raced, baseline>>

\* Nobody has a price: the old row, flagged stale, or 503.
AnswerStale(c) == Done(c, "gecko") /\ UNCHANGED <<seconds, priceRow, points, asked, raced, baseline>>

(***************************************************************************)
(* priceFromOnchain stamps the price once the history and the supply have  *)
(* been read, and setCachedPrice stores it, or swallows its failure.       *)
(***************************************************************************)
StampAndStore(c, kept) ==
  LET price == [ask[c].price EXCEPT !.fetchedAt = seconds] IN
  /\ Takes(c, "store", "record", price)
  /\ priceRow' = IF kept THEN price ELSE priceRow
  /\ UNCHANGED <<seconds, points, asked, raced, baseline>>

StoreFallback(c, kept) ==
  /\ Moves(c, "fallback", "answer")
  /\ priceRow' = IF kept THEN ask[c].price ELSE priceRow
  /\ UNCHANGED <<seconds, points, asked, raced, baseline>>

\* The cron's run begins; it has no price yet.
CronRecords(c) ==
  /\ c \in Recorders /\ ask[c] = Rest /\ Begins
  /\ ask' = [ask EXCEPT ![c].from = seconds, ![c].step = "record"]
  /\ UNCHANGED <<seconds, priceRow, points, raced, baseline>>

\* The latest point lies less than the spacing back.
TooSoon == \E p \in points : \A q \in points : q <= p /\ seconds - p < SPACING

Recording(c) == \E d \in Askers \ {c} :
  ask[d].step = "insert" \/ (d \in Recorders /\ ask[d].step = "pool")

\* recordPriceHistory: the latest point decides whether one is due, at this second.
SkipPoint(c) ==
  /\ TooSoon
  /\ IF c \in Quoters THEN Moves(c, "record", "answer") ELSE Done(c, "record")
  /\ UNCHANGED <<seconds, priceRow, points, asked, raced, baseline>>

PointIsDue(c) ==
  /\ ~TooSoon /\ ask[c].step = "record"
  /\ ask' = [ask EXCEPT ![c].step = IF c \in Quoters THEN "insert" ELSE "pool", ![c].mark = seconds]
  /\ raced' = (raced \/ Recording(c))
  /\ UNCHANGED <<seconds, priceRow, points, asked, baseline>>

\* insertPriceHistoryPoint, under the second of the check; a failure is swallowed.
InsertPoint(c, kept) ==
  /\ IF c \in Quoters THEN Moves(c, "insert", "answer") ELSE Done(c, "insert")
  /\ points' = IF kept THEN points \union {ask[c].mark} ELSE points
  /\ UNCHANGED <<seconds, priceRow, asked, raced, baseline>>

AnswerPrice(c) == Done(c, "answer") /\ UNCHANGED <<seconds, priceRow, points, asked, raced, baseline>>
-----------------------------------------------------------------------------
ChartStart == seconds - Window

\* ownChartPoints.
OwnPoints == {p \in points : p >= ChartStart}
SelfOwned == Cardinality(OwnPoints) >= 2 /\ \E p \in OwnPoints : p <= ChartStart + NEAR_START

\* coingeckoBaseline, for a chart that needs it, once the kept one's life is over.
FetchBaseline ==
  /\ ~SelfOwned
  /\ ~(baseline # NoPrice /\ seconds - baseline < CHART_LIFE)
  /\ baseline' = seconds
  /\ UNCHANGED <<seconds, priceRow, points, ask, asked, raced>>

\* CoinGecko's series as fetched at a second: a point for every second.
Series == IF baseline = NoPrice THEN {} ELSE 0 .. baseline

\* The part of the window older than the earliest own point.
Historical == {t \in Series : t >= ChartStart /\ \A p \in OwnPoints : t < p}

Before(t, times) == {u \in times : u < t}
InOrder(times) ==
  [i \in 1 .. Cardinality(times) |-> CHOOSE t \in times : Cardinality(Before(t, times)) = i - 1]

\* assembleChartPoints.
Chart == IF SelfOwned THEN InOrder(OwnPoints) ELSE InOrder(Historical) \o InOrder(OwnPoints)

SecondPassesBy ==
  /\ seconds < LastSecond
  /\ \A c \in Askers : ask[c] # Rest => seconds - ask[c].from < PATIENCE
  /\ seconds' = seconds + 1
  /\ UNCHANGED <<priceRow, points, ask, asked, raced, baseline>>

PricesNext ==
  \/ \E c \in Askers :
       \/ AskPrice(c) \/ PoolAnswers(c) \/ PoolFails(c) \/ GeckoAnswers(c) \/ AnswerStale(c)
       \/ CronRecords(c) \/ SkipPoint(c) \/ PointIsDue(c) \/ AnswerPrice(c)
       \/ \E kept \in BOOLEAN : StampAndStore(c, kept) \/ StoreFallback(c, kept) \/ InsertPoint(c, kept)
  \/ FetchBaseline \/ SecondPassesBy
-----------------------------------------------------------------------------
PricesTypeOK ==
  /\ seconds \in Nat /\ points \subseteq 0 .. seconds /\ raced \in BOOLEAN
  /\ \A c \in Askers :
       /\ ask[c].step \in {"idle", "pool", "store", "gecko", "fallback", "record", "insert", "answer"}
       /\ ask[c].from \in 0 .. seconds /\ ask[c].mark \in 0 .. seconds

(***************************************************************************)
(* A price that is not flagged stale was read at its source no longer ago  *)
(* than the TTL of the row and two requests, the one that stored it and    *)
(* the one it answers, though the row is stamped after the read and a      *)
(* slower request may put an older price in its place.                     *)
(***************************************************************************)
PriceIsRecent == \A c \in Quoters :
  ask[c].step = "answer" => seconds - ask[c].price.read <= CACHE_SECONDS + 2 * PATIENCE

(***************************************************************************)
(* Two points of the price history lie closer than the spacing only where  *)
(* runs that record have overlapped ("deduped to ~1 point per 10 min").    *)
(***************************************************************************)
PointsSpaced == ~raced => \A p, q \in points : p < q => q - p >= SPACING

(***************************************************************************)
(* A chart is one series: its times strictly increase where the baseline   *)
(* ends and the own points begin, whenever each of the two was read.       *)
(***************************************************************************)
ChartIsOneSeries == \A i \in 1 .. Len(Chart) - 1 : Chart[i] < Chart[i + 1]

(***************************************************************************)
(* The price, its history and its chart are what they say.                 *)
(***************************************************************************)
PricesAreTrue == PricesTypeOK /\ PriceIsRecent /\ PointsSpaced /\ ChartIsOneSeries
=============================================================================
