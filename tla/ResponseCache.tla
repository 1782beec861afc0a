---------------------------- MODULE ResponseCache ----------------------------
(***************************************************************************)
(* The two KV caches a response passes (src/src/utils/cache.ts): a page is *)
(* memoized by withKvCache, and its handler builds it from a value that    *)
(* withKvValue memoizes across pages; the sync coordinator warms the page  *)
(* without asking the cache.  KV expires nothing before a minute, so both  *)
(* stamp their entries and judge them by age, and KV may answer a get with *)
(* any entry it was given before.  Times are ages: Tick makes all of them  *)
(* older.  The second half is a client that walks the cached pages of the  *)
(* session list.                                                           *)
(***************************************************************************)
EXTENDS Integers, FiniteSets

CONSTANTS
  Readers,   \* requests that may overlap
  Warmers,   \* ticks of the coordinator that rebuild the page
  PAGE_TTL,  \* what routes/api.ts gives the page
  VALUE_TTL, \* what the handler gives the value
  KV_MIN,    \* KV's least expiration
  HANDLING   \* a handler answers within this time

ASSUME CacheAssumption ==
  /\ {PAGE_TTL, VALUE_TTL, KV_MIN, HANDLING} \subseteq Nat
  /\ PAGE_TTL > 0 /\ VALUE_TTL > 0

VARIABLES
  pages,    \* the page's entries KV may still answer with, by age and by age of their data
  values,   \* the value's entries KV may still answer with
  readStep, \* where each reader and warmer is
  elapsed,  \* how long ago its handler began
  dataAge,  \* how long ago the data it holds was read from the tables
  answered  \* history: the age of the data in the last answer of this tick

cacheVars == <<pages, values, readStep, elapsed, dataAge, answered>>

Actors  == Readers \union Warmers

CacheInit ==
  /\ pages = {} /\ values = {}
  /\ readStep = [r \in Actors |-> "idle"]
  /\ elapsed = [r \in Actors |-> 0] /\ dataAge = [r \in Actors |-> 0]
  /\ answered = 0

Pass(r, from, to) ==
  /\ readStep[r] = from
  /\ readStep' = [readStep EXCEPT ![r] = to]

\* Mutant: an entry is good for as long as KV keeps it.
Young_byExpiry(entry, ttl) == entry.age < (IF ttl < KV_MIN THEN KV_MIN ELSE ttl)

\* Date.now() - entry.cachedAt < ttlSeconds * 1000
Young(entry, ttl) == entry.age < ttl

\* withKvCache: X-Cache HIT.
PageHit(r, entry) ==
  /\ r \in Readers
  /\ readStep[r] = "idle" /\ Young(entry, PAGE_TTL)
  /\ answered' = entry.data
  /\ UNCHANGED <<pages, values, readStep, elapsed, dataAge>>

\* A handler that is over leaves nothing behind.
Forgets(r) == elapsed' = [elapsed EXCEPT ![r] = 0] /\ dataAge' = [dataAge EXCEPT ![r] = 0]

\* No entry, an old one, or a corrupt one; a warmer does not ask.
BeginHandler(r) ==
  /\ Pass(r, "idle", "value")
  /\ Forgets(r) /\ UNCHANGED <<pages, values, answered>>

\* withKvValue: the memoized value.
ValueHit(r, entry) ==
  /\ Young(entry, VALUE_TTL)
  /\ Pass(r, "value", "page")
  /\ dataAge' = [dataAge EXCEPT ![r] = entry.data]
  /\ UNCHANGED <<pages, values, elapsed, answered>>

\* A miss, or a get that throws: the tables are read.
Compute(r) ==
  /\ Pass(r, "value", "store")
  /\ dataAge' = [dataAge EXCEPT ![r] = 0]
  /\ UNCHANGED <<pages, values, elapsed, answered>>

Stamped(r) == [age |-> 0, data |-> dataAge[r]]

\* The put that stores the value; kept or not, the handler goes on.
StoreValue(r, kept) ==
  /\ Pass(r, "store", "page")
  /\ values' = IF kept THEN values \union {Stamped(r)} ELSE values
  /\ UNCHANGED <<pages, elapsed, dataAge, answered>>

\* The put that stores the page, and the answer (of a reader).
StorePage(r, kept) ==
  /\ Pass(r, "page", "idle")
  /\ pages' = IF kept THEN pages \union {Stamped(r)} ELSE pages
  /\ answered' = IF r \in Readers THEN dataAge[r] ELSE answered
  /\ Forgets(r) /\ UNCHANGED values

\* The handler throws, or answers an error, which is not stored.
HandlerFails(r) ==
  /\ readStep[r] # "idle"
  /\ readStep' = [readStep EXCEPT ![r] = "idle"]
  /\ Forgets(r) /\ UNCHANGED <<pages, values, answered>>

Older(entry)        == [age |-> entry.age + 1, data |-> entry.data + 1]
Aged(entries, ttl)  == {e \in {Older(entry) : entry \in entries} :
                          e.age < (IF ttl < KV_MIN THEN KV_MIN ELSE ttl)}
Grown(ages)         == [r \in Actors |-> IF readStep[r] = "idle" THEN 0 ELSE ages[r] + 1]

\* Time passes; KV drops what expired.
Tick ==
  /\ \A r \in Actors : readStep[r] # "idle" => elapsed[r] < HANDLING
  /\ pages' = Aged(pages, PAGE_TTL) /\ values' = Aged(values, VALUE_TTL)
  /\ elapsed' = Grown(elapsed) /\ dataAge' = Grown(dataAge) /\ answered' = 0
  /\ UNCHANGED readStep

CacheNext ==
  \/ \E r \in Actors :
       \/ BeginHandler(r) \/ Compute(r) \/ HandlerFails(r)
       \/ \E entry \in pages : PageHit(r, entry)
       \/ \E entry \in values : ValueHit(r, entry)
       \/ \E kept \in BOOLEAN : StoreValue(r, kept) \/ StorePage(r, kept)
  \/ Tick
-----------------------------------------------------------------------------
CacheTypeOK ==
  /\ answered \in Nat
  /\ pages \subseteq [age : Nat, data : Nat] /\ values \subseteq [age : Nat, data : Nat]
  /\ readStep \in [Actors -> {"idle", "value", "store", "page"}]
  /\ elapsed \in [Actors -> 0 .. HANDLING] /\ dataAge \in [Actors -> Nat]

(***************************************************************************)
(* An answer's data is at most the two TTLs and two handlings old, though  *)
(* an entry is stamped when it is stored and not when its data was read,   *)
(* a slow handler stores old data over newer, and KV answers with entries  *)
(* that were replaced (the effective TTLs the header of cache.ts claims).  *)
(***************************************************************************)
AnswersAreRecent == CacheTypeOK /\ answered < PAGE_TTL + VALUE_TTL + 2 * HANDLING
-----------------------------------------------------------------------------
(***************************************************************************)
(* A client walks /mor/v1/sessions page by page while sessions are         *)
(* indexed.  The list is newest first with LIMIT and OFFSET, every page is *)
(* cached for itself, and the total that decides whether there is a next   *)
(* page is a count shared by all pages and older than any of them          *)
(* (src/src/handlers/sessions-list.ts, src/src/utils/metrics.ts).          *)
(***************************************************************************)
CONSTANTS
  LIMIT,     \* rows of a page
  PAGE_CAP,  \* 1000: no page lies deeper
  PAGE_LIFE, \* 30 s, as ticks of the clock
  COUNT_LIFE,\* 300 s
  MaxOpened  \* bound: opened_at of the newest session

ASSUME PagesAssumption ==
  /\ {LIMIT, PAGE_CAP, PAGE_LIFE, COUNT_LIFE} \subseteq Nat \ {0} /\ MaxOpened \in Nat
  /\ PAGE_LIFE <= COUNT_LIFE

VARIABLES
  listed,    \* the sessions, by their opened_at
  total,     \* v1:count:sessions
  page,      \* the cached pages
  walkPage,  \* the page the client asks for next, 0 once it was told there is no more
  walkFound, \* what it was given
  calm,      \* history: ticks since a session was last indexed
  settled    \* history: the walk began long after that, and none was indexed since

pagesVars == <<listed, total, page, walkPage, walkFound, calm, settled>>

\* What a page says may be as old as the page and the count it was made with.
SETTLE == COUNT_LIFE + PAGE_LIFE

Stale == [age |-> COUNT_LIFE, count |-> 0]
Blank == [age |-> PAGE_LIFE, rows |-> {}, more |-> FALSE]

PagesInit ==
  /\ listed \in SUBSET (1 .. MaxOpened)
  /\ total = Stale
  /\ page = [p \in 1 .. PAGE_CAP |-> Blank]
  /\ walkPage = 1 /\ walkFound = {}
  /\ calm = 0 /\ settled = FALSE

\* A new session, or one a backfill finds between older ones.
SessionIndexed(t) ==
  /\ t \notin listed
  /\ listed' = listed \union {t}
  /\ calm' = 0 /\ settled' = FALSE
  /\ UNCHANGED <<total, page, walkPage, walkFound>>

\* getSessionsPage: ORDER BY opened_at DESC LIMIT ? OFFSET ?
RowsOn(p) == {t \in listed : Cardinality({u \in listed : u > t}) \in (p - 1) * LIMIT .. p * LIMIT - 1}

\* getTotalSessionCount, through its memo.
CountNow == IF total.age < COUNT_LIFE THEN total ELSE [age |-> 0, count |-> Cardinality(listed)]

\* Mutant: the last, partly filled page is not counted.
TotalPages_floor(count) == count \div LIMIT

\* Math.ceil(totalCount / limit)
TotalPages(count) == (count + LIMIT - 1) \div LIMIT

\* handleAllSessions behind withKvCache.
PageNow(p) ==
  IF page[p].age < PAGE_LIFE THEN page[p]
  ELSE [age |-> 0, rows |-> RowsOn(p), more |-> p < TotalPages(CountNow.count)]

\* The cap on the page asked for.
Capped(p) == IF p > PAGE_CAP THEN PAGE_CAP ELSE p

AskPage(p) ==
  /\ page' = [page EXCEPT ![p] = PageNow(p)]
  /\ total' = IF page[p].age < PAGE_LIFE THEN total ELSE CountNow

WalkOn ==
  /\ walkPage # 0
  /\ LET p == Capped(walkPage) IN
       /\ AskPage(p)
       /\ walkFound' = walkFound \union PageNow(p).rows
       /\ walkPage' = IF PageNow(p).more THEN Capped(p + 1) ELSE 0
  /\ UNCHANGED <<listed, calm, settled>>

\* Another client has a page cached.
OtherAsks(p) ==
  /\ AskPage(p)
  /\ UNCHANGED <<listed, walkPage, walkFound, calm, settled>>

Longer(age, life) == IF age < life THEN age + 1 ELSE life

PagesAge ==
  /\ total' = [total EXCEPT !.age = Longer(@, COUNT_LIFE)]
  /\ page' = [p \in DOMAIN page |-> [page[p] EXCEPT !.age = Longer(@, PAGE_LIFE)]]
  /\ calm' = Longer(calm, SETTLE)
  /\ UNCHANGED <<listed, walkPage, walkFound, settled>>

\* The client starts again.
WalkAgain ==
  /\ walkPage = 0
  /\ walkPage' = 1 /\ walkFound' = {} /\ settled' = (calm = SETTLE)
  /\ UNCHANGED <<listed, total, page, calm>>

PagesNext ==
  \/ \E t \in 1 .. MaxOpened : SessionIndexed(t)
  \/ \E p \in 1 .. PAGE_CAP : OtherAsks(p)
  \/ WalkOn \/ PagesAge \/ WalkAgain
-----------------------------------------------------------------------------
PagesTypeOK ==
  /\ listed \subseteq 1 .. MaxOpened /\ walkFound \subseteq listed
  /\ total.age \in 0 .. COUNT_LIFE /\ total.count \in 0 .. MaxOpened
  /\ \A p \in DOMAIN page : page[p].age \in 0 .. PAGE_LIFE /\ page[p].rows \subseteq listed
  /\ walkPage \in 0 .. PAGE_CAP /\ calm \in 0 .. SETTLE /\ settled \in BOOLEAN

(***************************************************************************)
(* A walk to the last page has seen every session, though the pages and    *)
(* the count that ends the walk are cached apart: a session is missed only *)
(* if one was indexed during the walk or in the time the two caches may    *)
(* lag together before it.                                                 *)
(***************************************************************************)
WalkFindsAll == PagesTypeOK /\ (walkPage = 0 /\ settled => walkFound = listed)
=============================================================================
