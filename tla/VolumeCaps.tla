----------------------------- MODULE VolumeCaps -----------------------------
(***************************************************************************)
(* The rate limits of one client with one API key: the minute counters of  *)
(* each isolate, the day and month counters in D1, and the cached caps     *)
(* they are enforced from (src/src/utils/auth/rate-limit.ts, db/auth.ts).  *)
(* A request awaits D1 to read the caps and again to count itself, and any *)
(* other may run in between.                                               *)
(***************************************************************************)
EXTENDS Integers, FiniteSets, FiniteSetsExt

CONSTANTS
  Isolates, Requests,
  WindowLength,  \* minutes in a "day" and in a "month"
  VOLUME_TTL,    \* minutes a cached entry is trusted, VOLUME_TTL_MS
  BURST_LIMIT,   \* the lesser of the key's rate_limit and ipLimit: one client spends both
  CapChoices,    \* the caps the key's row may hold
  StartMinute,   \* where in its windows the key is first used
  MaxMinute,     \* bound on the clock
  MaxRequests,   \* bound on the requests sent
  MaxChanges,    \* bound on the changes of the row
  NoRow, None    \* no api_keys row; no cached entry, no moment

Windows == {"day", "month"}

ASSUME VolumeAssumption ==
  /\ WindowLength \in [Windows -> Nat \ {0}]
  /\ WindowLength["month"] % WindowLength["day"] = 0
  /\ VOLUME_TTL \in Nat /\ MaxMinute \in Nat /\ StartMinute \in 0 .. MaxMinute
  /\ {BURST_LIMIT, MaxRequests, MaxChanges} \subseteq Nat
  /\ CapChoices \subseteq [Windows -> Nat] /\ NoRow \notin CapChoices /\ None \notin Nat

VARIABLES
  minute,     \* the clock
  burst,      \* each isolate's rateCounts of this minute, its key's and its IP's
  sent,       \* the requests so far, for their bound
  changes,    \* the changes of the row so far, for their bound
  row,        \* daily_cap and monthly_cap of the api_keys row, or NoRow
  used,       \* usage_counters, by window and bucket
  entry,      \* each isolate's volumeCache entry of the key, or None
  sharers,    \* the requests whose entry is the one in the cache
  stage,      \* what each request waits for
  home,       \* the isolate it runs in
  at,         \* when it came in
  got,        \* what it has read
  overSince   \* history: since when each counter of this window is at its cap

budget    == <<sent, changes>>
requests  == <<stage, home, at, got>>
caches    == <<entry, sharers>>
meterVars == <<minute, burst, sent, changes, row, used, caches, requests, overSince>>

BucketAt(t) == [w \in Windows |-> t \div WindowLength[w]]
AllBuckets  == 0 .. MaxMinute

Stages == {"idle", "fetch", "store", "count", "counted"}

Unread == [row |-> NoRow, used |-> [w \in Windows |-> 0]]

MeterInit ==
  /\ minute = StartMinute
  /\ burst = [i \in Isolates |-> 0]
  /\ sent = 0 /\ changes = 0
  /\ row \in CapChoices
  /\ used = [w \in Windows |-> [b \in AllBuckets |-> 0]]
  /\ entry = [i \in Isolates |-> None]
  /\ sharers = [i \in Isolates |-> {}]
  /\ stage = [r \in Requests |-> "idle"]
  /\ home \in [Requests -> Isolates]
  /\ at = [r \in Requests |-> StartMinute]
  /\ got = [r \in Requests |-> Unread]
  /\ overSince = [w \in Windows |-> None]
-----------------------------------------------------------------------------
\* getKeyCapsWithUsage: the row joined with both counters, in one read.
CapsWithUsage(t) ==
  [row |-> row, used |-> [w \in Windows |-> used[w][BucketAt(t)[w]]]]

Fresh(i) ==
  /\ entry[i] # None
  /\ minute - entry[i].fetchedAt <= VOLUME_TTL
  /\ entry[i].bucket = BucketAt(minute)

\* Where a request with this entry goes: to the count, or out, refused or not metered.
Enforced(e) ==
  IF e.row # NoRow /\ \A w \in Windows : e.used[w] < e.row[w] THEN "count" ELSE "idle"

(***************************************************************************)
(* checkRateLimit up to its first await: both minute layers, then, with a  *)
(* fresh entry, the caps.  A refusal by the minute layers counts nowhere.  *)
(***************************************************************************)
Arrive(r, i) ==
  /\ stage[r] = "idle" /\ burst[i] < BURST_LIMIT
  /\ sent < MaxRequests /\ sent' = sent + 1
  /\ burst' = [burst EXCEPT ![i] = @ + 1]
  /\ home' = [home EXCEPT ![r] = i]
  /\ at' = [at EXCEPT ![r] = minute]
  /\ stage' = [stage EXCEPT ![r] = IF Fresh(i) THEN Enforced(entry[i]) ELSE "fetch"]
  /\ sharers' = [sharers EXCEPT ![i] = IF stage'[r] = "count" THEN @ \union {r} ELSE @]
  /\ UNCHANGED <<minute, changes, row, used, entry, got>>

ReadCaps(r) ==
  /\ stage[r] = "fetch"
  /\ stage' = [stage EXCEPT ![r] = "store"]
  /\ got' = [got EXCEPT ![r] = CapsWithUsage(at[r])]
  /\ UNCHANGED <<minute, burst, budget, row, used, caches, home, at>>

\* The entry made of what was read at time t.
EntryOf(r, t) ==
  [row |-> got[r].row, used |-> got[r].used, bucket |-> BucketAt(at[r]), fetchedAt |-> t]

\* Mutant: the entry is dated when it is stored, not when its read was asked for.
StoreEntry_dated(r) ==
  LET i == home[r] IN
  /\ stage[r] = "store"
  /\ entry' = [entry EXCEPT ![i] = EntryOf(r, minute)]
  /\ stage' = [stage EXCEPT ![r] = Enforced(entry'[i])]
  /\ sharers' = [sharers EXCEPT ![i] = IF stage'[r] = "count" THEN {r} ELSE {}]
  /\ got' = [got EXCEPT ![r] = Unread]
  /\ UNCHANGED <<minute, burst, budget, row, used, home, at>>

\* A new object takes the old one's place: whoever holds that keeps a copy of its own.
StoreEntry(r) ==
  LET i == home[r] IN
  /\ stage[r] = "store"
  /\ entry' = [entry EXCEPT ![i] = EntryOf(r, at[r])]
  /\ stage' = [stage EXCEPT ![r] = Enforced(entry'[i])]
  /\ sharers' = [sharers EXCEPT ![i] = IF stage'[r] = "count" THEN {r} ELSE {}]
  /\ got' = [got EXCEPT ![r] = Unread]
  /\ UNCHANGED <<minute, burst, budget, row, used, home, at>>

\* incrementUsageCounters: one batch, into the buckets of bucket.
Counted(bucket) ==
  [w \in Windows |-> [used[w] EXCEPT ![bucket[w]] = @ + 1]]

CountUsage(r) ==
  /\ stage[r] = "count"
  /\ stage' = [stage EXCEPT ![r] = "counted"]
  /\ used' = Counted(BucketAt(at[r]))
  /\ UNCHANGED <<minute, burst, budget, row, caches, home, at, got>>

OneMore(e) == [e EXCEPT !.used = [w \in Windows |-> @[w] + 1]]

\* Mutant: advances whatever entry is in the cache by then.
Admit_latest(r) ==
  LET i == home[r] IN
  /\ stage[r] = "counted"
  /\ stage' = [stage EXCEPT ![r] = "idle"]
  /\ entry' = [entry EXCEPT ![i] = IF @ # None THEN OneMore(@) ELSE @]
  /\ sharers' = [sharers EXCEPT ![i] = @ \ {r}]
  /\ UNCHANGED <<minute, burst, budget, row, used, home, at, got>>

\* entry.dayCount++ and monthCount++ reach the cache only through the entry it still holds.
Admit(r) ==
  LET i == home[r] IN
  /\ stage[r] = "counted"
  /\ stage' = [stage EXCEPT ![r] = "idle"]
  /\ entry' = [entry EXCEPT ![i] = IF r \in sharers[i] THEN OneMore(@) ELSE @]
  /\ sharers' = [sharers EXCEPT ![i] = @ \ {r}]
  /\ UNCHANGED <<minute, burst, budget, row, used, home, at, got>>

\* D1 throws: the request is let through, a count that was stored stays.
FailOpen(r) ==
  /\ stage[r] \in {"fetch", "count", "counted"}
  /\ stage' = [stage EXCEPT ![r] = "idle"]
  /\ sharers' = [sharers EXCEPT ![home[r]] = @ \ {r}]
  /\ UNCHANGED <<minute, burst, budget, row, used, entry, home, at, got>>
-----------------------------------------------------------------------------
\* The minute counters of an earlier minute count for nothing.
NextMinute ==
  /\ minute < MaxMinute
  /\ minute' = minute + 1
  /\ burst' = [i \in Isolates |-> 0]
  /\ UNCHANGED <<budget, row, used, caches, requests>>

\* A stake change rewrites the caps, a revocation deletes the row, a first connect adds it.
ChangeRow(caps) ==
  /\ row' = caps /\ row' # row
  /\ changes < MaxChanges /\ changes' = changes + 1
  /\ UNCHANGED <<minute, burst, sent, used, caches, requests>>

\* The isolate is recycled, with its maps and the requests in it.
Recycle(i) ==
  /\ entry' = [entry EXCEPT ![i] = None]
  /\ sharers' = [sharers EXCEPT ![i] = {}]
  /\ burst' = [burst EXCEPT ![i] = 0]
  /\ stage' = [r \in Requests |-> IF home[r] = i THEN "idle" ELSE stage[r]]
  /\ got' = [r \in Requests |-> IF home[r] = i THEN Unread ELSE got[r]]
  /\ UNCHANGED <<minute, budget, row, used, home, at>>

AtCap(w, caps, counters, t) ==
  caps # NoRow /\ counters[w][BucketAt(t)[w]] >= caps[w]

MeterNext ==
  /\ \/ \E r \in Requests, i \in Isolates : Arrive(r, i)
     \/ \E r \in Requests :
          \/ ReadCaps(r) \/ StoreEntry(r) \/ CountUsage(r) \/ Admit(r) \/ FailOpen(r)
     \/ NextMinute
     \/ \E caps \in CapChoices \union {NoRow} : ChangeRow(caps)
     \/ \E i \in Isolates : Recycle(i)
  /\ overSince' = [w \in Windows |->
       IF ~AtCap(w, row', used', minute') THEN None
       ELSE IF overSince[w] = None \/ ~AtCap(w, row, used, minute) THEN minute' ELSE overSince[w]]

MeterSpec == MeterInit /\ [][MeterNext]_meterVars
-----------------------------------------------------------------------------
Counts == [Windows -> Nat]

MeterTypeOK ==
  /\ minute \in 0 .. MaxMinute
  /\ burst \in [Isolates -> 0 .. BURST_LIMIT]
  /\ sent \in 0 .. MaxRequests /\ changes \in 0 .. MaxChanges
  /\ row \in CapChoices \union {NoRow}
  /\ used \in [Windows -> [AllBuckets -> Nat]]
  /\ \A i \in Isolates :
       /\ entry[i] # None =>
            /\ entry[i].row \in CapChoices \union {NoRow}
            /\ entry[i].used \in Counts /\ entry[i].bucket \in Counts
            /\ entry[i].fetchedAt \in Nat
       /\ \A r \in sharers[i] : stage[r] \in {"count", "counted"} /\ home[r] = i
  /\ stage \in [Requests -> Stages]
  /\ home \in [Requests -> Isolates]
  /\ at \in [Requests -> 0 .. MaxMinute]
  /\ overSince \in [Windows -> 0 .. MaxMinute \union {None}]

(***************************************************************************)
(* Caps are enforced within VOLUME_TTL of the counter crossing the line    *)
(* (rate-limit.ts): no request that came in later than that is on its way  *)
(* to be counted, in whichever isolate it runs and whatever it waits for.  *)
(***************************************************************************)
CapLandsWithinTTL ==
  \A r \in Requests, w \in Windows :
    stage[r] = "count" /\ overSince[w] # None => at[r] - overSince[w] <= VOLUME_TTL

(***************************************************************************)
(* Requests never lose volume to the cache: the counts an isolate enforces *)
(* from stay at or below the counters of the same window in D1.            *)
(***************************************************************************)
CacheNeverOvercounts ==
  \A i \in Isolates :
    entry[i] # None => \A w \in Windows : entry[i].used[w] <= used[w][entry[i].bucket[w]]

(***************************************************************************)
(* The two counters tell one story: a month has counted exactly what its   *)
(* days have, also when a request waits over midnight.                     *)
(***************************************************************************)
MonthIsSumOfDays ==
  \A m \in 0 .. BucketAt(MaxMinute)["month"] :
    used["month"][m] =
      MapThenSumSet(LAMBDA d : used["day"][d],
        {d \in AllBuckets : (d * WindowLength["day"]) \div WindowLength["month"] = m})

(***************************************************************************)
(* The counters the caps are enforced from are true, in D1 and in the      *)
(* isolates.                                                               *)
(***************************************************************************)
CountersAgree == MeterTypeOK /\ CacheNeverOvercounts /\ MonthIsSumOfDays
=============================================================================
