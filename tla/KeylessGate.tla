----------------------------- MODULE KeylessGate -----------------------------
(***************************************************************************)
(* The anonymous day cap of one address (keylessGate of                    *)
(* src/src/utils/keyless-gate.ts, src/src/db/anon-counters.ts): a keyless  *)
(* request to a metered path charges the bucket of the day it came in, and *)
(* the daily cron prunes the buckets whose day is over.                    *)
(***************************************************************************)
EXTENDS Integers, FiniteSets

CONSTANTS
  Anonymous, \* keyless requests under way
  DAY_CAP,   \* ANON_DAY_CAP
  DAY_HOURS, \* length of a day, in hours a request never outlasts
  PRUNE_AT,  \* the hour of the day the daily cron runs
  MaxHour,   \* bound on the clock
  MaxCharged \* bound on what a bucket counts

ASSUME KeylessAssumption ==
  /\ {DAY_CAP, DAY_HOURS, PRUNE_AT, MaxHour, MaxCharged} \subseteq Nat
  /\ DAY_HOURS > 0 /\ PRUNE_AT \in 1 .. DAY_HOURS - 1

VARIABLES
  hour,       \* the clock
  anonStep,   \* where each request is
  anonHour,   \* when it came in
  counter,    \* anon_counters: n of the bucket of each day
  pruned,     \* the daily cron has run today
  letThrough  \* history: requests the working meter let through, by day charged

keylessVars == <<hour, anonStep, anonHour, counter, pruned, letThrough>>

DayOf(t)   == t \div DAY_HOURS
AnonDays   == 0 .. DayOf(MaxHour)
ResetAt(d) == (d + 1) * DAY_HOURS

KeylessInit ==
  /\ hour = 0
  /\ anonStep = [r \in Anonymous |-> "new"]
  /\ anonHour = [r \in Anonymous |-> 0]
  /\ counter = [d \in AnonDays |-> 0]
  /\ pruned = FALSE
  /\ letThrough = [d \in AnonDays |-> 0]

\* A request without credentials to a path isDayCapped holds of; then it awaits the table.
AnonComes(r) ==
  /\ anonStep[r] = "new" /\ counter[DayOf(hour)] < MaxCharged
  /\ anonStep' = [anonStep EXCEPT ![r] = "bump"]
  /\ anonHour' = [anonHour EXCEPT ![r] = hour]
  /\ UNCHANGED <<hour, counter, pruned, letThrough>>

OverCap(n) == n > DAY_CAP

\* bumpAnonDay is one upsert that returns the new count.
Bump(r) ==
  LET d == DayOf(anonHour[r]) IN
  /\ anonStep[r] = "bump"
  /\ anonStep' = [anonStep EXCEPT ![r] = "new"]
  /\ counter' = [counter EXCEPT ![d] = @ + 1]
  /\ letThrough' = [letThrough EXCEPT ![d] = IF OverCap(counter'[d]) THEN @ ELSE @ + 1]
  /\ UNCHANGED <<hour, anonHour, pruned>>

\* A storage error lets the request through, charged or not.
BumpFails(r, stored) ==
  /\ anonStep[r] = "bump"
  /\ anonStep' = [anonStep EXCEPT ![r] = "new"]
  /\ counter' = [counter EXCEPT ![DayOf(anonHour[r])] = IF stored THEN @ + 1 ELSE @]
  /\ UNCHANGED <<hour, anonHour, pruned, letThrough>>

\* Mutant: prunes every bucket whose day has begun to end.
Expired_early(d) == ResetAt(d) <= hour + DAY_HOURS

\* reset_at < unixepoch().
Expired(d) == ResetAt(d) < hour

\* pruneAnonCounters, from the daily cron.
Prune ==
  /\ hour % DAY_HOURS = PRUNE_AT /\ ~pruned
  /\ pruned' = TRUE
  /\ counter' = [d \in AnonDays |-> IF Expired(d) THEN 0 ELSE counter[d]]
  /\ UNCHANGED <<hour, anonStep, anonHour, letThrough>>

\* No request waits for D1 for an hour.
NextHour ==
  /\ hour < MaxHour
  /\ \A r \in Anonymous : anonStep[r] = "bump" => anonHour[r] = hour
  /\ hour' = hour + 1
  /\ pruned' = FALSE
  /\ UNCHANGED <<anonStep, anonHour, counter, letThrough>>

KeylessNext ==
  \/ \E r \in Anonymous :
       \/ AnonComes(r) \/ Bump(r)
       \/ \E stored \in BOOLEAN : BumpFails(r, stored)
  \/ Prune
  \/ NextHour

KeylessSpec == KeylessInit /\ [][KeylessNext]_keylessVars
-----------------------------------------------------------------------------
KeylessTypeOK ==
  /\ hour \in 0 .. MaxHour /\ pruned \in BOOLEAN
  /\ anonStep \in [Anonymous -> {"new", "bump"}]
  /\ anonHour \in [Anonymous -> 0 .. MaxHour]
  /\ {counter, letThrough} \subseteq [AnonDays -> Nat]

(***************************************************************************)
(* Concurrent requests from one IP cannot race past the cap                *)
(* (anon-counters.ts), nor does the prune, which runs while requests are   *)
(* under way, give a day its budget back.                                  *)
(***************************************************************************)
AnonWithinCap == KeylessTypeOK /\ \A d \in AnonDays : letThrough[d] <= DAY_CAP
=============================================================================
