----------------------------- MODULE ReadBudget -----------------------------
(***************************************************************************)
(* The daily budget of D1 rows read (src/src/utils/d1-budget.ts): each     *)
(* isolate adds up its estimates and flushes them to one KV total per UTC  *)
(* day, in a read and a write with an await before each.                   *)
(***************************************************************************)
EXTENDS Integers, FiniteSets, FiniteSetsExt

CONSTANTS
  Meters,      \* isolates
  Flushes,     \* flushes that may be under way
  RowSizes,    \* estimates of one request, heavyUncachedEstimate
  MaxDay,      \* bound on the days
  MaxNoted     \* bound on the rows noted in a day

ASSUME BudgetAssumption ==
  /\ Meters # {} /\ IsFiniteSet(Meters)
  /\ RowSizes \subseteq Nat \ {0}
  /\ {MaxDay, MaxNoted} \subseteq Nat

VARIABLES
  utcDay,    \* the day by the clock
  dayOf,     \* _day of each isolate
  local,     \* _localTotal
  flushedAt, \* _flushedAt
  global,    \* _globalTotal
  asking,    \* the reads of the shared total under way, one at most in an isolate
  stored,    \* the KV total of each day
  flush,     \* each flush: its isolate, step, delta and the total it read
  noted,     \* history: rows noted on each day
  blurred    \* history: a note or another flush came while one was under way

isolateVars == <<dayOf, local, flushedAt, global, asking>>
budgetVars == <<utcDay, isolateVars, stored, flush, noted, blurred>>

Days == 0 .. MaxDay
NoFlush == [step |-> "idle", of |-> CHOOSE i \in Meters : TRUE, delta |-> 0, cur |-> 0]

BudgetInit ==
  /\ utcDay = 0
  /\ dayOf = [i \in Meters |-> 0]
  /\ local = [i \in Meters |-> 0]
  /\ flushedAt = [i \in Meters |-> 0]
  /\ global = [i \in Meters |-> 0]
  /\ asking = [i \in Meters |-> {}]
  /\ stored = [d \in Days |-> 0]
  /\ flush = [f \in Flushes |-> NoFlush]
  /\ noted = [d \in Days |-> 0]
  /\ blurred = FALSE

Flushing == {f \in Flushes : flush[f].step # "idle"}

\* rollDayIfNeeded: the first request of a day zeroes the isolate's counts.
Rolled(of, i) == IF dayOf[i] = utcDay THEN of[i] ELSE 0

\* noteRowsRead, up to the first await of the flush it may start (due by rows or by time).
Note(i, rows, f, due) ==
  /\ noted[utcDay] + rows <= MaxNoted
  /\ flush[f].step = "idle"
  /\ dayOf' = [dayOf EXCEPT ![i] = utcDay]
  /\ local' = [local EXCEPT ![i] = Rolled(local, i) + rows]
  /\ flushedAt' = [flushedAt EXCEPT ![i] = Rolled(flushedAt, i)]
  /\ global' = [global EXCEPT ![i] = Rolled(global, i)]
  /\ noted' = [noted EXCEPT ![utcDay] = @ + rows]
  /\ flush' = [flush EXCEPT ![f] =
       IF due THEN [step |-> "get", of |-> i, delta |-> local'[i] - flushedAt'[i], cur |-> 0]
              ELSE @]
  /\ blurred' = (blurred \/ Flushing # {})
  /\ UNCHANGED <<utcDay, asking, stored>>

\* kv.get of the key of the isolate's day.
FlushGet(f) ==
  /\ flush[f].step = "get"
  /\ flush' = [flush EXCEPT ![f].step = "put", ![f].cur = stored[dayOf[flush[f].of]]]
  /\ UNCHANGED <<utcDay, isolateVars, stored, noted, blurred>>

\* Mutant: the isolate's running total is added instead of what is new.
Next_running(f) == flush[f].cur + local[flush[f].of]

NextTotal(f) == flush[f].cur + flush[f].delta

\* kv.put under the key of the isolate's day by then, and its bookkeeping.
FlushPut(f) ==
  LET i == flush[f].of IN
  /\ flush[f].step = "put"
  /\ stored' = [stored EXCEPT ![dayOf[i]] = NextTotal(f)]
  /\ flushedAt' = [flushedAt EXCEPT ![i] = local[i]]
  /\ global' = [global EXCEPT ![i] = NextTotal(f)]
  /\ flush' = [flush EXCEPT ![f] = NoFlush]
  /\ UNCHANGED <<utcDay, dayOf, local, asking, noted, blurred>>

\* KV throws: the delta stays to be flushed.
FlushFails(f) ==
  /\ flush[f].step # "idle"
  /\ flush' = [flush EXCEPT ![f] = NoFlush]
  /\ UNCHANGED <<utcDay, isolateVars, stored, noted, blurred>>

Estimate(i) == global[i] + (local[i] - flushedAt[i])

(***************************************************************************)
(* isOverReadBudget rolls the day and, when the shared total is old, reads *)
(* it again.  The request is shed when Estimate(i) has then reached the    *)
(* budget; otherwise Note follows.                                         *)
(***************************************************************************)
AskBudget(i, old) ==
  /\ asking[i] = {}
  /\ dayOf' = [dayOf EXCEPT ![i] = utcDay]
  /\ local' = [local EXCEPT ![i] = Rolled(local, i)]
  /\ flushedAt' = [flushedAt EXCEPT ![i] = Rolled(flushedAt, i)]
  /\ global' = [global EXCEPT ![i] = Rolled(global, i)]
  /\ asking' = [asking EXCEPT ![i] = IF old THEN {[day |-> utcDay, total |-> stored[utcDay]]} ELSE {}]
  /\ blurred' = (blurred \/ (Flushing # {} /\ dayOf[i] # utcDay))
  /\ UNCHANGED <<utcDay, stored, flush, noted>>

\* The answer arrives, be it of the day before; or KV throws and the last total stays.
TotalArrives(i) ==
  \E answer \in asking[i] :
    /\ asking' = [asking EXCEPT ![i] = {}]
    /\ \/ global' = [global EXCEPT ![i] = answer.total]
          /\ blurred' = (blurred \/ answer.day # dayOf[i])
       \/ UNCHANGED <<global, blurred>>
    /\ UNCHANGED <<utcDay, dayOf, local, flushedAt, stored, flush, noted>>

Midnight ==
  /\ utcDay < MaxDay
  /\ utcDay' = utcDay + 1
  /\ UNCHANGED <<isolateVars, stored, flush, noted, blurred>>

BudgetNext ==
  \/ \E i \in Meters, rows \in RowSizes, f \in Flushes, due \in BOOLEAN : Note(i, rows, f, due)
  \/ \E f \in Flushes : FlushGet(f) \/ FlushPut(f) \/ FlushFails(f)
  \/ \E i \in Meters : TotalArrives(i) \/ \E old \in BOOLEAN : AskBudget(i, old)
  \/ Midnight

BudgetSpec == BudgetInit /\ [][BudgetNext]_budgetVars
-----------------------------------------------------------------------------
BudgetTypeOK ==
  /\ utcDay \in Days /\ dayOf \in [Meters -> Days]
  /\ {local, flushedAt, global} \subseteq [Meters -> Int]
  /\ asking \in [Meters -> SUBSET [day : Days, total : Nat]]
  /\ stored \in [Days -> Nat] /\ noted \in [Days -> 0 .. MaxNoted]
  /\ \A f \in Flushes :
       /\ flush[f].step \in {"idle", "get", "put"} /\ flush[f].of \in Meters
       /\ flush[f].delta \in Nat /\ flush[f].cur \in Nat
  /\ blurred \in BOOLEAN

\* What an isolate has noted on a day and not yet flushed.
Unflushed(d) == MapThenSumSet(LAMBDA i : local[i] - flushedAt[i], {i \in Meters : dayOf[i] = d})

(***************************************************************************)
(* The total is exact as long as no note, roll or second flush falls       *)
(* between the read and the write of a flush: what KV holds and what the   *)
(* isolates still owe is what was noted, through failed flushes, and the   *)
(* new day starts from nothing; and no isolate sheds load early.  Rows an  *)
(* isolate still owed at its midnight are lost, so the total speaks of the *)
(* isolates' current day.                                                  *)
(***************************************************************************)
ExactWithoutOverlap ==
  /\ BudgetTypeOK
  /\ ~blurred =>
       /\ \A d \in Days :
            (\A i \in Meters : dayOf[i] = d) => stored[d] + Unflushed(d) = noted[d]
       /\ \A i \in Meters : Estimate(i) <= noted[dayOf[i]]
=============================================================================
