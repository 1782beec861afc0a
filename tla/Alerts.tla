------------------------------- MODULE Alerts -------------------------------
(***************************************************************************)
(* Alert detection (runAlertDetection of src/src/alerts/index.ts): the     *)
(* minute cron hands the watchdog's health to a run that compares it with  *)
(* the stored alert state, pages each transition and stores the new state. *)
(* Every read and write is a D1 call of its own that may fail unnoticed,   *)
(* and a slow run is overtaken by the next minute's.                       *)
(***************************************************************************)
EXTENDS Naturals, FiniteSets

CONSTANTS
  Detections, \* runs that may overlap
  MaxFaults,  \* bound on the faults
  MaxTurns    \* bound on the changes of the world's health

ASSUME AlertAssumption == IsFiniteSet(Detections) /\ {MaxFaults, MaxTurns} \subseteq Nat

Signals == {"stalled", "rpcFailing"}
Healthy == [s \in Signals |-> FALSE]

VARIABLES
  health,    \* whether last_sync_ts is older than the threshold; whether the head read fails
  turns,     \* changes of it so far, for their bound
  stored,    \* sync_state.alert_state
  detStep,   \* where each run is
  prev,      \* the state a run loaded
  seen,      \* the health a run was handed
  told,      \* history: the last page on each signal said bad
  faults,    \* history: reads, writes and runs lost, and runs begun beside another
  astray,    \* history: a page was not recorded, its state not stored, or runs overlapped
  repeats    \* history: pages that said what the page before them said

detVars   == <<detStep, prev, seen>>
pageVars  == <<told, repeats>>
alertVars == <<health, turns, stored, detVars, pageVars, faults, astray>>

AlertInit ==
  /\ health = Healthy /\ turns = 0
  /\ stored = Healthy
  /\ detStep = [c \in Detections |-> "idle"]
  /\ prev = [c \in Detections |-> Healthy] /\ seen = [c \in Detections |-> Healthy]
  /\ told = Healthy /\ repeats = [s \in Signals |-> 0]
  /\ faults = 0 /\ astray = FALSE

Move(c, from, to) ==
  /\ detStep[c] = from
  /\ detStep' = [detStep EXCEPT ![c] = to]

CountFault == faults < MaxFaults /\ faults' = faults + 1

\* The coordinator answers the cron; when it does not, there is no detection at all.
StartDetection(c) ==
  /\ Move(c, "idle", "load")
  /\ seen' = [seen EXCEPT ![c] = health]
  /\ IF \A d \in Detections : detStep[d] = "idle"
       THEN UNCHANGED <<faults, astray>>
       ELSE CountFault /\ astray' = TRUE
  /\ UNCHANGED <<health, turns, stored, prev, pageVars>>

\* loadAlertState.
LoadState(c) ==
  /\ Move(c, "load", "stalled")
  /\ prev' = [prev EXCEPT ![c] = stored]
  /\ UNCHANGED <<health, turns, stored, seen, pageVars, faults, astray>>

\* The baseline of a failed read.
Unread == Healthy

LoadFails(c) ==
  /\ Move(c, "load", "stalled")
  /\ CountFault
  /\ prev' = [prev EXCEPT ![c] = Unread]
  /\ UNCHANGED <<health, turns, stored, seen, pageVars, astray>>

After(s) == IF s = "stalled" THEN "rpcFailing" ELSE "save"

\* notifyAlert: the alert row says what this run saw.
Page(c, s) ==
  /\ prev[c][s] # seen[c][s]
  /\ Move(c, s, After(s))
  /\ told' = [told EXCEPT ![s] = seen[c][s]]
  /\ repeats' = IF told[s] = seen[c][s] THEN [repeats EXCEPT ![s] = @ + 1] ELSE repeats
  /\ UNCHANGED <<health, turns, stored, prev, seen, faults, astray>>

\* recordAlert swallows a failed insert.
PageLost(c, s) ==
  /\ prev[c][s] # seen[c][s]
  /\ Move(c, s, After(s))
  /\ CountFault /\ astray' = TRUE
  /\ UNCHANGED <<health, turns, stored, prev, seen, pageVars>>

NoPage(c, s) ==
  /\ prev[c][s] = seen[c][s]
  /\ Move(c, s, After(s))
  /\ UNCHANGED <<health, turns, stored, prev, seen, pageVars, faults, astray>>

\* Mutant: only a change of the first signal is stored.
Changed_stallOnly(c) == seen[c]["stalled"] # prev[c]["stalled"]

Changed(c) == seen[c] # prev[c]

\* saveAlertState, only when a signal changed.
SaveState(c) ==
  /\ Move(c, "save", "idle")
  /\ stored' = IF Changed(c) THEN seen[c] ELSE stored
  /\ UNCHANGED <<health, turns, prev, seen, pageVars, faults, astray>>

\* The run has paged something it has not stored.
Unstored(c) ==
  \/ detStep[c] = "rpcFailing" /\ prev[c]["stalled"] # seen[c]["stalled"]
  \/ detStep[c] = "save" /\ Changed(c)

\* The write fails and is swallowed, or the run dies before it gets there.
RunDies(c) ==
  /\ detStep[c] # "idle"
  /\ CountFault
  /\ astray' = (astray \/ Unstored(c))
  /\ detStep' = [detStep EXCEPT ![c] = "idle"]
  /\ UNCHANGED <<health, turns, stored, prev, seen, pageVars>>

\* The sync stalls or recovers; the endpoints fail or answer.
HealthTurns(s) ==
  /\ turns < MaxTurns /\ turns' = turns + 1
  /\ health' = [health EXCEPT ![s] = ~@]
  /\ UNCHANGED <<stored, detVars, pageVars, faults, astray>>

DetectionGoesOn(c) ==
  \/ LoadState(c) \/ SaveState(c)
  \/ \E s \in Signals : Page(c, s) \/ NoPage(c, s)

DetectionFails(c) == LoadFails(c) \/ RunDies(c) \/ \E s \in Signals : PageLost(c, s)

AlertNext ==
  \/ \E c \in Detections : StartDetection(c) \/ DetectionGoesOn(c) \/ DetectionFails(c)
  \/ \E s \in Signals : HealthTurns(s)

\* The cron comes every minute while no run is under way, and a run goes on.
NextMinute == \E c \in Detections :
                (\A d \in Detections : detStep[d] = "idle") /\ StartDetection(c)

AlertFairness == WF_alertVars(NextMinute) /\ \A c \in Detections : WF_alertVars(DetectionGoesOn(c))

AlertSpec == AlertInit /\ [][AlertNext]_alertVars /\ AlertFairness
-----------------------------------------------------------------------------
HealthState == [Signals -> BOOLEAN]

AlertTypeOK ==
  /\ health \in HealthState /\ turns \in 0 .. MaxTurns
  /\ stored \in HealthState /\ told \in HealthState
  /\ detStep \in [Detections -> {"idle", "load", "stalled", "rpcFailing", "save"}]
  /\ prev \in [Detections -> HealthState] /\ seen \in [Detections -> HealthState]
  /\ faults \in 0 .. MaxFaults /\ astray \in BOOLEAN
  /\ repeats \in [Signals -> Nat]

(***************************************************************************)
(* The detection implements Paging: the pages on a signal alternate, and   *)
(* every fault repeats at most one page of each signal.                    *)
(***************************************************************************)
Promised == INSTANCE Paging WITH slack <- [s \in Signals |-> faults - repeats[s]]

PagesAreTransitions == Promised!PagingSpec

(***************************************************************************)
(* An outage that lasts is paged, whatever reads of the state fail and     *)
(* whatever runs die before they page (the promise of sync_stall and       *)
(* rpc_failing), unless a page or the state behind it was lost or runs     *)
(* overlapped; without any fault a recovery that lasts is paged as well.   *)
(***************************************************************************)
OutagePaged == \A s \in Signals :
  /\ <>[]health[s] => <>[](told[s] \/ astray)
  /\ <>[]~health[s] => <>[](~told[s] \/ faults > 0)
=============================================================================
