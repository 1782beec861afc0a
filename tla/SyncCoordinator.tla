-------------------------- MODULE SyncCoordinator ---------------------------
(***************************************************************************)
(* The Durable Object of src/src/durable/SyncCoordinator.ts that drives    *)
(* sync(), composed with the indexer it drives.  Its alarm reschedules     *)
(* itself before every tick; the minute cron revives a lost alarm and      *)
(* forces a tick when the cursor looks frozen; requests to the object and  *)
(* to the worker's /sync routes start more runs of the same sync().        *)
(*                                                                         *)
(* The platform runs one alarm handler of an object at a time, but nothing *)
(* keeps an alarm, a cron tick and a request from interleaving.            *)
(***************************************************************************)
EXTENDS ComputeSync

CONSTANTS
  AlarmTick,       \* the runner that is the object's alarm handler
  CronTick,        \* the runner that is the cron's forced tick
  CRON_FORCE_GAP,  \* blocks behind before the cron forces a tick (15)
  Meddling         \* are requests, resets, deploys and failures possible

ASSUME RunnersAssumption  == AlarmTick \in Runners /\ CronTick \in Runners
ASSUME ForceGapAssumption == CRON_FORCE_GAP \in Nat
ASSUME MeddlingAssumption == Meddling \in BOOLEAN

VARIABLES
  alarm,       \* storage: is an alarm scheduled
  cronPc,      \* where the running cronTick is
  cronBefore,  \* the last_block that cronTick read
  cronSeen,    \* storage: cronLastSeenBlock
  calm         \* the environment has stopped failing and meddling for good

coordinator == <<alarm, cronPc, cronBefore, cronSeen>>
allVars     == <<vars, coordinator, calm>>

\* Where /trigger and the worker's routes run; the forced tick may share it.
Requests == Runners \ {AlarmTick}

CoordinatorInit ==
  /\ Init
  /\ alarm = FALSE
  /\ cronPc = "idle"
  /\ cronBefore = 0
  /\ cronSeen = 0
  /\ calm = ~Meddling
-----------------------------------------------------------------------------
(***************************************************************************)
(* alarm(): the next alarm is committed before the tick runs, so nothing   *)
(* the tick does can lose it.  A setAlarm that throws is logged and the    *)
(* tick still runs, with no alarm behind it.                               *)
(***************************************************************************)
AlarmFires(rescheduled) ==
  /\ alarm
  /\ alarm' = rescheduled
  /\ rescheduled \/ ~calm
  /\ Start(AlarmTick)
  /\ UNCHANGED <<cronPc, cronBefore, cronSeen, calm>>

\* Mutant: the cron looks at the loop without restarting a lost alarm.
CronObserves_blind ==
  /\ cronPc = "idle"
  /\ cronPc' = "judge"
  /\ cronBefore' = lastBlock
  /\ UNCHANGED <<vars, alarm, cronSeen, calm>>

\* cronTick (a): observe the alarm and restart a lost one, then read last_block.
CronObserves ==
  /\ cronPc = "idle"
  /\ cronPc' = "judge"
  /\ alarm' = TRUE
  /\ cronBefore' = lastBlock
  /\ UNCHANGED <<vars, cronSeen, calm>>

(***************************************************************************)
(* cronTick (c): judge by a live head (0 when no endpoint answers) whether *)
(* the cursor has stood still since the last cron, and if so force a tick. *)
(***************************************************************************)
Frozen(liveHead) ==
  /\ cronSeen > 0
  /\ ~(cronBefore > cronSeen)
  /\ liveHead > 0
  /\ liveHead - cronBefore > CRON_FORCE_GAP

CronForces ==
  /\ cronPc = "judge"
  /\ Frozen(head)
  /\ cronPc' = "record"
  /\ Start(CronTick)
  /\ UNCHANGED <<alarm, cronBefore, cronSeen, calm>>

CronLeavesIt(liveHead) ==
  /\ cronPc = "judge"
  /\ ~Frozen(liveHead)
  /\ cronPc' = "record"
  /\ UNCHANGED <<vars, alarm, cronBefore, cronSeen, calm>>

\* The forced tick, if there was one, has returned.
CronRecords ==
  /\ cronPc = "record"
  /\ pc[CronTick] = "idle"
  /\ cronPc' = "idle"
  /\ cronSeen' = lastBlock
  /\ UNCHANGED <<vars, alarm, cronBefore, calm>>

\* readSyncState or a storage call throws: the request rejects, nothing is noted.
CronAborts ==
  /\ cronPc # "idle"
  /\ cronPc' = "idle"
  /\ UNCHANGED <<vars, alarm, cronBefore, cronSeen, calm>>

(***************************************************************************)
(* fetch(): every path but /cron first makes sure an alarm is scheduled;   *)
(* /stop then deletes it, /start sets it again, /trigger runs a tick.      *)
(***************************************************************************)
StopRequest ==
  /\ alarm' = FALSE
  /\ UNCHANGED <<vars, cronPc, cronBefore, cronSeen, calm>>

StartRequest ==  \* /start, and /status, which restarts a stopped loop too
  /\ alarm' = TRUE
  /\ UNCHANGED <<vars, cronPc, cronBefore, cronSeen, calm>>

TriggerRequest(r) ==
  /\ alarm' = TRUE
  /\ Start(r)
  /\ UNCHANGED <<cronPc, cronBefore, cronSeen, calm>>

(***************************************************************************)
(* A deploy ends every run inside the object and may lose its alarm (the   *)
(* platform's behaviour the watchdog was written for); storage survives.   *)
(***************************************************************************)
Redeploy(alarmSurvives) ==
  /\ alarm' = (alarm /\ alarmSurvives)
  /\ cronPc' = "idle"
  /\ Abort({AlarmTick, CronTick})
  /\ UNCHANGED <<cronBefore, cronSeen, calm>>
-----------------------------------------------------------------------------
\* A step of a run in which no further call fails.
CleanStep(r) ==
  /\ SyncStep(r)
  /\ pc[r] = "fetch" => ~fetchFailed'[r]
  /\ sessionErrors'[r] => sessionErrors[r]

RunStep(r) ==
  /\ IF calm THEN CleanStep(r) ELSE SyncStep(r)
  /\ UNCHANGED <<coordinator, calm>>

Meddle ==
  /\ ~calm
  /\ \/ StopRequest
     \/ StartRequest
     \/ CronAborts
     \/ \E survives \in BOOLEAN : Redeploy(survives)
     \/ \E r \in Requests : TriggerRequest(r)
     \/ UNCHANGED <<coordinator, calm>> /\ \E r \in Requests : Start(r)
     \/ UNCHANGED <<coordinator, calm>> /\ \E r \in Runners : Abort({r})
     \/ UNCHANGED <<coordinator, calm>>
          /\ \E r \in Requests, b \in ResetBlocks : initSync(r, b)

CalmDown ==
  /\ ~calm
  /\ calm' = TRUE
  /\ UNCHANGED <<vars, coordinator>>

CronStep ==
  \/ CronObserves
  \/ CronForces
  \/ CronLeavesIt(head)
  \/ ~calm /\ CronLeavesIt(0)
  \/ CronRecords

CoordinatorNext ==
  \/ ChainStep /\ UNCHANGED <<coordinator, calm>>
  \/ \E rescheduled \in BOOLEAN : AlarmFires(rescheduled)
  \/ \E r \in Runners : RunStep(r)
  \/ CronStep
  \/ Meddle
  \/ CalmDown

CoordinatorSpec == CoordinatorInit /\ [][CoordinatorNext]_allVars

(***************************************************************************)
(* What the platform owes: a scheduled alarm fires (backoff delays it by   *)
(* at most a minute), the cron comes every minute, and a run that is not   *)
(* killed goes on.                                                         *)
(***************************************************************************)
CronFairness ==
  /\ WF_allVars(CronStep)
  /\ WF_allVars(RunStep(CronTick))

CronSpec == CoordinatorSpec /\ CronFairness

\* An object whose scheduled alarm fires and whose runs, of any origin, go on.
AlarmFairness ==
  /\ WF_allVars(AlarmFires(TRUE))
  /\ \A r \in Runners : WF_allVars(RunStep(r))
-----------------------------------------------------------------------------
CoordinatorTypeOK ==
  /\ TypeOK
  /\ alarm \in BOOLEAN /\ calm \in BOOLEAN
  /\ cronPc \in {"idle", "judge", "record"}
  /\ cronBefore \in Nat /\ cronSeen \in Nat

Settled  == calm /\ head = MaxHead
CaughtUp == cursor >= head - CONFIRMATION_BUFFER

(***************************************************************************)
(* The loop heals: whatever deploys, stops, failed calls and racing runs   *)
(* went before, once they end the loop runs again, and the cursor reaches  *)
(* the safe head and stays there, though a run left over from before may   *)
(* still put it back for a while.                                          *)
(***************************************************************************)
LoopHeals == AlarmFairness /\ <>Settled => <>[](alarm /\ CaughtUp)

(***************************************************************************)
(* "a totally dead DO still gets pulled forward every minute": with alarms *)
(* that never fire, the cron alone brings the block it watches, last_block,*)
(* to CRON_FORCE_GAP of the head, unless the cursor is there already.      *)
(***************************************************************************)
CronRescues == Settled ~> (lastBlock >= head - CRON_FORCE_GAP \/ CaughtUp)

(***************************************************************************)
(* The indexer comes back: by the loop when alarms fire, by the cron when  *)
(* they do not.                                                            *)
(***************************************************************************)
LoopRecovers == []CoordinatorTypeOK /\ LoopHeals /\ CronRescues
=============================================================================
