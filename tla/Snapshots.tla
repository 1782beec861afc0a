------------------------------ MODULE Snapshots ------------------------------
(***************************************************************************)
(* The signed marketplace snapshots in R2 (src/src/utils/snapshot.ts,      *)
(* snapshot-store.ts): a cron publishes an object named by the second it   *)
(* began in and then the pointer to it; the daily prune deletes objects by *)
(* the age in their name and never the pointer.  Both are best effort, and *)
(* runs may overlap.                                                       *)
(***************************************************************************)
EXTENDS Integers

CONSTANTS
  Publishers, \* publications that may overlap
  KEEP,       \* maxAgeSecs of the prune
  MaxTime,    \* bound on the clock
  NoPointer   \* marketplace-latest.json does not exist

ASSUME SnapshotAssumption == {KEEP, MaxTime} \subseteq Nat /\ NoPointer \notin Nat

VARIABLES
  now,        \* the clock
  signable,   \* every model name fits the Latin-1 range btoa takes
  bucket,     \* the snapshot objects, by the time in their name
  pointer,    \* what marketplace-latest.json names
  pubStep,    \* where each publication is
  pubTs,      \* the time it began
  doomed      \* objects the prune has listed and not yet deleted

pubVars      == <<pubStep, pubTs>>
snapshotVars == <<now, signable, bucket, pointer, pubVars, doomed>>

SnapshotInit ==
  /\ now = 0 /\ signable = TRUE
  /\ bucket = {} /\ pointer = NoPointer
  /\ pubStep = [p \in Publishers |-> "idle"]
  /\ pubTs = [p \in Publishers |-> 0]
  /\ doomed = {}

Turn(p, from, to) ==
  /\ pubStep[p] = from
  /\ pubStep' = [pubStep EXCEPT ![p] = to]

\* writeMarketplaceSnapshot dates itself before it reads the tables.
BeginSnapshot(p) ==
  /\ Turn(p, "idle", "sign")
  /\ pubTs' = [pubTs EXCEPT ![p] = now]
  /\ UNCHANGED <<now, signable, bucket, pointer, doomed>>

\* buildMarketplaceSnapshot and signEnvelope; a wide character in a name fails the envelope.
SignSnapshot(p) ==
  /\ signable
  /\ Turn(p, "sign", "object")
  /\ UNCHANGED <<now, signable, bucket, pointer, pubTs, doomed>>

PutObject(p) ==
  /\ Turn(p, "object", "pointer")
  /\ bucket' = bucket \union {pubTs[p]}
  /\ UNCHANGED <<now, signable, pointer, pubTs, doomed>>

PutPointer(p) ==
  /\ Turn(p, "pointer", "idle")
  /\ pointer' = pubTs[p]
  /\ UNCHANGED <<now, signable, bucket, pubTs, doomed>>

\* Any step throws: the publication ends with what it has put.
SnapshotFails(p) ==
  /\ pubStep[p] # "idle"
  /\ pubStep' = [pubStep EXCEPT ![p] = "idle"]
  /\ UNCHANGED <<now, signable, bucket, pointer, pubTs, doomed>>

\* A model is registered, or renamed, with or without a wide character in a name.
NamesChange ==
  /\ signable' = ~signable
  /\ UNCHANGED <<now, bucket, pointer, pubVars, doomed>>
-----------------------------------------------------------------------------
\* Mutant: half the age is enough.
PastKeeping_half(t) == 2 * (now - t) > KEEP

\* objTs < cutoff.
PastKeeping(t) == now - t > KEEP

\* pruneMarketplaceSnapshots lists, page by page.
PruneLists ==
  /\ doomed = {}
  /\ doomed' = {t \in bucket : PastKeeping(t)}
  /\ UNCHANGED <<now, signable, bucket, pointer, pubVars>>

\* One delete: it works, or it fails and the next listing finds the object again.
PruneDeletes(t, gone) ==
  /\ t \in doomed
  /\ doomed' = doomed \ {t}
  /\ bucket' = IF gone THEN bucket \ {t} ELSE bucket
  /\ UNCHANGED <<now, signable, pointer, pubVars>>

TimePasses ==
  /\ now < MaxTime
  /\ now' = now + 1
  /\ UNCHANGED <<signable, bucket, pointer, pubVars, doomed>>

SnapshotNext ==
  \/ \E p \in Publishers :
       BeginSnapshot(p) \/ SignSnapshot(p) \/ PutObject(p) \/ PutPointer(p) \/ SnapshotFails(p)
  \/ \E t \in bucket : \E gone \in BOOLEAN : PruneDeletes(t, gone)
  \/ PruneLists \/ NamesChange \/ TimePasses
-----------------------------------------------------------------------------
SnapshotTypeOK ==
  /\ now \in 0 .. MaxTime /\ signable \in BOOLEAN
  /\ bucket \subseteq 0 .. MaxTime /\ doomed \subseteq bucket
  /\ pointer \in (0 .. MaxTime) \union {NoPointer}
  /\ pubStep \in [Publishers -> {"idle", "sign", "object", "pointer"}]
  /\ pubTs \in [Publishers -> 0 .. MaxTime]

(***************************************************************************)
(* A consumer who reads the pointer finds the object it names for as long  *)
(* as snapshots are kept: whatever fails, overlaps or is pruned, only a    *)
(* week without a publication leaves the pointer dangling.                 *)
(***************************************************************************)
PointerResolves ==
  SnapshotTypeOK /\ (pointer # NoPointer /\ now - pointer <= KEEP => pointer \in bucket)
=============================================================================
