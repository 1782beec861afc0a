---------------------------- MODULE ReceiptChain ----------------------------
(***************************************************************************)
(* The provenance receipts (src/src/utils/provenance-sign.ts,              *)
(* provenance-chain.ts, src/src/db/ops.ts): every signed response stores a *)
(* receipt; each minute the cron reads the unchained ones, marks them in   *)
(* groups with the Merkle root of all it read, and stores an attestation   *)
(* of that root; the daily prune deletes the oldest.                       *)
(***************************************************************************)
EXTENDS Integers, FiniteSets

CONSTANTS
  Receipts,   \* receipts that may be signed, numbered in the order of their timestamps
  Chainers,   \* runs of chainReceipts that may overlap
  BATCH,      \* the LIMIT of listUnchainedReceipts
  GROUP,      \* receipts marked in one update
  MaxStumbles \* bound on the runs that die or overlap

ASSUME ChainAssumption ==
  /\ Receipts \subseteq Nat
  /\ {BATCH, GROUP} \subseteq Nat \ {0} /\ MaxStumbles \in Nat

VARIABLES
  receipts,  \* provenance_receipts: the receipts of the table
  rootOf,    \* chain_root of each: the set of receipts the root was built of, or {} for NULL
  signed,    \* history: the receipts signed so far
  attested,  \* service_attestations: the roots, each the set it was built of
  chainStep, \* where each run is
  batch,     \* the receipts it has read
  toMark,    \* those it has yet to mark
  stumbles,  \* history: runs that died, and runs begun beside another
  pruned     \* history: receipts deleted by age

chainVars == <<receipts, rootOf, signed, attested, chainStep, batch, toMark, stumbles, pruned>>

ChainInit ==
  /\ receipts = {} /\ signed = {} /\ pruned = {}
  /\ rootOf = [r \in Receipts |-> {}]
  /\ attested = {}
  /\ chainStep = [c \in Chainers |-> "idle"]
  /\ batch = [c \in Chainers |-> {}] /\ toMark = [c \in Chainers |-> {}]
  /\ stumbles = 0

\* The n oldest of a set of receipts.
Oldest(n, among) == {r \in among : Cardinality({s \in among : s < r}) < n}

\* signResponse: the receipt is stored, or the insert fails and the answer goes out without it.
SignResponse(r, kept) ==
  /\ r \notin signed /\ \A s \in signed : s < r
  /\ signed' = signed \union {r}
  /\ receipts' = IF kept THEN receipts \union {r} ELSE receipts
  /\ UNCHANGED <<rootOf, attested, chainStep, batch, toMark, stumbles, pruned>>

\* Mutant: the read forgets to ask for chain_root IS NULL.
Unchained_any == receipts

\* chain_root IS NULL.
Unchained == {r \in receipts : rootOf[r] = {}}

ReadUnchained(c) ==
  /\ chainStep[c] = "idle" /\ Unchained # {}
  /\ chainStep' = [chainStep EXCEPT ![c] = "mark"]
  /\ batch' = [batch EXCEPT ![c] = Oldest(BATCH, Unchained)]
  /\ toMark' = [toMark EXCEPT ![c] = Oldest(BATCH, Unchained)]
  /\ IF \A d \in Chainers : chainStep[d] = "idle"
       THEN UNCHANGED stumbles
       ELSE stumbles < MaxStumbles /\ stumbles' = stumbles + 1
  /\ UNCHANGED <<receipts, rootOf, signed, attested, pruned>>

\* One update: the receipts of a group that are still there get the root.
MarkGroup(c) ==
  /\ chainStep[c] = "mark" /\ toMark[c] # {}
  /\ LET group == Oldest(GROUP, toMark[c]) IN
       /\ rootOf' = [r \in Receipts |-> IF r \in group \cap receipts THEN batch[c] ELSE rootOf[r]]
       /\ toMark' = [toMark EXCEPT ![c] = @ \ group]
  /\ UNCHANGED <<receipts, signed, attested, chainStep, batch, stumbles, pruned>>

\* insertServiceAttestation, once all of them are marked.
Attest(c) ==
  /\ chainStep[c] = "mark" /\ toMark[c] = {}
  /\ attested' = attested \union {batch[c]}
  /\ chainStep' = [chainStep EXCEPT ![c] = "idle"]
  /\ batch' = [batch EXCEPT ![c] = {}]
  /\ UNCHANGED <<receipts, rootOf, signed, toMark, stumbles, pruned>>

\* An update or the attestation fails, or the worker dies: what is marked stays marked.
ChainerDies(c) ==
  /\ chainStep[c] = "mark"
  /\ stumbles < MaxStumbles /\ stumbles' = stumbles + 1
  /\ chainStep' = [chainStep EXCEPT ![c] = "idle"]
  /\ batch' = [batch EXCEPT ![c] = {}] /\ toMark' = [toMark EXCEPT ![c] = {}]
  /\ UNCHANGED <<receipts, rootOf, signed, attested, pruned>>

\* pruneOldReceipts: the receipts before a cutoff, chained or not.
PruneReceipts(cutoff) ==
  /\ \E r \in receipts : r < cutoff
  /\ receipts' = {r \in receipts : r >= cutoff}
  /\ pruned' = pruned \union {r \in receipts : r < cutoff}
  /\ rootOf' = [r \in Receipts |-> IF r < cutoff THEN {} ELSE rootOf[r]]
  /\ UNCHANGED <<signed, attested, chainStep, batch, toMark, stumbles>>

ChainNext ==
  \/ \E r \in Receipts : PruneReceipts(r) \/ \E kept \in BOOLEAN : SignResponse(r, kept)
  \/ \E c \in Chainers : ReadUnchained(c) \/ MarkGroup(c) \/ Attest(c) \/ ChainerDies(c)

\* The cron starts a run every minute, and a run goes on.
ChainFairness ==
  \A c \in Chainers : WF_chainVars(ReadUnchained(c)) /\ WF_chainVars(MarkGroup(c) \/ Attest(c))

ChainSpec == ChainInit /\ [][ChainNext]_chainVars /\ ChainFairness
-----------------------------------------------------------------------------
ChainTypeOK ==
  /\ receipts \subseteq signed /\ signed \subseteq Receipts /\ pruned \subseteq signed
  /\ rootOf \in [Receipts -> SUBSET Receipts]
  /\ attested \subseteq SUBSET Receipts
  /\ chainStep \in [Chainers -> {"idle", "mark"}]
  /\ batch \in [Chainers -> SUBSET Receipts] /\ toMark \in [Chainers -> SUBSET Receipts]
  /\ stumbles \in 0 .. MaxStumbles

(***************************************************************************)
(* An attestation stands for its receipts (service.attestation: signed     *)
(* Merkle root covering so many receipts): every receipt a signed root was *)
(* built of carries that root until it is pruned, unless runs overlapped   *)
(* or one died before its attestation.                                     *)
(***************************************************************************)
AttestedCarryRoot ==
  stumbles = 0 => \A root \in attested : \A r \in root : r \in pruned \/ rootOf[r] = root

(***************************************************************************)
(* A stored receipt does not wait for ever: it is chained or pruned, and   *)
(* when no run has stumbled its root is attested as well.                  *)
(***************************************************************************)
ReceiptsGetChained ==
  \A r \in Receipts :
    (r \in receipts) ~> (r \in pruned \/ (rootOf[r] # {} /\ (stumbles > 0 \/ rootOf[r] \in attested)))

(***************************************************************************)
(* A signed root stays with its receipts, and what is pruned is gone.      *)
(***************************************************************************)
ReceiptsAreKept == ChainTypeOK /\ AttestedCarryRoot
=============================================================================
