------------------------------ MODULE Operations ------------------------------
(***************************************************************************)
(* What goes on without a visitor: paging of outages, wallet keys and the  *)
(* sweep of their caps, signed snapshots, the chain of receipts, the bid   *)
(* market's sync, the warehouse's copy and pulse.  The crons start them    *)
(* side by side and they share no state, so a behaviour is a behaviour of  *)
(* one of them, its scene, and the others rest.                            *)
(***************************************************************************)
EXTENDS Alerts, WalletKeys, Snapshots, ReceiptChain, MarketSync, Warehouse

VARIABLE scene

Scenes == {"alerts", "wallet", "snapshots", "receipts", "market", "copy", "pulse"}

opsVars ==
  <<scene, alertVars, walletVars, snapshotVars, chainVars, marketVars, warehouseVars>>

OpsInit ==
  /\ scene \in Scenes
  /\ scene # "wallet" => stake = 0
  /\ scene # "copy" => keyed = TRUE
  /\ AlertInit /\ WalletInit /\ SnapshotInit /\ ChainInit /\ MarketInit /\ WarehouseInit

AlertScene(step) ==
  /\ scene = "alerts" /\ step
  /\ UNCHANGED <<scene, walletVars, snapshotVars, chainVars, marketVars, warehouseVars>>

WalletScene(step) ==
  /\ scene = "wallet" /\ step
  /\ UNCHANGED <<scene, alertVars, snapshotVars, chainVars, marketVars, warehouseVars>>

SnapshotScene(step) ==
  /\ scene = "snapshots" /\ step
  /\ UNCHANGED <<scene, alertVars, walletVars, chainVars, marketVars, warehouseVars>>

ReceiptScene(step) ==
  /\ scene = "receipts" /\ step
  /\ UNCHANGED <<scene, alertVars, walletVars, snapshotVars, marketVars, warehouseVars>>

MarketScene(step) ==
  /\ scene = "market" /\ step
  /\ UNCHANGED <<scene, alertVars, walletVars, snapshotVars, chainVars, warehouseVars>>

\* The copy leaves the pulse alone, and the pulse the copy.
CopyScene(step) ==
  /\ scene = "copy" /\ step
  /\ UNCHANGED <<scene, alertVars, walletVars, snapshotVars, chainVars, marketVars, pulseVars>>

PulseScene(step) ==
  /\ scene = "pulse" /\ step
  /\ UNCHANGED <<scene, alertVars, walletVars, snapshotVars, chainVars, marketVars, copyVars>>

OpsNext ==
  \/ AlertScene(AlertNext)
  \/ WalletScene(WalletNext)
  \/ SnapshotScene(SnapshotNext)
  \/ ReceiptScene(ChainNext)
  \/ MarketScene(MarketNext)
  \/ CopyScene(CopyNext)
  \/ PulseScene(PulseNext)

(***************************************************************************)
(* The fairness of each part, with the others at rest: the crons come and  *)
(* the runs they start go on, the alarm loop ticks, a memo expires, and    *)
(* the caller of a walk loops.                                             *)
(***************************************************************************)
OpsFairness ==
  /\ WF_opsVars(AlertScene(NextMinute))
  /\ \A c \in Detections : WF_opsVars(AlertScene(DetectionGoesOn(c)))
  /\ \A w \in Sweeps : WF_opsVars(WalletScene(SweepRead(w))) /\ WF_opsVars(WalletScene(SweepWrite(w)))
  /\ \A c \in Calls : WF_opsVars(WalletScene(CallGoesOn(c)))
  /\ \A c \in Chainers :
       WF_opsVars(ReceiptScene(ReadUnchained(c))) /\ WF_opsVars(ReceiptScene(MarkGroup(c) \/ Attest(c)))
  /\ \A c \in LiveSyncs : WF_opsVars(MarketScene(LiveStep(c)))
  /\ WF_opsVars(MarketScene(MemoExpires))
  /\ WF_opsVars(CopyScene(ReadPage)) /\ WF_opsVars(CopyScene(PageShipped))

OpsSpec == OpsInit /\ [][OpsNext]_opsVars /\ OpsFairness
-----------------------------------------------------------------------------
(***************************************************************************)
(* What fails, dies or is lost on the way is caught up with by a later run *)
(* of the crons: a lasting outage is paged, the caps reach the stake,      *)
(* receipts are chained, bids that were missed are listed, a walk ends.    *)
(***************************************************************************)
CronsCatchUp == OutagePaged /\ CapsFollowStake /\ ReceiptsGetChained /\ ListingHeals /\ WalkEnds
=============================================================================
