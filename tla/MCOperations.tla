---------------------------- MODULE MCOperations ----------------------------
(***************************************************************************)
(* TLC instance of Operations.                                             *)
(***************************************************************************)
EXTENDS Operations, TLC

CONSTANTS b1, b2, p1, l1

\* No stake, and a small one: it buys a larger burst than no stake does, and the same volume.
StakeLevels == {0, 50 * MOR}

\* Two bids of one provider on one model.
ProviderChoice == [b \in Bids |-> p1]
ModelChoice    == [b \in Bids |-> l1]
=============================================================================
