------------------------- MODULE MCSyncCoordinator --------------------------
(***************************************************************************)
(* TLC instances of SyncCoordinator.                                       *)
(***************************************************************************)
EXTENDS SyncCoordinator

MC == INSTANCE MCComputeSync

(***************************************************************************)
(* The loop's future depends on neither the health clocks, the history     *)
(* variables nor dead locals, and its properties do not mention them.      *)
(***************************************************************************)
LoopView ==
  <<chain, tables, cursor, lastBlock, pc, [r \in Runners |-> MC!Live(r)],
    alarm, cronPc, cronSeen, IF cronPc = "judge" THEN <<cronBefore>> ELSE <<>>, calm>>

=============================================================================
