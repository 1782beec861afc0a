--------------------------- MODULE MCComputeSync ----------------------------
(***************************************************************************)
(* TLC instances of ComputeSync.                                           *)
(***************************************************************************)
EXTENDS ComputeSync, TLC

Symmetry == Permutations(Sessions) \cup Permutations(Runners)

(***************************************************************************)
(* What the future of a behaviour depends on: no step reads currentBlock   *)
(* or lastSyncTs, and a local is read only between the step that sets it   *)
(* and the last one that uses it.                                          *)
(***************************************************************************)
Live(r) ==
  CASE pc[r] \in {"idle", "head", "stamp"}   -> <<>>
    [] pc[r] = "plan"                        -> <<seenHead[r]>>
    [] pc[r] \in {"fetch", "mirror"}         -> <<range[r]>>
    [] pc[r] = "opened"    -> <<range[r], Advances(r), openedLogs[r], closedLogs[r], morLogs[r]>>
    [] pc[r] = "closed"    -> <<range[r], Advances(r), closedLogs[r], morLogs[r]>>
    [] pc[r] \in {"market", "transfers"}     -> <<range[r], Advances(r), morLogs[r]>>
    [] OTHER                                 -> <<range[r], Advances(r)>>

View == <<chain, tables, progress, pc, [r \in Runners |-> Live(r)]>>
=============================================================================
