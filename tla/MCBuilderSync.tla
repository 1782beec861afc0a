--------------------------- MODULE MCBuilderSync ----------------------------
(***************************************************************************)
(* TLC instances of BuilderSync.                                           *)
(***************************************************************************)
EXTENDS BuilderSync, TLC

Symmetry == Permutations(Runners)

(***************************************************************************)
(* What the future depends on, for the properties that do not mention the  *)
(* totals: no step that writes events, stakes or the cursor reads them.    *)
(***************************************************************************)
Ledger(r) ==
  IF pc[r] \in {"totals", "totalsWrite", "stats", "statsWrite"}
  THEN "refresh"
  ELSE <<pc[r], at[r], target[r], size[r], iter[r], logs[r], todo[r], current[r], sum[r]>>

\* With the totals: a local matters from the step that sets it to its last use.
Live(r) ==
  CASE pc[r] = "head"                                -> <<at[r]>>
    [] pc[r] \in {"loop", "deposits", "withdrawals", "claims", "recompute", "set"}
         -> <<at[r], target[r], size[r], iter[r], logs[r], todo[r], current[r], sum[r], touched[r]>>
    [] pc[r] = "totals"                              -> <<touched[r]>>
    [] pc[r] \in {"totalsWrite", "statsWrite", "goldskyWrite"} -> <<seen[r]>>
    [] OTHER                                         -> <<>>

TotalsView == <<chain, ledger, totals, cursor, pc, [r \in Actors |-> Live(r)]>>

LedgerView == <<chain, ledger, cursor, [r \in Actors |-> Ledger(r)]>>
=============================================================================
