------------------------- MODULE MCBackfillCoverage -------------------------
(***************************************************************************)
(* TLC instances of BackfillCoverage.                                      *)
(***************************************************************************)
EXTENDS BackfillCoverage

\* A range that need not continue the frontier, and ends beyond the head.
AnyRanges == {<<3, 9>>}

NoRanges == {}

(***************************************************************************)
(* What the future of a pass depends on: a local is dead from its last use *)
(* to the next time it is set.  range and holders passes do not differ in  *)
(* what they do to the frontier.                                           *)
(***************************************************************************)
Live(p) ==
  <<kind[p] = "grind",
    CASE pc[p] = "scan"    -> <<from[p], to[p], at[p], chunks[p], failed[p]>>
      [] pc[p] = "persist" -> <<from[p], to[p], at[p], failed[p], prevFrontier[p]>>
      [] pc[p] = "next"    -> <<to[p], at[p], failed[p]>>
      [] pc[p] = "lock"    -> <<from[p], to[p], age[p]>>
      [] pc[p] = "plan"    -> <<age[p]>>
      [] OTHER             -> <<>>>>

FrontierView == <<head, campaign, pc, [p \in Passes |-> Live(p)], calm, scanned>>
=============================================================================
