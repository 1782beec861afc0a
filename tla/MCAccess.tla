------------------------------ MODULE MCAccess ------------------------------
(***************************************************************************)
(* TLC instance of Access.                                                 *)
(***************************************************************************)
EXTENDS Access, TLC

ShortWindows == [day |-> 3, month |-> 6]
OneCap       == {[day |-> 1, month |-> 2]}

\* Two isolates, and two requests of each kind, are interchangeable.
AccessSymmetry == Permutations(Isolates) \union Permutations(Requests)

\* What a request between two calls was last given is not read again.
BusyOf(f) == [r \in Requests |-> IF stage[r] = "idle" THEN <<>> ELSE <<f[r]>>]

\* A scene's future depends on its own variables only.
SceneView ==
  <<scene,
    CASE scene = "meter" ->
           <<minute, burst, budget, row, used, caches, stage, BusyOf(home), BusyOf(at), got, overSince>>
      [] scene = "sso"     -> ssoVars
      [] scene = "paid"    -> paidVars
      [] scene = "budget"  -> budgetVars
      [] scene = "keyless" -> keylessVars>>
=============================================================================
