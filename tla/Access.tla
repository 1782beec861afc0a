------------------------------- MODULE Access -------------------------------
(***************************************************************************)
(* What stands between a request and the data: volume caps, sign-in        *)
(* through the hub, paid calls, the read budget and the anonymous cap.     *)
(* The five keep their state in tables, KV keys and isolates of their own  *)
(* and meet only in the request that passes them one after the other, so a *)
(* behaviour is a behaviour of one of them, its scene, and the others rest. *)
(***************************************************************************)
EXTENDS VolumeCaps, SsoSessions, PaidCalls, ReadBudget, KeylessGate

VARIABLE scene

Scenes == {"meter", "sso", "paid", "budget", "keyless"}

accessVars == <<scene, meterVars, ssoVars, paidVars, budgetVars, keylessVars>>

AccessInit ==
  /\ scene \in Scenes
  /\ MeterInit /\ SsoInit /\ PaidInit /\ BudgetInit /\ KeylessInit

AccessNext ==
  /\ \/ scene = "meter" /\ MeterNext /\ UNCHANGED <<ssoVars, paidVars, budgetVars, keylessVars>>
     \/ scene = "sso" /\ SsoNext /\ UNCHANGED <<meterVars, paidVars, budgetVars, keylessVars>>
     \/ scene = "paid" /\ PaidNext /\ UNCHANGED <<meterVars, ssoVars, budgetVars, keylessVars>>
     \/ scene = "budget" /\ BudgetNext /\ UNCHANGED <<meterVars, ssoVars, paidVars, keylessVars>>
     \/ scene = "keyless" /\ KeylessNext /\ UNCHANGED <<meterVars, ssoVars, paidVars, budgetVars>>
  /\ UNCHANGED scene

AccessSpec == AccessInit /\ [][AccessNext]_accessVars
=============================================================================
