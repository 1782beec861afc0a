------------------------------- MODULE Paging -------------------------------
(***************************************************************************)
(* What the alerts promise an operator (header of                          *)
(* src/src/alerts/index.ts): a page is a transition, so the pages on one   *)
(* signal alternate between bad and recovered.  Only a fault (a lost read  *)
(* or write, a run that dies, two runs at once) buys a page that repeats   *)
(* the one before it, one a fault.                                         *)
(***************************************************************************)
EXTENDS Naturals

CONSTANT Signals

VARIABLES
  told, \* what the last page on each signal said: TRUE for bad
  slack \* repeated pages the faults so far have yet to cause, at most

pagingVars == <<told, slack>>

PagingInit ==
  /\ told = [s \in Signals |-> FALSE]
  /\ slack = [s \in Signals |-> 0]

Tell(s) ==
  /\ told' = [told EXCEPT ![s] = ~@]
  /\ UNCHANGED slack

TellAgain(s) ==
  /\ slack[s] > 0
  /\ slack' = [slack EXCEPT ![s] = @ - 1]
  /\ UNCHANGED told

Fault ==
  /\ slack' = [s \in Signals |-> slack[s] + 1]
  /\ UNCHANGED told

PagingNext == Fault \/ \E s \in Signals : Tell(s) \/ TellAgain(s)

PagingSpec == PagingInit /\ [][PagingNext]_pagingVars
=============================================================================
