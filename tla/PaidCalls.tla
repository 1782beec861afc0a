----------------------------- MODULE PaidCalls -----------------------------
(***************************************************************************)
(* Calls paid one by one with a signed authorization of one payer:         *)
(* verification, the rate gate, settlement and the answer                  *)
(* (src/src/utils/x402.ts, src/src/db/x402.ts, handleApiRoutes of          *)
(* src/src/routes/api.ts).  An authorization is its nonce; what decoding,  *)
(* amount, window and signature checks refuse is not a payment at all.     *)
(***************************************************************************)
EXTENDS Integers, FiniteSets

CONSTANTS
  PaidRequests,   \* requests with a payment header that run at once
  Authorizations, \* the nonces the payer has signed
  MAX_PENDING     \* MAX_PENDING_PER_PAYER

ASSUME PaidAssumption == MAX_PENDING \in Nat \ {0} /\ IsFiniteSet(PaidRequests)

VARIABLES
  facilitator, \* X402_FACILITATOR_URL is set
  paidStep,    \* where each request is
  authOf,      \* the authorization it carries
  payments,    \* x402_payments: the status of each nonce
  charged,     \* authorizations the facilitator has broadcast (outside this code)
  passed,      \* history: authorizations a request has got past the rate gate with
  answers      \* history: how many requests an authorization has been answered

paidVars == <<facilitator, paidStep, authOf, payments, charged, passed, answers>>

PaidSteps == {"new", "nonce", "count", "gate", "charge", "store", "serve"}

PaidInit ==
  /\ facilitator \in BOOLEAN
  /\ paidStep = [r \in PaidRequests |-> "new"]
  /\ authOf \in [PaidRequests -> Authorizations]
  /\ payments = [a \in Authorizations |-> "none"]
  /\ charged = {} /\ passed = {}
  /\ answers = [a \in Authorizations |-> 0]

Onward(r, from, to) ==
  /\ paidStep[r] = from
  /\ paidStep' = [paidStep EXCEPT ![r] = to]

Pending == {a \in Authorizations : payments[a] = "pending"}

\* A request comes, after those before it in its place: any of them may carry any nonce.
PaidComes(r, a) ==
  /\ Onward(r, "new", "nonce")
  /\ authOf' = [authOf EXCEPT ![r] = a]
  /\ UNCHANGED <<facilitator, payments, charged, passed, answers>>

\* isX402NonceUsed, when the rest of verifyX402Payment has passed.
CheckNonce(r) ==
  /\ Onward(r, "nonce", IF payments[authOf[r]] = "none" THEN "count" ELSE "new")
  /\ UNCHANGED <<facilitator, authOf, payments, charged, passed, answers>>

\* countPendingX402ForPayer.
CountPending(r) ==
  /\ Onward(r, "count", IF Cardinality(Pending) < MAX_PENDING THEN "gate" ELSE "new")
  /\ UNCHANGED <<facilitator, authOf, payments, charged, passed, answers>>

AfterGate402 == IF facilitator THEN "charge" ELSE "store"

\* checkRateLimit for keyId x402:payer lets the call on, to settlement, or not.
PassGate(r) ==
  /\ Onward(r, "gate", AfterGate402)
  /\ passed' = passed \union {authOf[r]}
  /\ UNCHANGED <<facilitator, authOf, payments, charged, answers>>

\* A 429.
Throttle(r) ==
  /\ Onward(r, "gate", "new")
  /\ UNCHANGED <<facilitator, authOf, payments, charged, passed, answers>>

\* POST /settle succeeds once for an authorization, the chain knows its nonce; or it fails.
Charge(r) ==
  /\ Onward(r, "charge", "store")
  /\ authOf[r] \notin charged
  /\ charged' = charged \union {authOf[r]}
  /\ UNCHANGED <<facilitator, authOf, payments, passed, answers>>

ChargeFails(r) ==
  /\ Onward(r, "charge", "new")
  /\ UNCHANGED <<facilitator, authOf, payments, passed, answers>>
  /\ charged' \in {charged, charged \union {authOf[r]}}

\* Mutant: the nonce check of verification is trusted.
StorePayment_overwriting(r) ==
  /\ Onward(r, "store", "serve")
  /\ payments' = [payments EXCEPT ![authOf[r]] = IF facilitator THEN "settled" ELSE "pending"]
  /\ UNCHANGED <<facilitator, authOf, charged, passed, answers>>

\* insertX402Payment: UNIQUE(payer, nonce) lets one request through.
StorePayment(r) ==
  LET a == authOf[r] IN
  /\ Onward(r, "store", IF payments[a] = "none" THEN "serve" ELSE "new")
  /\ payments' = [payments EXCEPT ![a] =
       IF @ # "none" THEN @ ELSE IF facilitator THEN "settled" ELSE "pending"]
  /\ UNCHANGED <<facilitator, authOf, charged, passed, answers>>

\* The store throws or its answer is lost: refused, whatever was stored or charged.
StoreFails(r, stored) ==
  /\ Onward(r, "store", "new")
  /\ payments' = [payments EXCEPT ![authOf[r]] =
       IF @ = "none" /\ stored THEN (IF facilitator THEN "settled" ELSE "pending") ELSE @]
  /\ UNCHANGED <<facilitator, authOf, charged, passed, answers>>

\* The data handler answers; over the read budget, or failing, it does not.
Answer(r, withData) ==
  /\ Onward(r, "serve", "new")
  /\ answers' = IF withData THEN [answers EXCEPT ![authOf[r]] = @ + 1] ELSE answers
  /\ UNCHANGED <<facilitator, authOf, payments, charged, passed>>

\* A batch on chain, run outside this code, settles what is pending.
BatchSettles(a) ==
  /\ payments[a] = "pending"
  /\ payments' = [payments EXCEPT ![a] = "settled"]
  /\ UNCHANGED <<facilitator, paidStep, authOf, charged, passed, answers>>

PaidNext ==
  \/ \E r \in PaidRequests :
       \/ \E a \in Authorizations : PaidComes(r, a)
       \/ CheckNonce(r) \/ CountPending(r) \/ PassGate(r) \/ Throttle(r)
       \/ Charge(r) \/ ChargeFails(r) \/ StorePayment(r)
       \/ \E yes \in BOOLEAN : StoreFails(r, yes) \/ Answer(r, yes)
  \/ \E a \in Authorizations : BatchSettles(a)

PaidSpec == PaidInit /\ [][PaidNext]_paidVars
-----------------------------------------------------------------------------
PaidTypeOK ==
  /\ facilitator \in BOOLEAN
  /\ paidStep \in [PaidRequests -> PaidSteps]
  /\ authOf \in [PaidRequests -> Authorizations]
  /\ payments \in [Authorizations -> {"none", "pending", "settled"}]
  /\ {charged, passed} \subseteq SUBSET Authorizations
  /\ answers \in [Authorizations -> Nat]

(***************************************************************************)
(* A replayed authorization never reaches the data handler (api.ts): one   *)
(* payment buys one answer, whatever interleaves between the nonce check   *)
(* and the insert, and what was answered is recorded, and charged where a  *)
(* facilitator settles.                                                    *)
(***************************************************************************)
OneAnswerPerPayment ==
  \A a \in Authorizations :
    /\ answers[a] <= 1
    /\ answers[a] = 1 => payments[a] # "none" /\ (facilitator => a \in charged)

(***************************************************************************)
(* A 429 never consumes the client's payment nonce (api.ts): a payment is  *)
(* recorded or charged only after a request got past the rate gate with it. *)
(***************************************************************************)
ThrottledKeepsNonce ==
  \A a \in Authorizations : payments[a] # "none" \/ a \in charged => a \in passed

(***************************************************************************)
(* The cap on unsettled authorizations is checked before the gate and not  *)
(* again, so requests that run together can overshoot it, by no more than  *)
(* their number less one.                                                  *)
(***************************************************************************)
PendingBounded == Cardinality(Pending) < MAX_PENDING + Cardinality(PaidRequests)

(***************************************************************************)
(* A payment is used once, is not consumed by a refusal, and waits for its *)
(* settlement with no more others than the cap and the overlap allow.      *)
(***************************************************************************)
PaymentsAreFair == PaidTypeOK /\ OneAnswerPerPayment /\ ThrottledKeepsNonce /\ PendingBounded
=============================================================================
