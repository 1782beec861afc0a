---------------------------- MODULE AccessProofs ----------------------------
(***************************************************************************)
(* What a request between two calls cannot break: the anonymous cap, one   *)
(* answer for one payment, one session for one launch token, and the       *)
(* revocation gate, for any number of requests and any limits.             *)
(***************************************************************************)
EXTENDS Access, FiniteSums

-----------------------------------------------------------------------------
(***************************************************************************)
(* The anonymous day cap (KeylessGate).                                    *)
(***************************************************************************)
KeylessNumbers ==
  /\ DAY_CAP \in Nat /\ DAY_HOURS \in Nat /\ DAY_HOURS > 0 /\ PRUNE_AT \in Nat
  /\ MaxHour \in Nat /\ MaxCharged \in Nat

(***************************************************************************)
(* A bucket that still has hours to run counts every request it let        *)
(* through; a request under way came in this hour or the last, so its      *)
(* bucket is one of those.                                                 *)
(***************************************************************************)
ComeLately   == \A r \in Anonymous : anonStep[r] = "bump" => hour <= anonHour[r] + 1
LiveCounts   == \A d \in AnonDays : ~Expired(d) => letThrough[d] <= counter[d]
WithinCap    == \A d \in AnonDays : letThrough[d] <= DAY_CAP
KeylessInv   == KeylessTypeOK /\ ComeLately /\ LiveCounts /\ WithinCap

LEMMA KeylessNumbersHold == KeylessNumbers
  BY KeylessAssumption DEF KeylessNumbers

\* Division by a symbolic day.
LEMMA Division ==
  ASSUME NEW t \in Nat, NEW D \in Nat \ {0}
  PROVE  /\ t \div D \in Nat /\ t % D \in 0 .. D - 1
         /\ t = D * (t \div D) + (t % D)
<1>1. t % D \in 0 .. D - 1
  OBVIOUS
<1>2. t = D * (t \div D) + (t % D)
  OBVIOUS
<1>3. t \div D \in Nat
  OBVIOUS
<1> QED
  BY <1>1, <1>2, <1>3

\* An hour lies before the end of its day, and days follow hours.
LEMMA DayEndsLater ==
  ASSUME NEW t \in 0 .. MaxHour
  PROVE  DayOf(t) \in AnonDays /\ ResetAt(DayOf(t)) > t
<1> USE KeylessNumbersHold DEF KeylessNumbers
<1>0. t \in Nat
  OBVIOUS
<1>1. /\ t \div DAY_HOURS \in Nat /\ t % DAY_HOURS \in 0 .. DAY_HOURS - 1
      /\ t = DAY_HOURS * (t \div DAY_HOURS) + (t % DAY_HOURS)
  BY <1>0, Division
<1>2. /\ MaxHour \div DAY_HOURS \in Nat /\ MaxHour % DAY_HOURS \in 0 .. DAY_HOURS - 1
      /\ MaxHour = DAY_HOURS * (MaxHour \div DAY_HOURS) + (MaxHour % DAY_HOURS)
  BY Division
<1>3. ASSUME NEW a \in Nat, NEW b \in Nat, NEW x \in Nat, NEW y \in Nat, NEW D \in Nat,
             x < D, y < D, D * a + x <= D * b + y
      PROVE  a <= b
  <2>1. SUFFICES ASSUME a >= b + 1 PROVE FALSE
    BY <1>3
  <2>2. D * a >= D * (b + 1)
    BY <1>3, <2>1
  <2>3. D * (b + 1) = D * b + D
    BY <1>3
  <2> QED
    BY <1>3, <2>2, <2>3
<1>4. t \div DAY_HOURS <= MaxHour \div DAY_HOURS
  BY <1>1, <1>2, <1>3
<1>5. (t \div DAY_HOURS + 1) * DAY_HOURS = DAY_HOURS * (t \div DAY_HOURS) + DAY_HOURS
  BY <1>1
<1> QED
  BY <1>1, <1>2, <1>4, <1>5 DEF DayOf, AnonDays, ResetAt

LEMMA KeylessStarts == KeylessInit => KeylessInv
<1> SUFFICES ASSUME KeylessInit PROVE KeylessInv
  OBVIOUS
<1> USE KeylessNumbersHold DEF KeylessNumbers, KeylessInit
<1>1. KeylessTypeOK
  <2>1. 0 \in 0 .. MaxHour
    OBVIOUS
  <2>2. {counter, letThrough} \subseteq [AnonDays -> Nat]
    OBVIOUS
  <2>3. anonStep \in [Anonymous -> {"new", "bump"}] /\ anonHour \in [Anonymous -> 0 .. MaxHour]
    BY <2>1
  <2> QED
    BY <2>1, <2>2, <2>3 DEF KeylessTypeOK
<1>2. ComeLately /\ LiveCounts /\ WithinCap
  BY DEF ComeLately, LiveCounts, WithinCap
<1> QED
  BY <1>1, <1>2 DEF KeylessInv

\* The bucket a request under way charges is still to be counted in.
LEMMA BucketIsLive ==
  ASSUME KeylessInv, NEW r \in Anonymous, anonStep[r] = "bump"
  PROVE  DayOf(anonHour[r]) \in AnonDays /\ ~Expired(DayOf(anonHour[r]))
<1>1. anonHour[r] \in 0 .. MaxHour /\ hour <= anonHour[r] + 1 /\ hour \in Nat
  BY KeylessNumbersHold DEF KeylessNumbers, KeylessInv, KeylessTypeOK, ComeLately
<1>2. DayOf(anonHour[r]) \in Nat /\ ResetAt(DayOf(anonHour[r])) > anonHour[r]
  BY <1>1, DayEndsLater DEF AnonDays
<1>3. ResetAt(DayOf(anonHour[r])) \in Nat
  BY <1>2, KeylessNumbersHold DEF ResetAt, KeylessNumbers
<1> QED
  BY <1>1, <1>2, <1>3, DayEndsLater DEF Expired

LEMMA KeylessStep == KeylessInv /\ [KeylessNext]_keylessVars => KeylessInv'
<1> SUFFICES ASSUME KeylessInv, [KeylessNext]_keylessVars
             PROVE  KeylessInv'
  OBVIOUS
<1> USE KeylessNumbersHold DEF KeylessNumbers, KeylessInv
<1>0. \A d \in AnonDays : ResetAt(d) \in Nat
  BY Division DEF AnonDays, ResetAt, DayOf
<1>1. ASSUME NEW r \in Anonymous, AnonComes(r)
      PROVE  KeylessInv'
  <2>1. UNCHANGED <<hour, counter, letThrough>>
    BY <1>1 DEF AnonComes
  <2> QED
    BY <1>1, <2>1 DEF AnonComes, KeylessTypeOK, ComeLately, LiveCounts, WithinCap, Expired
<1>2. ASSUME NEW r \in Anonymous, NEW d \in AnonDays, d = DayOf(anonHour[r]), anonStep[r] = "bump",
             anonStep' = [anonStep EXCEPT ![r] = "new"], UNCHANGED <<hour, anonHour, pruned>>,
             \/ /\ counter' = [counter EXCEPT ![d] = counter[d] + 1]
                /\ letThrough' = [letThrough EXCEPT ![d] =
                                    IF OverCap(counter'[d]) THEN letThrough[d] ELSE letThrough[d] + 1]
             \/ counter' = [counter EXCEPT ![d] = counter[d] + 1] /\ UNCHANGED letThrough
             \/ UNCHANGED <<counter, letThrough>>
      PROVE  KeylessInv'
  <2>1. ~Expired(d)
    BY <1>2, BucketIsLive
  <2>2. KeylessTypeOK' /\ ComeLately'
    BY <1>2 DEF KeylessTypeOK, ComeLately
  <2>3. LiveCounts' /\ WithinCap'
    BY <1>2, <2>1 DEF KeylessTypeOK, LiveCounts, WithinCap, OverCap, Expired
  <2> QED
    BY <2>2, <2>3
<1>3. ASSUME NEW r \in Anonymous, Bump(r) \/ \E saved \in BOOLEAN : BumpFails(r, saved)
      PROVE  KeylessInv'
  <2>1. DayOf(anonHour[r]) \in AnonDays
    BY <1>3, BucketIsLive DEF Bump, BumpFails
  <2> QED
    BY <1>2, <1>3, <2>1 DEF Bump, BumpFails, KeylessTypeOK
<1>4. CASE Prune
  BY <1>4 DEF Prune, KeylessTypeOK, ComeLately, LiveCounts, WithinCap, Expired
<1>5. CASE NextHour
  <2>1. hour \in 0 .. MaxHour /\ hour < MaxHour /\ hour' = hour + 1 /\ pruned' = FALSE
    BY <1>5 DEF NextHour, KeylessTypeOK
  <2>2. hour' \in 0 .. MaxHour
    BY <2>1
  <2>3. KeylessTypeOK' /\ WithinCap'
    BY <1>5, <2>1, <2>2 DEF NextHour, KeylessTypeOK, WithinCap
  <2>4. ComeLately'
    BY <1>5 DEF NextHour, KeylessTypeOK, ComeLately
  <2>5. \A d \in AnonDays : ~Expired(d)' => ~Expired(d)
    BY <1>0, <1>5 DEF NextHour, KeylessTypeOK, Expired, ResetAt
  <2> QED
    BY <1>5, <2>3, <2>4, <2>5 DEF NextHour, LiveCounts
<1>6. CASE UNCHANGED keylessVars
  BY <1>6 DEF keylessVars, KeylessTypeOK, ComeLately, LiveCounts, WithinCap, Expired
<1> QED
  BY <1>1, <1>3, <1>4, <1>5, <1>6 DEF KeylessNext

\* Beside the other four gates the anonymous cap steps as it does alone.
LEMMA AccessStepsKeyless == [AccessNext]_accessVars => [KeylessNext]_keylessVars
  BY DEF AccessNext, accessVars

(***************************************************************************)
(* However many keyless requests overlap with each other, with the prune   *)
(* and with midnight, no day lets more of them through than the cap.       *)
(***************************************************************************)
THEOREM AnonCapHolds == AccessSpec => []AnonWithinCap
<1>1. AccessInit => KeylessInv
  BY KeylessStarts DEF AccessInit
<1>2. KeylessInv /\ [AccessNext]_accessVars => KeylessInv'
  BY KeylessStep, AccessStepsKeyless
<1>3. KeylessInv => AnonWithinCap
  BY DEF KeylessInv, WithinCap, AnonWithinCap
<1> QED
  BY <1>1, <1>2, <1>3, PTL DEF AccessSpec
-----------------------------------------------------------------------------
(***************************************************************************)
(* Calls paid one by one (PaidCalls).                                      *)
(***************************************************************************)

\* The insert lets one request through, so whoever serves is alone with its authorization.
ServesOnce ==
  /\ \A r \in PaidRequests : paidStep[r] = "serve" =>
       /\ payments[authOf[r]] # "none" /\ answers[authOf[r]] = 0
       /\ facilitator => authOf[r] \in charged
  /\ \A r, q \in PaidRequests :
       paidStep[r] = "serve" /\ paidStep[q] = "serve" /\ authOf[r] = authOf[q] => r = q

\* Past the gate, an authorization is one the gate let on; at the insert it has been charged.
PastGate ==
  \A r \in PaidRequests :
    /\ paidStep[r] \in {"charge", "store", "serve"} => authOf[r] \in passed
    /\ paidStep[r] = "store" /\ facilitator => authOf[r] \in charged

(***************************************************************************)
(* Every request between the count and the insert may still add one to the *)
(* pending authorizations it counted without the others.                   *)
(***************************************************************************)
Adding      == {r \in PaidRequests : paidStep[r] \in {"gate", "charge", "store"}}
RoomIsLeft  ==
  /\ IsFiniteSet(Pending)
  /\ Cardinality(Pending) + Cardinality(Adding) < MAX_PENDING + Cardinality(PaidRequests)

PaidInv ==
  PaidTypeOK /\ OneAnswerPerPayment /\ ThrottledKeepsNonce /\ ServesOnce /\ PastGate /\ RoomIsLeft

LEMMA PaidStarts == PaidInit => PaidInv
<1> SUFFICES ASSUME PaidInit PROVE PaidInv
  OBVIOUS
<1>1. Pending = {} /\ Adding = {}
  BY DEF PaidInit, Pending, Adding
<1>2. Cardinality(PaidRequests) \in Nat /\ MAX_PENDING \in Nat /\ MAX_PENDING > 0
  BY PaidAssumption, FS_CardinalityType
<1>3. RoomIsLeft
  BY <1>1, <1>2, FS_EmptySet DEF RoomIsLeft
<1>4. PaidTypeOK
  <2>1. {charged, passed} \subseteq SUBSET Authorizations
    BY DEF PaidInit
  <2>2. /\ paidStep \in [PaidRequests -> PaidSteps] /\ authOf \in [PaidRequests -> Authorizations]
        /\ payments \in [Authorizations -> {"none", "pending", "settled"}]
        /\ answers \in [Authorizations -> Nat]
    BY DEF PaidInit, PaidSteps
  <2> QED
    BY <2>1, <2>2 DEF PaidInit, PaidTypeOK
<1> QED
  BY <1>3, <1>4 DEF PaidInit, PaidInv, OneAnswerPerPayment, ThrottledKeepsNonce, ServesOnce, PastGate,
                    PaidSteps

\* What a step does to the count: a request that counted joins, one that inserts leaves.
LEMMA RoomStays ==
  ASSUME PaidInv, [PaidNext]_paidVars
  PROVE  RoomIsLeft'
<1> USE DEF PaidInv
<1>1. /\ Cardinality(PaidRequests) \in Nat /\ MAX_PENDING \in Nat
      /\ IsFiniteSet(Adding) /\ Cardinality(Adding) \in Nat /\ Cardinality(Pending) \in Nat
      /\ IsFiniteSet(Adding') /\ Cardinality(Adding') \in Nat
  <2>1. Adding \subseteq PaidRequests /\ Adding' \subseteq PaidRequests
    BY DEF Adding
  <2> QED
    BY <2>1, PaidAssumption, FS_Subset, FS_CardinalityType DEF RoomIsLeft
<1>2. ASSUME Adding' \subseteq Adding, Pending' \subseteq Pending
      PROVE  RoomIsLeft'
  BY <1>1, <1>2, FS_Subset, FS_CardinalityType DEF RoomIsLeft
<1>3. ASSUME NEW r \in PaidRequests, CountPending(r)
      PROVE  RoomIsLeft'
  <2>1. Pending' = Pending
    BY <1>3 DEF CountPending, Pending
  <2>2. CASE Cardinality(Pending) < MAX_PENDING
    <3>1. Cardinality(Adding') <= Cardinality(PaidRequests)
      BY FS_Subset, PaidAssumption DEF Adding
    <3> QED
      BY <1>1, <2>1, <2>2, <3>1 DEF RoomIsLeft
  <2>3. CASE ~(Cardinality(Pending) < MAX_PENDING)
    <3>1. Adding' \subseteq Adding
      BY <1>3, <2>3 DEF CountPending, Onward, Adding, PaidTypeOK
    <3> QED
      BY <1>2, <2>1, <3>1
  <2> QED
    BY <2>2, <2>3
<1>4. ASSUME NEW r \in PaidRequests, paidStep[r] = "store",
             paidStep' = [paidStep EXCEPT ![r] = "serve"] \/ paidStep' = [paidStep EXCEPT ![r] = "new"],
             Pending' \subseteq Pending \union {authOf[r]}
      PROVE  RoomIsLeft'
  <2>1. Adding' = Adding \ {r} /\ r \in Adding
    BY <1>4 DEF Adding, PaidTypeOK
  <2>2. Cardinality(Adding') = Cardinality(Adding) - 1
    BY <1>1, <2>1, FS_RemoveElement
  <2>3. /\ IsFiniteSet(Pending \union {authOf[r]})
        /\ Cardinality(Pending \union {authOf[r]}) <= Cardinality(Pending) + 1
    <3>1. IsFiniteSet(Pending)
      BY DEF RoomIsLeft
    <3>2. Cardinality(Pending \union {authOf[r]}) \in {Cardinality(Pending), Cardinality(Pending) + 1}
      BY <3>1, FS_AddElement
    <3>3. IsFiniteSet(Pending \union {authOf[r]})
      BY <3>1, FS_AddElement
    <3>4. Cardinality(Pending \union {authOf[r]}) <= Cardinality(Pending) + 1
      BY <1>1, <3>2
    <3> QED
      BY <3>3, <3>4
  <2>4. /\ IsFiniteSet(Pending')
        /\ Cardinality(Pending') <= Cardinality(Pending \union {authOf[r]})
    BY <1>4, <2>3, FS_Subset
  <2>5. Cardinality(Pending') \in Nat /\ Cardinality(Pending \union {authOf[r]}) \in Nat
    BY <2>3, <2>4, FS_CardinalityType
  <2> QED
    BY <1>1, <2>2, <2>3, <2>4, <2>5 DEF RoomIsLeft
<1>5. ASSUME NEW r \in PaidRequests,
             StorePayment(r) \/ \E saved \in BOOLEAN : StoreFails(r, saved)
      PROVE  RoomIsLeft'
  <2>1. Pending' \subseteq Pending \union {authOf[r]}
    BY <1>5 DEF StorePayment, StoreFails, Pending, PaidTypeOK
  <2> QED
    BY <1>4, <1>5, <2>1 DEF StorePayment, StoreFails, Onward
<1>6. ASSUME NEW r \in PaidRequests,
             \/ \E a \in Authorizations : PaidComes(r, a)
             \/ CheckNonce(r) \/ PassGate(r) \/ Throttle(r) \/ Charge(r) \/ ChargeFails(r)
             \/ \E withData \in BOOLEAN : Answer(r, withData)
      PROVE  RoomIsLeft'
  <2>1. Pending' = Pending
    BY <1>6 DEF PaidComes, CheckNonce, PassGate, Throttle, Charge, ChargeFails, Answer, Pending
  <2>2. Adding' \subseteq Adding
    BY <1>6 DEF PaidComes, CheckNonce, PassGate, Throttle, Charge, ChargeFails, Answer, Onward,
                AfterGate402, Adding, PaidTypeOK
  <2> QED
    BY <1>2, <2>1, <2>2
<1>7. ASSUME NEW a \in Authorizations, BatchSettles(a)
      PROVE  RoomIsLeft'
  BY <1>2, <1>7 DEF BatchSettles, Pending, Adding, PaidTypeOK
<1>8. CASE UNCHANGED paidVars
  BY <1>2, <1>8 DEF paidVars, Pending, Adding
<1> QED
  BY <1>3, <1>5, <1>6, <1>7, <1>8 DEF PaidNext

LEMMA PaidStep == PaidInv /\ [PaidNext]_paidVars => PaidInv'
<1> SUFFICES ASSUME PaidInv, [PaidNext]_paidVars
             PROVE  PaidInv'
  OBVIOUS
<1> USE DEF PaidInv, OneAnswerPerPayment, ThrottledKeepsNonce, ServesOnce, PastGate
<1>1. RoomIsLeft'
  BY RoomStays
<1>2. ASSUME NEW r \in PaidRequests,
             \/ \E a \in Authorizations : PaidComes(r, a)
             \/ CheckNonce(r) \/ CountPending(r) \/ PassGate(r) \/ Throttle(r)
      PROVE  PaidInv'
  <2>1. PaidTypeOK'
    BY <1>2 DEF PaidComes, CheckNonce, CountPending, PassGate, Throttle, Onward, AfterGate402,
                PaidTypeOK, PaidSteps
  <2>2. UNCHANGED <<facilitator, payments, charged, answers>> /\ passed \subseteq passed'
    BY <1>2 DEF PaidComes, CheckNonce, CountPending, PassGate, Throttle
  <2>3. ServesOnce' /\ PastGate'
    BY <1>2 DEF PaidComes, CheckNonce, CountPending, PassGate, Throttle, Onward, AfterGate402, PaidTypeOK
  <2> QED
    BY <1>1, <2>1, <2>2, <2>3
<1>3. ASSUME NEW r \in PaidRequests, Charge(r) \/ ChargeFails(r)
      PROVE  PaidInv'
  <2>1. PaidTypeOK'
    BY <1>3 DEF Charge, ChargeFails, Onward, PaidTypeOK, PaidSteps
  <2>2. /\ UNCHANGED <<facilitator, payments, passed, answers, authOf>> /\ authOf[r] \in passed
        /\ charged \subseteq charged' /\ charged' \subseteq charged \union {authOf[r]}
    BY <1>3 DEF Charge, ChargeFails, Onward
  <2>3. ServesOnce' /\ PastGate'
    BY <1>3, <2>2 DEF Charge, ChargeFails, Onward, PaidTypeOK
  <2> QED
    BY <1>1, <2>1, <2>2, <2>3
<1>4. ASSUME NEW r \in PaidRequests,
             StorePayment(r) \/ \E saved \in BOOLEAN : StoreFails(r, saved)
      PROVE  PaidInv'
  <2>1. PaidTypeOK'
    BY <1>4 DEF StorePayment, StoreFails, Onward, PaidTypeOK, PaidSteps
  <2>2. /\ UNCHANGED <<facilitator, passed, charged, answers, authOf>>
        /\ authOf[r] \in passed /\ (facilitator => authOf[r] \in charged)
        /\ \A a \in Authorizations :
             /\ a # authOf[r] => payments'[a] = payments[a]
             /\ payments[a] # "none" => payments'[a] # "none"
    BY <1>4 DEF StorePayment, StoreFails, Onward, PaidTypeOK
  <2>3. payments[authOf[r]] = "none" => answers[authOf[r]] = 0
    BY DEF PaidTypeOK
  <2>4. ServesOnce'
    BY <1>4, <2>2, <2>3 DEF StorePayment, StoreFails, Onward, PaidTypeOK
  <2>5. PastGate'
    BY <1>4, <2>2 DEF StorePayment, StoreFails, Onward, PaidTypeOK
  <2>6. ThrottledKeepsNonce' /\ OneAnswerPerPayment'
    BY <2>2 DEF PaidTypeOK
  <2> QED
    BY <1>1, <2>1, <2>4, <2>5, <2>6
<1>5. ASSUME NEW r \in PaidRequests, NEW withData \in BOOLEAN, Answer(r, withData)
      PROVE  PaidInv'
  <2>1. PaidTypeOK'
    BY <1>5 DEF Answer, Onward, PaidTypeOK, PaidSteps
  <2>2. UNCHANGED <<facilitator, authOf, payments, charged, passed>>
    BY <1>5 DEF Answer
  <2>3. ServesOnce' /\ PastGate'
    BY <1>5, <2>2 DEF Answer, Onward, PaidTypeOK
  <2>4. OneAnswerPerPayment'
    BY <1>5, <2>2 DEF Answer, Onward, PaidTypeOK
  <2> QED
    BY <1>1, <2>1, <2>2, <2>3, <2>4
<1>6. ASSUME NEW a \in Authorizations, BatchSettles(a)
      PROVE  PaidInv'
  BY <1>1, <1>6 DEF BatchSettles, PaidTypeOK
<1>7. CASE UNCHANGED paidVars
  BY <1>1, <1>7 DEF paidVars, PaidTypeOK
<1> QED
  BY <1>2, <1>3, <1>4, <1>5, <1>6, <1>7 DEF PaidNext

LEMMA AccessStepsPaid == [AccessNext]_accessVars => [PaidNext]_paidVars
  BY DEF AccessNext, accessVars

(***************************************************************************)
(* One payment buys at most one answer, a refusal at the gate costs no     *)
(* nonce, and pending payments overshoot their cap by less than the number *)
(* of requests, whatever fails between charging, storing and answering.    *)
(***************************************************************************)
THEOREM PaymentsStayFair == AccessSpec => []PaymentsAreFair
<1>1. AccessInit => PaidInv
  BY PaidStarts DEF AccessInit
<1>2. PaidInv /\ [AccessNext]_accessVars => PaidInv'
  BY PaidStep, AccessStepsPaid
<1>3. PaidInv => PaymentsAreFair
  <2> SUFFICES ASSUME PaidInv PROVE PendingBounded
    BY DEF PaidInv, PaymentsAreFair
  <2>1. Adding \subseteq PaidRequests
    BY DEF Adding
  <2>2. /\ Cardinality(Adding) \in Nat /\ Cardinality(Pending) \in Nat
        /\ Cardinality(PaidRequests) \in Nat /\ MAX_PENDING \in Nat
    BY <2>1, PaidAssumption, FS_Subset, FS_CardinalityType DEF PaidInv, RoomIsLeft
  <2> QED
    BY <2>2 DEF PaidInv, RoomIsLeft, PendingBounded
<1> QED
  BY <1>1, <1>2, <1>3, PTL DEF AccessSpec
-----------------------------------------------------------------------------
(***************************************************************************)
(* Sign-in and the revocation gate (SsoSessions).                          *)
(***************************************************************************)
SsoNumbers ==
  /\ Exp \in Nat /\ LIFETIME \in Nat /\ TTL \in Nat /\ TIMEOUT \in Nat /\ MaxWait \in Nat
  /\ GRACE \in Nat /\ MaxSecond \in Nat
  /\ TTL > 0 /\ TIMEOUT <= MaxWait /\ MaxWait <= GRACE

LEMMA SsoNumbersHold == SsoNumbers
  BY SsoAssumption DEF SsoNumbers

\* A callback that has not claimed its token yet came before the token expired, and lately.
OnItsWay == {v \in Visits : visit[v] \in {"callback", "callbackWaits", "claim"}}
CameInTime == \A v \in OnItsWay : since[v] <= Exp /\ second - since[v] <= MaxWait

\* Who is signed in has claimed the token, and nobody else is.
ClaimedOnce == (SignedIn # {} => jtiSeen) /\ \A v, w \in SignedIn : v = w

InflightType ==
  /\ inflight \in [began : 0 .. MaxSecond, answer : 0 .. Banned \union {NoAnswer}, running : BOOLEAN]
  /\ inflight.began <= second /\ fetchedAt <= second

SignInInv == SsoTypeOK /\ InflightType /\ CameInTime /\ ClaimedOnce

\* The latest of the account's entries, or no limit.
LEMMA LimitIsLatest ==
  ASSUME feed \subseteq 0 .. Banned
  PROVE  /\ LimitOf(feed) \in feed \union {NoLimit} /\ LimitOf(feed) \in 0 .. Banned
         /\ \A limit \in feed : limit <= LimitOf(feed)
<1> DEFINE all == feed \union {NoLimit}
<1>1. Banned \in Nat /\ all \in SUBSET (0 .. Banned) /\ NoLimit \in all
  BY SsoNumbersHold DEF SsoNumbers, Banned, NoLimit
<1> HIDE DEF all
<1>2. Max(all) \in all /\ \A limit \in all : limit <= Max(all)
  BY <1>1, GreatestUpTo
<1> QED
  BY <1>1, <1>2 DEF LimitOf, all

LEMMA SignInStarts == SsoInit => SignInInv
<1> SUFFICES ASSUME SsoInit PROVE SignInInv
  OBVIOUS
<1> USE SsoNumbersHold DEF SsoNumbers, SsoInit
<1>1. Banned \in Nat /\ 0 \in 0 .. Banned /\ 0 \in 0 .. MaxSecond /\ Banned \in 0 .. Banned
  BY DEF Banned
<1>2. SsoTypeOK
  <2>1. Waiting = {}
    BY DEF Waiting
  <2> QED
    BY <1>1, <2>1 DEF SsoTypeOK, Idle, Places, IssueTimes
<1>3. InflightType
  BY <1>1 DEF InflightType, Idle
<1>4. OnItsWay = {} /\ SignedIn = {}
  BY DEF OnItsWay, SignedIn
<1> QED
  BY <1>2, <1>3, <1>4 DEF SignInInv, CameInTime, ClaimedOnce

\* What each action does to the clock and to the visits' types; the rest follows per action.
LEMMA SsoTypes ==
  ASSUME SignInInv, [SsoNext]_ssoVars
  PROVE  SsoTypeOK' /\ InflightType'
<1> USE SsoNumbersHold DEF SsoNumbers, SignInInv
<1>0. /\ Banned \in Nat /\ Banned = MaxSecond + 1 /\ second \in Nat /\ second <= MaxSecond
      /\ second \in 0 .. MaxSecond /\ second \in 0 .. Banned /\ Banned \in 0 .. Banned
      /\ 0 \in 0 .. MaxSecond /\ 0 \in 0 .. Banned /\ IssueTimes = 0 .. MaxSecond
  BY DEF Banned, SsoTypeOK, IssueTimes
<1>1. ASSUME NEW v \in Visits, NEW kind \in {"callback", "page"}, NEW iat \in IssueTimes,
             Come(v, kind, iat)
      PROVE  SsoTypeOK' /\ InflightType'
  <2>1. Waiting' \subseteq Waiting
    BY <1>1 DEF Come, Waiting, SsoTypeOK
  <2>2. visit' \in [Visits -> Places] /\ since' \in [Visits -> 0 .. MaxSecond]
        /\ cookie' \in [Visits -> IssueTimes]
    BY <1>0, <1>1 DEF Come, SsoTypeOK, Places
  <2> QED
    BY <1>1, <2>1, <2>2 DEF Come, SsoTypeOK, InflightType, gateVars
<1>2. ASSUME NEW v \in Visits, Judge(v)
      PROVE  SsoTypeOK' /\ InflightType'
  <2>1. Waiting' \subseteq Waiting
    BY <1>2 DEF Judge, AfterGate, Waiting, SsoTypeOK
  <2>2. visit' \in [Visits -> Places]
    BY <1>2 DEF Judge, AfterGate, SsoTypeOK, Places
  <2> QED
    BY <1>2, <2>1, <2>2 DEF Judge, SsoTypeOK, InflightType, gateVars
<1>3. ASSUME NEW v \in Visits, Await(v)
      PROVE  SsoTypeOK' /\ InflightType'
  <2>1. visit' \in [Visits -> Places]
    BY <1>3 DEF Await, SsoTypeOK, Places
  <2>2. inflight'.running /\ InflightType'
    BY <1>0, <1>3 DEF Await, InflightType
  <2> QED
    BY <1>3, <2>1, <2>2 DEF Await, SsoTypeOK, InflightType
<1>4. ASSUME NEW v \in Visits, Claim(v) \/ \E saved \in BOOLEAN : ClaimFails(v, saved)
      PROVE  SsoTypeOK' /\ InflightType'
  <2>1. Waiting' \subseteq Waiting
    BY <1>4 DEF Claim, ClaimFails, Waiting, SsoTypeOK
  <2>2. visit' \in [Visits -> Places]
    BY <1>4 DEF Claim, ClaimFails, SsoTypeOK, Places
  <2>3. sessions' \subseteq IssueTimes /\ jtiSeen' \in BOOLEAN
    BY <1>0, <1>4 DEF Claim, ClaimFails, SsoTypeOK, SweptBeforeClaim
  <2> QED
    BY <1>4, <2>1, <2>2, <2>3 DEF Claim, ClaimFails, SsoTypeOK, InflightType, gateVars
<1>5. CASE HubAnswers
  <2>1. LimitOf(feed) \in 0 .. Banned
    BY LimitIsLatest DEF SsoTypeOK
  <2> QED
    BY <1>5, <2>1 DEF HubAnswers, SsoTypeOK, InflightType, visitVars, Waiting
<1>6. ASSUME NEW limit \in 0 .. Banned \union {NoAnswer}, RefreshEnds(limit, second), outage' \in BOOLEAN
      PROVE  SsoTypeOK' /\ InflightType'
  <2>1. Waiting' = {} /\ visit' \in [Visits -> Places]
    BY <1>6 DEF RefreshEnds, AfterGate, Waiting, SsoTypeOK, Places
  <2> QED
    BY <1>0, <1>6, <2>1 DEF RefreshEnds, Idle, SsoTypeOK, InflightType
<1>7. CASE RefreshWorks \/ RefreshFails
  <2>1. outage' \in BOOLEAN /\ \E limit \in 0 .. Banned \union {NoAnswer} : RefreshEnds(limit, second)
    BY <1>0, <1>7 DEF RefreshWorks, RefreshFails, SsoTypeOK, InflightType, NoLimit
  <2> QED
    BY <1>6, <2>1
<1>8. ASSUME NEW limit \in {second, Banned}, HubRevokes(limit)
      PROVE  SsoTypeOK' /\ InflightType'
  <2>1. feed' \subseteq 0 .. Banned /\ endedAt' \in [IssueTimes -> 0 .. Banned]
    BY <1>0, <1>8 DEF HubRevokes, SsoTypeOK
  <2> QED
    BY <1>8, <2>1 DEF HubRevokes, SsoTypeOK, InflightType, gateVars, visitVars, Waiting
<1>9. CASE NextSecond
  <2>1. second' \in 0 .. MaxSecond /\ second' = second + 1
    BY <1>0, <1>9 DEF NextSecond
  <2> QED
    BY <1>0, <1>9, <2>1 DEF NextSecond, SsoTypeOK, InflightType, gateVars, visitVars, Waiting
<1>10. CASE UNCHANGED ssoVars
  BY <1>10 DEF ssoVars, gateVars, visitVars, SsoTypeOK, InflightType, Waiting
<1>11. ASSUME NEW v \in Visits, CallbackComes(v) \/ \E t \in IssueTimes : PageComes(v, t)
       PROVE  SsoTypeOK' /\ InflightType'
  BY <1>0, <1>1, <1>11 DEF CallbackComes, PageComes
<1> QED
  BY <1>2, <1>3, <1>4, <1>5, <1>7, <1>8, <1>9, <1>10, <1>11 DEF SsoNext

\* A callback at its claim is early enough for the sweep to have spared the claim of another.
LEMMA SweepSparesClaim ==
  ASSUME SignInInv, NEW v \in Visits, visit[v] = "claim"
  PROVE  SweptBeforeClaim = jtiSeen
<1>1. since[v] <= Exp /\ second - since[v] <= MaxWait /\ since[v] \in Nat /\ second \in Nat
  BY SsoNumbersHold DEF SsoNumbers, SignInInv, CameInTime, OnItsWay, SsoTypeOK
<1>2. Exp >= second - GRACE
  BY <1>1, SsoNumbersHold DEF SsoNumbers
<1>3. jtiSeen \in BOOLEAN
  BY DEF SignInInv, SsoTypeOK
<1> QED
  BY <1>2, <1>3 DEF SweptBeforeClaim

LEMMA SignInStep == SignInInv /\ [SsoNext]_ssoVars => SignInInv'
<1> SUFFICES ASSUME SignInInv, [SsoNext]_ssoVars
             PROVE  CameInTime' /\ ClaimedOnce'
  BY SsoTypes DEF SignInInv
<1> USE SsoNumbersHold DEF SsoNumbers, SignInInv, CameInTime, ClaimedOnce
<1>1. ASSUME OnItsWay' \subseteq OnItsWay, SignedIn' = SignedIn,
             UNCHANGED <<second, since>>, jtiSeen => jtiSeen'
      PROVE  CameInTime' /\ ClaimedOnce'
  BY <1>1
<1>2. ASSUME NEW v \in Visits, CallbackComes(v)
      PROVE  CameInTime' /\ ClaimedOnce'
  <2>1. SignedIn' = SignedIn /\ OnItsWay' = OnItsWay \union {v}
    BY <1>2 DEF CallbackComes, Come, SignedIn, OnItsWay, SsoTypeOK
  <2>2. since' = [since EXCEPT ![v] = second] /\ UNCHANGED <<second, jtiSeen>> /\ second <= Exp
    BY <1>2 DEF CallbackComes, Come
  <2>3. second - second <= MaxWait
    BY DEF SsoTypeOK
  <2> QED
    BY <2>1, <2>2, <2>3 DEF OnItsWay, SsoTypeOK
<1>3. ASSUME NEW v \in Visits, NEW t \in IssueTimes, PageComes(v, t)
      PROVE  CameInTime' /\ ClaimedOnce'
  <2>1. SignedIn' = SignedIn /\ OnItsWay' = OnItsWay /\ v \notin OnItsWay
    BY <1>3 DEF PageComes, Come, SignedIn, OnItsWay, SsoTypeOK
  <2>2. since' = [since EXCEPT ![v] = second] /\ UNCHANGED <<second, jtiSeen>>
    BY <1>3 DEF PageComes, Come
  <2> QED
    BY <2>1, <2>2 DEF OnItsWay, SsoTypeOK
<1>4. ASSUME NEW v \in Visits, Judge(v) \/ Await(v)
      PROVE  CameInTime' /\ ClaimedOnce'
  <2>1. SignedIn' = SignedIn /\ OnItsWay' \subseteq OnItsWay
    BY <1>4 DEF Judge, Await, AfterGate, Asking, SignedIn, OnItsWay, SsoTypeOK
  <2> QED
    BY <1>1, <1>4, <2>1 DEF Judge, Await
<1>5. ASSUME NEW v \in Visits, Claim(v)
      PROVE  CameInTime' /\ ClaimedOnce'
  <2>1. visit[v] = "claim" /\ SweptBeforeClaim = jtiSeen
    BY <1>5, SweepSparesClaim DEF Claim
  <2>2. OnItsWay' \subseteq OnItsWay
    BY <1>5 DEF Claim, OnItsWay, SsoTypeOK
  <2>3. CASE jtiSeen
    <3>1. SignedIn' = SignedIn
      BY <1>5, <2>1, <2>3 DEF Claim, SignedIn, SsoTypeOK
    <3> QED
      BY <1>1, <1>5, <2>2, <3>1 DEF Claim
  <2>4. CASE ~jtiSeen
    <3>1. SignedIn = {} /\ SignedIn' = {v} /\ jtiSeen'
      BY <1>5, <2>1, <2>4 DEF Claim, SignedIn, SsoTypeOK
    <3> QED
      BY <1>5, <2>2, <3>1 DEF Claim
  <2> QED
    BY <2>3, <2>4
<1>6. ASSUME NEW v \in Visits, NEW saved \in BOOLEAN, ClaimFails(v, saved)
      PROVE  CameInTime' /\ ClaimedOnce'
  <2>1. SweptBeforeClaim = jtiSeen
    BY <1>6, SweepSparesClaim DEF ClaimFails
  <2>2. SignedIn' = SignedIn /\ OnItsWay' \subseteq OnItsWay
    BY <1>6 DEF ClaimFails, SignedIn, OnItsWay, SsoTypeOK
  <2> QED
    BY <1>1, <1>6, <2>1, <2>2 DEF ClaimFails
<1>7. CASE RefreshWorks \/ RefreshFails
  <2>1. PICK limit : RefreshEnds(limit, second)
    BY <1>7 DEF RefreshWorks, RefreshFails
  <2>2. SignedIn' = SignedIn /\ OnItsWay' \subseteq OnItsWay
    BY <2>1 DEF RefreshEnds, AfterGate, Waiting, SignedIn, OnItsWay, SsoTypeOK
  <2> QED
    BY <1>1, <2>1, <2>2 DEF RefreshEnds
<1>8. CASE NextSecond
  <2>1. UNCHANGED <<visit, since, jtiSeen>> /\ second' = second + 1
        /\ \A v \in OnItsWay : second - since[v] < MaxWait
    BY <1>8 DEF NextSecond, visitVars, OnItsWay
  <2>2. \A v \in OnItsWay : since[v] \in Nat /\ second \in Nat
    BY DEF OnItsWay, SsoTypeOK
  <2>3. OnItsWay' = OnItsWay /\ SignedIn' = SignedIn
    BY <2>1 DEF OnItsWay, SignedIn
  <2> QED
    BY <2>1, <2>2, <2>3
<1>9. CASE HubAnswers \/ (\E limit \in {second, Banned} : HubRevokes(limit)) \/ UNCHANGED ssoVars
  <2>1. UNCHANGED <<second, visit, since, jtiSeen>>
    BY <1>9 DEF HubAnswers, HubRevokes, ssoVars, visitVars
  <2> QED
    BY <1>1, <2>1 DEF OnItsWay, SignedIn
<1> QED
  BY <1>2, <1>3, <1>4, <1>5, <1>6, <1>7, <1>8, <1>9 DEF SsoNext

LEMMA AccessStepsSso == [AccessNext]_accessVars => [SsoNext]_ssoVars
  BY DEF AccessNext, accessVars

LEMMA SignInHolds == AccessSpec => []SignInInv
<1>1. AccessInit => SignInInv
  BY SignInStarts DEF AccessInit
<1>2. SignInInv /\ [AccessNext]_accessVars => SignInInv'
  BY SignInStep, AccessStepsSso
<1> QED
  BY <1>1, <1>2, PTL DEF AccessSpec

(***************************************************************************)
(* A launch token signs one visitor in, for any number of callbacks: the   *)
(* claim outlives every callback that could still use it, because a        *)
(* callback waits no longer than the sweep's grace.                        *)
(***************************************************************************)
THEOREM LaunchTokenSignsInOnce == AccessSpec => []LaunchTokenOnce
<1>1. SignInInv => LaunchTokenOnce
  <2> SUFFICES ASSUME SignInInv PROVE Cardinality(SignedIn) <= 1
    BY DEF SignInInv, LaunchTokenOnce
  <2>1. CASE SignedIn = {}
    BY <2>1, FS_EmptySet
  <2>2. ASSUME NEW v \in SignedIn PROVE Cardinality(SignedIn) <= 1
    <3>1. SignedIn = {v}
      BY <2>2 DEF SignInInv, ClaimedOnce
    <3>2. Cardinality({v}) = 1
      BY FS_Singleton
    <3> QED
      BY <3>1, <3>2
  <2> QED
    BY <2>1, <2>2
<1> QED
  BY <1>1, SignInHolds, PTL

(***************************************************************************)
(* What the gate holds is the feed's: every limit it may judge by is an    *)
(* entry, a session the feed ended has an entry later than its issue, and  *)
(* a session an answer does not end was not ended when that read began.    *)
(***************************************************************************)
LimitsAreEntries ==
  {table, inflight.answer} \subseteq feed \union {NoLimit, NoAnswer}

EndsHaveEntries ==
  \A t \in IssueTimes : endedAt[t] # Banned => \E limit \in feed : t < limit

ReadIsRecent == inflight.running => second - inflight.began <= TIMEOUT

AnswerKnows ==
  inflight.answer # NoAnswer =>
    inflight.running /\ \A t \in IssueTimes : ~Revoked(inflight.answer, t) => inflight.began <= endedAt[t]

TableKnows ==
  ~outage /\ table # NoAnswer =>
    \A t \in IssueTimes : ~Revoked(table, t) => fetchedAt <= endedAt[t] + TIMEOUT

GateInv == LimitsAreEntries /\ EndsHaveEntries /\ ReadIsRecent /\ AnswerKnows /\ TableKnows

LEMMA GateStarts == SsoInit => GateInv
  BY DEF SsoInit, Idle, GateInv, LimitsAreEntries, EndsHaveEntries, ReadIsRecent, AnswerKnows, TableKnows,
         IssueTimes

SignInNumbers ==
  /\ second \in Nat /\ second <= MaxSecond /\ Banned = MaxSecond + 1 /\ fetchedAt \in Nat
  /\ inflight.began \in Nat /\ inflight.began <= second /\ fetchedAt <= second
  /\ \A t \in IssueTimes : t \in Nat /\ endedAt[t] \in Nat
  /\ \A v \in Visits : cookie[v] \in IssueTimes /\ cookie[v] \in Nat
  /\ feed \subseteq 0 .. Banned

LEMMA SignInNumbersHold == SignInInv => SignInNumbers
<1> SUFFICES ASSUME SignInInv PROVE SignInNumbers
  OBVIOUS
<1> USE SsoNumbersHold DEF SsoNumbers
<1>1. Banned \in Nat /\ Banned = MaxSecond + 1
  BY DEF Banned
<1>2. \A t \in IssueTimes : t \in Nat /\ endedAt[t] \in Nat
  BY <1>1 DEF SignInInv, SsoTypeOK, IssueTimes
<1> QED
  BY <1>1, <1>2 DEF SignInInv, SsoTypeOK, InflightType, SignInNumbers

LEMMA GateStep ==
  ASSUME SignInInv, SignInInv', GateInv, [SsoNext]_ssoVars
  PROVE  GateInv'
<1> USE SsoNumbersHold DEF SsoNumbers, SignInNumbers, GateInv, LimitsAreEntries, EndsHaveEntries, ReadIsRecent,
                           AnswerKnows, TableKnows
<1>0. SignInNumbers
  BY SignInNumbersHold
<1>1. ASSUME UNCHANGED <<second, feed, endedAt, gateVars>>
      PROVE  GateInv'
  BY <1>1 DEF gateVars, Revoked
<1>2. ASSUME NEW v \in Visits, Await(v)
      PROVE  GateInv'
  BY <1>0, <1>2 DEF Await, Revoked
<1>3. CASE HubAnswers
  <2>1. /\ LimitOf(feed) \in feed \union {NoLimit} /\ LimitOf(feed) \in 0 .. Banned
        /\ \A limit \in feed : limit <= LimitOf(feed)
    BY <1>0, LimitIsLatest
  <2>2. ASSUME NEW t \in IssueTimes, ~Revoked(LimitOf(feed), t)
        PROVE  endedAt[t] = Banned
    BY <1>0, <2>1, <2>2 DEF Revoked
  <2>3. /\ inflight'.answer = LimitOf(feed) /\ inflight'.running /\ inflight'.began = inflight.began
        /\ UNCHANGED <<second, feed, endedAt, table, fetchedAt, outage>>
    BY <1>3 DEF HubAnswers, SignInInv, InflightType
  <2>4. inflight.running
    BY <1>3 DEF HubAnswers
  <2>5. LimitsAreEntries' /\ EndsHaveEntries' /\ ReadIsRecent' /\ TableKnows'
    BY <2>1, <2>3, <2>4 DEF Revoked
  <2>6. AnswerKnows'
    BY <1>0, <2>2, <2>3 DEF Revoked
  <2> QED
    BY <2>5, <2>6
<1>4. ASSUME NEW limit \in feed \union {NoLimit, NoAnswer}, RefreshEnds(limit, second),
             ~outage' /\ limit # NoAnswer =>
               \A t \in IssueTimes : ~Revoked(limit, t) => second <= endedAt[t] + TIMEOUT
      PROVE  GateInv'
  <2>1. /\ table' = limit /\ fetchedAt' = second /\ inflight'.answer = NoAnswer /\ ~inflight'.running
        /\ UNCHANGED <<second, feed, endedAt>>
    BY <1>4 DEF RefreshEnds, Idle
  <2> QED
    BY <1>4, <2>1 DEF Revoked
<1>5. CASE RefreshWorks
  <2>1. inflight.answer # NoAnswer /\ RefreshEnds(inflight.answer, second)
    BY <1>5 DEF RefreshWorks
  <2>2. \A t \in IssueTimes : ~Revoked(inflight.answer, t) => second <= endedAt[t] + TIMEOUT
    BY <1>0, <2>1
  <2> QED
    BY <1>4, <2>1, <2>2
<1>6. CASE RefreshFails
  BY <1>4, <1>6 DEF RefreshFails
<1>7. ASSUME NEW limit \in {second, Banned}, HubRevokes(limit)
      PROVE  GateInv'
  <2>1. /\ feed' = feed \union {limit}
        /\ UNCHANGED <<second, table, fetchedAt, inflight, outage>>
        /\ \A t \in IssueTimes : /\ endedAt'[t] = endedAt[t] \/ endedAt'[t] = second
                                 /\ endedAt'[t] # endedAt[t] => t < limit
    BY <1>7 DEF HubRevokes, gateVars, Revoked
  <2>2. LimitsAreEntries' /\ EndsHaveEntries' /\ ReadIsRecent'
    BY <1>0, <2>1
  <2>3. AnswerKnows' /\ TableKnows'
    BY <1>0, <2>1 DEF Revoked
  <2> QED
    BY <2>2, <2>3
<1>8. CASE NextSecond
  <2>1. /\ UNCHANGED <<feed, endedAt, table, fetchedAt, inflight, outage>> /\ second' = second + 1
        /\ inflight.running => second - inflight.began < TIMEOUT
    BY <1>8 DEF NextSecond, gateVars
  <2> QED
    BY <1>0, <2>1 DEF Revoked
<1>9. ASSUME \/ \E v \in Visits : CallbackComes(v) \/ Judge(v) \/ Claim(v)
             \/ \E v \in Visits, t \in IssueTimes : PageComes(v, t)
             \/ \E v \in Visits, saved \in BOOLEAN : ClaimFails(v, saved)
             \/ UNCHANGED ssoVars
      PROVE  GateInv'
  <2>1. UNCHANGED <<second, feed, endedAt, gateVars>>
    BY <1>9 DEF CallbackComes, Come, Judge, Claim, PageComes, ClaimFails, ssoVars, gateVars
  <2> QED
    BY <1>1, <2>1
<1> QED
  BY <1>2, <1>3, <1>5, <1>6, <1>7, <1>8, <1>9 DEF SsoNext

\* Only a judgement serves a page or refuses it: with the table, or with the answer just read.
LEMMA JudgedByFeed ==
  ASSUME SignInInv, GateInv, [SsoNext]_ssoVars
  PROVE  [ServedInWindow /\ RefusedByFeed]_ssoVars
<1> USE SsoNumbersHold DEF SsoNumbers, SignInNumbers
<1>0. SignInNumbers
  BY SignInNumbersHold
<1>1. ASSUME NEW v \in Visits, NEW limit \in feed \union {NoLimit},
             visit'[v] = AfterGate(v, limit), visit'[v] = "refused"
      PROVE  \E l \in feed : cookie[v] < l
  <2>1. cookie[v] < limit
    BY <1>1 DEF AfterGate, Revoked
  <2>2. limit # NoLimit
    BY <1>0, <2>1 DEF NoLimit
  <2> QED
    BY <2>1, <2>2
<1>2. ASSUME NEW v \in Visits, Judge(v)
      PROVE  ServedInWindow /\ RefusedByFeed
  <2>1. /\ table # NoAnswer /\ second - fetchedAt < TTL /\ UNCHANGED outage
        /\ \A w \in Visits : w # v => visit'[w] = visit[w]
        /\ visit'[v] = AfterGate(v, table)
    BY <1>2 DEF Judge, Trusted, SignInInv, SsoTypeOK, gateVars
  <2>2. visit'[v] = "served" => ~Revoked(table, cookie[v])
    BY <2>1 DEF AfterGate
  <2>3. ~outage /\ ~Revoked(table, cookie[v]) => second - endedAt[cookie[v]] < TTL + TIMEOUT
    BY <1>0, <2>1 DEF GateInv, TableKnows
  <2>4. ServedInWindow
    BY <2>1, <2>2, <2>3 DEF ServedInWindow
  <2>5. RefusedByFeed
    BY <1>1, <2>1 DEF RefusedByFeed, GateInv, LimitsAreEntries
  <2> QED
    BY <2>4, <2>5
<1>3. ASSUME NEW limit \in feed \union {NoLimit}, RefreshEnds(limit, second),
             ~outage' => \A t \in IssueTimes : ~Revoked(limit, t) => second <= endedAt[t] + TIMEOUT
      PROVE  ServedInWindow /\ RefusedByFeed
  <2>1. \A v \in Visits : visit'[v] = visit[v] \/ visit'[v] = AfterGate(v, limit)
    BY <1>3 DEF RefreshEnds
  <2>2. ServedInWindow
    BY <1>0, <1>3, <2>1 DEF ServedInWindow, AfterGate
  <2>3. RefusedByFeed
    BY <1>1, <2>1 DEF RefusedByFeed
  <2> QED
    BY <2>2, <2>3
<1>4. CASE RefreshWorks
  <2>1. /\ inflight.answer # NoAnswer /\ RefreshEnds(inflight.answer, second)
        /\ inflight.answer \in feed \union {NoLimit}
    BY <1>4 DEF RefreshWorks, GateInv, LimitsAreEntries
  <2>2. \A t \in IssueTimes : ~Revoked(inflight.answer, t) => second <= endedAt[t] + TIMEOUT
    BY <1>0, <2>1 DEF GateInv, AnswerKnows, ReadIsRecent
  <2> QED
    BY <1>3, <2>1, <2>2
<1>5. CASE RefreshFails
  BY <1>3, <1>5 DEF RefreshFails, GateInv, LimitsAreEntries
<1>6. ASSUME \A v \in Visits : /\ visit'[v] = "served" => visit[v] = "served"
                               /\ visit'[v] = "refused" => visit[v] \in {"refused", "claim"}
      PROVE  ServedInWindow /\ RefusedByFeed
  BY <1>6 DEF ServedInWindow, RefusedByFeed
<1>7. ASSUME NEW v \in Visits,
             \/ CallbackComes(v) \/ Await(v) \/ Claim(v) \/ \E t \in IssueTimes : PageComes(v, t)
             \/ \E saved \in BOOLEAN : ClaimFails(v, saved)
      PROVE  ServedInWindow /\ RefusedByFeed
  BY <1>6, <1>7 DEF CallbackComes, PageComes, Come, Await, Claim, ClaimFails, SignInInv, SsoTypeOK
<1>8. CASE HubAnswers \/ (\E limit \in {second, Banned} : HubRevokes(limit)) \/ NextSecond
  BY <1>6, <1>8 DEF HubAnswers, HubRevokes, NextSecond, visitVars
<1> QED
  BY <1>2, <1>4, <1>5, <1>7, <1>8 DEF SsoNext

(***************************************************************************)
(* While the feed can be read no page is served to a session that ended    *)
(* TTL + TIMEOUT ago, and nobody is refused whom no entry ends, for any    *)
(* number of requests that share or start a read.                          *)
(***************************************************************************)
THEOREM GateIsTheFeeds == AccessSpec => GateFollowsFeed
<1>1. AccessInit => GateInv
  BY GateStarts DEF AccessInit
<1>2. SignInInv /\ SignInInv' /\ GateInv /\ [AccessNext]_accessVars => GateInv'
  BY GateStep, AccessStepsSso
<1>3. AccessSpec => []GateInv
  BY <1>1, <1>2, SignInHolds, PTL DEF AccessSpec
<1>4. SignInInv /\ GateInv /\ [AccessNext]_accessVars => [ServedInWindow]_ssoVars
  BY JudgedByFeed, AccessStepsSso
<1>5. SignInInv /\ GateInv /\ [AccessNext]_accessVars => [RefusedByFeed]_ssoVars
  BY JudgedByFeed, AccessStepsSso
<1> QED
  BY <1>3, <1>4, <1>5, SignInHolds, PTL DEF AccessSpec, GateFollowsFeed, EndedWithinWindow, FreshSignInStands
-----------------------------------------------------------------------------
(***************************************************************************)
(* The volume caps (VolumeCaps).                                           *)
(***************************************************************************)
MeterNumbers ==
  /\ VOLUME_TTL \in Nat /\ MaxMinute \in Nat /\ StartMinute \in 0 .. MaxMinute /\ None \notin Nat
  /\ CapChoices \subseteq [Windows -> Nat] /\ NoRow \notin CapChoices
  /\ \A w \in Windows : WindowLength[w] \in Nat \ {0}

LEMMA MeterNumbersHold == MeterNumbers
  BY VolumeAssumption DEF MeterNumbers

Moments == 0 .. MaxMinute
Caps    == CapChoices \union {NoRow}

ReadType(read) == read.row \in Caps /\ read.used \in [Windows -> Nat]

MeterShape ==
  /\ minute \in Moments /\ row \in Caps
  /\ used \in [Windows -> [AllBuckets -> Nat]]
  /\ stage \in [Requests -> Stages] /\ home \in [Requests -> Isolates] /\ at \in [Requests -> Moments]
  /\ DOMAIN got = Requests /\ DOMAIN entry = Isolates /\ DOMAIN sharers = Isolates
  /\ DOMAIN overSince = Windows
  /\ \A r \in Requests : at[r] <= minute /\ (stage[r] = "store" => ReadType(got[r]))

(***************************************************************************)
(* The line a counter crossed is crossed still, and if the window has      *)
(* turned since, only a cap of nothing can be: nobody is counted in the    *)
(* new window.                                                             *)
(***************************************************************************)
LineHolds ==
  \A w \in Windows : overSince[w] # None =>
    /\ overSince[w] \in Moments /\ overSince[w] <= minute /\ AtCap(w, row, used, minute)
    /\ BucketAt(overSince[w])[w] # BucketAt(minute)[w] => used[w][BucketAt(minute)[w]] = 0

NobodyYet == \A w \in Windows, b \in AllBuckets : BucketAt(minute)[w] < b => used[w][b] = 0

\* What was asked for after the line was crossed says that it was.
Tells(read, t) ==
  \A w \in Windows :
    overSince[w] # None /\ overSince[w] < t => read.row # NoRow /\ read.used[w] >= read.row[w]

ReadsTell == \A r \in Requests : stage[r] = "store" => Tells(got[r], at[r])

EntryType == [row : Caps, used : [Windows -> Nat], bucket : [Windows -> Nat], fetchedAt : Moments]

EntriesTell ==
  \A i \in Isolates : entry[i] # None \/ sharers[i] # {} =>
    /\ entry[i] \in EntryType /\ entry[i].fetchedAt <= minute
    /\ entry[i].bucket = BucketAt(entry[i].fetchedAt)
    /\ Tells(entry[i], entry[i].fetchedAt)

\* Who is to be counted came with an entry older than the line, in the line's own window.
CountedInTime ==
  \A r \in Requests, w \in Windows :
    stage[r] = "count" /\ overSince[w] # None /\ overSince[w] < at[r] =>
      at[r] - overSince[w] <= VOLUME_TTL /\ BucketAt(at[r])[w] = BucketAt(overSince[w])[w]

MeterInv == MeterShape /\ LineHolds /\ NobodyYet /\ ReadsTell /\ EntriesTell /\ CountedInTime

\* Division never turns the order of two moments.
LEMMA DivisionIsMonotone ==
  ASSUME NEW t \in Nat, NEW u \in Nat, NEW D \in Nat \ {0}, t <= u
  PROVE  t \div D <= u \div D
<1>1. /\ t \div D \in Nat /\ t % D \in 0 .. D - 1 /\ t = D * (t \div D) + (t % D)
  BY Division
<1>2. /\ u \div D \in Nat /\ u % D \in 0 .. D - 1 /\ u = D * (u \div D) + (u % D)
  BY Division
<1>3. ASSUME NEW a \in Nat, NEW c \in Nat, NEW x \in Nat, NEW y \in Nat,
             x < D, y < D, D * a + x <= D * c + y
      PROVE  a <= c
  <2>1. SUFFICES ASSUME a >= c + 1 PROVE FALSE
    BY <1>3
  <2>2. D * a >= D * (c + 1)
    BY <1>3, <2>1
  <2>3. D * (c + 1) = D * c + D
    BY <1>3
  <2> QED
    BY <1>3, <2>2, <2>3
<1> QED
  BY <1>1, <1>2, <1>3

\* Every moment lies in a bucket, later moments in later ones.
LEMMA BucketFacts ==
  ASSUME NEW t \in Moments, NEW u \in Moments, NEW w \in Windows
  PROVE  /\ BucketAt(t)[w] \in AllBuckets /\ BucketAt(t)[w] \in Nat /\ DOMAIN BucketAt(t) = Windows
         /\ t <= u => BucketAt(t)[w] <= BucketAt(u)[w]
<1>1. t \in Nat /\ u \in Nat /\ WindowLength[w] \in Nat \ {0} /\ t <= MaxMinute /\ MaxMinute \in Nat
  BY MeterNumbersHold DEF MeterNumbers, Moments
<1>2. BucketAt(t)[w] = t \div WindowLength[w] /\ BucketAt(u)[w] = u \div WindowLength[w]
  BY DEF BucketAt
<1>3. t <= u => t \div WindowLength[w] <= u \div WindowLength[w]
  BY <1>1, DivisionIsMonotone
<1>4. t \div WindowLength[w] \in Nat /\ t % WindowLength[w] \in 0 .. WindowLength[w] - 1
      /\ t = WindowLength[w] * (t \div WindowLength[w]) + (t % WindowLength[w])
  BY <1>1, Division
<1>5. ASSUME NEW a \in Nat, NEW D \in Nat \ {0}, NEW x \in 0 .. D - 1, t = D * a + x
      PROVE  a <= t
  <2>1. D * a >= 1 * a
    BY <1>5
  <2> QED
    BY <1>1, <1>5, <2>1
<1>6. t \div WindowLength[w] <= t
  BY <1>1, <1>4, <1>5
<1>7. t \div WindowLength[w] \in AllBuckets
  BY <1>1, <1>4, <1>6 DEF AllBuckets
<1> QED
  BY <1>2, <1>3, <1>4, <1>7 DEF BucketAt

LEMMA MeterStarts == MeterInit => MeterInv
<1> SUFFICES ASSUME MeterInit PROVE MeterInv
  OBVIOUS
<1> USE MeterNumbersHold DEF MeterNumbers, MeterInit
<1>1. MeterShape
  BY DEF MeterShape, Moments, Caps, Stages, Windows, AllBuckets
<1>2. LineHolds /\ CountedInTime
  BY DEF LineHolds, CountedInTime
<1>3. NobodyYet
  BY DEF NobodyYet
<1>4. ReadsTell /\ EntriesTell
  BY DEF ReadsTell, EntriesTell
<1> QED
  BY <1>1, <1>2, <1>3, <1>4 DEF MeterInv

\* A step dates a line anew, or leaves its date, and it was crossed all along.
LEMMA OverFacts ==
  ASSUME MeterInv, MeterNext, NEW w \in Windows, overSince'[w] # None
  PROVE  /\ AtCap(w, row', used', minute')
         /\ \/ overSince'[w] = minute'
            \/ overSince'[w] = overSince[w] /\ overSince[w] # None /\ AtCap(w, row, used, minute)
<1>1. overSince' = [v \in Windows |->
       IF ~AtCap(v, row', used', minute') THEN None
       ELSE IF overSince[v] = None \/ ~AtCap(v, row, used, minute) THEN minute' ELSE overSince[v]]
  BY DEF MeterNext
<1> HIDE DEF AtCap
<1> QED
  BY <1>1

LEMMA MeterShapeStays ==
  ASSUME MeterInv, MeterNext
  PROVE  MeterShape'
<1> USE MeterNumbersHold DEF MeterNumbers, MeterInv, MeterShape
<1>0. DOMAIN overSince' = Windows
  BY DEF MeterNext
<1>1. ASSUME NEW r \in Requests, NEW i \in Isolates, Arrive(r, i)
      PROVE  MeterShape'
  <2>1. stage' = [stage EXCEPT ![r] = stage'[r]] /\ stage'[r] \in {"count", "idle", "fetch"}
    BY <1>1 DEF Arrive, Enforced
  <2>2. stage' \in [Requests -> Stages]
    BY <2>1 DEF Stages
  <2>3. home' \in [Requests -> Isolates] /\ at' \in [Requests -> Moments]
        /\ \A q \in Requests : at'[q] <= minute
    BY <1>1 DEF Arrive, Moments
  <2> QED
    BY <1>0, <1>1, <2>1, <2>2, <2>3 DEF Arrive, budget
<1>2. ASSUME NEW r \in Requests, ReadCaps(r)
      PROVE  MeterShape'
  <2>1. ReadType(CapsWithUsage(at[r]))
    BY BucketFacts DEF CapsWithUsage, ReadType
  <2> QED
    BY <1>0, <1>2, <2>1 DEF ReadCaps, Stages, budget, caches
<1>3. ASSUME NEW r \in Requests, StoreEntry(r)
      PROVE  MeterShape'
  BY <1>0, <1>3 DEF StoreEntry, Enforced, Stages, budget
<1>4. ASSUME NEW r \in Requests, CountUsage(r)
      PROVE  MeterShape'
  <2>1. used' \in [Windows -> [AllBuckets -> Nat]]
    BY <1>4, BucketFacts DEF CountUsage, Counted
  <2> QED
    BY <1>0, <1>4, <2>1 DEF CountUsage, Stages, budget, caches
<1>5. ASSUME NEW r \in Requests, Admit(r) \/ FailOpen(r)
      PROVE  MeterShape'
  BY <1>0, <1>5 DEF Admit, FailOpen, Stages, budget
<1>6. CASE NextMinute
  BY <1>0, <1>6 DEF NextMinute, Moments, budget, caches, requests
<1>7. ASSUME NEW changed \in CapChoices \union {NoRow}, ChangeRow(changed)
      PROVE  MeterShape'
  BY <1>0, <1>7 DEF ChangeRow, Caps, caches, requests
<1>8. ASSUME NEW i \in Isolates, Recycle(i)
      PROVE  MeterShape'
  BY <1>0, <1>8 DEF Recycle, Stages, budget
<1> QED
  BY <1>1, <1>2, <1>3, <1>4, <1>5, <1>6, <1>7, <1>8 DEF MeterNext

LEMMA MinuteGoesOn ==
  ASSUME MeterInv, MeterNext
  PROVE  /\ MeterShape /\ minute \in Moments /\ minute' \in Moments
         /\ minute \in Nat /\ minute' \in Nat /\ minute <= minute' /\ Moments \subseteq Nat
<1>1. minute' = minute \/ minute' = minute + 1
  BY DEF MeterNext, Arrive, ReadCaps, StoreEntry, CountUsage, Admit, FailOpen, NextMinute, ChangeRow, Recycle
<1>2. minute' \in Moments
  BY MeterShapeStays DEF MeterShape
<1>3. Moments \subseteq Nat
  BY DEF Moments
<1>4. minute \in Moments
  BY DEF MeterInv, MeterShape
<1> QED
  BY <1>1, <1>2, <1>3, <1>4 DEF MeterInv

\* A line that is older than a moment asked for is one that was there before the step.
LEMMA OlderLineStood ==
  ASSUME MeterInv, MeterNext, NEW w \in Windows, NEW t \in Moments, t <= minute',
         overSince'[w] # None, overSince'[w] < t
  PROVE  overSince[w] # None /\ overSince[w] = overSince'[w]
<1>1. overSince'[w] # minute'
  BY MinuteGoesOn
<1> QED
  BY <1>1, OverFacts

LEMMA LineStays ==
  ASSUME MeterInv, MeterNext
  PROVE  LineHolds' /\ NobodyYet'
<1> USE MeterNumbersHold DEF MeterNumbers
<1>0. /\ MeterShape /\ minute \in Moments /\ minute' \in Moments
      /\ minute \in Nat /\ minute' \in Nat /\ minute <= minute' /\ Moments \subseteq Nat
  BY MinuteGoesOn
\* What is left to show: in a window that turned since its line was crossed nobody is counted.
<1>1. SUFFICES ASSUME NEW w \in Windows
               PROVE  /\ overSince[w] # None /\ BucketAt(overSince[w])[w] # BucketAt(minute')[w]
                           => used'[w][BucketAt(minute')[w]] = 0
                      /\ \A b \in AllBuckets : BucketAt(minute')[w] < b => used'[w][b] = 0
  <2>1. NobodyYet'
    BY <1>1 DEF NobodyYet, BucketAt
  <2>2. ASSUME NEW w \in Windows, overSince'[w] # None
        PROVE  /\ overSince'[w] \in Moments /\ overSince'[w] <= minute' /\ AtCap(w, row', used', minute')
               /\ BucketAt(overSince'[w])[w] # BucketAt(minute')[w] => used'[w][BucketAt(minute')[w]] = 0
    <3>1. CASE overSince'[w] = minute'
      BY <1>0, <2>2, <3>1, OverFacts
    <3>2. CASE overSince'[w] = overSince[w] /\ overSince[w] # None
      <4>1. overSince[w] \in Moments /\ overSince[w] <= minute
        BY <3>2 DEF MeterInv, LineHolds
      <4>2. AtCap(w, row', used', minute')
        BY <2>2, OverFacts
      <4>3. overSince[w] <= minute'
        BY <1>0, <4>1 DEF Moments
      <4> QED
        BY <1>1, <3>2, <4>1, <4>2, <4>3
    <3> QED
      BY <2>2, <3>1, <3>2, OverFacts
  <2> QED
    BY <2>1, <2>2 DEF LineHolds, AtCap, BucketAt
<1>2. overSince[w] # None => overSince[w] \in Moments /\ overSince[w] <= minute
  BY DEF MeterInv, LineHolds
<1>3. ASSUME UNCHANGED <<minute, used>>
      PROVE  /\ overSince[w] # None /\ BucketAt(overSince[w])[w] # BucketAt(minute')[w]
                  => used'[w][BucketAt(minute')[w]] = 0
             /\ \A b \in AllBuckets : BucketAt(minute')[w] < b => used'[w][b] = 0
  BY <1>3 DEF MeterInv, LineHolds, NobodyYet
<1>4. CASE NextMinute
  <2>1. used' = used
    BY <1>4 DEF NextMinute
  <2>2. BucketAt(minute)[w] <= BucketAt(minute')[w] /\ BucketAt(minute)[w] \in Nat
        /\ BucketAt(minute')[w] \in AllBuckets /\ BucketAt(minute')[w] \in Nat /\ AllBuckets \subseteq Nat
    BY <1>0, BucketFacts DEF AllBuckets
  <2>3. CASE BucketAt(minute)[w] = BucketAt(minute')[w]
    BY <2>1, <2>3 DEF MeterInv, LineHolds, NobodyYet
  <2>4. CASE BucketAt(minute)[w] < BucketAt(minute')[w]
    BY <2>1, <2>2, <2>4 DEF MeterInv, NobodyYet
  <2> QED
    BY <2>2, <2>3, <2>4
<1>5. ASSUME NEW r \in Requests, CountUsage(r)
      PROVE  /\ overSince[w] # None /\ BucketAt(overSince[w])[w] # BucketAt(minute')[w]
                  => used'[w][BucketAt(minute')[w]] = 0
             /\ \A b \in AllBuckets : BucketAt(minute')[w] < b => used'[w][b] = 0
  <2> DEFINE mine == BucketAt(at[r])[w]
             now  == BucketAt(minute)[w]
  <2>1. minute' = minute /\ used'[w] = [used[w] EXCEPT ![mine] = used[w][mine] + 1]
        /\ used[w] \in [AllBuckets -> Nat] /\ stage[r] = "count"
    BY <1>0, <1>5 DEF CountUsage, Counted, MeterShape
  <2>2. mine \in Nat /\ now \in Nat /\ mine <= now /\ at[r] \in Moments /\ AllBuckets \subseteq Nat
    <3>1. at[r] \in Moments /\ minute \in Moments /\ at[r] <= minute
      BY <1>0 DEF MeterShape
    <3>2. mine \in Nat /\ now \in Nat /\ mine <= now
      BY <3>1, BucketFacts
    <3>3. AllBuckets \subseteq Nat
      BY DEF AllBuckets
    <3> QED
      BY <3>1, <3>2, <3>3
  <2>3. \A b \in AllBuckets : now < b => used'[w][b] = 0
    BY <2>1, <2>2 DEF MeterInv, NobodyYet
  <2>4. ASSUME overSince[w] # None, BucketAt(overSince[w])[w] # now
        PROVE  mine # now
    <3>1. CASE at[r] <= overSince[w]
      <4>1. mine <= BucketAt(overSince[w])[w] /\ BucketAt(overSince[w])[w] <= now
            /\ BucketAt(overSince[w])[w] \in Nat
        BY <1>0, <1>2, <2>2, <2>4, <3>1, BucketFacts
      <4> QED
        BY <2>2, <2>4, <4>1
    <3>2. CASE overSince[w] < at[r]
      BY <2>1, <2>4, <3>2 DEF MeterInv, CountedInTime
    <3>3. overSince[w] \in Nat /\ at[r] \in Nat
      BY <1>0, <1>2, <2>2, <2>4
    <3> QED
      BY <3>1, <3>2, <3>3
  <2>5. now \in AllBuckets
    BY <1>0, BucketFacts
  <2> QED
    BY <2>1, <2>3, <2>4, <2>5 DEF MeterInv, LineHolds
<1> QED
  BY <1>3, <1>4, <1>5 DEF MeterNext, Arrive, ReadCaps, StoreEntry, Admit, FailOpen, ChangeRow, Recycle

\* A read made now of a moment after the line was crossed finds it crossed.
LEMMA ReadsTellNow ==
  ASSUME MeterInv, NEW t \in Moments, t <= minute
  PROVE  Tells(CapsWithUsage(t), t)
<1> USE MeterNumbersHold DEF MeterNumbers
<1> SUFFICES ASSUME NEW w \in Windows, overSince[w] # None, overSince[w] < t
             PROVE  row # NoRow /\ used[w][BucketAt(t)[w]] >= row[w]
  BY DEF Tells, CapsWithUsage
<1> DEFINE now == BucketAt(minute)[w]
           b   == BucketAt(t)[w]
<1>1. row # NoRow /\ used[w][now] >= row[w] /\ overSince[w] \in Moments /\ overSince[w] <= minute
  BY DEF MeterInv, LineHolds, AtCap
<1>2. BucketAt(overSince[w])[w] <= b /\ b <= now /\ BucketAt(overSince[w])[w] \in Nat
      /\ b \in AllBuckets /\ b \in Nat /\ now \in Nat
  BY <1>1, BucketFacts DEF MeterInv, MeterShape, Moments
<1>3. CASE b = now
  BY <1>1, <1>3
<1>4. CASE b # now
  <2>1. used[w][now] = 0
    BY <1>1, <1>2, <1>4 DEF MeterInv, LineHolds
  <2>2. used[w][b] \in Nat /\ row[w] \in Nat
    BY <1>1, <1>2 DEF MeterInv, MeterShape, Caps
  <2> QED
    BY <1>1, <2>1, <2>2
<1> QED
  BY <1>3, <1>4

LEMMA ReadsStay ==
  ASSUME MeterInv, MeterNext
  PROVE  ReadsTell' /\ EntriesTell'
<1> USE MeterNumbersHold DEF MeterNumbers
<1>0. /\ MeterShape /\ minute \in Moments /\ minute' \in Moments
      /\ minute \in Nat /\ minute' \in Nat /\ minute <= minute' /\ Moments \subseteq Nat
  BY MinuteGoesOn
<1>1. ASSUME \A r \in Requests : stage'[r] = "store" => stage[r] = "store" /\ got'[r] = got[r] /\ at'[r] = at[r]
      PROVE  ReadsTell'
  <2> SUFFICES ASSUME NEW r \in Requests, stage'[r] = "store", NEW w \in Windows,
                      overSince'[w] # None, overSince'[w] < at'[r]
               PROVE  got'[r].row # NoRow /\ got'[r].used[w] >= got'[r].row[w]
    BY DEF ReadsTell, Tells
  <2>0. at[r] \in Moments /\ at[r] <= minute
    BY <1>0 DEF MeterShape
  <2>1. at[r] \in Moments /\ at[r] <= minute'
    BY <1>0, <2>0 DEF Moments
  <2>2. overSince[w] # None /\ overSince[w] < at[r]
    BY <1>1, <2>1, OlderLineStood
  <2> QED
    BY <1>1, <2>2 DEF MeterInv, ReadsTell, Tells
<1>2. ASSUME NEW r \in Requests, ReadCaps(r)
      PROVE  ReadsTell'
  <2>1. Tells(CapsWithUsage(at[r]), at[r]) /\ at[r] \in Moments
    BY ReadsTellNow DEF MeterInv, MeterShape
  <2>2. /\ got' = [got EXCEPT ![r] = CapsWithUsage(at[r])] /\ stage' = [stage EXCEPT ![r] = "store"]
        /\ UNCHANGED <<minute, at>>
    BY <1>2 DEF ReadCaps
  <2>3. ASSUME NEW q \in Requests, stage'[q] = "store"
        PROVE  Tells(got'[q], at[q])
    BY <1>0, <2>1, <2>2, <2>3 DEF MeterInv, MeterShape, ReadsTell
  <2> SUFFICES ASSUME NEW q \in Requests, stage'[q] = "store", NEW w \in Windows,
                      overSince'[w] # None, overSince'[w] < at'[q]
               PROVE  got'[q].row # NoRow /\ got'[q].used[w] >= got'[q].row[w]
    BY DEF ReadsTell, Tells
  <2>4. at[q] \in Moments /\ at[q] <= minute' /\ at'[q] = at[q]
    BY <1>0, <2>2 DEF MeterShape
  <2>5. overSince[w] # None /\ overSince[w] < at[q]
    BY <2>4, OlderLineStood
  <2> QED
    BY <2>3, <2>5 DEF Tells
<1>3. ReadsTell'
  BY <1>0, <1>1, <1>2 DEF MeterNext, Arrive, Enforced, StoreEntry, CountUsage, Admit, FailOpen, NextMinute,
     ChangeRow, Recycle, MeterShape, requests, budget, caches
\* An entry that tells before the step tells after it.
<1>4. ASSUME \A i \in Isolates : entry'[i] # None \/ sharers'[i] # {} =>
               /\ entry'[i] \in EntryType /\ entry'[i].fetchedAt <= minute
               /\ entry'[i].bucket = BucketAt(entry'[i].fetchedAt) /\ Tells(entry'[i], entry'[i].fetchedAt)
      PROVE  EntriesTell'
  <2> SUFFICES ASSUME NEW i \in Isolates, entry'[i] # None \/ sharers'[i] # {}
               PROVE  /\ entry'[i] \in EntryType /\ entry'[i].fetchedAt <= minute'
                      /\ entry'[i].bucket = BucketAt(entry'[i].fetchedAt)
                      /\ \A w \in Windows : overSince'[w] # None /\ overSince'[w] < entry'[i].fetchedAt =>
                           entry'[i].row # NoRow /\ entry'[i].used[w] >= entry'[i].row[w]
    BY DEF EntriesTell, Tells, EntryType, BucketAt, Caps, Moments
  <2>0. entry'[i].fetchedAt \in Moments /\ entry'[i].fetchedAt <= minute
    BY <1>4 DEF EntryType
  <2>1. entry'[i].fetchedAt \in Moments /\ entry'[i].fetchedAt <= minute'
    BY <1>0, <2>0 DEF Moments
  <2> QED
    BY <1>4, <2>1, OlderLineStood DEF Tells
<1>5. ASSUME UNCHANGED entry, \A i \in Isolates : sharers'[i] # {} => entry[i] # None \/ sharers[i] # {}
      PROVE  EntriesTell'
  BY <1>4, <1>5 DEF MeterInv, EntriesTell
<1>6. ASSUME NEW r \in Requests, StoreEntry(r)
      PROVE  EntriesTell'
  <2>1. /\ entry' = [entry EXCEPT ![home[r]] = EntryOf(r, at[r])]
        /\ \A i \in Isolates : i # home[r] => sharers'[i] = sharers[i]
        /\ Tells(got[r], at[r]) /\ ReadType(got[r]) /\ at[r] \in Moments /\ at[r] <= minute
    BY <1>6 DEF StoreEntry, MeterInv, MeterShape, ReadsTell
  <2>2. BucketAt(at[r]) \in [Windows -> Nat]
    BY <2>1, BucketFacts DEF BucketAt
  <2>3. /\ EntryOf(r, at[r]) \in EntryType /\ EntryOf(r, at[r]).fetchedAt = at[r]
        /\ EntryOf(r, at[r]).bucket = BucketAt(at[r]) /\ Tells(EntryOf(r, at[r]), at[r])
    BY <2>1, <2>2 DEF EntryOf, EntryType, ReadType, Tells
  <2>4. entry'[home[r]] = EntryOf(r, at[r])
        /\ \A i \in Isolates : i # home[r] => entry'[i] = entry[i]
    BY <1>0, <2>1 DEF MeterShape
  <2> QED
    BY <1>4, <2>1, <2>3, <2>4 DEF MeterInv, EntriesTell
<1>7. ASSUME NEW r \in Requests, Admit(r)
      PROVE  EntriesTell'
  <2>1. ASSUME NEW i \in Isolates, entry[i] # None \/ sharers[i] # {}
        PROVE  LET e == OneMore(entry[i]) IN
                 /\ e \in EntryType /\ e.fetchedAt = entry[i].fetchedAt /\ e.bucket = entry[i].bucket
                 /\ Tells(e, e.fetchedAt)
    <3>1. entry[i] \in EntryType /\ Tells(entry[i], entry[i].fetchedAt)
      BY <2>1 DEF MeterInv, EntriesTell
    <3>2. \A w \in Windows : entry[i].used[w] \in Nat /\ (entry[i].row # NoRow => entry[i].row[w] \in Nat)
      BY <3>1 DEF EntryType, Caps
    <3> QED
      BY <3>1, <3>2 DEF OneMore, EntryType, Tells
  <2>2. ASSUME NEW i \in Isolates
        PROVE  /\ sharers'[i] \subseteq sharers[i]
               /\ entry'[i] = entry[i] \/ (sharers[i] # {} /\ entry'[i] = OneMore(entry[i]))
    BY <1>0, <1>7 DEF Admit, MeterShape
  <2> QED
    BY <1>4, <2>1, <2>2 DEF MeterInv, EntriesTell
<1>8. ASSUME NEW i \in Isolates, Recycle(i)
      PROVE  EntriesTell'
  BY <1>0, <1>4, <1>8 DEF Recycle, MeterInv, MeterShape, EntriesTell
<1>9. ASSUME NEW r \in Requests, NEW i \in Isolates, Arrive(r, i)
      PROVE  EntriesTell'
  BY <1>0, <1>5, <1>9 DEF Arrive, Fresh, MeterShape
<1> QED
  BY <1>0, <1>3, <1>5, <1>6, <1>7, <1>8, <1>9 DEF MeterNext, ReadCaps, CountUsage, FailOpen, NextMinute,
     ChangeRow, MeterShape, caches

LEMMA CountedStays ==
  ASSUME MeterInv, MeterNext
  PROVE  CountedInTime'
<1> USE MeterNumbersHold DEF MeterNumbers
<1>0. /\ MeterShape /\ minute \in Moments /\ minute' \in Moments
      /\ minute \in Nat /\ minute' \in Nat /\ minute <= minute' /\ Moments \subseteq Nat
  BY MinuteGoesOn
<1>1. ASSUME \A r \in Requests : stage'[r] = "count" =>
               at'[r] \in Moments /\ at'[r] <= minute'
               /\ \A w \in Windows : overSince[w] # None /\ overSince[w] < at'[r] =>
                    at'[r] - overSince[w] <= VOLUME_TTL /\ BucketAt(at'[r])[w] = BucketAt(overSince[w])[w]
      PROVE  CountedInTime'
  <2> SUFFICES ASSUME NEW r \in Requests, stage'[r] = "count", NEW w \in Windows,
                      overSince'[w] # None, overSince'[w] < at'[r]
               PROVE  /\ at'[r] - overSince'[w] <= VOLUME_TTL
                      /\ BucketAt(at'[r])[w] = BucketAt(overSince'[w])[w]
    BY DEF CountedInTime, BucketAt
  <2>1. at'[r] \in Moments /\ at'[r] <= minute'
    BY <1>1
  <2>2. overSince[w] # None /\ overSince[w] = overSince'[w]
    BY <2>1, OlderLineStood
  <2> QED
    BY <1>1, <2>2
\* Whoever was on its way to be counted still is as it was.
<1>2. ASSUME \A r \in Requests : stage'[r] = "count" => stage[r] = "count" /\ at'[r] = at[r]
      PROVE  CountedInTime'
  <2>1. \A r \in Requests : at[r] \in Moments /\ at[r] <= minute
    BY <1>0 DEF MeterShape
  <2>2. \A r \in Requests : at[r] <= minute'
    BY <1>0, <2>1 DEF Moments
  <2> QED
    BY <1>1, <1>2, <2>1, <2>2 DEF MeterInv, CountedInTime
\* A request that is enforced from an entry finds the line it tells of.
<1>3. ASSUME NEW e \in EntryType, Tells(e, e.fetchedAt), Enforced(e) = "count", NEW w \in Windows,
             overSince[w] # None
      PROVE  e.fetchedAt <= overSince[w] /\ overSince[w] \in Moments /\ overSince[w] <= minute
  <2>1. e.row # NoRow /\ e.used[w] < e.row[w]
    BY <1>3 DEF Enforced
  <2>2. e.row[w] \in Nat /\ e.used[w] \in Nat /\ e.fetchedAt \in Moments
    BY <2>1 DEF EntryType, Caps
  <2>3. overSince[w] \in Moments /\ overSince[w] <= minute
    BY <1>3 DEF MeterInv, LineHolds
  <2>4. ~(overSince[w] < e.fetchedAt)
    BY <1>3, <2>1, <2>2 DEF Tells
  <2> QED
    BY <1>0, <2>2, <2>3, <2>4 DEF Moments
<1>4. ASSUME NEW r \in Requests, NEW i \in Isolates, Arrive(r, i)
      PROVE  CountedInTime'
  <2>1. /\ at' = [at EXCEPT ![r] = minute] /\ minute' = minute
        /\ \A q \in Requests : q # r => stage'[q] = stage[q]
        /\ stage'[r] = "count" => Fresh(i) /\ Enforced(entry[i]) = "count"
    BY <1>0, <1>4 DEF Arrive, MeterShape
  <2>2. ASSUME stage'[r] = "count", NEW w \in Windows, overSince[w] # None
        PROVE  minute - overSince[w] <= VOLUME_TTL /\ BucketAt(minute)[w] = BucketAt(overSince[w])[w]
    <3> DEFINE e == entry[i]
    <3>1. /\ e \in EntryType /\ Tells(e, e.fetchedAt) /\ e.bucket = BucketAt(e.fetchedAt)
          /\ minute - e.fetchedAt <= VOLUME_TTL /\ e.bucket = BucketAt(minute)
      BY <2>1, <2>2 DEF Fresh, MeterInv, EntriesTell
    <3> HIDE DEF e
    <3>2. /\ e.fetchedAt <= overSince[w] /\ overSince[w] \in Moments /\ overSince[w] <= minute
          /\ e.fetchedAt \in Moments
      <4>1. Enforced(e) = "count"
        BY <2>1, <2>2 DEF e
      <4> QED
        BY <1>3, <2>2, <3>1, <4>1 DEF EntryType
    <3>3. /\ BucketAt(e.fetchedAt)[w] <= BucketAt(overSince[w])[w]
          /\ BucketAt(overSince[w])[w] <= BucketAt(minute)[w]
          /\ BucketAt(overSince[w])[w] \in Nat /\ BucketAt(minute)[w] \in Nat
      BY <1>0, <3>2, BucketFacts
    <3>4. overSince[w] \in Nat /\ e.fetchedAt \in Nat
      BY <1>0, <3>2
    <3>5. minute - overSince[w] <= VOLUME_TTL
      BY <1>0, <3>1, <3>2, <3>4
    <3> QED
      BY <3>1, <3>3, <3>5
  <2>3. \A q \in Requests : at[q] \in Moments /\ at[q] <= minute'
    BY <1>0, <2>1 DEF MeterShape
  <2>4. at'[r] = minute /\ \A q \in Requests : q # r => at'[q] = at[q]
    BY <1>0, <2>1 DEF MeterShape
  <2> QED
    BY <1>0, <1>1, <2>1, <2>2, <2>3, <2>4 DEF MeterInv, CountedInTime
<1>5. ASSUME NEW r \in Requests, StoreEntry(r)
      PROVE  CountedInTime'
  <2>1. /\ UNCHANGED <<at, minute>> /\ Tells(got[r], at[r]) /\ ReadType(got[r])
        /\ at[r] \in Moments /\ at[r] <= minute
        /\ \A q \in Requests : q # r => stage'[q] = stage[q]
        /\ stage'[r] = "count" => Enforced(EntryOf(r, at[r])) = "count"
    BY <1>0, <1>5 DEF StoreEntry, MeterInv, MeterShape, ReadsTell
  <2>2. BucketAt(at[r]) \in [Windows -> Nat]
    BY <2>1, BucketFacts DEF BucketAt
  <2>3. EntryOf(r, at[r]) \in EntryType /\ EntryOf(r, at[r]).fetchedAt = at[r]
        /\ Tells(EntryOf(r, at[r]), at[r])
    BY <2>1, <2>2 DEF EntryOf, EntryType, ReadType, Tells
  <2>4. ASSUME stage'[r] = "count", NEW w \in Windows, overSince[w] # None
        PROVE  at[r] <= overSince[w] /\ overSince[w] \in Nat
    BY <1>0, <1>3, <2>1, <2>3, <2>4
  <2>5. \A w \in Windows : stage'[r] = "count" /\ overSince[w] # None => ~(overSince[w] < at[r])
    BY <1>0, <2>1, <2>4 DEF Moments
  <2>6. \A q \in Requests : at[q] \in Moments /\ at[q] <= minute'
    BY <1>0, <2>1 DEF MeterShape
  <2> QED
    BY <1>1, <2>1, <2>5, <2>6 DEF MeterInv, CountedInTime
<1> QED
  BY <1>0, <1>2, <1>4, <1>5 DEF MeterNext, ReadCaps, CountUsage, Admit, FailOpen, NextMinute, ChangeRow, Recycle,
     MeterShape, requests, caches

LEMMA MeterStep == MeterInv /\ [MeterNext]_meterVars => MeterInv'
<1>1. ASSUME MeterInv, MeterNext PROVE MeterInv'
  BY <1>1, MeterShapeStays, LineStays, ReadsStay, CountedStays DEF MeterInv
<1>2. ASSUME MeterInv, UNCHANGED meterVars PROVE MeterInv'
  BY <1>2 DEF meterVars, caches, requests, MeterInv, MeterShape, LineHolds, NobodyYet, ReadsTell, EntriesTell,
     CountedInTime, Tells, AtCap, ReadType, EntryType
<1> QED
  BY <1>1, <1>2

LEMMA AccessStepsMeter == [AccessNext]_accessVars => [MeterNext]_meterVars
  BY DEF AccessNext, accessVars

LEMMA MeterHolds == AccessSpec => []MeterInv
<1>1. AccessInit => MeterInv
  BY MeterStarts DEF AccessInit
<1>2. MeterInv /\ [AccessNext]_accessVars => MeterInv'
  BY MeterStep, AccessStepsMeter
<1> QED
  BY <1>1, <1>2, PTL DEF AccessSpec

(***************************************************************************)
(* Caps land within VOLUME_TTL of the counter crossing the line, for any   *)
(* isolates, requests, lengths of the windows and changes of the key.      *)
(***************************************************************************)
THEOREM CapsLand == AccessSpec => []CapLandsWithinTTL
<1>1. MeterInv => CapLandsWithinTTL
  <2> SUFFICES ASSUME MeterInv, NEW r \in Requests, NEW w \in Windows, stage[r] = "count", overSince[w] # None
               PROVE  at[r] - overSince[w] <= VOLUME_TTL
    BY DEF CapLandsWithinTTL
  <2>1. at[r] \in Nat /\ overSince[w] \in Nat /\ VOLUME_TTL \in Nat
    BY MeterNumbersHold DEF MeterNumbers, MeterInv, MeterShape, LineHolds, Moments
  <2>2. CASE overSince[w] < at[r]
    BY <2>2 DEF MeterInv, CountedInTime
  <2>3. CASE at[r] <= overSince[w]
    BY <2>1, <2>3
  <2> QED
    BY <2>1, <2>2, <2>3
<1> QED
  BY <1>1, MeterHolds, PTL
(***************************************************************************)
(* The cached counts (CacheNeverOvercounts).  A request is counted in D1   *)
(* before it is in the entry it shares, so what an entry has counted and   *)
(* what its sharers have yet to add to it are together in D1, in the       *)
(* buckets that its sharers came in.                                       *)
(***************************************************************************)
Ahead(i) == {r \in sharers[i] : stage[r] = "counted"}

SharersAt(i) ==
  /\ sharers[i] \in SUBSET Requests /\ IsFiniteSet(sharers[i])
  /\ \A r \in sharers[i] :
       stage[r] \in {"count", "counted"} /\ home[r] = i /\ BucketAt(at[r]) = entry[i].bucket

EntryBelow(i) == entry[i] # None \/ sharers[i] # {} =>
  \A w \in Windows : entry[i].used[w] + Cardinality(Ahead(i)) <= used[w][entry[i].bucket[w]]

ReadsBelow == \A r \in Requests, w \in Windows :
  stage[r] = "store" => got[r].used[w] <= used[w][BucketAt(at[r])[w]]

TallyInv == ReadsBelow /\ \A i \in Isolates : SharersAt(i) /\ EntryBelow(i)

LEMMA TallyStarts == MeterInit => TallyInv
<1> SUFFICES ASSUME MeterInit PROVE TallyInv
  OBVIOUS
<1>1. IsFiniteSet({})
  BY FS_EmptySet
<1> QED
  BY <1>1 DEF MeterInit, TallyInv, ReadsBelow, SharersAt, EntryBelow

\* A counter never goes down.
LEMMA CountersGrow ==
  ASSUME MeterInv, MeterNext, NEW w \in Windows, NEW b \in AllBuckets
  PROVE  used[w][b] \in Nat /\ used'[w][b] \in Nat /\ used[w][b] <= used'[w][b]
<1>1. MeterShape /\ MeterShape'
  BY MeterShapeStays DEF MeterInv
<1>2. used[w][b] \in Nat /\ used'[w][b] \in Nat
  BY <1>1 DEF MeterShape
<1>3. ASSUME NEW r \in Requests, CountUsage(r)
      PROVE  used[w][b] <= used'[w][b]
  <2>1. used' = [v \in Windows |-> [used[v] EXCEPT ![BucketAt(at[r])[v]] = @ + 1]]
    BY <1>3 DEF CountUsage, Counted
  <2>2. used'[w] = [used[w] EXCEPT ![BucketAt(at[r])[w]] = @ + 1]
    BY <2>1
  <2>3. used[w] \in [AllBuckets -> Nat]
    BY <1>1 DEF MeterShape
  <2>4. used'[w][b] = used[w][b] \/ used'[w][b] = used[w][b] + 1
    BY <2>2, <2>3
  <2> QED
    BY <1>2, <2>4
<1>4. used' = used => used[w][b] <= used'[w][b]
  BY <1>2
<1> QED
  BY <1>2, <1>3, <1>4 DEF MeterNext, Arrive, ReadCaps, StoreEntry, Admit, FailOpen, NextMinute, ChangeRow, Recycle

\* What an entry says, where it is one.
LEMMA EntryFacts ==
  ASSUME MeterInv, NEW i \in Isolates, entry[i] # None \/ sharers[i] # {}, NEW w \in Windows
  PROVE  /\ entry[i] \in EntryType /\ entry[i].used[w] \in Nat /\ entry[i].bucket[w] \in AllBuckets
         /\ used[w][entry[i].bucket[w]] \in Nat
<1>1. entry[i] \in EntryType /\ entry[i].bucket = BucketAt(entry[i].fetchedAt)
  BY DEF MeterInv, EntriesTell
<1>2. entry[i].fetchedAt \in Moments /\ entry[i].used[w] \in Nat
  BY <1>1 DEF EntryType
<1>3. entry[i].bucket[w] \in AllBuckets
  BY <1>1, <1>2, BucketFacts
<1> QED
  BY <1>1, <1>2, <1>3 DEF MeterInv, MeterShape

\* An entry that stays, with no new sharer and nobody ahead of it who was not.
LEMMA EntryStays ==
  ASSUME MeterInv, MeterNext, NEW i \in Isolates, SharersAt(i), EntryBelow(i),
         entry'[i] = entry[i], sharers'[i] \subseteq sharers[i],
         \A r \in sharers'[i] : stage'[r] = stage[r] /\ home'[r] = home[r] /\ at'[r] = at[r]
  PROVE  SharersAt(i)' /\ EntryBelow(i)'
<1>1. IsFiniteSet(sharers'[i])
  BY FS_Subset DEF SharersAt
<1>2. SharersAt(i)'
  BY <1>1 DEF SharersAt, BucketAt
<1>3. Ahead(i)' \subseteq Ahead(i) /\ Ahead(i) \subseteq sharers[i]
  BY DEF Ahead
<1>4. IsFiniteSet(Ahead(i)) /\ Cardinality(Ahead(i)) \in Nat /\ Cardinality(Ahead(i)') \in Nat
      /\ Cardinality(Ahead(i)') <= Cardinality(Ahead(i))
  BY <1>3, FS_Subset, FS_CardinalityType DEF SharersAt
<1>5. SUFFICES ASSUME entry'[i] # None \/ sharers'[i] # {}, NEW w \in Windows
               PROVE  entry'[i].used[w] + Cardinality(Ahead(i)') <= used'[w][entry'[i].bucket[w]]
  BY <1>2 DEF EntryBelow
<1>6. entry[i] # None \/ sharers[i] # {}
  BY <1>5
<1>7. /\ entry[i].used[w] \in Nat /\ entry[i].bucket[w] \in AllBuckets
      /\ entry[i].used[w] + Cardinality(Ahead(i)) <= used[w][entry[i].bucket[w]]
  BY <1>6, EntryFacts DEF EntryBelow
<1>8. /\ used[w][entry[i].bucket[w]] \in Nat /\ used'[w][entry[i].bucket[w]] \in Nat
      /\ used[w][entry[i].bucket[w]] <= used'[w][entry[i].bucket[w]]
  BY <1>7, CountersGrow
<1> QED
  BY <1>4, <1>7, <1>8

\* What is yet to be stored stays below counters that only grow.
LEMMA ReadsStayBelow ==
  ASSUME MeterInv, MeterNext, TallyInv,
         \A r \in Requests : stage'[r] = "store" => stage[r] = "store" /\ got'[r] = got[r] /\ at'[r] = at[r]
  PROVE  ReadsBelow'
<1> SUFFICES ASSUME NEW r \in Requests, NEW w \in Windows, stage'[r] = "store"
             PROVE  got'[r].used[w] <= used'[w][BucketAt(at'[r])[w]]
  BY DEF ReadsBelow, BucketAt
<1>1. stage[r] = "store" /\ got'[r] = got[r] /\ at'[r] = at[r] /\ at[r] \in Moments
  BY DEF MeterInv, MeterShape
<1>2. BucketAt(at[r])[w] \in AllBuckets
  BY <1>1, BucketFacts
<1>3. got[r].used[w] \in Nat /\ got[r].used[w] <= used[w][BucketAt(at[r])[w]]
  BY <1>1 DEF MeterInv, MeterShape, ReadType, TallyInv, ReadsBelow
<1>4. /\ used[w][BucketAt(at[r])[w]] \in Nat /\ used'[w][BucketAt(at[r])[w]] \in Nat
      /\ used[w][BucketAt(at[r])[w]] <= used'[w][BucketAt(at[r])[w]]
  BY <1>2, CountersGrow
<1> QED
  BY <1>1, <1>3, <1>4

LEMMA TallyStays ==
  ASSUME MeterInv, MeterNext, TallyInv
  PROVE  TallyInv'
<1>0. /\ MeterShape /\ MeterShape'
      /\ \A i \in Isolates : SharersAt(i) /\ EntryBelow(i)
  BY MeterShapeStays DEF MeterInv, TallyInv
\* The isolates whose entry and sharers the step leaves alone.
<1>1. ASSUME NEW i \in Isolates, entry'[i] = entry[i], sharers'[i] \subseteq sharers[i],
             \A r \in sharers'[i] : stage'[r] = stage[r] /\ home'[r] = home[r] /\ at'[r] = at[r]
      PROVE  SharersAt(i)' /\ EntryBelow(i)'
  BY <1>0, <1>1, EntryStays
\* Whose request is not on its way to be counted is no sharer.
<1>2. ASSUME NEW r \in Requests, stage[r] \notin {"count", "counted"}, NEW i \in Isolates
      PROVE  r \notin sharers[i]
  BY <1>0, <1>2 DEF SharersAt
<1>3. ASSUME NEW r \in Requests, NEW i \in Isolates, Arrive(r, i)
      PROVE  TallyInv'
  <2>1. /\ stage[r] = "idle" /\ entry' = entry /\ at' = [at EXCEPT ![r] = minute]
        /\ home' = [home EXCEPT ![r] = i] /\ got' = got /\ used' = used
        /\ \A q \in Requests : q # r => stage'[q] = stage[q] /\ home'[q] = home[q] /\ at'[q] = at[q]
        /\ stage'[r] \in {"idle", "fetch", "count"} /\ at'[r] = minute /\ home'[r] = i
        /\ stage'[r] = "count" => Fresh(i)
        /\ sharers' = [sharers EXCEPT ![i] = IF stage'[r] = "count" THEN @ \union {r} ELSE @]
    BY <1>0, <1>3 DEF Arrive, MeterShape, Enforced
  <2>2. ReadsBelow'
    BY <2>1, ReadsStayBelow
  <2>3. \A j \in Isolates : r \notin sharers[j] /\ sharers[j] \subseteq Requests
    BY <1>0, <1>2, <2>1 DEF SharersAt
  <2>4. ASSUME NEW j \in Isolates, sharers'[j] = sharers[j]
        PROVE  SharersAt(j)' /\ EntryBelow(j)'
    BY <1>1, <2>1, <2>3, <2>4
  <2>5. ASSUME stage'[r] = "count"
        PROVE  SharersAt(i)' /\ EntryBelow(i)'
    <3>1. entry[i] # None /\ entry[i].bucket = BucketAt(minute)
      BY <2>1, <2>5 DEF Fresh
    <3>2. sharers'[i] = sharers[i] \union {r}
      BY <1>0, <2>1, <2>5 DEF MeterShape
    <3>3. IsFiniteSet(sharers'[i])
      <4>1. IsFiniteSet(sharers[i])
        BY <1>0 DEF SharersAt
      <4> QED
        BY <3>2, <4>1, FS_AddElement
    <3>4. SharersAt(i)'
      <4>1. ASSUME NEW q \in sharers'[i]
            PROVE  stage'[q] \in {"count", "counted"} /\ home'[q] = i /\ BucketAt(at'[q]) = entry'[i].bucket
        BY <1>0, <2>1, <2>3, <2>5, <3>1, <3>2, <4>1 DEF SharersAt
      <4> QED
        BY <2>3, <3>2, <3>3, <4>1 DEF SharersAt, BucketAt
    <3>5. Ahead(i)' = Ahead(i)
      BY <2>1, <2>3, <2>5, <3>2 DEF Ahead
    <3> QED
      BY <1>0, <2>1, <3>1, <3>4, <3>5 DEF EntryBelow
  <2>6. \A j \in Isolates : sharers'[j] = sharers[j] \/ (j = i /\ stage'[r] = "count")
    BY <1>0, <2>1 DEF MeterShape
  <2> QED
    BY <2>2, <2>4, <2>5, <2>6 DEF TallyInv
<1>4. ASSUME NEW r \in Requests, ReadCaps(r)
      PROVE  TallyInv'
  <2>1. /\ stage[r] = "fetch" /\ UNCHANGED <<used, entry, sharers, home, at>>
        /\ stage' = [stage EXCEPT ![r] = "store"] /\ got' = [got EXCEPT ![r] = CapsWithUsage(at[r])]
    BY <1>4 DEF ReadCaps, caches
  <2>2. \A q \in Requests : q # r => stage'[q] = stage[q] /\ got'[q] = got[q]
    BY <1>0, <2>1 DEF MeterShape
  <2>3. \A w \in Windows : got'[r].used[w] = used[w][BucketAt(at[r])[w]]
    BY <1>0, <2>1 DEF MeterShape, CapsWithUsage
  <2>4. ASSUME NEW q \in Requests, NEW w \in Windows, stage'[q] = "store"
        PROVE  got'[q].used[w] <= used'[w][BucketAt(at'[q])[w]]
    <3>1. CASE q = r
      <4>1. used[w][BucketAt(at[r])[w]] \in Nat
        BY <1>0, BucketFacts DEF MeterShape
      <4> QED
        BY <2>1, <2>3, <3>1, <4>1
    <3>2. CASE q # r
      BY <2>1, <2>2, <2>4, <3>2 DEF TallyInv, ReadsBelow
    <3> QED
      BY <3>1, <3>2
  <2>5. ReadsBelow'
    BY <2>4 DEF ReadsBelow, BucketAt
  <2>6. \A i \in Isolates : SharersAt(i)' /\ EntryBelow(i)'
    <3> SUFFICES ASSUME NEW i \in Isolates PROVE SharersAt(i)' /\ EntryBelow(i)'
      OBVIOUS
    <3>1. r \notin sharers[i] /\ sharers[i] \subseteq Requests
      BY <1>0, <1>2, <2>1 DEF SharersAt
    <3> QED
      BY <1>1, <2>1, <2>2, <3>1
  <2> QED
    BY <2>5, <2>6 DEF TallyInv
<1>5. ASSUME NEW r \in Requests, StoreEntry(r)
      PROVE  TallyInv'
  <2> DEFINE i == home[r]
             e == EntryOf(r, at[r])
  <2>1. /\ stage[r] = "store" /\ i \in Isolates /\ UNCHANGED <<used, home, at>>
        /\ entry' = [entry EXCEPT ![i] = e]
        /\ stage' = [stage EXCEPT ![r] = Enforced(entry'[i])]
        /\ sharers' = [sharers EXCEPT ![i] = IF stage'[r] = "count" THEN {r} ELSE {}]
        /\ got' = [got EXCEPT ![r] = Unread]
    BY <1>0, <1>5 DEF StoreEntry, MeterShape
  <2>2. /\ entry'[i] = e /\ stage'[r] \in {"count", "idle"}
        /\ sharers'[i] = IF stage'[r] = "count" THEN {r} ELSE {}
        /\ \A q \in Requests : q # r => stage'[q] = stage[q] /\ got'[q] = got[q]
        /\ \A j \in Isolates : j # i => entry'[j] = entry[j] /\ sharers'[j] = sharers[j]
    BY <1>0, <2>1 DEF MeterShape, Enforced
  <2>3. ReadsBelow'
    BY <2>1, <2>2, ReadsStayBelow
  <2>4. ASSUME NEW j \in Isolates, j # i
        PROVE  SharersAt(j)' /\ EntryBelow(j)'
    <3>1. r \notin sharers[j] /\ sharers[j] \subseteq Requests
      BY <1>0, <1>2, <2>1 DEF SharersAt
    <3> QED
      BY <1>1, <2>1, <2>2, <2>4, <3>1
  <2>5. e.bucket = BucketAt(at[r]) /\ e.used = got[r].used
    BY DEF EntryOf
  <2>6. SharersAt(i)'
    <3>1. IsFiniteSet({}) /\ IsFiniteSet({r})
      BY FS_EmptySet, FS_Singleton
    <3>2. ASSUME NEW q \in sharers'[i]
          PROVE  stage'[q] = "count" /\ home'[q] = i' /\ BucketAt(at'[q]) = entry'[i].bucket
      BY <2>1, <2>2, <2>5, <3>2
    <3> QED
      BY <2>1, <2>2, <3>1, <3>2 DEF SharersAt, BucketAt
  <2>7. EntryBelow(i)'
    <3>1. Ahead(i)' = {}
      BY <2>1, <2>2 DEF Ahead
    <3>2. Cardinality(Ahead(i)') = 0
      BY <3>1, FS_EmptySet
    <3>3. \A w \in Windows : got[r].used[w] \in Nat /\ got[r].used[w] <= used[w][BucketAt(at[r])[w]]
      BY <1>0, <2>1 DEF TallyInv, ReadsBelow, MeterShape, ReadType
    <3> QED
      BY <2>1, <2>2, <2>5, <3>2, <3>3 DEF EntryBelow
  <2> QED
    BY <2>1, <2>3, <2>4, <2>6, <2>7 DEF TallyInv
<1>6. ASSUME NEW r \in Requests, CountUsage(r)
      PROVE  TallyInv'
  <2>1. /\ stage[r] = "count" /\ stage' = [stage EXCEPT ![r] = "counted"]
        /\ used' = Counted(BucketAt(at[r])) /\ UNCHANGED <<entry, sharers, home, at, got>>
    BY <1>6 DEF CountUsage, caches
  <2>2. stage'[r] = "counted" /\ \A q \in Requests : q # r => stage'[q] = stage[q]
    BY <1>0, <2>1 DEF MeterShape
  <2>3. ReadsBelow'
    BY <2>1, <2>2, ReadsStayBelow
  <2>4. ASSUME NEW i \in Isolates
        PROVE  SharersAt(i)' /\ EntryBelow(i)'
    <3>1. CASE r \notin sharers[i]
      BY <1>0, <1>1, <2>1, <2>2, <3>1 DEF SharersAt
    <3>2. CASE r \in sharers[i]
      <4>1. SharersAt(i)'
        BY <1>0, <2>1, <2>2 DEF SharersAt, BucketAt
      <4>2. Ahead(i)' = Ahead(i) \union {r} /\ r \notin Ahead(i) /\ IsFiniteSet(Ahead(i))
        <5>1. Ahead(i) \subseteq sharers[i] /\ sharers[i] \subseteq Requests /\ IsFiniteSet(sharers[i])
          BY <1>0 DEF Ahead, SharersAt
        <5>2. Ahead(i)' = Ahead(i) \union {r} /\ r \notin Ahead(i)
          BY <2>1, <2>2, <3>2, <5>1 DEF Ahead
        <5> QED
          BY <5>1, <5>2, FS_Subset
      <4>3. Cardinality(Ahead(i)') = Cardinality(Ahead(i)) + 1 /\ Cardinality(Ahead(i)) \in Nat
        BY <4>2, FS_AddElement, FS_CardinalityType
      <4>4. ASSUME NEW w \in Windows
            PROVE  entry'[i].used[w] + Cardinality(Ahead(i)') <= used'[w][entry'[i].bucket[w]]
        <5>1. /\ entry[i].used[w] \in Nat /\ entry[i].bucket[w] \in AllBuckets
              /\ used[w][entry[i].bucket[w]] \in Nat
              /\ entry[i].used[w] + Cardinality(Ahead(i)) <= used[w][entry[i].bucket[w]]
              /\ BucketAt(at[r]) = entry[i].bucket
          BY <1>0, <3>2, EntryFacts DEF EntryBelow, SharersAt
        <5>2. used'[w] = [used[w] EXCEPT ![BucketAt(at[r])[w]] = @ + 1] /\ used[w] \in [AllBuckets -> Nat]
          BY <1>0, <2>1 DEF Counted, MeterShape
        <5>3. used'[w][entry[i].bucket[w]] = used[w][entry[i].bucket[w]] + 1
          BY <5>1, <5>2
        <5> QED
          BY <2>1, <4>3, <5>1, <5>3
      <4> QED
        BY <4>1, <4>4 DEF EntryBelow
    <3> QED
      BY <3>1, <3>2
  <2> QED
    BY <2>3, <2>4 DEF TallyInv
<1>7. ASSUME NEW r \in Requests, Admit(r)
      PROVE  TallyInv'
  <2> DEFINE i == home[r]
  <2>1. /\ stage[r] = "counted" /\ i \in Isolates /\ UNCHANGED <<used, home, at, got>>
        /\ stage' = [stage EXCEPT ![r] = "idle"]
        /\ entry' = [entry EXCEPT ![i] = IF r \in sharers[i] THEN OneMore(@) ELSE @]
        /\ sharers' = [sharers EXCEPT ![i] = @ \ {r}]
    BY <1>0, <1>7 DEF Admit, MeterShape
  <2>2. /\ stage'[r] = "idle" /\ \A q \in Requests : q # r => stage'[q] = stage[q]
        /\ entry'[i] = IF r \in sharers[i] THEN OneMore(entry[i]) ELSE entry[i]
        /\ sharers'[i] = sharers[i] \ {r}
        /\ \A j \in Isolates : j # i => entry'[j] = entry[j] /\ sharers'[j] = sharers[j]
    BY <1>0, <2>1 DEF MeterShape
  <2>3. ReadsBelow'
    BY <2>1, <2>2, ReadsStayBelow
  <2>4. \A j \in Isolates : sharers[j] \subseteq Requests /\ (j # i => r \notin sharers[j])
    BY <1>0 DEF SharersAt
  <2>5. ASSUME NEW j \in Isolates, j # i \/ r \notin sharers[i]
        PROVE  SharersAt(j)' /\ EntryBelow(j)'
    BY <1>1, <2>1, <2>2, <2>4, <2>5
  <2>6. ASSUME r \in sharers[i]
        PROVE  SharersAt(i)' /\ EntryBelow(i)'
    <3> DEFINE e == entry[i]
    <3>1. e \in EntryType /\ \A w \in Windows : e.used[w] \in Nat /\ e.bucket[w] \in AllBuckets
                                                /\ used[w][e.bucket[w]] \in Nat
      BY <2>1, <2>6, EntryFacts DEF Windows
    <3>2. entry'[i].bucket = e.bucket /\ \A w \in Windows : entry'[i].used[w] = e.used[w] + 1
      BY <2>2, <2>6, <3>1 DEF OneMore, EntryType
    <3>3. IsFiniteSet(sharers'[i])
      BY <1>0, <2>1, <2>2, FS_RemoveElement DEF SharersAt
    <3>4. SharersAt(i)'
      BY <1>0, <2>1, <2>2, <2>4, <3>2, <3>3 DEF SharersAt, BucketAt
    <3>5. Ahead(i)' = Ahead(i) \ {r} /\ r \in Ahead(i) /\ IsFiniteSet(Ahead(i))
      <4>1. Ahead(i) \subseteq sharers[i] /\ IsFiniteSet(sharers[i])
        BY <1>0, <2>1 DEF Ahead, SharersAt
      <4>2. Ahead(i)' = Ahead(i) \ {r} /\ r \in Ahead(i)
        BY <2>1, <2>2, <2>4, <2>6 DEF Ahead
      <4> QED
        BY <4>1, <4>2, FS_Subset
    <3>6. Cardinality(Ahead(i)') = Cardinality(Ahead(i)) - 1 /\ Cardinality(Ahead(i)) \in Nat
      BY <3>5, FS_RemoveElement, FS_CardinalityType
    <3>7. ASSUME NEW w \in Windows
          PROVE  entry'[i].used[w] + Cardinality(Ahead(i)') <= used'[w][entry'[i].bucket[w]]
      <4>1. e.used[w] + Cardinality(Ahead(i)) <= used[w][e.bucket[w]]
        BY <1>0, <2>1, <2>6 DEF EntryBelow
      <4> QED
        BY <2>1, <3>1, <3>2, <3>6, <4>1
    <3> QED
      BY <2>1, <3>4, <3>7 DEF EntryBelow
  <2> QED
    BY <2>1, <2>3, <2>5, <2>6 DEF TallyInv
<1>8. ASSUME NEW r \in Requests, FailOpen(r)
      PROVE  TallyInv'
  <2>1. /\ home[r] \in Isolates /\ UNCHANGED <<used, entry, home, at, got>>
        /\ stage'[r] = "idle" /\ \A q \in Requests : q # r => stage'[q] = stage[q]
        /\ sharers'[home[r]] = sharers[home[r]] \ {r}
        /\ \A j \in Isolates : j # home[r] => sharers'[j] = sharers[j]
    BY <1>0, <1>8 DEF FailOpen, MeterShape
  <2>2. ReadsBelow'
    BY <2>1, ReadsStayBelow
  <2>3. \A j \in Isolates : sharers[j] \subseteq Requests /\ (j # home[r] => r \notin sharers[j])
    BY <1>0 DEF SharersAt
  <2>4. \A j \in Isolates : SharersAt(j)' /\ EntryBelow(j)'
    BY <1>1, <2>1, <2>3
  <2> QED
    BY <2>2, <2>4 DEF TallyInv
<1>9. ASSUME NextMinute \/ \E caps \in CapChoices \union {NoRow} : ChangeRow(caps)
      PROVE  TallyInv'
  <2>1. UNCHANGED <<used, caches, requests>>
    BY <1>9 DEF NextMinute, ChangeRow
  <2>2. ReadsBelow'
    BY <2>1, ReadsStayBelow DEF requests
  <2>3. \A j \in Isolates : SharersAt(j)' /\ EntryBelow(j)'
    BY <1>1, <2>1 DEF caches, requests
  <2> QED
    BY <2>2, <2>3 DEF TallyInv
<1>10. ASSUME NEW i \in Isolates, Recycle(i)
       PROVE  TallyInv'
  <2>1. /\ UNCHANGED <<used, home, at>> /\ entry'[i] = None /\ sharers'[i] = {}
        /\ \A j \in Isolates : j # i => entry'[j] = entry[j] /\ sharers'[j] = sharers[j]
        /\ \A r \in Requests : home[r] = i => stage'[r] = "idle"
        /\ \A r \in Requests : home[r] # i => stage'[r] = stage[r] /\ got'[r] = got[r]
    BY <1>0, <1>10 DEF Recycle, MeterShape
  <2>2. ReadsBelow'
    BY <2>1, ReadsStayBelow
  <2>3. SharersAt(i)' /\ EntryBelow(i)'
    BY <2>1, FS_EmptySet DEF SharersAt, EntryBelow
  <2>4. ASSUME NEW j \in Isolates, j # i
        PROVE  SharersAt(j)' /\ EntryBelow(j)'
    <3>1. sharers[j] \subseteq Requests /\ \A r \in sharers[j] : home[r] = j
      BY <1>0 DEF SharersAt
    <3> QED
      BY <1>1, <2>1, <2>4, <3>1
  <2> QED
    BY <2>2, <2>3, <2>4 DEF TallyInv
<1> QED
  BY <1>3, <1>4, <1>5, <1>6, <1>7, <1>8, <1>9, <1>10 DEF MeterNext

LEMMA TallyHolds == AccessSpec => []TallyInv
<1>1. AccessInit => TallyInv
  BY TallyStarts DEF AccessInit
<1>2. MeterInv /\ TallyInv /\ [AccessNext]_accessVars => TallyInv'
  <2> SUFFICES ASSUME MeterInv, TallyInv, [AccessNext]_accessVars PROVE TallyInv'
    OBVIOUS
  <2>1. [MeterNext]_meterVars
    BY AccessStepsMeter
  <2>2. CASE UNCHANGED meterVars
    BY <2>2 DEF meterVars, caches, requests, TallyInv, ReadsBelow, SharersAt, EntryBelow, Ahead, BucketAt
  <2> QED
    BY <2>1, <2>2, TallyStays
<1> QED
  BY <1>1, <1>2, MeterHolds, PTL DEF AccessSpec

(***************************************************************************)
(* Requests never lose volume to a cache: what an isolate enforces from is *)
(* at or below the counters in D1, for any isolates, requests, windows and *)
(* caps, whatever fails, is recycled or waits across a window's roll.      *)
(***************************************************************************)
THEOREM CachesNeverOvercount == AccessSpec => []CacheNeverOvercounts
<1>1. MeterInv /\ TallyInv => CacheNeverOvercounts
  <2> SUFFICES ASSUME MeterInv, TallyInv, NEW i \in Isolates, entry[i] # None, NEW w \in Windows
               PROVE  entry[i].used[w] <= used[w][entry[i].bucket[w]]
    BY DEF CacheNeverOvercounts
  <2>1. Ahead(i) \subseteq sharers[i] /\ IsFiniteSet(sharers[i])
    BY DEF Ahead, TallyInv, SharersAt
  <2>2. Cardinality(Ahead(i)) \in Nat
    BY <2>1, FS_Subset, FS_CardinalityType
  <2>3. entry[i].used[w] + Cardinality(Ahead(i)) <= used[w][entry[i].bucket[w]]
    BY DEF TallyInv, EntryBelow
  <2>4. entry[i].used[w] \in Nat /\ used[w][entry[i].bucket[w]] \in Nat
    BY EntryFacts
  <2> QED
    BY <2>2, <2>3, <2>4
<1> QED
  BY <1>1, MeterHolds, TallyHolds, PTL
-----------------------------------------------------------------------------
(***************************************************************************)
(* The two counters (MonthIsSumOfDays).  A month is a whole number of      *)
(* days, so a moment's day lies in its month: the day that a request is    *)
(* counted in, however late, is one of the days its month sums up.         *)
(***************************************************************************)
DaysOf(m) == {d \in AllBuckets : (d * WindowLength["day"]) \div WindowLength["month"] = m}

MonthInv ==
  \A m \in 0 .. BucketAt(MaxMinute)["month"] :
    used["month"][m] = CountOf(used["day"], DaysOf(m))

BoundsInv ==
  /\ burst \in [Isolates -> 0 .. BURST_LIMIT]
  /\ sent \in 0 .. MaxRequests /\ changes \in 0 .. MaxChanges
  /\ overSince \in [Windows -> Moments \union {None}]

\* Multiples of D compare as what they are multiples of.
LEMMA MultiplesCompare ==
  ASSUME NEW D \in Nat \ {0}, NEW a \in Nat, NEW c \in Nat, NEW y \in 0 .. D - 1, D * a <= D * c + y
  PROVE  a <= c
<1> SUFFICES ASSUME a >= c + 1 PROVE FALSE
  OBVIOUS
<1>1. D * a >= D * (c + 1)
  OBVIOUS
<1>2. D * (c + 1) = D * c + D
  OBVIOUS
<1> QED
  BY <1>1, <1>2

LEMMA DayInMonth ==
  ASSUME NEW t \in Moments
  PROVE  BucketAt(t)["day"] \in DaysOf(BucketAt(t)["month"])
<1> DEFINE D == WindowLength["day"]
           M == WindowLength["month"]
           a == t \div D
           b == t \div M
           c == (D * a) \div M
           k == M \div D
<1>1. D \in Nat \ {0} /\ M \in Nat \ {0} /\ M % D = 0 /\ t \in Nat
  BY MeterNumbersHold, VolumeAssumption DEF MeterNumbers, Windows, Moments
<1> HIDE DEF D, M
<1>2. a \in Nat /\ t % D \in 0 .. D - 1 /\ t = D * a + (t % D)
  BY <1>1, Division
<1>3. b \in Nat /\ t % M \in 0 .. M - 1 /\ t = M * b + (t % M)
  BY <1>1, Division
<1>4. k \in Nat /\ M = D * k
  <2>1. k \in Nat /\ M = D * k + (M % D)
    BY <1>1, Division
  <2> HIDE DEF k
  <2> QED
    BY <1>1, <2>1
<1> HIDE DEF a, b, k
<1>5. D * a \in Nat /\ M * b \in Nat /\ k * b \in Nat
  BY <1>1, <1>2, <1>3, <1>4
<1>6. c \in Nat /\ (D * a) % M \in 0 .. M - 1 /\ D * a = M * c + ((D * a) % M)
  BY <1>1, <1>5, Division
<1> HIDE DEF c
<1>7. D * (k * b) = M * b
  BY <1>1, <1>3, <1>4
<1>8. M * b <= t /\ D * a <= t
  BY <1>2, <1>3, <1>5
<1>9. k * b <= a
  <2>1. D * (k * b) <= D * a + (t % D)
    BY <1>2, <1>7, <1>8
  <2> QED
    BY <1>1, <1>2, <1>5, <2>1, MultiplesCompare
<1>10. D * (k * b) <= D * a
  BY <1>1, <1>2, <1>5, <1>9
<1>11. b <= c
  <2>1. M * b <= M * c + ((D * a) % M)
    BY <1>6, <1>7, <1>10
  <2> QED
    BY <1>1, <1>3, <1>6, <2>1, MultiplesCompare
<1>12. c <= b
  <2>1. M * c \in Nat /\ M * c <= M * b + (t % M)
    BY <1>1, <1>3, <1>6, <1>8
  <2> QED
    BY <1>1, <1>3, <1>6, <2>1, MultiplesCompare
<1>13. c = b
  BY <1>3, <1>6, <1>11, <1>12
<1>14. BucketAt(t)["day"] = a /\ BucketAt(t)["month"] = b /\ a \in AllBuckets
  BY BucketFacts DEF BucketAt, Windows, a, b, D, M
<1>15. a * D = D * a
  BY <1>1, <1>2
<1> QED
  BY <1>13, <1>14, <1>15 DEF DaysOf, c, D, M

LEMMA DaysAreFinite ==
  ASSUME NEW m
  PROVE  IsFiniteSet(DaysOf(m)) /\ DaysOf(m) \subseteq AllBuckets
<1>1. IsFiniteSet(AllBuckets)
  BY MeterNumbersHold, FS_Interval DEF MeterNumbers, AllBuckets
<1> QED
  BY <1>1, FS_Subset DEF DaysOf

LEMMA MonthStarts == MeterInit => MonthInv /\ BoundsInv
<1> SUFFICES ASSUME MeterInit PROVE MonthInv /\ BoundsInv
  OBVIOUS
<1>1. BoundsInv
  BY VolumeAssumption DEF MeterInit, BoundsInv
<1>2. ASSUME NEW m \in 0 .. BucketAt(MaxMinute)["month"]
      PROVE  used["month"][m] = CountOf(used["day"], DaysOf(m))
  <2>1. m \in AllBuckets
    <3>1. MaxMinute \in Moments
      BY MeterNumbersHold DEF MeterNumbers, Moments
    <3>2. BucketAt(MaxMinute)["month"] \in AllBuckets
      BY <3>1, BucketFacts DEF Windows
    <3> QED
      BY <3>2, MeterNumbersHold DEF AllBuckets, MeterNumbers
  <2>2. used["month"][m] = 0 /\ \A d \in DaysOf(m) : used["day"][d] = 0
    BY <2>1, DaysAreFinite DEF MeterInit, Windows
  <2> QED
    BY <2>2, CountNothing
<1> QED
  BY <1>1, <1>2 DEF MonthInv

LEMMA MonthStays ==
  ASSUME MeterInv, MonthInv, MeterNext
  PROVE  MonthInv'
<1>1. CASE used' = used
  BY <1>1 DEF MonthInv
<1>2. ASSUME NEW r \in Requests, CountUsage(r)
      PROVE  MonthInv'
  <2> DEFINE day   == BucketAt(at[r])["day"]
             month == BucketAt(at[r])["month"]
             f     == used["day"]
             g     == used'["day"]
  <2>1. at[r] \in Moments /\ used \in [Windows -> [AllBuckets -> Nat]]
    BY DEF MeterInv, MeterShape
  <2>2. day \in AllBuckets /\ month \in AllBuckets /\ day \in DaysOf(month)
    BY <2>1, BucketFacts, DayInMonth DEF Windows
  <2>3. /\ g = [f EXCEPT ![day] = @ + 1]
        /\ used'["month"] = [used["month"] EXCEPT ![month] = @ + 1]
    BY <1>2, <2>1 DEF CountUsage, Counted, Windows
  <2>4. f \in [AllBuckets -> Nat] /\ used["month"] \in [AllBuckets -> Nat]
    BY <2>1 DEF Windows
  <2> HIDE DEF day, month, f, g
  <2>5. ASSUME NEW m \in 0 .. BucketAt(MaxMinute)["month"]
        PROVE  used'["month"][m] = CountOf(g, DaysOf(m))
    <3>1. used["month"][m] = CountOf(f, DaysOf(m))
      BY DEF MonthInv, f
    <3>2. CASE m = month
      <4>1. CountOf(g, DaysOf(m)) - g[day] = CountOf(f, DaysOf(m)) - f[day] /\ CountOf(g, DaysOf(m)) \in Nat
        <5>1. \A d \in DaysOf(m) : f[d] \in Nat
          BY <2>4, DaysAreFinite
        <5>2. g[day] \in Nat /\ \A d \in DaysOf(m) \ {day} : g[d] = f[d]
          BY <2>2, <2>3, <2>4, DaysAreFinite
        <5>3. IsFiniteSet(DaysOf(m)) /\ day \in DaysOf(m)
          BY <2>2, <3>2, DaysAreFinite
        <5> QED
          BY <5>1, <5>2, <5>3, CountChange
      <4>2. g[day] = f[day] + 1 /\ f[day] \in Nat
        BY <2>2, <2>3, <2>4
      <4>3. used'["month"][m] = used["month"][m] + 1 /\ used["month"][m] \in Nat
        BY <2>2, <2>3, <2>4, <3>2
      <4> QED
        BY <3>1, <4>1, <4>2, <4>3
    <3>3. CASE m # month
      <4>1. day \notin DaysOf(m)
        BY <2>2, <3>3 DEF DaysOf
      <4>2. \A d \in DaysOf(m) : f[d] = g[d]
        BY <2>3, <2>4, <4>1, DaysAreFinite
      <4>3. CountOf(f, DaysOf(m)) = CountOf(g, DaysOf(m))
        BY <4>2, CountSame
      <4>4. used'["month"][m] = used["month"][m]
        BY <2>3, <2>4, <3>3
      <4> QED
        BY <3>1, <4>3, <4>4
    <3> QED
      BY <3>2, <3>3
  <2> QED
    BY <2>5 DEF MonthInv, g
<1> QED
  BY <1>1, <1>2 DEF MeterNext, Arrive, ReadCaps, StoreEntry, Admit, FailOpen, NextMinute, ChangeRow, Recycle

LEMMA BoundsStay ==
  ASSUME MeterInv, BoundsInv, MeterNext
  PROVE  BoundsInv'
<1>1. minute' \in Moments
  BY MeterShapeStays DEF MeterShape
<1>2. overSince' \in [Windows -> Moments \union {None}]
  <2>1. overSince' = [w \in Windows |->
          IF ~AtCap(w, row', used', minute') THEN None
          ELSE IF overSince[w] = None \/ ~AtCap(w, row, used, minute) THEN minute' ELSE overSince[w]]
    BY DEF MeterNext
  <2>2. \A w \in Windows : overSince[w] \in Moments \union {None}
    BY DEF BoundsInv
  <2> HIDE DEF AtCap
  <2> QED
    BY <1>1, <2>1, <2>2
<1>3. ASSUME NEW r \in Requests, NEW i \in Isolates, Arrive(r, i)
      PROVE  burst' \in [Isolates -> 0 .. BURST_LIMIT] /\ sent' \in 0 .. MaxRequests /\ changes' = changes
  BY <1>3, VolumeAssumption DEF Arrive, BoundsInv
<1>4. ASSUME NEW caps, ChangeRow(caps)
      PROVE  burst' = burst /\ sent' = sent /\ changes' \in 0 .. MaxChanges
  BY <1>4, VolumeAssumption DEF ChangeRow, BoundsInv
<1>5. ASSUME NextMinute \/ \E i \in Isolates : Recycle(i)
      PROVE  burst' \in [Isolates -> 0 .. BURST_LIMIT] /\ UNCHANGED budget
  BY <1>5, VolumeAssumption DEF NextMinute, Recycle, BoundsInv
<1>6. ASSUME NEW r \in Requests, ReadCaps(r) \/ StoreEntry(r) \/ CountUsage(r) \/ Admit(r) \/ FailOpen(r)
      PROVE  UNCHANGED <<burst, budget>>
  BY <1>6 DEF ReadCaps, StoreEntry, CountUsage, Admit, FailOpen
<1>7. burst' \in [Isolates -> 0 .. BURST_LIMIT] /\ sent' \in 0 .. MaxRequests /\ changes' \in 0 .. MaxChanges
  BY <1>3, <1>4, <1>5, <1>6 DEF MeterNext, BoundsInv, budget
<1> QED
  BY <1>2, <1>7 DEF BoundsInv

LEMMA MeterTypes ==
  ASSUME MeterInv, TallyInv, BoundsInv
  PROVE  MeterTypeOK
<1>1. /\ minute \in 0 .. MaxMinute
      /\ row \in CapChoices \union {NoRow}
      /\ used \in [Windows -> [AllBuckets -> Nat]]
      /\ stage \in [Requests -> Stages] /\ home \in [Requests -> Isolates]
      /\ at \in [Requests -> 0 .. MaxMinute]
  BY DEF MeterInv, MeterShape, Moments, Caps
<1>2. overSince \in [Windows -> 0 .. MaxMinute \union {None}]
  BY DEF BoundsInv, Moments
<1>3. ASSUME NEW i \in Isolates
      PROVE  /\ entry[i] # None =>
                  /\ entry[i].row \in CapChoices \union {NoRow}
                  /\ entry[i].used \in Counts /\ entry[i].bucket \in Counts
                  /\ entry[i].fetchedAt \in Nat
             /\ \A r \in sharers[i] : stage[r] \in {"count", "counted"} /\ home[r] = i
  <2>1. entry[i] # None => entry[i] \in EntryType
    BY DEF MeterInv, EntriesTell
  <2>2. \A r \in sharers[i] : stage[r] \in {"count", "counted"} /\ home[r] = i
    BY DEF TallyInv, SharersAt
  <2> QED
    BY <2>1, <2>2, MeterNumbersHold DEF EntryType, Caps, Counts, Moments, MeterNumbers
<1> QED
  BY <1>1, <1>2, <1>3 DEF MeterTypeOK, BoundsInv

(***************************************************************************)
(* The counters the caps are enforced from are true: a month has counted   *)
(* what its days have, and no isolate believes in more, for any isolates   *)
(* and requests, and any days and months that fit each other.              *)
(***************************************************************************)
THEOREM CountersStayTrue == AccessSpec => []CountersAgree
<1>1. AccessInit => MonthInv /\ BoundsInv
  BY MonthStarts DEF AccessInit
<1>2. MeterInv /\ MonthInv /\ BoundsInv /\ [AccessNext]_accessVars => MonthInv' /\ BoundsInv'
  <2> SUFFICES ASSUME MeterInv, MonthInv, BoundsInv, [AccessNext]_accessVars PROVE MonthInv' /\ BoundsInv'
    OBVIOUS
  <2>1. [MeterNext]_meterVars
    BY AccessStepsMeter
  <2>2. CASE UNCHANGED meterVars
    BY <2>2 DEF meterVars, budget, MonthInv, BoundsInv
  <2> QED
    BY <2>1, <2>2, MonthStays, BoundsStay
<1>3. MeterInv /\ MonthInv => MonthIsSumOfDays
  <2> SUFFICES ASSUME MeterInv, MonthInv, NEW m \in 0 .. BucketAt(MaxMinute)["month"]
               PROVE  used["month"][m] = MapThenSumSet(LAMBDA d : used["day"][d], DaysOf(m))
    BY DEF MonthIsSumOfDays, DaysOf
  <2> DEFINE f == used["day"]
  <2>1. \A d \in DaysOf(m) : f[d] \in Nat
    BY DaysAreFinite DEF MeterInv, MeterShape, Windows
  <2>2. used["month"][m] = CountOf(f, DaysOf(m))
    BY DEF MonthInv
  <2> HIDE DEF f
  <2>3. MapThenSumSet(LAMBDA d : f[d], DaysOf(m)) = CountOf(f, DaysOf(m))
    BY <2>1, DaysAreFinite, SumIsCount
  <2> QED
    BY <2>2, <2>3 DEF f
<1>4. MeterInv /\ TallyInv /\ BoundsInv => MeterTypeOK
  BY MeterTypes
<1> QED
  BY <1>1, <1>2, <1>3, <1>4, MeterHolds, TallyHolds, CachesNeverOvercount, PTL DEF AccessSpec, CountersAgree
-----------------------------------------------------------------------------
(***************************************************************************)
(* The budget of rows read (ExactWithoutOverlap).  As long as nothing has  *)
(* fallen into a flush, at most one is under way and it carries what its   *)
(* isolate owes, so that what KV holds of a day and what the isolates owe  *)
(* of it make up what was noted.  They fall short only of a day some       *)
(* isolate has left, owing rows; and no isolate believes in more than KV   *)
(* holds of its day.                                                       *)
(***************************************************************************)
OwedOn(d) == [i \in Meters |-> IF dayOf[i] = d THEN local[i] - flushedAt[i] ELSE 0]

FlushSteps == [step : {"idle", "get", "put"}, of : Meters, delta : Nat, cur : Nat]

BudgetShape ==
  /\ utcDay \in Days /\ blurred \in BOOLEAN
  /\ dayOf \in [Meters -> Days] /\ \A i \in Meters : dayOf[i] <= utcDay
  /\ local \in [Meters -> Nat] /\ flushedAt \in [Meters -> Nat] /\ global \in [Meters -> Nat]
  /\ \A i \in Meters : flushedAt[i] <= local[i]
  /\ asking \in [Meters -> SUBSET [day : Days, total : Nat]]
  /\ stored \in [Days -> Nat] /\ noted \in [Days -> 0 .. MaxNoted]
  /\ flush \in [Flushes -> FlushSteps]

FlushCarriesDebt ==
  /\ \A f, g \in Flushing : f = g
  /\ \A f \in Flushing :
       LET i == flush[f].of IN
       /\ flush[f].delta = local[i] - flushedAt[i]
       /\ flush[f].step = "put" => flush[f].cur = stored[dayOf[i]]

NobodyBelievesMore ==
  \A i \in Meters :
    /\ global[i] <= stored[dayOf[i]]
    /\ \A answer \in asking[i] : answer.total <= stored[answer.day]

BooksBalance ==
  \A d \in Days :
    /\ stored[d] + CountOf(OwedOn(d), Meters) <= noted[d]
    /\ stored[d] + CountOf(OwedOn(d), Meters) = noted[d] \/ \E i \in Meters : dayOf[i] > d

BudgetInv ==
  BudgetShape /\ (~blurred => FlushCarriesDebt /\ NobodyBelievesMore /\ BooksBalance)

LEMMA MetersFacts ==
  /\ IsFiniteSet(Meters) /\ Meters # {} /\ RowSizes \subseteq Nat /\ MaxDay \in Nat /\ MaxNoted \in Nat
  /\ Days \subseteq Nat /\ 0 \in Days /\ (CHOOSE i \in Meters : TRUE) \in Meters
<1>1. (CHOOSE i \in Meters : TRUE) \in Meters
  BY BudgetAssumption
<1> QED
  BY <1>1, BudgetAssumption DEF Days

LEMMA NoFlushIsFlush == NoFlush \in FlushSteps /\ NoFlush.step = "idle"
  BY MetersFacts DEF NoFlush, FlushSteps

LEMMA BudgetStarts == BudgetInit => BudgetInv
<1> SUFFICES ASSUME BudgetInit PROVE BudgetInv
  OBVIOUS
<1>1. BudgetShape
  <2>1. flush \in [Flushes -> FlushSteps]
    BY NoFlushIsFlush DEF BudgetInit
  <2>2. asking \in [Meters -> SUBSET [day : Days, total : Nat]]
    BY DEF BudgetInit
  <2>3. 0 \in Nat /\ 0 \in Days /\ 0 \in 0 .. MaxNoted
    BY MetersFacts
  <2>4. /\ utcDay \in Days /\ blurred \in BOOLEAN
        /\ dayOf \in [Meters -> Days] /\ \A i \in Meters : dayOf[i] <= utcDay
    <3>1. utcDay = 0 /\ blurred = FALSE /\ dayOf = [i \in Meters |-> 0]
      BY DEF BudgetInit
    <3>2. \A i \in Meters : dayOf[i] <= utcDay
      BY <3>1
    <3> QED
      BY <2>3, <3>1, <3>2
  <2>5. local \in [Meters -> Nat] /\ flushedAt \in [Meters -> Nat] /\ global \in [Meters -> Nat]
    <3>1. [i \in Meters |-> 0] \in [Meters -> Nat]
      BY <2>3
    <3> QED
      BY <3>1 DEF BudgetInit
  <2>7. \A i \in Meters : flushedAt[i] <= local[i]
    <3>1. \A i \in Meters : flushedAt[i] = 0 /\ local[i] = 0
      BY DEF BudgetInit
    <3> QED
      BY <3>1
  <2>6. stored \in [Days -> Nat] /\ noted \in [Days -> 0 .. MaxNoted]
    BY <2>3 DEF BudgetInit
  <2> QED
    BY <2>1, <2>2, <2>4, <2>5, <2>6, <2>7 DEF BudgetShape
<1>2. Flushing = {}
  BY NoFlushIsFlush DEF BudgetInit, Flushing
<1>3. NobodyBelievesMore
  BY MetersFacts DEF BudgetInit, NobodyBelievesMore
<1>4. ASSUME NEW d \in Days
      PROVE  stored[d] + CountOf(OwedOn(d), Meters) = noted[d]
  <2>1. \A i \in Meters : OwedOn(d)[i] = 0
    BY DEF BudgetInit, OwedOn
  <2>2. CountOf(OwedOn(d), Meters) = 0
    BY <2>1, CountNothing
  <2> QED
    BY <2>2 DEF BudgetInit
<1>5. BooksBalance
  <2>1. \A d \in Days : noted[d] \in Nat
    BY DEF BudgetInit
  <2> QED
    BY <1>4, <2>1 DEF BooksBalance
<1> QED
  BY <1>1, <1>2, <1>3, <1>5 DEF BudgetInv, FlushCarriesDebt

LEMMA RolledFacts ==
  ASSUME BudgetShape, NEW i \in Meters
  PROVE  /\ Rolled(local, i) \in Nat /\ Rolled(flushedAt, i) \in Nat /\ Rolled(global, i) \in Nat
         /\ Rolled(flushedAt, i) <= Rolled(local, i)
  BY DEF BudgetShape, Rolled

LEMMA OwedFacts ==
  ASSUME BudgetShape, NEW d
  PROVE  /\ \A i \in Meters : OwedOn(d)[i] = IF dayOf[i] = d THEN local[i] - flushedAt[i] ELSE 0
         /\ \A i \in Meters : OwedOn(d)[i] \in Nat
         /\ CountOf(OwedOn(d), Meters) \in Nat
<1>1. \A i \in Meters : OwedOn(d)[i] = IF dayOf[i] = d THEN local[i] - flushedAt[i] ELSE 0
  BY DEF OwedOn
<1>2. \A i \in Meters : OwedOn(d)[i] \in Nat
  BY <1>1 DEF BudgetShape
<1>3. CountOf(OwedOn(d), Meters) \in Nat
  BY <1>2, MetersFacts, UnitsAreFinite
<1> QED
  BY <1>1, <1>2, <1>3

LEMMA BudgetShapeStays ==
  ASSUME BudgetShape, BudgetNext
  PROVE  BudgetShape'
<1>1. ASSUME NEW i \in Meters, NEW rows \in RowSizes, NEW f \in Flushes, NEW due \in BOOLEAN, Note(i, rows, f, due)
      PROVE  BudgetShape'
  <2>1. rows \in Nat
    BY MetersFacts
  <2>2. /\ dayOf' = [dayOf EXCEPT ![i] = utcDay]
        /\ local' = [local EXCEPT ![i] = Rolled(local, i) + rows]
        /\ flushedAt' = [flushedAt EXCEPT ![i] = Rolled(flushedAt, i)]
        /\ global' = [global EXCEPT ![i] = Rolled(global, i)]
        /\ utcDay' = utcDay /\ asking' = asking /\ stored' = stored
    BY <1>1 DEF Note
  <2>3. noted' \in [Days -> 0 .. MaxNoted] /\ blurred' \in BOOLEAN
    BY <1>1, <2>1, MetersFacts DEF Note, BudgetShape
  <2>4. local'[i] \in Nat /\ flushedAt'[i] \in Nat /\ flushedAt'[i] <= local'[i]
    BY <2>1, <2>2, RolledFacts DEF BudgetShape
  <2>5. local'[i] - flushedAt'[i] \in Nat
    BY <2>4
  <2>6. flush' \in [Flushes -> FlushSteps]
    <3>1. [step |-> "get", of |-> i, delta |-> local'[i] - flushedAt'[i], cur |-> 0] \in FlushSteps
      BY <2>5 DEF FlushSteps
    <3>2. flush \in [Flushes -> FlushSteps]
      BY DEF BudgetShape
    <3> QED
      BY <1>1, <3>1, <3>2 DEF Note
  <2>7. utcDay \in Days /\ utcDay <= utcDay
    BY MetersFacts DEF BudgetShape
  <2>8. dayOf' \in [Meters -> Days] /\ \A j \in Meters : dayOf'[j] <= utcDay
    BY <2>2, <2>7 DEF BudgetShape
  <2>9. /\ local' \in [Meters -> Nat] /\ flushedAt' \in [Meters -> Nat] /\ global' \in [Meters -> Nat]
        /\ \A j \in Meters : flushedAt'[j] <= local'[j]
    BY <2>1, <2>2, <2>4, RolledFacts DEF BudgetShape
  <2> QED
    BY <2>2, <2>3, <2>6, <2>7, <2>8, <2>9 DEF BudgetShape
<1>2. ASSUME NEW i \in Meters, NEW old \in BOOLEAN, AskBudget(i, old)
      PROVE  BudgetShape'
  <2>2. /\ dayOf' = [dayOf EXCEPT ![i] = utcDay]
        /\ local' = [local EXCEPT ![i] = Rolled(local, i)]
        /\ flushedAt' = [flushedAt EXCEPT ![i] = Rolled(flushedAt, i)]
        /\ global' = [global EXCEPT ![i] = Rolled(global, i)]
        /\ utcDay' = utcDay /\ stored' = stored /\ flush' = flush /\ noted' = noted
    BY <1>2 DEF AskBudget
  <2>3. blurred' \in BOOLEAN
    BY <1>2 DEF AskBudget, BudgetShape
  <2>7. utcDay \in Days /\ utcDay <= utcDay
    BY MetersFacts DEF BudgetShape
  <2>4. asking' \in [Meters -> SUBSET [day : Days, total : Nat]]
    <3>1. [day |-> utcDay, total |-> stored[utcDay]] \in [day : Days, total : Nat]
      BY <2>7 DEF BudgetShape
    <3>2. asking \in [Meters -> SUBSET [day : Days, total : Nat]]
      BY DEF BudgetShape
    <3> QED
      BY <1>2, <3>1, <3>2 DEF AskBudget
  <2>8. dayOf' \in [Meters -> Days] /\ \A j \in Meters : dayOf'[j] <= utcDay
    BY <2>2, <2>7 DEF BudgetShape
  <2>9. /\ local' \in [Meters -> Nat] /\ flushedAt' \in [Meters -> Nat] /\ global' \in [Meters -> Nat]
        /\ \A j \in Meters : flushedAt'[j] <= local'[j]
    BY <2>2, RolledFacts DEF BudgetShape
  <2> QED
    BY <2>2, <2>3, <2>4, <2>7, <2>8, <2>9 DEF BudgetShape
<1>3. ASSUME NEW f \in Flushes, FlushGet(f)
      PROVE  BudgetShape'
  <2>1. flush[f] \in FlushSteps /\ stored[dayOf[flush[f].of]] \in Nat
    BY DEF BudgetShape, FlushSteps
  <2>2. flush' \in [Flushes -> FlushSteps]
    BY <1>3, <2>1 DEF FlushGet, BudgetShape, FlushSteps
  <2> QED
    BY <1>3, <2>2 DEF FlushGet, isolateVars, BudgetShape
<1>4. ASSUME NEW f \in Flushes, FlushPut(f)
      PROVE  BudgetShape'
  <2>1. flush[f] \in FlushSteps /\ flush[f].of \in Meters /\ dayOf[flush[f].of] \in Days
    BY DEF BudgetShape, FlushSteps
  <2>2. NextTotal(f) \in Nat
    BY <2>1 DEF NextTotal, FlushSteps
  <2>3. flush' \in [Flushes -> FlushSteps]
    BY <1>4, NoFlushIsFlush DEF FlushPut, BudgetShape
  <2>4. stored' \in [Days -> Nat] /\ global' \in [Meters -> Nat]
    BY <1>4, <2>1, <2>2 DEF FlushPut, BudgetShape
  <2>5. flushedAt' \in [Meters -> Nat] /\ \A j \in Meters : flushedAt'[j] <= local[j]
    BY <1>4, <2>1 DEF FlushPut, BudgetShape
  <2> QED
    BY <1>4, <2>3, <2>4, <2>5 DEF FlushPut, BudgetShape
<1>5. ASSUME NEW f \in Flushes, FlushFails(f)
      PROVE  BudgetShape'
  <2>1. flush' \in [Flushes -> FlushSteps]
    BY <1>5, NoFlushIsFlush DEF FlushFails, BudgetShape
  <2> QED
    BY <1>5, <2>1 DEF FlushFails, isolateVars, BudgetShape
<1>6. ASSUME NEW i \in Meters, TotalArrives(i)
      PROVE  BudgetShape'
  <2>1. PICK answer \in asking[i] :
          /\ asking' = [asking EXCEPT ![i] = {}]
          /\ \/ global' = [global EXCEPT ![i] = answer.total]
                /\ blurred' = (blurred \/ answer.day # dayOf[i])
             \/ UNCHANGED <<global, blurred>>
          /\ UNCHANGED <<utcDay, dayOf, local, flushedAt, stored, flush, noted>>
    BY <1>6 DEF TotalArrives
  <2>2. answer.total \in Nat
    BY DEF BudgetShape
  <2>3. global' \in [Meters -> Nat] /\ blurred' \in BOOLEAN
    BY <2>1, <2>2 DEF BudgetShape
  <2>4. asking' \in [Meters -> SUBSET [day : Days, total : Nat]]
    BY <2>1 DEF BudgetShape
  <2> QED
    BY <2>1, <2>3, <2>4 DEF BudgetShape
<1>7. ASSUME Midnight
      PROVE  BudgetShape'
  <2>1. utcDay' \in Days
    BY <1>7, MetersFacts DEF Midnight, BudgetShape, Days
  <2>2. \A i \in Meters : dayOf[i] <= utcDay'
    <3>1. utcDay \in Nat /\ \A i \in Meters : dayOf[i] \in Nat /\ dayOf[i] <= utcDay
      BY MetersFacts DEF BudgetShape
    <3>2. utcDay' = utcDay + 1
      BY <1>7 DEF Midnight
    <3> QED
      BY <3>1, <3>2
  <2> QED
    BY <1>7, <2>1, <2>2 DEF Midnight, isolateVars, BudgetShape
<1> QED
  BY <1>1, <1>2, <1>3, <1>4, <1>5, <1>6, <1>7 DEF BudgetNext

\* An isolate that rolls to the day and owes more of it leaves the books in balance.
LEMMA RollKeepsBooks ==
  ASSUME BudgetShape, BooksBalance, NEW i \in Meters, NEW rows \in Nat,
         dayOf' = [dayOf EXCEPT ![i] = utcDay],
         local' = [local EXCEPT ![i] = Rolled(local, i) + rows],
         flushedAt' = [flushedAt EXCEPT ![i] = Rolled(flushedAt, i)],
         stored' = stored,
         noted' = [noted EXCEPT ![utcDay] = @ + rows]
  PROVE  BooksBalance'
<1>1. /\ utcDay \in Days /\ utcDay \in Nat
      /\ \A j \in Meters : dayOf[j] \in Nat /\ dayOf[j] <= utcDay
      /\ \A d \in Days : stored[d] \in Nat /\ noted[d] \in Nat /\ d \in Nat
  <2>1. utcDay \in Days /\ utcDay \in Nat /\ \A d \in Days : d \in Nat
    BY MetersFacts DEF BudgetShape
  <2>2. \A j \in Meters : dayOf[j] \in Days /\ dayOf[j] <= utcDay
    BY DEF BudgetShape
  <2>3. \A d \in Days : stored[d] \in Nat /\ noted[d] \in 0 .. MaxNoted
    BY DEF BudgetShape
  <2>4. \A n \in 0 .. MaxNoted : n \in Nat
    BY MetersFacts
  <2> QED
    BY <2>1, <2>2, <2>3, <2>4
<1>2. ASSUME NEW d \in Days
      PROVE  LET owed == stored'[d] + CountOf(OwedOn(d), Meters)' IN
             owed <= noted'[d] /\ (owed = noted'[d] \/ \E j \in Meters : dayOf'[j] > d)
  <2> DEFINE f == OwedOn(d)
             g == OwedOn(d)'
             before == CountOf(f, Meters)
             after == CountOf(g, Meters)
  <2>1. \A j \in Meters : f[j] = (IF dayOf[j] = d THEN local[j] - flushedAt[j] ELSE 0) /\ f[j] \in Nat
    BY OwedFacts
  <2>2. \A j \in Meters : g[j] = IF dayOf'[j] = d THEN local'[j] - flushedAt'[j] ELSE 0
    BY DEF OwedOn
  <2>3. \A j \in Meters \ {i} : dayOf'[j] = dayOf[j] /\ local'[j] = local[j] /\ flushedAt'[j] = flushedAt[j]
    BY DEF BudgetShape
  <2>4. \A j \in Meters \ {i} : g[j] = f[j]
    BY <2>1, <2>2, <2>3
  <2>5. /\ dayOf'[i] = utcDay /\ local'[i] = Rolled(local, i) + rows
        /\ flushedAt'[i] = Rolled(flushedAt, i)
    BY DEF BudgetShape
  <2>6. g[i] = (IF d # utcDay THEN 0 ELSE f[i] + rows)
    <3>1. CASE d # utcDay
      BY <2>2, <2>5, <3>1
    <3>2. CASE d = utcDay
      <4>1. g[i] = Rolled(local, i) + rows - Rolled(flushedAt, i)
        <5>1. g[i] = local'[i] - flushedAt'[i]
          BY <2>2, <2>5, <3>2
        <5>2. g[i] = (Rolled(local, i) + rows) - Rolled(flushedAt, i)
          BY <2>5, <5>1
        <5>3. Rolled(local, i) \in Nat /\ Rolled(flushedAt, i) \in Nat
          BY RolledFacts
        <5> HIDE DEF g
        <5> QED
          BY <5>2, <5>3
      <4>2. CASE dayOf[i] = utcDay
        <5>1. f[i] = local[i] - flushedAt[i] /\ local[i] \in Nat /\ flushedAt[i] \in Nat
          BY <2>1, <3>2, <4>2 DEF BudgetShape
        <5> QED
          BY <3>2, <4>1, <4>2, <5>1 DEF Rolled
      <4>3. CASE dayOf[i] # utcDay
        BY <2>1, <3>2, <4>1, <4>3 DEF Rolled
      <4> QED
        BY <4>2, <4>3
    <3> QED
      BY <3>1, <3>2
  <2>7. f[i] \in Nat /\ g[i] \in Nat /\ before \in Nat
    BY <2>1, <2>6, OwedFacts
  <2>8. after - g[i] = before - f[i] /\ after \in Nat
    <3> HIDE DEF f, g
    <3> QED
      BY <2>1, <2>4, <2>7, MetersFacts, CountChange
  <2>9. /\ stored[d] + before <= noted[d]
        /\ stored[d] + before = noted[d] \/ \E j \in Meters : dayOf[j] > d
    BY DEF BooksBalance
  <2>10. CountOf(OwedOn(d), Meters)' = after /\ stored'[d] = stored[d]
    OBVIOUS
  <2> HIDE DEF f, g, before, after
  <2>11. CASE d = utcDay
    <3>1. after = before + rows /\ noted'[d] = noted[d] + rows
      BY <2>6, <2>7, <2>8, <2>11, <1>1 DEF BudgetShape
    <3>2. ~ \E j \in Meters : dayOf[j] > d
      BY <1>1, <2>11
    <3> QED
      BY <1>1, <2>7, <2>9, <2>10, <3>1, <3>2
  <2>12. CASE d # utcDay
    <3>1. after = before - f[i] /\ noted'[d] = noted[d]
      BY <2>6, <2>7, <2>8, <2>12, <1>1 DEF BudgetShape
    <3>2. stored'[d] + after <= noted'[d]
      <4>1. stored[d] \in Nat /\ noted[d] \in Nat
        BY <1>1
      <4> QED
        BY <2>7, <2>8, <2>9, <2>10, <3>1, <4>1
    <3>3. CASE dayOf[i] = d
      <4>1. dayOf'[i] > d
        BY <1>1, <2>5, <2>12, <3>3
      <4> QED
        BY <2>10, <3>2, <4>1
    <3>4. CASE dayOf[i] # d
      <4>1. after = before
        BY <2>1, <2>7, <3>1, <3>4
      <4>2. \A j \in Meters : dayOf[j] > d => dayOf'[j] > d
        BY <1>1, <2>3, <2>5
      <4> QED
        BY <2>9, <2>10, <3>1, <3>2, <4>1, <4>2
    <3> QED
      BY <3>3, <3>4
  <2> QED
    BY <2>11, <2>12
<1> QED
  BY <1>2 DEF BooksBalance

LEMMA SameBooks ==
  ASSUME BooksBalance, UNCHANGED <<dayOf, local, flushedAt, stored, noted>>
  PROVE  BooksBalance'
<1>1. \A d \in Days : OwedOn(d)' = OwedOn(d)
  BY DEF OwedOn
<1>2. \A d \in Days : CountOf(OwedOn(d), Meters)' = CountOf(OwedOn(d), Meters)
  BY <1>1
<1> QED
  BY <1>2 DEF BooksBalance

\* A flush that nothing fell into moves what its isolate owed to what KV holds.
LEMMA FlushKeepsBooks ==
  ASSUME BudgetShape, FlushCarriesDebt, BooksBalance, NEW k \in Flushes, FlushPut(k)
  PROVE  BooksBalance'
<1> DEFINE i == flush[k].of
<1>1. k \in Flushing
  BY DEF FlushPut, Flushing
<1>2. i \in Meters /\ dayOf[i] \in Days
  BY DEF BudgetShape, FlushSteps
<1>3. NextTotal(k) = stored[dayOf[i]] + (local[i] - flushedAt[i])
  BY <1>1 DEF FlushCarriesDebt, FlushPut, NextTotal
<1>4. /\ stored' = [stored EXCEPT ![dayOf[i]] = NextTotal(k)]
      /\ flushedAt' = [flushedAt EXCEPT ![i] = local[i]]
      /\ dayOf' = dayOf /\ local' = local /\ noted' = noted
  BY DEF FlushPut
<1> HIDE DEF i
<1>5. ASSUME NEW d \in Days
      PROVE  /\ stored'[d] + CountOf(OwedOn(d), Meters)' = stored[d] + CountOf(OwedOn(d), Meters)
  <2> DEFINE f == OwedOn(d)
             g == OwedOn(d)'
             before == CountOf(f, Meters)
             after == CountOf(g, Meters)
  <2>1. \A j \in Meters : f[j] = (IF dayOf[j] = d THEN local[j] - flushedAt[j] ELSE 0) /\ f[j] \in Nat
    BY OwedFacts
  <2>2. \A j \in Meters : g[j] = IF dayOf[j] = d THEN local[j] - flushedAt'[j] ELSE 0
    BY <1>4 DEF OwedOn
  <2>3. \A j \in Meters \ {i} : flushedAt'[j] = flushedAt[j]
    BY <1>4 DEF BudgetShape
  <2>4. \A j \in Meters \ {i} : g[j] = f[j]
    BY <2>1, <2>2, <2>3
  <2>5. flushedAt'[i] = local[i] /\ local[i] \in Nat
    BY <1>2, <1>4 DEF BudgetShape
  <2>6. g[i] = 0
    <3>1. local[i] - flushedAt'[i] = 0
      BY <2>5
    <3> QED
      BY <1>2, <2>2, <3>1
  <2>7. before \in Nat /\ f[i] \in Nat
    BY <1>2, <2>1, OwedFacts
  <2>8. after - g[i] = before - f[i] /\ after \in Nat
    <3> HIDE DEF f, g
    <3>1. g[i] \in Nat
      BY <2>6
    <3> QED
      BY <1>2, <2>1, <2>4, <3>1, MetersFacts, CountChange
  <2>9. CountOf(OwedOn(d), Meters)' = after
    OBVIOUS
  <2>10. stored[d] \in Nat
    BY DEF BudgetShape
  <2> HIDE DEF f, g, before, after
  <2>11. CASE dayOf[i] = d
    <3>1. f[i] = local[i] - flushedAt[i]
      BY <1>2, <2>1, <2>11
    <3>2. stored'[d] = stored[d] + f[i]
      BY <1>2, <1>3, <1>4, <2>11, <3>1 DEF BudgetShape
    <3> QED
      BY <2>6, <2>7, <2>8, <2>9, <2>10, <3>2 DEF before, f
  <2>12. CASE dayOf[i] # d
    <3>1. f[i] = 0
      BY <1>2, <2>1, <2>12
    <3>2. stored'[d] = stored[d]
      BY <1>4, <2>12 DEF BudgetShape
    <3> QED
      BY <2>6, <2>7, <2>8, <2>9, <2>10, <3>1, <3>2 DEF before, f
  <2> QED
    BY <2>11, <2>12
<1> QED
  BY <1>4, <1>5 DEF BooksBalance

\* The other two parts, through a note or a roll.
LEMMA RollKeepsBelief ==
  ASSUME BudgetShape, NobodyBelievesMore, NEW i \in Meters,
         dayOf' = [dayOf EXCEPT ![i] = utcDay],
         global' = [global EXCEPT ![i] = Rolled(global, i)],
         stored' = stored,
         \A j \in Meters : \A answer \in asking'[j] :
            answer \in asking[j] \/ answer = [day |-> utcDay, total |-> stored[utcDay]]
  PROVE  NobodyBelievesMore'
<1>1. utcDay \in Days /\ \A d \in Days : stored[d] \in Nat
  BY DEF BudgetShape
<1>2. ASSUME NEW j \in Meters
      PROVE  global'[j] <= stored'[dayOf'[j]]
  <2>1. CASE j # i
    BY <2>1 DEF BudgetShape, NobodyBelievesMore
  <2>2. CASE j = i
    <3>1. dayOf'[i] = utcDay /\ global'[i] = Rolled(global, i)
      BY DEF BudgetShape
    <3>2. CASE dayOf[i] = utcDay
      <4>1. global[i] <= stored[dayOf[i]]
        BY DEF NobodyBelievesMore
      <4> QED
        BY <2>2, <3>1, <3>2, <4>1 DEF Rolled
    <3>3. CASE dayOf[i] # utcDay
      <4>1. stored[utcDay] \in Nat
        BY <1>1
      <4>2. 0 <= stored[utcDay]
        BY <4>1
      <4> QED
        BY <2>2, <3>1, <3>3, <4>2 DEF Rolled
    <3> QED
      BY <3>2, <3>3
  <2> QED
    BY <2>1, <2>2
<1>3. ASSUME NEW j \in Meters, NEW answer \in asking'[j]
      PROVE  answer.total <= stored'[answer.day]
  <2>1. CASE answer \in asking[j]
    BY <2>1 DEF NobodyBelievesMore
  <2>2. CASE answer = [day |-> utcDay, total |-> stored[utcDay]]
    <3>1. stored[utcDay] \in Nat
      BY <1>1
    <3>2. stored[utcDay] <= stored[utcDay]
      BY <3>1
    <3> QED
      BY <2>2, <3>2
  <2> QED
    BY <2>1, <2>2
<1> QED
  BY <1>2, <1>3 DEF NobodyBelievesMore

LEMMA BudgetStep ==
  ASSUME BudgetInv, BudgetNext
  PROVE  BudgetInv'
<1> BudgetShape /\ BudgetShape'
  BY BudgetShapeStays DEF BudgetInv
<1> SUFFICES ASSUME ~blurred' PROVE FlushCarriesDebt' /\ NobodyBelievesMore' /\ BooksBalance'
  BY DEF BudgetInv
<1>1. ASSUME NEW i \in Meters, NEW rows \in RowSizes, NEW f \in Flushes, NEW due \in BOOLEAN, Note(i, rows, f, due)
      PROVE  FlushCarriesDebt' /\ NobodyBelievesMore' /\ BooksBalance'
  <2>1. Flushing = {} /\ ~blurred /\ rows \in Nat
    BY <1>1, MetersFacts DEF Note, BudgetShape
  <2>2. FlushCarriesDebt /\ NobodyBelievesMore /\ BooksBalance
    BY <2>1 DEF BudgetInv
  <2>3. FlushCarriesDebt'
    <3> DEFINE begun == [step |-> "get", of |-> i, delta |-> local'[i] - flushedAt'[i], cur |-> 0]
    <3>1. \A g \in Flushes : flush[g].step = "idle"
      BY <2>1 DEF Flushing
    <3>2. \A g \in Flushes \ {f} : flush'[g].step = "idle"
      BY <1>1, <3>1 DEF Note, BudgetShape
    <3>3. flush'[f] = begun \/ flush'[f].step = "idle"
      BY <1>1, <3>1 DEF Note, BudgetShape
    <3>4. \A g \in Flushing' : g = f /\ flush'[f] = begun
      BY <3>2, <3>3 DEF Flushing
    <3>5. \A g \in Flushing' : flush'[g].of = i /\ flush'[g].delta = local'[i] - flushedAt'[i] /\ flush'[g].step # "put"
      BY <3>4
    <3> QED
      BY <3>4, <3>5 DEF FlushCarriesDebt
  <2>4. NobodyBelievesMore'
    <3>1. /\ dayOf' = [dayOf EXCEPT ![i] = utcDay]
          /\ global' = [global EXCEPT ![i] = Rolled(global, i)]
          /\ stored' = stored /\ asking' = asking
      BY <1>1 DEF Note
    <3> QED
      BY <2>2, <3>1, RollKeepsBelief
  <2>5. BooksBalance'
    <3>1. /\ dayOf' = [dayOf EXCEPT ![i] = utcDay]
          /\ local' = [local EXCEPT ![i] = Rolled(local, i) + rows]
          /\ flushedAt' = [flushedAt EXCEPT ![i] = Rolled(flushedAt, i)]
          /\ stored' = stored
          /\ noted' = [noted EXCEPT ![utcDay] = @ + rows]
      BY <1>1 DEF Note
    <3> QED
      BY <2>1, <2>2, <3>1, RollKeepsBooks
  <2> QED
    BY <2>3, <2>4, <2>5
<1>2. ASSUME NEW f \in Flushes, FlushGet(f)
      PROVE  FlushCarriesDebt' /\ NobodyBelievesMore' /\ BooksBalance'
  <2>1. FlushCarriesDebt /\ NobodyBelievesMore /\ BooksBalance
    BY <1>2 DEF FlushGet, BudgetInv
  <2>2. UNCHANGED <<dayOf, local, flushedAt, global, asking, stored, noted>>
    BY <1>2 DEF FlushGet, isolateVars
  <2>3. FlushCarriesDebt'
    <3>1. f \in Flushing /\ flush \in [Flushes -> FlushSteps]
      BY <1>2 DEF FlushGet, Flushing, BudgetShape
    <3>2. \A g \in Flushes \ {f} : flush'[g] = flush[g]
      BY <1>2, <3>1 DEF FlushGet
    <3>3. flush'[f] = [flush[f] EXCEPT !.step = "put", !.cur = stored[dayOf[flush[f].of]]]
      BY <1>2, <3>1 DEF FlushGet
    <3>4. flush[f] \in FlushSteps
      BY <3>1
    <3>5. /\ flush'[f].of = flush[f].of /\ flush'[f].delta = flush[f].delta
          /\ flush'[f].cur = stored[dayOf[flush[f].of]]
      BY <3>3, <3>4 DEF FlushSteps
    <3>6. \A g \in Flushing' : g \in Flushing
      BY <3>1, <3>2 DEF Flushing
    <3>7. \A g \in Flushing : g = f
      BY <2>1, <3>1 DEF FlushCarriesDebt
    <3> QED
      BY <2>1, <2>2, <3>1, <3>5, <3>6, <3>7 DEF FlushCarriesDebt
  <2>4. NobodyBelievesMore' /\ BooksBalance'
    BY <2>1, <2>2, SameBooks DEF NobodyBelievesMore
  <2> QED
    BY <2>3, <2>4
<1>3. ASSUME NEW f \in Flushes, FlushPut(f)
      PROVE  FlushCarriesDebt' /\ NobodyBelievesMore' /\ BooksBalance'
  <2> DEFINE i == flush[f].of
  <2>1. FlushCarriesDebt /\ NobodyBelievesMore /\ BooksBalance
    BY <1>3 DEF FlushPut, BudgetInv
  <2>2. BooksBalance'
    BY <1>3, <2>1, FlushKeepsBooks
  <2>3. f \in Flushing /\ i \in Meters /\ dayOf[i] \in Days
    BY <1>3 DEF FlushPut, Flushing, BudgetShape, FlushSteps
  <2>4. FlushCarriesDebt'
    <3>1. \A g \in Flushing : g = f
      BY <2>1, <2>3 DEF FlushCarriesDebt
    <3>2. Flushing' = {}
      BY <1>3, <3>1, NoFlushIsFlush DEF FlushPut, Flushing, BudgetShape
    <3> QED
      BY <3>2 DEF FlushCarriesDebt
  <2>5. NobodyBelievesMore'
    <3>1. NextTotal(f) = stored[dayOf[i]] + (local[i] - flushedAt[i])
      BY <1>3, <2>1, <2>3 DEF FlushCarriesDebt, FlushPut, NextTotal
    <3>2. /\ stored' = [stored EXCEPT ![dayOf[i]] = NextTotal(f)]
          /\ global' = [global EXCEPT ![i] = NextTotal(f)]
          /\ dayOf' = dayOf /\ asking' = asking
      BY <1>3 DEF FlushPut
    <3> HIDE DEF i
    <3>3. \A d \in Days : stored[d] \in Nat
      BY DEF BudgetShape
    <3>4. /\ stored[dayOf[i]] \in Nat /\ local[i] \in Nat /\ flushedAt[i] \in Nat
          /\ flushedAt[i] <= local[i]
      BY <2>3 DEF BudgetShape
    <3>5. NextTotal(f) \in Nat /\ stored[dayOf[i]] <= NextTotal(f)
      BY <3>1, <3>4
    <3>6. \A d \in Days : stored'[d] \in Nat /\ stored[d] <= stored'[d]
      BY <2>3, <3>2, <3>3, <3>5 DEF BudgetShape
    <3>7. ASSUME NEW j \in Meters
          PROVE  global'[j] <= stored'[dayOf'[j]]
      <4>1. CASE j = i
        <5>1. global'[j] = NextTotal(f) /\ stored'[dayOf[j]] = NextTotal(f)
          BY <2>3, <3>2, <4>1 DEF BudgetShape
        <5> QED
          BY <3>2, <3>5, <5>1
      <4>2. CASE j # i
        <5>1. global'[j] = global[j] /\ global[j] <= stored[dayOf[j]] /\ global[j] \in Nat /\ dayOf[j] \in Days
          BY <2>1, <3>2, <4>2 DEF BudgetShape, NobodyBelievesMore
        <5> QED
          BY <3>2, <3>3, <3>6, <5>1
      <4> QED
        BY <4>1, <4>2
    <3>8. ASSUME NEW j \in Meters, NEW answer \in asking'[j]
          PROVE  answer.total <= stored'[answer.day]
      <4>1. answer.total <= stored[answer.day] /\ answer.total \in Nat /\ answer.day \in Days
        BY <2>1, <3>2 DEF BudgetShape, NobodyBelievesMore
      <4> QED
        BY <3>3, <3>6, <4>1
    <3> QED
      BY <3>7, <3>8 DEF NobodyBelievesMore
  <2> QED
    BY <2>2, <2>4, <2>5
<1>4. ASSUME NEW f \in Flushes, FlushFails(f)
      PROVE  FlushCarriesDebt' /\ NobodyBelievesMore' /\ BooksBalance'
  <2>1. FlushCarriesDebt /\ NobodyBelievesMore /\ BooksBalance
    BY <1>4 DEF FlushFails, BudgetInv
  <2>2. UNCHANGED <<dayOf, local, flushedAt, global, asking, stored, noted>>
    BY <1>4 DEF FlushFails, isolateVars
  <2>3. Flushing' = {}
    <3>1. \A g \in Flushing : g = f
      BY <1>4, <2>1 DEF FlushCarriesDebt, FlushFails, Flushing
    <3> QED
      BY <1>4, <3>1, NoFlushIsFlush DEF FlushFails, Flushing, BudgetShape
  <2>4. NobodyBelievesMore' /\ BooksBalance'
    BY <2>1, <2>2, SameBooks DEF NobodyBelievesMore
  <2> QED
    BY <2>3, <2>4 DEF FlushCarriesDebt
<1>5. ASSUME NEW i \in Meters, NEW old \in BOOLEAN, AskBudget(i, old)
      PROVE  FlushCarriesDebt' /\ NobodyBelievesMore' /\ BooksBalance'
  <2>1. ~blurred /\ (Flushing = {} \/ dayOf[i] = utcDay)
    BY <1>5 DEF AskBudget, BudgetShape
  <2>2. FlushCarriesDebt /\ NobodyBelievesMore /\ BooksBalance
    BY <2>1 DEF BudgetInv
  <2>3. /\ dayOf' = [dayOf EXCEPT ![i] = utcDay]
        /\ local' = [local EXCEPT ![i] = Rolled(local, i)]
        /\ flushedAt' = [flushedAt EXCEPT ![i] = Rolled(flushedAt, i)]
        /\ global' = [global EXCEPT ![i] = Rolled(global, i)]
        /\ asking' = [asking EXCEPT ![i] = IF old THEN {[day |-> utcDay, total |-> stored[utcDay]]} ELSE {}]
        /\ flush' = flush /\ stored' = stored /\ noted' = noted
    BY <1>5 DEF AskBudget
  <2>4. FlushCarriesDebt'
    <3>1. CASE Flushing = {}
      BY <2>3, <3>1 DEF Flushing, FlushCarriesDebt
    <3>2. CASE dayOf[i] = utcDay
      <4>1. local' = local /\ flushedAt' = flushedAt /\ dayOf' = dayOf
        BY <2>3, <3>2 DEF Rolled, BudgetShape
      <4> QED
        BY <2>2, <2>3, <4>1 DEF Flushing, FlushCarriesDebt
    <3> QED
      BY <2>1, <3>1, <3>2
  <2>5. NobodyBelievesMore'
    <3>1. \A j \in Meters : \A answer \in asking'[j] :
            answer \in asking[j] \/ answer = [day |-> utcDay, total |-> stored[utcDay]]
      BY <2>3 DEF BudgetShape
    <3> QED
      BY <2>2, <2>3, <3>1, RollKeepsBelief
  <2>6. BooksBalance'
    <3>1. Rolled(local, i) + 0 = Rolled(local, i)
      BY RolledFacts
    <3>2. noted[utcDay] \in Nat
      <4>1. noted[utcDay] \in 0 .. MaxNoted
        BY DEF BudgetShape
      <4> QED
        BY <4>1, MetersFacts
    <3>3. noted' = [noted EXCEPT ![utcDay] = @ + 0]
      <4>1. noted \in [Days -> 0 .. MaxNoted]
        BY DEF BudgetShape
      <4>2. noted[utcDay] + 0 = noted[utcDay]
        BY <3>2
      <4>3. noted = [noted EXCEPT ![utcDay] = noted[utcDay]]
        BY <4>1
      <4> QED
        BY <2>3, <4>2, <4>3
    <3>4. local' = [local EXCEPT ![i] = Rolled(local, i) + 0]
      BY <2>3, <3>1
    <3> QED
      BY <2>2, <2>3, <3>3, <3>4, RollKeepsBooks
  <2> QED
    BY <2>4, <2>5, <2>6
<1>6. ASSUME NEW i \in Meters, TotalArrives(i)
      PROVE  FlushCarriesDebt' /\ NobodyBelievesMore' /\ BooksBalance'
  <2>1. PICK answer \in asking[i] :
          /\ asking' = [asking EXCEPT ![i] = {}]
          /\ \/ global' = [global EXCEPT ![i] = answer.total]
                /\ blurred' = (blurred \/ answer.day # dayOf[i])
             \/ UNCHANGED <<global, blurred>>
          /\ UNCHANGED <<utcDay, dayOf, local, flushedAt, stored, flush, noted>>
    BY <1>6 DEF TotalArrives
  <2>2. /\ ~blurred
        /\ \/ global' = [global EXCEPT ![i] = answer.total] /\ answer.day = dayOf[i]
           \/ global' = global
    BY <2>1 DEF BudgetShape
  <2>3. FlushCarriesDebt /\ NobodyBelievesMore /\ BooksBalance
    BY <2>2 DEF BudgetInv
  <2>4. FlushCarriesDebt' /\ BooksBalance'
    BY <2>1, <2>3, SameBooks DEF FlushCarriesDebt, Flushing
  <2>5. answer.total <= stored[answer.day]
    BY <2>3 DEF NobodyBelievesMore
  <2>6. \A j \in Meters : global'[j] <= stored[dayOf[j]]
    BY <2>2, <2>3, <2>5 DEF NobodyBelievesMore, BudgetShape
  <2>7. \A j \in Meters : asking'[j] \subseteq asking[j]
    BY <2>1 DEF BudgetShape
  <2>8. NobodyBelievesMore'
    BY <2>1, <2>3, <2>6, <2>7 DEF NobodyBelievesMore
  <2> QED
    BY <2>4, <2>8
<1>7. ASSUME Midnight
      PROVE  FlushCarriesDebt' /\ NobodyBelievesMore' /\ BooksBalance'
  <2>1. UNCHANGED <<dayOf, local, flushedAt, global, asking, stored, flush, noted, blurred>>
    BY <1>7 DEF Midnight, isolateVars
  <2>2. FlushCarriesDebt /\ NobodyBelievesMore /\ BooksBalance
    BY <2>1 DEF BudgetInv
  <2> QED
    BY <2>1, <2>2, SameBooks DEF FlushCarriesDebt, Flushing, NobodyBelievesMore
<1> QED
  BY <1>1, <1>2, <1>3, <1>4, <1>5, <1>6, <1>7 DEF BudgetNext

\* What the model sums up is the count of the units owed.
LEMMA UnflushedIsOwed ==
  ASSUME BudgetShape, NEW d \in Days
  PROVE  Unflushed(d) = CountOf(OwedOn(d), Meters)
<1> DEFINE S == {i \in Meters : dayOf[i] = d}
           f == OwedOn(d)
           Owing(iter) == iter = [s \in SUBSET S |->
             IF s = {} THEN 0 ELSE (local[Pick(s)] - flushedAt[Pick(s)]) + iter[s \ {Pick(s)}]]
           sum == CHOOSE iter : Owing(iter)
<1>1. Unflushed(d) = sum[S]
  BY DEF Unflushed, MapThenSumSet, MapThenFoldSet, Pick
<1>2. \A i \in S : f[i] = local[i] - flushedAt[i] /\ f[i] \in Nat
  BY OwedFacts
<1>3. \A s \in SUBSET S : s # {} => Pick(s) \in S
  BY DEF Pick
<1>4. IsFiniteSet(S) /\ S \in SUBSET Meters
  BY MetersFacts, FS_Subset
<1>5. \A i \in Meters \ S : f[i] = 0
  BY OwedFacts
<1> HIDE DEF f, S
<1>6. ASSUME NEW iter
      PROVE  Owing(iter) <=> Sums(f, S, iter)
  <2>1. \A s \in SUBSET S : s # {} => f[Pick(s)] = local[Pick(s)] - flushedAt[Pick(s)]
    BY <1>2, <1>3
  <2>2. \A s \in SUBSET S :
          (IF s = {} THEN 0 ELSE (local[Pick(s)] - flushedAt[Pick(s)]) + iter[s \ {Pick(s)}])
            = IF s = {} THEN 0 ELSE f[Pick(s)] + iter[s \ {Pick(s)}]
    BY <2>1
  <2>3. [s \in SUBSET S |->
            IF s = {} THEN 0 ELSE (local[Pick(s)] - flushedAt[Pick(s)]) + iter[s \ {Pick(s)}]]
          = [s \in SUBSET S |-> IF s = {} THEN 0 ELSE f[Pick(s)] + iter[s \ {Pick(s)}]]
    BY <2>2
  <2> QED
    BY <2>3 DEF Sums
<1>7. Owing(sum)
  <2>1. \E iter : Sums(f, S, iter)
    BY <1>2, <1>4, SumExists
  <2>2. \E iter : Owing(iter)
    BY <1>6, <2>1
  <2> QED
    BY <2>2
<1>8. Sums(f, S, sum)
  BY <1>6, <1>7
<1> HIDE DEF sum
<1>9. sum[S] = CountOf(f, S)
  BY <1>2, <1>4, <1>8, SumsCount
<1>10. CountOf(f, Meters) = CountOf(f, S)
  BY <1>4, <1>5, CountSupport
<1> QED
  BY <1>1, <1>9, <1>10 DEF f

LEMMA BudgetIsExact == BudgetInv => ExactWithoutOverlap
<1> SUFFICES ASSUME BudgetInv PROVE ExactWithoutOverlap
  OBVIOUS
<1> BudgetShape
  BY DEF BudgetInv
<1>1. BudgetTypeOK
  <2>1. {local, flushedAt, global} \subseteq [Meters -> Int]
    <3>1. local \in [Meters -> Nat] /\ flushedAt \in [Meters -> Nat] /\ global \in [Meters -> Nat]
      BY DEF BudgetShape
    <3>2. \A h \in [Meters -> Nat] : h \in [Meters -> Int]
      OBVIOUS
    <3> QED
      BY <3>1, <3>2
  <2>2. ASSUME NEW f \in Flushes
        PROVE  /\ flush[f].step \in {"idle", "get", "put"} /\ flush[f].of \in Meters
               /\ flush[f].delta \in Nat /\ flush[f].cur \in Nat
    BY DEF BudgetShape, FlushSteps
  <2> QED
    BY <2>1, <2>2 DEF BudgetTypeOK, BudgetShape
<1>2. ASSUME ~blurred, NEW d \in Days, \A i \in Meters : dayOf[i] = d
      PROVE  stored[d] + Unflushed(d) = noted[d]
  <2>1. ~ \E i \in Meters : dayOf[i] > d
    BY <1>2, MetersFacts
  <2> QED
    BY <1>2, <2>1, UnflushedIsOwed DEF BudgetInv, BooksBalance
<1>3. ASSUME ~blurred, NEW i \in Meters
      PROVE  Estimate(i) <= noted[dayOf[i]]
  <2> DEFINE d == dayOf[i]
             f == OwedOn(d)
  <2>1. d \in Days
    BY DEF BudgetShape
  <2>2. global[i] <= stored[d] /\ stored[d] + CountOf(f, Meters) <= noted[d]
    BY <1>3, <2>1 DEF BudgetInv, NobodyBelievesMore, BooksBalance
  <2>3. f[i] = local[i] - flushedAt[i] /\ f[i] \in Nat /\ \A j \in Meters : f[j] \in Nat
    BY OwedFacts
  <2>4. global[i] \in Nat /\ stored[d] \in Nat /\ noted[d] \in Int
    BY <2>1 DEF BudgetShape
  <2>5. CountOf(f, Meters) = f[i] + CountOf(f, Meters \ {i}) /\ CountOf(f, Meters \ {i}) \in Nat
    <3> HIDE DEF f
    <3> QED
      BY <2>3, MetersFacts, CountJoin
  <2>6. Estimate(i) = global[i] + f[i]
    BY <2>3 DEF Estimate
  <2> HIDE DEF f, d
  <2>7. Estimate(i) <= noted[d]
    BY <2>2, <2>3, <2>4, <2>5, <2>6
  <2> QED
    BY <2>7 DEF d
<1> QED
  BY <1>1, <1>2, <1>3 DEF ExactWithoutOverlap

LEMMA AccessStepsBudget == [AccessNext]_accessVars => [BudgetNext]_budgetVars
  BY DEF AccessNext, accessVars

(***************************************************************************)
(* The day's total is exact while nothing falls into a flush, for any      *)
(* isolates, flushes, sizes of requests and days.                          *)
(***************************************************************************)
THEOREM BudgetStaysExact == AccessSpec => []ExactWithoutOverlap
<1>1. AccessInit => BudgetInv
  BY BudgetStarts DEF AccessInit
<1>2. BudgetInv /\ [AccessNext]_accessVars => BudgetInv'
  <2> SUFFICES ASSUME BudgetInv, [AccessNext]_accessVars PROVE BudgetInv'
    OBVIOUS
  <2>1. [BudgetNext]_budgetVars
    BY AccessStepsBudget
  <2>2. CASE UNCHANGED budgetVars
    <3>1. UNCHANGED <<utcDay, dayOf, local, flushedAt, global, asking, stored, flush, noted, blurred>>
      BY <2>2 DEF budgetVars, isolateVars
    <3>2. BudgetShape'
      BY <3>1 DEF BudgetInv, BudgetShape
    <3>3. ~blurred => FlushCarriesDebt' /\ NobodyBelievesMore' /\ BooksBalance'
      BY <3>1, SameBooks DEF BudgetInv, FlushCarriesDebt, Flushing, NobodyBelievesMore
    <3> QED
      BY <3>1, <3>2, <3>3 DEF BudgetInv
  <2> QED
    BY <2>1, <2>2, BudgetStep
<1> QED
  BY <1>1, <1>2, BudgetIsExact, PTL DEF AccessSpec
==============================================================================
