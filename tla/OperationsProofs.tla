--------------------------- MODULE OperationsProofs ---------------------------
(***************************************************************************)
(* What the crons and the console keep between their steps: wallet keys    *)
(* and what a stake buys, the snapshot pointer, the chain of receipts, the *)
(* paging of transitions, the bid table and the warehouse, for any number  *)
(* of runs and any limits.                                                 *)
(***************************************************************************)
EXTENDS Operations, FiniteSums

-----------------------------------------------------------------------------
(***************************************************************************)
(* What a stake buys (WalletKeys).  A stake is cut into the tiers of       *)
(* PerMor; within one the caps are linear, and the lemmas show that each   *)
(* is monotone where it passes from one into the next.                     *)
(***************************************************************************)

\* A tier never buys fewer requests for a MOR than the one below it.
LEMMA TiersClimb ==
  ASSUME NEW s \in Nat, NEW t \in Nat, s <= t
  PROVE  /\ PerMor(s) \in {1000, 1500, 2000, 2500}
         /\ PerMor(s) <= PerMor(t)
  BY DEF PerMor, MOR

\* Floors of tenths and of twentieths keep the order.
LEMMA FloorsKeepOrder ==
  ASSUME NEW a \in Nat, NEW b \in Nat, a <= b
  PROVE  /\ a \div 10 \in Nat /\ a \div 10 <= b \div 10
         /\ a \div 20 \in Nat /\ a \div 20 <= b \div 20
  OBVIOUS

\* The burst lies between the connected tier and its ceiling, and grows with the stake.
LEMMA BurstClimbs ==
  ASSUME NEW s \in Nat, NEW t \in Nat, s <= t
  PROVE  /\ BurstFor(s) \in CONNECTED_CAPS.burst .. BURST_MAX
         /\ BurstFor(s) <= BurstFor(t)
<1>1. /\ (BURST_PER_MOR * s) \div MOR \in Nat
      /\ (BURST_PER_MOR * s) \div MOR <= (BURST_PER_MOR * t) \div MOR
      /\ (BURST_PER_MOR * t) \div MOR \in Nat
  BY FloorsKeepOrder DEF BURST_PER_MOR, MOR
<1> QED
  BY <1>1 DEF BurstFor, BURST_MAX, CONNECTED_CAPS

\* The product of a stake and its tier keeps the order of the stakes.
LEMMA ProductClimbs ==
  ASSUME NEW s \in Nat, NEW t \in Nat, s <= t
  PROVE  /\ s * PerMor(s) \in Nat /\ t * PerMor(t) \in Nat
         /\ s * PerMor(s) <= t * PerMor(t)
<1> DEFINE p == PerMor(s)
           q == PerMor(t)
<1>1. /\ p \in {1000, 1500, 2000, 2500}
      /\ q \in {1000, 1500, 2000, 2500}
      /\ p <= q
  BY TiersClimb
<1> HIDE DEF p, q
<1>2. s * p \in Nat /\ t * q \in Nat /\ s * p <= t * q
  BY <1>1
<1> QED
  BY <1>2 DEF p, q

\* Below 100 MOR the month is the connected tier's; from there on it is larger, and grows.
LEMMA MonthClimbs ==
  ASSUME NEW s \in Nat, NEW t \in Nat, s <= t
  PROVE  /\ MonthlyFor(s) \in Nat /\ MonthlyFor(t) \in Nat
         /\ CONNECTED_CAPS.monthly <= MonthlyFor(s)
         /\ MonthlyFor(s) <= MonthlyFor(t)
         /\ s >= 100 * MOR => MonthlyFor(s) >= 100000
<1>1. ASSUME NEW x \in Nat
      PROVE  /\ (x * PerMor(x)) \div 10 \in Nat
             /\ x >= 1000 => (x * PerMor(x)) \div 10 >= 100000
  <2> DEFINE p == PerMor(x)
  <2>1. p \in {1000, 1500, 2000, 2500}
    BY TiersClimb
  <2> HIDE DEF p
  <2>2. (x * p) \div 10 \in Nat /\ (x >= 1000 => (x * p) \div 10 >= 100000)
    BY <2>1
  <2> QED
    BY <2>2 DEF p
<1>2. (s * PerMor(s)) \div 10 <= (t * PerMor(t)) \div 10
  BY ProductClimbs, FloorsKeepOrder
<1>3. MonthlyFor(s) = IF s < 1000 THEN 40000 ELSE (s * PerMor(s)) \div 10
  BY DEF MonthlyFor, MOR, CONNECTED_CAPS
<1>4. MonthlyFor(t) = IF t < 1000 THEN 40000 ELSE (t * PerMor(t)) \div 10
  BY DEF MonthlyFor, MOR, CONNECTED_CAPS
<1>5. CONNECTED_CAPS.monthly = 40000 /\ 100 * MOR = 1000
  BY DEF CONNECTED_CAPS, MOR
<1>6. CASE s < 1000
  BY <1>1, <1>3, <1>4, <1>5, <1>6
<1>7. CASE s >= 1000
  BY <1>1, <1>2, <1>3, <1>4, <1>5, <1>7
<1> QED
  BY <1>6, <1>7

\* So does the day, a twentieth of the month.
LEMMA DayClimbs ==
  ASSUME NEW s \in Nat, NEW t \in Nat, s <= t
  PROVE  /\ CONNECTED_CAPS.daily <= DailyFor(s)
         /\ DailyFor(s) <= DailyFor(t)
<1>1. /\ MonthlyFor(s) \in Nat /\ MonthlyFor(t) \in Nat
      /\ MonthlyFor(s) <= MonthlyFor(t)
      /\ s >= 100 * MOR => MonthlyFor(s) >= 100000
      /\ t >= 100 * MOR => MonthlyFor(t) >= 100000
  BY MonthClimbs
<1>2. MonthlyFor(s) \div 20 <= MonthlyFor(t) \div 20
  BY <1>1, FloorsKeepOrder
<1>3. ASSUME NEW m \in Nat, m >= 100000
      PROVE  m \div 20 \in Nat /\ m \div 20 >= 2000
  BY <1>3
<1> QED
  BY <1>1, <1>2, <1>3 DEF DailyFor, CONNECTED_CAPS, MOR

\* The early return for no stake gives what the rest would.
LEMMA NoStakeIsConnected ==
  CONNECTED_CAPS = [burst |-> BurstFor(0), daily |-> DailyFor(0), monthly |-> MonthlyFor(0)]
<1>1. BurstFor(0) = 60
  BY DEF BurstFor, BURST_PER_MOR, BURST_MAX, CONNECTED_CAPS, MOR
<1>2. DailyFor(0) = 2000 /\ MonthlyFor(0) = 40000
  BY DEF DailyFor, MonthlyFor, CONNECTED_CAPS, MOR
<1> QED
  BY <1>1, <1>2 DEF CONNECTED_CAPS

(***************************************************************************)
(* "A small stake can never LOWER your burst" (stake-tier.ts), nor any     *)
(* other cap, and none of them falls as the stake grows, whatever stakes    *)
(* there may be.                                                           *)
(***************************************************************************)
THEOREM StakeNeverLowers == StakeBuysCaps
<1> SUFFICES ASSUME NEW s \in Stakes, NEW more \in Stakes
             PROVE  /\ AtMost(CONNECTED_CAPS, CapsOf(s))
                    /\ s <= more => AtMost(CapsOf(s), CapsOf(more))
  BY DEF StakeBuysCaps
<1>1. s \in Nat /\ more \in Nat
  BY WalletAssumption
<1>0. CapsOf(s) = [burst |-> BurstFor(s), daily |-> DailyFor(s), monthly |-> MonthlyFor(s)]
      /\ CapsOf(more) = [burst |-> BurstFor(more), daily |-> DailyFor(more), monthly |-> MonthlyFor(more)]
  BY <1>1, NoStakeIsConnected DEF CapsOf, capsForStake
<1>2. AtMost(CONNECTED_CAPS, CapsOf(s))
  <2>1. /\ CONNECTED_CAPS.burst <= BurstFor(s) /\ CONNECTED_CAPS.daily <= DailyFor(s)
        /\ CONNECTED_CAPS.monthly <= MonthlyFor(s)
    BY <1>1, BurstClimbs, DayClimbs, MonthClimbs
  <2> QED
    BY <1>0, <2>1 DEF AtMost
<1>3. ASSUME s <= more
      PROVE  AtMost(CapsOf(s), CapsOf(more))
  <2>1. /\ BurstFor(s) <= BurstFor(more) /\ DailyFor(s) <= DailyFor(more)
        /\ MonthlyFor(s) <= MonthlyFor(more)
    BY <1>1, <1>3, BurstClimbs, DayClimbs, MonthClimbs
  <2> QED
    BY <1>0, <2>1 DEF AtMost
<1> QED
  BY <1>2, <1>3

(***************************************************************************)
(* The key row and the calls on it (WalletKeys).  A sweep that is clean    *)
(* has the stake of now, and where it found the caps right they are right  *)
(* still; from there on every write in flight is of that stake.            *)
(***************************************************************************)
CapsAreRight == account.key # NoKey => account.caps = CapsOf(stake)
CleanSweeps  ==
  \A w \in clean :
    /\ sweepStep[w] = "write" /\ sweepRow[w].stake = stake
    /\ sweepRow[w].caps = CapsOf(stake) => CapsAreRight
NoneMet   == settled \/ clean # {} => NoneOutdated
WalletInv == WalletTypeOK /\ CleanSweeps /\ NoneMet /\ SettledCapsStay

LEMMA CapsAreCaps == ASSUME NEW s \in Nat PROVE CapsOf(s) \in Caps
<1>1. BurstFor(s) \in Nat
  BY BurstClimbs DEF BURST_MAX, CONNECTED_CAPS
<1>2. MonthlyFor(s) \in Nat /\ (s >= 100 * MOR => MonthlyFor(s) >= 100000)
  BY MonthClimbs
<1>3. DailyFor(s) \in Nat
  <2>1. MonthlyFor(s) \div 20 \in Nat
    BY <1>2
  <2> QED
    BY <2>1 DEF DailyFor, CONNECTED_CAPS
<1>4. CONNECTED_CAPS \in Caps
  BY DEF CONNECTED_CAPS, Caps
<1> QED
  BY <1>1, <1>2, <1>3, <1>4 DEF CapsOf, capsForStake, Caps

LEMMA WalletNumbers == Stakes \subseteq Nat /\ MaxStakings \in Nat /\ NoKey \notin Calls
  BY WalletAssumption

LEMMA WalletStarts == WalletInit => WalletInv
<1> SUFFICES ASSUME WalletInit PROVE WalletInv
  OBVIOUS
<1>1. NoCaps \in Caps
  BY DEF NoCaps, Caps
<1>2. /\ account \in [key : Calls \union {NoKey}, caps : Caps]
      /\ callCaps \in [Calls -> Caps] /\ callStep \in [Calls -> CallSteps]
      /\ sweepRow \in [Sweeps -> [caps : Caps, stake : Nat]]
  BY <1>1 DEF WalletInit, Absent, CallSteps
<1>3. WalletTypeOK
  <2>1. signedIn \in BOOLEAN /\ sweepStep \in [Sweeps -> {"idle", "write"}] /\ settled \in BOOLEAN
    BY DEF WalletInit
  <2> QED
    BY <1>2, <2>1, WalletNumbers DEF WalletInit, WalletTypeOK
<1>4. CleanSweeps /\ NoneMet /\ SettledCapsStay
  BY DEF WalletInit, CleanSweeps, NoneMet, SettledCapsStay
<1> QED
  BY <1>3, <1>4 DEF WalletInv

\* The marks of the history keep their types.
LEMMA MarksKeepTypes ==
  WalletTypeOK /\ [WalletNext]_walletVars => clean' \subseteq Sweeps /\ settled' \in BOOLEAN
<1> SUFFICES ASSUME WalletTypeOK, [WalletNext]_walletVars PROVE clean' \subseteq Sweeps /\ settled' \in BOOLEAN
  OBVIOUS
<1> USE DEF WalletTypeOK
<1>1. ASSUME UNCHANGED calmVars PROVE clean' \subseteq Sweeps /\ settled' \in BOOLEAN
  BY <1>1 DEF calmVars
<1>2. ASSUME NEW c \in Calls, NEW found \in Stakes \union {0}, AskRotation(c, found) \/ ReadStake(c, found)
      PROVE  clean' \subseteq Sweeps /\ settled' \in BOOLEAN
  <2>1. FindsStake(found)
    BY <1>2 DEF AskRotation, ReadStake
  <2> QED
    BY <2>1, Zenon DEF FindsStake
<1>3. ASSUME NEW w \in Sweeps, SweepRead(w) \/ SweepWrite(w) PROVE clean' \subseteq Sweeps /\ settled' \in BOOLEAN
  <2>1. (clean' = clean \union {w} \/ clean' = clean \/ clean' = clean \ {w})
        /\ (settled' = settled \/ settled' = (settled \/ w \in clean))
    BY <1>3 DEF SweepRead, SweepWrite
  <2> QED
    BY <2>1
<1>4. ASSUME NEW s \in Stakes, ChangeStake(s) PROVE clean' \subseteq Sweeps /\ settled' \in BOOLEAN
  BY <1>4 DEF ChangeStake
<1>5. ASSUME UNCHANGED walletVars PROVE UNCHANGED calmVars
  BY <1>5 DEF walletVars
<1> QED
  BY <1>1, <1>2, <1>3, <1>4, <1>5
  DEF WalletNext, CallGoesOn, MintChallenge, Expire, Verify, Spend, LookUp, InsertIfAbsent, UpdateCaps,
      AnswerKey, Rotate, Revoke, CallDies

LEMMA WalletTypes == WalletTypeOK /\ [WalletNext]_walletVars => WalletTypeOK'
<1> SUFFICES ASSUME WalletTypeOK, [WalletNext]_walletVars PROVE WalletTypeOK'
  OBVIOUS
<1>m. clean' \subseteq Sweeps /\ settled' \in BOOLEAN
  BY MarksKeepTypes
<1>a. NoCaps \in Caps /\ \A s \in Nat : CapsOf(s) \in Caps
  BY CapsAreCaps DEF NoCaps, Caps
<1>b. stake \in Nat /\ CapsOf(stake) \in Caps /\ CapsOf(0) \in Caps
  BY <1>a, WalletNumbers DEF WalletTypeOK
<1> USE <1>m, WalletNumbers DEF WalletTypeOK, callVars, sweepers, calmVars, Goto, Forgets, CallSteps
<1>1. ASSUME NEW n \in Nonces, MintChallenge(n) \/ Expire(n) PROVE WalletTypeOK'
  BY <1>1 DEF MintChallenge, Expire
<1>2. ASSUME NEW c \in Calls, Verify(c) \/ LookUp(c) \/ AnswerKey(c) \/ CallDies(c) PROVE WalletTypeOK'
  <2>1. CASE Verify(c) \/ LookUp(c)
    BY <2>1 DEF Verify, LookUp
  <2>2. CASE AnswerKey(c)
    BY <2>2 DEF AnswerKey
  <2>3. CASE CallDies(c)
    BY <1>a, <2>3 DEF CallDies
  <2> QED
    BY <1>2, <2>1, <2>2, <2>3
<1>3. ASSUME NEW c \in Calls, NEW found \in Stakes \union {0}, AskRotation(c, found) \/ ReadStake(c, found)
      PROVE  WalletTypeOK'
  BY <1>b, <1>3 DEF AskRotation, ReadStake
<1>4. ASSUME NEW c \in Calls, Revoke(c) PROVE WalletTypeOK'
  BY <1>a, <1>4 DEF Revoke, Absent
<1>5. ASSUME NEW c \in Calls, NEW next \in {"stake", "done"}, Spend(c, next) PROVE WalletTypeOK'
  BY <1>5 DEF Spend
<1>6. ASSUME NEW c \in Calls, InsertIfAbsent(c) \/ UpdateCaps(c) \/ Rotate(c) PROVE WalletTypeOK'
  <2>1. CASE InsertIfAbsent(c)
    BY <1>a, <2>1 DEF InsertIfAbsent
  <2>2. CASE UpdateCaps(c)
    BY <1>a, <2>2 DEF UpdateCaps
  <2>3. CASE Rotate(c)
    BY <1>a, <2>3 DEF Rotate
  <2> QED
    BY <1>6, <2>1, <2>2, <2>3
<1>7. ASSUME NEW w \in Sweeps, SweepRead(w) PROVE WalletTypeOK'
  BY <1>b, <1>7 DEF SweepRead
<1>8. ASSUME NEW w \in Sweeps, SweepWrite(w) PROVE WalletTypeOK'
  <2>1. CapsOf(sweepRow[w].stake) \in Caps
    BY <1>a
  <2> QED
    BY <1>a, <1>8, <2>1 DEF SweepWrite
<1>9. ASSUME NEW s \in Stakes, ChangeStake(s) PROVE WalletTypeOK'
  BY <1>9 DEF ChangeStake
<1>10. ASSUME UNCHANGED walletVars PROVE WalletTypeOK'
  BY <1>10 DEF walletVars
<1> QED
  BY <1>1, <1>2, <1>3, <1>4, <1>5, <1>6, <1>7, <1>8, <1>9, <1>10 DEF WalletNext, CallGoesOn

\* While the stake and the sweeps stay, a step that adds nothing outdated and puts no other caps in the row.
LEMMA CalmIsKept ==
  ASSUME WalletInv, WalletTypeOK', stake' = stake, UNCHANGED <<sweepers, calmVars>>,
         NoneOutdated => NoneOutdated',
         NoneOutdated /\ CapsAreRight => CapsAreRight'
  PROVE  WalletInv'
<1>1. NoneMet'
  BY DEF WalletInv, NoneMet, calmVars
<1>2. CleanSweeps'
  BY DEF WalletInv, NoneMet, CleanSweeps, CapsAreRight, calmVars, sweepers
<1>3. SettledCapsStay'
  BY DEF WalletInv, NoneMet, SettledCapsStay, CapsAreRight, calmVars
<1> QED
  BY <1>1, <1>2, <1>3 DEF WalletInv

\* A step of a call that reads no stake.
LEMMA CallsKeepCalm ==
  ASSUME WalletInv, NEW c \in Calls,
         \/ Verify(c) \/ LookUp(c) \/ AnswerKey(c) \/ CallDies(c) \/ Revoke(c)
         \/ InsertIfAbsent(c) \/ UpdateCaps(c) \/ Rotate(c)
         \/ \E next \in {"stake", "done"} : Spend(c, next),
         WalletTypeOK'
  PROVE  WalletInv'
<1> USE DEF WalletInv, WalletTypeOK, callVars, Goto, Forgets
<1>1. stake' = stake /\ UNCHANGED <<sweepers, calmVars>>
  BY DEF Verify, LookUp, AnswerKey, CallDies, Revoke, InsertIfAbsent, UpdateCaps, Rotate, Spend
<1>2. /\ \A d \in Calls \ {c} : callStep'[d] = callStep[d] /\ callCaps'[d] = callCaps[d]
      /\ callStep'[c] \in {"insert", "update"} => callStep[c] = "look" /\ callCaps'[c] = callCaps[c]
      /\ callStep'[c] \notin {"look", "rotate"}
  BY DEF Verify, LookUp, AnswerKey, CallDies, Revoke, InsertIfAbsent, UpdateCaps, Rotate, Spend
<1>3. NoneOutdated => NoneOutdated'
  BY <1>1, <1>2 DEF NoneOutdated, sweepers
<1>4. ASSUME NoneOutdated, CapsAreRight PROVE CapsAreRight'
  <2>1. CASE InsertIfAbsent(c) \/ UpdateCaps(c) \/ Rotate(c)
    <3>1. callCaps[c] = CapsOf(stake)
      BY <1>4, <2>1 DEF NoneOutdated, InsertIfAbsent, UpdateCaps, Rotate
    <3> QED
      BY <1>1, <1>4, <2>1, <3>1 DEF CapsAreRight, InsertIfAbsent, UpdateCaps, Rotate
  <2>2. CASE Revoke(c)
    BY <2>2 DEF Revoke, Absent, CapsAreRight
  <2>3. CASE UNCHANGED account
    BY <1>1, <1>4, <2>3 DEF CapsAreRight
  <2> QED
    BY <2>1, <2>2, <2>3 DEF Verify, LookUp, AnswerKey, CallDies, Spend
<1> QED
  BY <1>1, <1>3, <1>4, CalmIsKept

\* A stake that is read right adds nothing outdated; one that is not leaves nothing calm.
LEMMA ReadsKeepCalm ==
  ASSUME WalletInv, NEW c \in Calls, NEW found \in Stakes \union {0},
         AskRotation(c, found) \/ ReadStake(c, found), WalletTypeOK'
  PROVE  WalletInv'
<1> USE DEF WalletInv, WalletTypeOK, Goto, FindsStake
<1>1. /\ stake' = stake /\ account' = account /\ UNCHANGED sweepers
      /\ callCaps'[c] = CapsOf(found) /\ callStep'[c] \in {"look", "rotate"}
      /\ \A d \in Calls \ {c} : callStep'[d] = callStep[d] /\ callCaps'[d] = callCaps[d]
      /\ clean' = (IF found = stake THEN clean ELSE {}) /\ settled' = (settled /\ found = stake)
  BY DEF AskRotation, ReadStake
<1>2. CASE found = stake
  <2>1. UNCHANGED calmVars
    BY <1>1, <1>2 DEF calmVars
  <2>2. NoneOutdated => NoneOutdated'
    BY <1>1, <1>2 DEF NoneOutdated, sweepers
  <2>3. CapsAreRight => CapsAreRight'
    BY <1>1 DEF CapsAreRight
  <2> QED
    BY <1>1, <2>1, <2>2, <2>3, CalmIsKept
<1>3. CASE found # stake
  BY <1>1, <1>3 DEF CleanSweeps, NoneMet, SettledCapsStay
<1> QED
  BY <1>2, <1>3

LEMMA SweepReadKeepsCalm ==
  ASSUME WalletInv, NEW w \in Sweeps, SweepRead(w), WalletTypeOK'
  PROVE  WalletInv'
<1> USE DEF WalletInv, WalletTypeOK
<1>1. /\ UNCHANGED <<stake, account, callStep, callCaps, settled>> /\ account.key # NoKey
      /\ sweepStep'[w] = "write" /\ sweepRow'[w] = [caps |-> account.caps, stake |-> stake]
      /\ \A v \in Sweeps \ {w} : sweepStep'[v] = sweepStep[v] /\ sweepRow'[v] = sweepRow[v]
      /\ clean' = IF NoneOutdated THEN clean \union {w} ELSE clean
      /\ sweepStep[w] = "idle"
  BY DEF SweepRead, callVars
<1>2. NoneOutdated => NoneOutdated'
  BY <1>1 DEF NoneOutdated
<1>3. NoneMet'
  BY <1>1, <1>2 DEF NoneMet
<1>4. CleanSweeps'
  <2> SUFFICES ASSUME NEW v \in clean'
               PROVE  /\ sweepStep'[v] = "write" /\ sweepRow'[v].stake = stake
                      /\ sweepRow'[v].caps = CapsOf(stake) => CapsAreRight
    BY <1>1 DEF CleanSweeps, CapsAreRight
  <2>1. CASE v = w
    BY <1>1, <2>1 DEF CapsAreRight
  <2>2. CASE v # w
    BY <1>1, <2>2 DEF CleanSweeps
  <2> QED
    BY <2>1, <2>2
<1>5. SettledCapsStay'
  BY <1>1 DEF SettledCapsStay
<1> QED
  BY <1>3, <1>4, <1>5

LEMMA SweepWriteKeepsCalm ==
  ASSUME WalletInv, NEW w \in Sweeps, SweepWrite(w), WalletTypeOK'
  PROVE  WalletInv'
<1> USE DEF WalletInv, WalletTypeOK
<1>1. /\ UNCHANGED <<stake, callStep, callCaps>> /\ sweepStep[w] = "write"
      /\ account' = IF account.key # NoKey /\ Outdated(sweepRow[w])
                    THEN [account EXCEPT !.caps = CapsOf(sweepRow[w].stake)] ELSE account
      /\ sweepStep'[w] = "idle"
      /\ \A v \in Sweeps \ {w} : sweepStep'[v] = sweepStep[v] /\ sweepRow'[v] = sweepRow[v]
      /\ clean' = clean \ {w} /\ settled' = (settled \/ w \in clean)
  BY DEF SweepWrite, callVars
<1>2. NoneOutdated => NoneOutdated'
  BY <1>1 DEF NoneOutdated
<1>3. NoneMet'
  BY <1>1, <1>2 DEF NoneMet
<1>4. ASSUME NoneOutdated, CapsAreRight PROVE CapsAreRight'
  <2>1. sweepRow[w].stake = stake
    BY <1>1, <1>4 DEF NoneOutdated
  <2> QED
    BY <1>1, <1>4, <2>1 DEF CapsAreRight
<1>5. CleanSweeps'
  <2> SUFFICES ASSUME NEW v \in clean, v # w
               PROVE  /\ sweepStep'[v] = "write" /\ sweepRow'[v].stake = stake
                      /\ sweepRow'[v].caps = CapsOf(stake) => CapsAreRight'
    BY <1>1 DEF CleanSweeps, CapsAreRight
  <2>1. NoneOutdated /\ (sweepRow[v].caps = CapsOf(stake) => CapsAreRight)
    BY DEF NoneMet, CleanSweeps
  <2> QED
    BY <1>1, <1>4, <2>1 DEF CleanSweeps
<1>6. SettledCapsStay'
  <2>1. CASE w \in clean
    <3>1. sweepRow[w].stake = stake /\ (sweepRow[w].caps = CapsOf(stake) => CapsAreRight)
      BY <2>1 DEF CleanSweeps
    <3>2. CASE Outdated(sweepRow[w])
      BY <1>1, <3>1, <3>2 DEF SettledCapsStay
    <3>3. CASE ~Outdated(sweepRow[w])
      BY <1>1, <3>1, <3>3 DEF Outdated, SettledCapsStay, CapsAreRight
    <3> QED
      BY <3>2, <3>3
  <2>2. CASE w \notin clean /\ settled
    BY <1>1, <1>4, <2>2 DEF NoneMet, SettledCapsStay, CapsAreRight
  <2>3. CASE w \notin clean /\ ~settled
    BY <1>1, <2>3 DEF SettledCapsStay
  <2> QED
    BY <2>1, <2>2, <2>3
<1> QED
  BY <1>3, <1>5, <1>6

LEMMA WalletStep == WalletInv /\ [WalletNext]_walletVars => WalletInv'
<1> SUFFICES ASSUME WalletInv, [WalletNext]_walletVars PROVE WalletInv'
  OBVIOUS
<1>0. WalletTypeOK'
  BY WalletTypes DEF WalletInv
<1>1. ASSUME NEW n \in Nonces, MintChallenge(n) \/ Expire(n) PROVE WalletInv'
  BY <1>0, <1>1 DEF MintChallenge, Expire, WalletInv, CleanSweeps, NoneMet, NoneOutdated, SettledCapsStay,
                    CapsAreRight, callVars, sweepers, calmVars
<1>2. ASSUME NEW s \in Stakes, ChangeStake(s) PROVE WalletInv'
  BY <1>0, <1>2 DEF ChangeStake, WalletInv, CleanSweeps, NoneMet, SettledCapsStay
<1>3. ASSUME UNCHANGED walletVars PROVE WalletInv'
  BY <1>0, <1>3 DEF walletVars, WalletInv, CleanSweeps, NoneMet, NoneOutdated, SettledCapsStay,
                    CapsAreRight, callVars, sweepers, calmVars
<1> QED
  BY <1>0, <1>1, <1>2, <1>3, CallsKeepCalm, ReadsKeepCalm, SweepReadKeepsCalm, SweepWriteKeepsCalm
  DEF WalletNext, CallGoesOn

LEMMA OpsStepsWallet == [OpsNext]_opsVars => [WalletNext]_walletVars
  BY DEF OpsNext, opsVars, AlertScene, WalletScene, SnapshotScene, ReceiptScene, MarketScene, CopyScene, PulseScene

(***************************************************************************)
(* A sweep that met nothing outdated leaves the caps at what the stake     *)
(* buys, and there they stay until the stake changes or a read of it fails,*)
(* whatever tabs, rotations, revocations and sweeps interleave, for every  *)
(* set of stakes.                                                          *)
(***************************************************************************)
THEOREM KeysStaySound == OpsSpec => []KeysAreSound
<1>1. OpsInit => WalletInv
  BY WalletStarts DEF OpsInit
<1>2. WalletInv /\ [OpsNext]_opsVars => WalletInv'
  BY WalletStep, OpsStepsWallet
<1>3. WalletInv => KeysAreSound
  BY DEF WalletInv, KeysAreSound
<1> QED
  BY <1>1, <1>2, <1>3, PTL DEF OpsSpec
-----------------------------------------------------------------------------
(***************************************************************************)
(* The snapshot pointer (Snapshots).  What the prune has listed is past    *)
(* keeping, and an object that was put and is not pointed at yet is there  *)
(* or past keeping, so that the pointer is never moved to a young object   *)
(* that is gone.                                                           *)
(***************************************************************************)
DoomedAreOld == \A t \in doomed : PastKeeping(t)
PutIsKept    == \A p \in Publishers : pubStep[p] = "pointer" => pubTs[p] \in bucket \/ PastKeeping(pubTs[p])
SnapshotInv  == PointerResolves /\ DoomedAreOld /\ PutIsKept

LEMMA SnapshotNumbers == KEEP \in Nat /\ MaxTime \in Nat /\ NoPointer \notin Nat
  BY SnapshotAssumption

LEMMA SnapshotStarts == SnapshotInit => SnapshotInv
  BY SnapshotNumbers DEF SnapshotInit, SnapshotInv, PointerResolves, SnapshotTypeOK, DoomedAreOld, PutIsKept

LEMMA SnapshotStep == SnapshotInv /\ [SnapshotNext]_snapshotVars => SnapshotInv'
<1> SUFFICES ASSUME SnapshotInv, [SnapshotNext]_snapshotVars PROVE SnapshotInv'
  OBVIOUS
<1> USE SnapshotNumbers DEF SnapshotInv, PointerResolves, SnapshotTypeOK, DoomedAreOld, PutIsKept, PastKeeping
<1>1. ASSUME NEW p \in Publishers, BeginSnapshot(p) PROVE SnapshotInv'
  BY <1>1 DEF BeginSnapshot, Turn
<1>2. ASSUME NEW p \in Publishers, SignSnapshot(p) PROVE SnapshotInv'
  BY <1>2 DEF SignSnapshot, Turn
<1>3. ASSUME NEW p \in Publishers, PutObject(p) PROVE SnapshotInv'
  BY <1>3 DEF PutObject, Turn
<1>4. ASSUME NEW p \in Publishers, PutPointer(p) PROVE SnapshotInv'
  BY <1>4 DEF PutPointer, Turn
<1>5. ASSUME NEW p \in Publishers, SnapshotFails(p) PROVE SnapshotInv'
  BY <1>5 DEF SnapshotFails
<1>6. ASSUME NEW t \in bucket, NEW gone \in BOOLEAN, PruneDeletes(t, gone) PROVE SnapshotInv'
  BY <1>6 DEF PruneDeletes, pubVars
<1>7. ASSUME PruneLists PROVE SnapshotInv'
  BY <1>7 DEF PruneLists, pubVars
<1>8. ASSUME NamesChange PROVE SnapshotInv'
  BY <1>8 DEF NamesChange, pubVars
<1>9. ASSUME TimePasses PROVE SnapshotInv'
  BY <1>9 DEF TimePasses, pubVars
<1>10. ASSUME UNCHANGED snapshotVars PROVE SnapshotInv'
  BY <1>10 DEF snapshotVars, pubVars
<1> QED
  BY <1>1, <1>2, <1>3, <1>4, <1>5, <1>6, <1>7, <1>8, <1>9, <1>10 DEF SnapshotNext

LEMMA OpsStepsSnapshots == [OpsNext]_opsVars => [SnapshotNext]_snapshotVars
  BY DEF OpsNext, opsVars, AlertScene, WalletScene, SnapshotScene, ReceiptScene, MarketScene, CopyScene, PulseScene

(***************************************************************************)
(* Whatever fails, overlaps or is pruned, a pointer younger than the age   *)
(* of the prune names an object of the bucket, for any number of           *)
(* publications and any age.                                               *)
(***************************************************************************)
THEOREM PointerHolds == OpsSpec => []PointerResolves
<1>1. OpsInit => SnapshotInv
  BY SnapshotStarts DEF OpsInit
<1>2. SnapshotInv /\ [OpsNext]_opsVars => SnapshotInv'
  BY SnapshotStep, OpsStepsSnapshots
<1>3. SnapshotInv => PointerResolves
  BY DEF SnapshotInv
<1> QED
  BY <1>1, <1>2, <1>3, PTL DEF OpsSpec
-----------------------------------------------------------------------------
(***************************************************************************)
(* The chain of receipts (ReceiptChain).  While no run has stumbled there  *)
(* is one run at most; what it has yet to mark carries no root, what it    *)
(* has marked carries its own, and neither it nor a signed root knows a    *)
(* receipt that was never stored.                                          *)
(***************************************************************************)
Recorded      == receipts \union pruned
GoneForGood == receipts \cap pruned = {}
OneChains   == \A c, d \in Chainers : chainStep[c] = "mark" /\ chainStep[d] = "mark" => c = d
RootsStored == \A root \in attested : root \subseteq Recorded
MarksInTurn == \A c \in Chainers : chainStep[c] = "mark" =>
  /\ batch[c] \subseteq Recorded
  /\ \A r \in toMark[c] : r \in pruned \/ rootOf[r] = {}
  /\ \A r \in batch[c] \ toMark[c] : r \in pruned \/ rootOf[r] = batch[c]
ChainInv    ==
  /\ ChainTypeOK /\ GoneForGood
  /\ stumbles = 0 => OneChains /\ RootsStored /\ MarksInTurn /\ AttestedCarryRoot

LEMMA ChainStarts == ChainInit => ChainInv
<1> SUFFICES ASSUME ChainInit PROVE ChainInv
  OBVIOUS
<1>1. ChainTypeOK
  BY ChainAssumption DEF ChainInit, ChainTypeOK
<1> QED
  BY <1>1 DEF ChainInit, ChainInv, GoneForGood, OneChains, RootsStored, MarksInTurn, AttestedCarryRoot

LEMMA OldestAreAmong == ASSUME NEW n, NEW S PROVE Oldest(n, S) \subseteq S
  BY DEF Oldest

LEMMA ChainStep == ChainInv /\ [ChainNext]_chainVars => ChainInv'
<1> SUFFICES ASSUME ChainInv, [ChainNext]_chainVars PROVE ChainInv'
  OBVIOUS
<1>0. stumbles \in Nat
  BY DEF ChainInv, ChainTypeOK
<1> USE DEF ChainInv, GoneForGood, Recorded
<1>1. ASSUME NEW r \in Receipts, NEW kept \in BOOLEAN, SignResponse(r, kept) PROVE ChainInv'
  <2>1. ChainTypeOK' /\ GoneForGood'
    BY <1>1 DEF SignResponse, ChainTypeOK
  <2>2. (stumbles = 0 => OneChains /\ RootsStored /\ MarksInTurn /\ AttestedCarryRoot)'
    BY <1>1 DEF SignResponse, OneChains, RootsStored, MarksInTurn, AttestedCarryRoot
  <2> QED
    BY <2>1, <2>2
<1>2. ASSUME NEW r \in Receipts, PruneReceipts(r) PROVE ChainInv'
  <2>a. receipts \subseteq Receipts /\ pruned \subseteq Receipts /\ receipts \subseteq signed
    BY DEF ChainTypeOK
  <2>b. \A q \in Receipts : (q < r) # (q >= r)
    BY ChainAssumption
  <2>1. ChainTypeOK' /\ GoneForGood'
    <3>1. rootOf' \in [Receipts -> SUBSET Receipts]
      BY <1>2 DEF PruneReceipts, ChainTypeOK
    <3>2. receipts' \subseteq receipts /\ pruned' \subseteq signed /\ receipts' \cap pruned' = {}
      BY <1>2, <2>a, <2>b DEF PruneReceipts, ChainTypeOK
    <3> QED
      BY <1>2, <2>a, <3>1, <3>2 DEF PruneReceipts, ChainTypeOK
  <2>2. Recorded' = Recorded
    BY <1>2, <2>a, <2>b DEF PruneReceipts
  <2>3. \A q \in Recorded : q \notin pruned' => q \notin pruned /\ rootOf'[q] = rootOf[q]
    BY <1>2, ChainAssumption DEF PruneReceipts, ChainTypeOK
  <2>4. \A q \in Receipts : rootOf[q] = {} => rootOf'[q] = {}
    BY <1>2 DEF PruneReceipts
  <2>5. \A q \in pruned : q \in pruned'
    BY <1>2 DEF PruneReceipts
  <2>6. (stumbles = 0 => OneChains /\ RootsStored /\ MarksInTurn)'
    <3> SUFFICES ASSUME stumbles = 0, NEW c \in Chainers, chainStep[c] = "mark"
                 PROVE  /\ \A q \in toMark[c] : q \in pruned' \/ rootOf'[q] = {}
                        /\ \A q \in batch[c] \ toMark[c] : q \in pruned' \/ rootOf'[q] = batch[c]
      BY <1>2, <2>2 DEF PruneReceipts, OneChains, RootsStored, MarksInTurn
    <3> QED
      BY <2>2, <2>3, <2>4, <2>5 DEF MarksInTurn, ChainTypeOK
  <2>7. AttestedCarryRoot'
    BY <1>2, <2>2, <2>3, <2>5 DEF PruneReceipts, RootsStored, AttestedCarryRoot
  <2> QED
    BY <2>1, <2>6, <2>7
<1>3. ASSUME NEW c \in Chainers, ReadUnchained(c) PROVE ChainInv'
  <2>1. Oldest(BATCH, Unchained) \subseteq Unchained /\ Unchained \subseteq receipts
    BY OldestAreAmong DEF Unchained
  <2>2. ChainTypeOK' /\ GoneForGood'
    <3>1. stumbles' \in 0 .. MaxStumbles
      BY <1>0, <1>3, ChainAssumption DEF ReadUnchained, ChainTypeOK
    <3>2. Oldest(BATCH, Unchained) \in SUBSET Receipts
      BY <2>1 DEF ChainTypeOK
    <3> QED
      BY <1>3, <3>1, <3>2 DEF ReadUnchained, ChainTypeOK
  <2>3. (stumbles = 0 => OneChains /\ RootsStored /\ MarksInTurn /\ AttestedCarryRoot)'
    <3> SUFFICES ASSUME stumbles' = 0
                 PROVE  (OneChains /\ RootsStored /\ MarksInTurn /\ AttestedCarryRoot)'
      OBVIOUS
    <3>1. stumbles = 0 /\ \A d \in Chainers : chainStep[d] = "idle"
      BY <1>0, <1>3 DEF ReadUnchained
    <3> DEFINE oldest == Oldest(BATCH, Unchained)
    <3>2. oldest \subseteq receipts /\ \A r \in oldest : rootOf[r] = {}
      BY <2>1 DEF Unchained
    <3>3. /\ chainStep' = [chainStep EXCEPT ![c] = "mark"]
          /\ batch' = [batch EXCEPT ![c] = oldest] /\ toMark' = [toMark EXCEPT ![c] = oldest]
          /\ UNCHANGED <<receipts, rootOf, signed, attested, pruned>>
      BY <1>3 DEF ReadUnchained
    <3> HIDE DEF oldest
    <3> QED
      BY <3>1, <3>2, <3>3 DEF OneChains, RootsStored, MarksInTurn, AttestedCarryRoot, ChainTypeOK
  <2> QED
    BY <2>2, <2>3
<1>4. ASSUME NEW c \in Chainers, MarkGroup(c) PROVE ChainInv'
  <2> DEFINE group == Oldest(GROUP, toMark[c])
  <2>1. group \subseteq toMark[c]
    BY OldestAreAmong
  <2>2. ChainTypeOK' /\ GoneForGood'
    BY <1>4, <2>1 DEF MarkGroup, ChainTypeOK
  <2>3. /\ \A q \in Receipts : rootOf'[q] = IF q \in group \cap receipts THEN batch[c] ELSE rootOf[q]
        /\ toMark' = [toMark EXCEPT ![c] = @ \ group]
        /\ chainStep[c] = "mark"
        /\ UNCHANGED <<receipts, signed, attested, chainStep, batch, stumbles, pruned>>
    BY <1>4 DEF MarkGroup
  <2> HIDE DEF group
  <2>4. ASSUME stumbles = 0
        PROVE  (OneChains /\ RootsStored /\ MarksInTurn /\ AttestedCarryRoot)'
    <3>1. OneChains' /\ RootsStored'
      BY <2>3, <2>4 DEF OneChains, RootsStored
    <3>2. MarksInTurn'
      <4> SUFFICES ASSUME NEW d \in Chainers, chainStep[d] = "mark"
                   PROVE  /\ batch[d] \subseteq Recorded
                          /\ \A q \in toMark'[d] : q \in pruned \/ rootOf'[q] = {}
                          /\ \A q \in batch[d] \ toMark'[d] : q \in pruned \/ rootOf'[q] = batch[d]
        BY <2>3 DEF MarksInTurn
      <4>1. d = c
        BY <2>3, <2>4 DEF OneChains
      <4>2. toMark'[c] = toMark[c] \ group /\ toMark[c] \subseteq Receipts /\ batch[c] \subseteq Receipts
        BY <2>3 DEF ChainTypeOK
      <4> QED
        BY <2>1, <2>3, <2>4, <4>1, <4>2 DEF MarksInTurn
    <3>3. AttestedCarryRoot'
      <4> SUFFICES ASSUME NEW root \in attested, NEW r \in root, r \notin pruned
                   PROVE  rootOf'[r] = root
        BY <2>3 DEF AttestedCarryRoot
      <4>1. rootOf[r] = root /\ r \in Receipts
        BY <2>4 DEF AttestedCarryRoot, ChainTypeOK
      <4>2. r \notin toMark[c]
        BY <2>3, <2>4, <4>1 DEF MarksInTurn
      <4> QED
        BY <2>1, <2>3, <4>1, <4>2
    <3> QED
      BY <3>1, <3>2, <3>3
  <2> QED
    BY <2>2, <2>3, <2>4
<1>5. ASSUME NEW c \in Chainers, Attest(c) PROVE ChainInv'
  <2>1. ChainTypeOK' /\ GoneForGood'
    BY <1>5 DEF Attest, ChainTypeOK
  <2>2. (stumbles = 0 => OneChains /\ RootsStored /\ MarksInTurn /\ AttestedCarryRoot)'
    BY <1>5 DEF Attest, OneChains, RootsStored, MarksInTurn, AttestedCarryRoot, ChainTypeOK
  <2> QED
    BY <2>1, <2>2
<1>6. ASSUME NEW c \in Chainers, ChainerDies(c) PROVE ChainInv'
  BY <1>0, <1>6, ChainAssumption DEF ChainerDies, ChainTypeOK
<1>7. ASSUME UNCHANGED chainVars PROVE ChainInv'
  BY <1>7 DEF chainVars, ChainTypeOK, OneChains, RootsStored, MarksInTurn, AttestedCarryRoot
<1> QED
  BY <1>1, <1>2, <1>3, <1>4, <1>5, <1>6, <1>7 DEF ChainNext

LEMMA OpsStepsReceipts == [OpsNext]_opsVars => [ChainNext]_chainVars
  BY DEF OpsNext, opsVars, AlertScene, WalletScene, SnapshotScene, ReceiptScene, MarketScene, CopyScene, PulseScene

(***************************************************************************)
(* A signed root stays with its receipts until they are pruned, for any    *)
(* number of receipts and runs and any sizes of batch and group, as long   *)
(* as no run dies or overtakes another.                                    *)
(***************************************************************************)
THEOREM ReceiptsStay == OpsSpec => []ReceiptsAreKept
<1>1. OpsInit => ChainInv
  BY ChainStarts DEF OpsInit
<1>2. ChainInv /\ [OpsNext]_opsVars => ChainInv'
  BY ChainStep, OpsStepsReceipts
<1>3. ChainInv => ReceiptsAreKept
  BY DEF ChainInv, ReceiptsAreKept, AttestedCarryRoot
<1> QED
  BY <1>1, <1>2, <1>3, PTL DEF OpsSpec
-----------------------------------------------------------------------------
(***************************************************************************)
(* The walk of the warehouse's copy.  Rows only grow older, so a row the   *)
(* walk owes is still in the table, as it was or as it has become; what    *)
(* lies behind the cursor has been shipped, and a page read leaves out no  *)
(* row between the cursor and its last one.                                *)
(***************************************************************************)
Rows        == Keys \X (1 .. Versions)
Ships(r, S) == \E v \in r[2] .. Versions : <<r[1], v>> \in S
CopyTypeOK  ==
  /\ d1 \in [Keys -> 0 .. Versions] /\ unsent \subseteq Keys \X {1}
  /\ bq \subseteq Rows /\ page \subseteq Rows /\ owed \subseteq Rows
  /\ walk \in {"none", "read", "insert", "done"} /\ after \in Keys \union {0}
  /\ refusals \in 0 .. MaxRefusals
OwedRemain   == \A r \in owed : r[2] <= d1[r[1]]
BehindCursor == walk \in {"read", "insert"} /\ keyed => \A r \in owed : r[1] <= after => Ships(r, bq)
PageIsNext   == walk = "insert" =>
  /\ page # {}
  /\ \A r \in owed, p \in page : after < r[1] /\ r[1] <= p[1] => Ships(r, page)
CopyInv == CopyTypeOK /\ OwedRemain /\ BehindCursor /\ PageIsNext /\ WalkShipsAll

LEMMA WarehouseNumbers ==
  /\ Keys \subseteq Nat \ {0} /\ IsFiniteSet(Keys)
  /\ Versions \in Nat /\ Versions > 0 /\ LIMIT \in Nat /\ LIMIT > 0 /\ MaxRefusals \in Nat
  /\ PULSE_AGE \in Nat /\ LAG \in Nat /\ LastPulse \in Nat
  BY WarehouseAssumption

LEMMA TableRows ==
  ASSUME CopyTypeOK
  PROVE  /\ Table \subseteq Rows /\ IsFiniteSet(Rows)
         /\ \A r \in Table : r = <<r[1], d1[r[1]]>>
         /\ \A k \in Keys : d1[k] > 0 => <<k, d1[k]>> \in Table
<1>1. IsFiniteSet(Rows)
  <2>1. IsFiniteSet(1 .. Versions)
    BY WarehouseNumbers, FS_Interval
  <2> QED
    BY <2>1, WarehouseNumbers, FS_Product DEF Rows
<1>2. \A k \in Keys : d1[k] \in 0 .. Versions
  BY DEF CopyTypeOK
<1> QED
  BY <1>1, <1>2, WarehouseNumbers DEF Table, Rows

\* A page holds every row of the table from the cursor to its last one, and is empty only at the end.
LEMMA PagesAreWhole ==
  ASSUME CopyTypeOK, NEW cursor \in Nat
  PROVE  /\ PageAfter(cursor) \subseteq Table
         /\ \A p \in PageAfter(cursor), r \in Table : cursor < r[1] /\ r[1] <= p[1] => r \in PageAfter(cursor)
         /\ PageAfter(cursor) = {} => \A r \in Table : r[1] <= cursor
<1> DEFINE rest    == {r \in Table : r[1] > cursor}
           UpTo(r) == {q \in rest : q[1] <= r[1]}
<1>1. PageAfter(cursor) = {r \in rest : Cardinality(UpTo(r)) <= LIMIT}
  BY DEF PageAfter
<1>2. /\ \A r \in rest : r[1] \in Nat /\ IsFiniteSet(UpTo(r)) /\ Cardinality(UpTo(r)) \in Nat
      /\ rest \subseteq Table
  <2>1. Table \subseteq Rows /\ IsFiniteSet(Rows) /\ \A r \in Rows : r[1] \in Nat
    BY TableRows, WarehouseNumbers DEF Rows
  <2>2. \A r \in rest : UpTo(r) \in SUBSET Rows
    BY <2>1
  <2> QED
    BY <2>1, <2>2, FS_Subset, FS_CardinalityType
<1>3. ASSUME NEW p \in PageAfter(cursor), NEW r \in Table, cursor < r[1], r[1] <= p[1]
      PROVE  r \in PageAfter(cursor)
  <2>1. p \in rest /\ Cardinality(UpTo(p)) <= LIMIT /\ r \in rest
    <3>1. r[1] \in Nat
      BY TableRows, WarehouseNumbers DEF Rows
    <3> QED
      BY <1>1, <1>3, <3>1
  <2>2. UpTo(r) \in SUBSET UpTo(p)
    <3>1. ASSUME NEW q \in rest, q[1] <= r[1] PROVE q[1] <= p[1]
      <4>1. q[1] \in Nat /\ r[1] \in Nat /\ p[1] \in Nat
        BY <1>2, <2>1
      <4> HIDE DEF rest
      <4> QED
        BY <1>3, <3>1, <4>1
    <3> QED
      BY <3>1
  <2>3. Cardinality(UpTo(r)) <= Cardinality(UpTo(p))
    <3> HIDE DEF UpTo
    <3> QED
      BY <1>2, <2>1, <2>2, FS_Subset
  <2>4. Cardinality(UpTo(r)) <= LIMIT
    <3> HIDE DEF UpTo
    <3> QED
      BY <1>2, <2>1, <2>3, WarehouseNumbers
  <2> QED
    BY <1>1, <2>1, <2>4
<1>4. ASSUME PageAfter(cursor) = {}, NEW r \in Table, ~(r[1] <= cursor)
      PROVE  FALSE
  <2> DEFINE keys == {q[1] : q \in rest}
  <2>1. r \in rest
    <3>1. r[1] \in Nat
      BY TableRows, WarehouseNumbers DEF Rows
    <3> QED
      BY <1>4, <3>1
  <2>2. keys \in SUBSET Nat /\ keys # {}
    BY <1>2, <2>1
  <2>3. PICK k \in keys : \A j \in keys : k <= j
    <3> HIDE DEF keys
    <3> QED
      BY <2>2, LeastOfNaturals
  <2>4. PICK first \in rest : k = first[1]
    OBVIOUS
  <2>5. \A q \in rest : q[1] <= first[1] => q = first
    <3> SUFFICES ASSUME NEW q \in rest, q[1] <= first[1] PROVE q = first
      OBVIOUS
    <3>1. q[1] = first[1]
      <4>1. first[1] <= q[1]
        BY <2>3, <2>4
      <4>2. first[1] \in Nat /\ q[1] \in Nat
        BY <1>2
      <4> HIDE DEF rest
      <4> QED
        BY <4>1, <4>2
    <3>2. q = <<q[1], d1[q[1]]>> /\ first = <<first[1], d1[first[1]]>>
      BY TableRows
    <3> HIDE DEF rest
    <3> QED
      BY <3>1, <3>2
  <2>6. UpTo(first) = {first}
    <3>1. first[1] \in Nat
      BY <1>2
    <3>2. first[1] <= first[1]
      BY <3>1
    <3> HIDE DEF rest
    <3> QED
      BY <2>5, <3>2
  <2>7. Cardinality(UpTo(first)) = 1
    BY <2>6, FS_Singleton
  <2> QED
    BY <1>1, <1>4, <2>4, <2>7, WarehouseNumbers
<1> QED
  BY <1>1, <1>3, <1>4

LEMMA NextCursorIsLast ==
  ASSUME CopyTypeOK, page # {}, keyed
  PROVE  NextCursor \in Keys /\ (\E p \in page : NextCursor = p[1]) /\ \A p \in page : p[1] <= NextCursor
<1> DEFINE keys == {r[1] : r \in page}
<1>1. keys \in SUBSET Keys /\ keys # {}
  BY DEF CopyTypeOK, Rows
<1>2. IsFiniteSet(keys) /\ keys \in SUBSET Nat
  <2> HIDE DEF keys
  <2> QED
    BY <1>1, WarehouseNumbers, FS_Subset
<1>3. \E k \in keys : \A j \in keys : j <= k
  <2> HIDE DEF keys
  <2> QED
    BY <1>1, <1>2, GreatestOfNaturals
<1>4. \E k \in keys : \A r \in page : r[1] <= k
  BY <1>3
<1>5. NextCursor = CHOOSE k \in keys : \A r \in page : r[1] <= k
  BY DEF NextCursor
<1>6. NextCursor \in keys /\ \A r \in page : r[1] <= NextCursor
  <2> HIDE DEF keys
  <2> QED
    BY <1>4, <1>5
<1> QED
  BY <1>1, <1>6

LEMMA CopyStarts == WarehouseInit => CopyInv
  BY WarehouseNumbers
  DEF WarehouseInit, CopyInv, CopyTypeOK, Rows, OwedRemain, BehindCursor, PageIsNext, WalkShipsAll

LEMMA CopyStep == CopyInv /\ [CopyNext]_copyVars => CopyInv'
<1> SUFFICES ASSUME CopyInv, [CopyNext]_copyVars PROVE CopyInv'
  OBVIOUS
<1> USE DEF CopyInv
<1>0. CopyTypeOK /\ \A r \in owed : r \in Rows /\ r[1] \in Keys /\ r[1] \in Nat /\ r[1] > 0 /\ r[2] \in Nat
  <2>1. CopyTypeOK /\ owed \subseteq Rows
    BY DEF CopyTypeOK
  <2>2. ASSUME NEW r \in Rows PROVE r[1] \in Keys /\ r[1] \in Nat /\ r[1] > 0 /\ r[2] \in Nat
    <3>1. r[1] \in Keys /\ r[2] \in 1 .. Versions
      BY DEF Rows
    <3>2. r[1] \in Nat \ {0}
      BY <3>1, WarehouseNumbers
    <3>3. r[2] \in Nat
      BY <3>1
    <3> QED
      BY <3>1, <3>2, <3>3
  <2> QED
    BY <2>1, <2>2
<1>1. ASSUME NEW k \in Keys, RowWritten(k) \/ RowChanged(k) PROVE CopyInv'
  <2>1. CopyTypeOK' /\ \A j \in Keys : d1[j] <= d1'[j]
    BY <1>0, <1>1, WarehouseNumbers DEF RowWritten, RowChanged, CopyTypeOK
  <2>2. OwedRemain'
    <3> SUFFICES ASSUME NEW r \in owed PROVE r[2] <= d1'[r[1]]
      BY <1>1 DEF RowWritten, RowChanged, OwedRemain
    <3>1. r[2] <= d1[r[1]] /\ d1[r[1]] <= d1'[r[1]] /\ d1[r[1]] \in Nat /\ d1'[r[1]] \in Nat
      BY <1>0, <2>1, WarehouseNumbers DEF OwedRemain, CopyTypeOK
    <3> QED
      BY <1>0, <3>1
  <2> QED
    BY <1>1, <2>1, <2>2 DEF RowWritten, RowChanged, BehindCursor, PageIsNext, WalkShipsAll, Ships
<1>2. ASSUME NEW taken \in BOOLEAN, ShipLive(taken) PROVE CopyInv'
  <2>1. CopyTypeOK' /\ bq \subseteq bq'
    BY <1>0, <1>2, WarehouseNumbers DEF ShipLive, CopyTypeOK, Rows
  <2> QED
    BY <1>2, <2>1 DEF ShipLive, OwedRemain, BehindCursor, PageIsNext, WalkShipsAll, Ships
<1>3. ASSUME BeginWalk PROVE CopyInv'
  <2>1. CopyTypeOK'
    BY <1>0, <1>3, TableRows DEF BeginWalk, CopyTypeOK
  <2>2. OwedRemain'
    <3> SUFFICES ASSUME NEW r \in Table PROVE r[2] <= d1[r[1]]
      BY <1>3 DEF BeginWalk, OwedRemain
    <3>1. r = <<r[1], d1[r[1]]>> /\ r \in Rows
      BY <1>0, TableRows
    <3>2. r[2] = d1[r[1]] /\ r[2] \in Nat
      BY <3>1, WarehouseNumbers DEF Rows
    <3> QED
      BY <3>2
  <2>3. BehindCursor'
    <3>1. \A r \in owed' : ~(r[1] <= after')
      BY <1>0, <1>3, TableRows, WarehouseNumbers DEF BeginWalk, Rows
    <3> QED
      BY <3>1 DEF BehindCursor
  <2> QED
    BY <1>3, <2>1, <2>2, <2>3 DEF BeginWalk, PageIsNext, WalkShipsAll
<1>4. ASSUME ReadPage PROVE CopyInv'
  <2>1. after \in Nat
    BY <1>0, WarehouseNumbers DEF CopyTypeOK
  <2>2. /\ PageAfter(after) \subseteq Table
        /\ \A p \in PageAfter(after), r \in Table : after < r[1] /\ r[1] <= p[1] => r \in PageAfter(after)
        /\ PageAfter(after) = {} => \A r \in Table : r[1] <= after
    BY <1>0, <2>1, PagesAreWhole
  <2>3. CopyTypeOK'
    BY <1>0, <1>4, <2>2, TableRows DEF ReadPage, CopyTypeOK
  <2>4. ASSUME NEW r \in owed
        PROVE  \E row \in Table : row[1] = r[1] /\ row[2] \in r[2] .. Versions
    <3>1. d1[r[1]] \in 0 .. Versions /\ r[2] <= d1[r[1]] /\ r[2] \in 1 .. Versions
      BY <1>0 DEF CopyTypeOK, OwedRemain, Rows
    <3>2. d1[r[1]] > 0 /\ d1[r[1]] \in r[2] .. Versions
      BY <3>1, WarehouseNumbers
    <3>3. <<r[1], d1[r[1]]>> \in Table
      BY <1>0, <3>2, TableRows
    <3> QED
      BY <3>2, <3>3
  <2>5. PageIsNext'
    <3> SUFFICES ASSUME walk' = "insert"
                 PROVE  /\ page' # {}
                        /\ \A r \in owed, p \in page' : after < r[1] /\ r[1] <= p[1] => Ships(r, page')
      BY <1>4 DEF ReadPage, PageIsNext, Ships
    <3>1. page' = PageAfter(after) /\ page' # {}
      BY <1>4 DEF ReadPage
    <3>2. ASSUME NEW r \in owed, NEW p \in page', after < r[1], r[1] <= p[1]
          PROVE  Ships(r, page')
      <4>1. PICK row \in Table : row[1] = r[1] /\ row[2] \in r[2] .. Versions
        BY <2>4
      <4>2. row \in page'
        BY <2>2, <3>1, <3>2, <4>1
      <4>3. row = <<row[1], row[2]>>
        BY <1>0, <4>1, TableRows DEF Rows
      <4> QED
        BY <4>1, <4>2, <4>3 DEF Ships
    <3> QED
      BY <3>1, <3>2
  <2>6. WalkShipsAll'
    <3> SUFFICES ASSUME walk' = "done", keyed, NEW r \in owed PROVE Ships(r, bq)
      BY <1>4 DEF ReadPage, WalkShipsAll, Ships
    <3>1. PICK row \in Table : row[1] = r[1] /\ row[2] \in r[2] .. Versions
      BY <2>4
    <3>2. r[1] <= after
      BY <1>4, <2>2, <3>1 DEF ReadPage
    <3> QED
      BY <1>4, <3>2 DEF ReadPage, BehindCursor
  <2> QED
    BY <1>4, <2>3, <2>5, <2>6 DEF ReadPage, OwedRemain, BehindCursor, Ships
<1>5. ASSUME PageShipped PROVE CopyInv'
  <2>1. page # {}
    BY <1>5 DEF PageShipped, PageIsNext
  <2>2. NextCursor \in Keys \union {0}
    BY <1>0, <2>1, NextCursorIsLast DEF NextCursor
  <2>3. CopyTypeOK'
    BY <1>0, <1>5, <2>2 DEF PageShipped, CopyTypeOK
  <2>4. ASSUME keyed, NEW r \in owed, r[1] <= NextCursor
        PROVE  Ships(r, bq \union page)
    <3>1. PICK p \in page : NextCursor = p[1]
      BY <1>0, <2>1, <2>4, NextCursorIsLast
    <3>2. CASE r[1] <= after
      BY <1>5, <2>4, <3>2 DEF PageShipped, BehindCursor, Ships
    <3>3. CASE after < r[1]
      BY <1>5, <2>4, <3>1, <3>3 DEF PageShipped, PageIsNext, Ships
    <3>4. after \in Nat
      BY <1>0, WarehouseNumbers DEF CopyTypeOK
    <3> QED
      BY <1>0, <3>2, <3>3, <3>4
  <2>5. BehindCursor'
    BY <1>5, <2>4 DEF PageShipped, BehindCursor, Ships
  <2> QED
    BY <1>5, <2>3, <2>5 DEF PageShipped, OwedRemain, PageIsNext, WalkShipsAll
<1>6. ASSUME NEW taken \in BOOLEAN, PageRefused(taken) PROVE CopyInv'
  <2>1. CopyTypeOK' /\ bq \subseteq bq'
    BY <1>0, <1>6, WarehouseNumbers DEF PageRefused, CursorAfterRefusal, CopyTypeOK
  <2> QED
    BY <1>6, <2>1 DEF PageRefused, CursorAfterRefusal, OwedRemain, BehindCursor, PageIsNext, WalkShipsAll, Ships
<1>7. ASSUME UNCHANGED copyVars PROVE CopyInv'
  BY <1>0, <1>7 DEF copyVars, CopyTypeOK, OwedRemain, BehindCursor, PageIsNext, WalkShipsAll, Ships
<1> QED
  BY <1>1, <1>2, <1>3, <1>4, <1>5, <1>6, <1>7 DEF CopyNext

(***************************************************************************)
(* The pulse.  While no two runs have been under way at once, the stamp is *)
(* no older than the last pulse, and a run that may dump began early       *)
(* enough for it: it read the stamp within LAG of its start, and asks KV    *)
(* for one of the moment it did.                                           *)
(***************************************************************************)
PulseStarts == Nat \union {-1}
PulseTypeOK ==
  /\ pulseNow \in Nat /\ stamp \in -1 .. pulseNow /\ lapped \in BOOLEAN
  /\ run \in [Ticks -> [step : {"idle", "due", "put", "dump"}, start : Nat, asked : Nat]]
  /\ pulses \in PulseStarts \X PulseStarts
OneTick    == \A t, u \in Ticks : run[t].step # "idle" /\ run[u].step # "idle" => t = u
DueInTime  == \A t \in Ticks : run[t].step = "due" => run[t].start <= pulseNow /\ pulseNow - run[t].start <= LAG
StampLeads == pulses[1] <= stamp
AskedInTime == \A t \in Ticks : run[t].step = "put" => run[t].start <= run[t].asked /\ run[t].asked <= pulseNow
DumpsApart == \A t \in Ticks : run[t].step \in {"put", "dump"} =>
  /\ run[t].step = "put" => pulses[1] <= run[t].asked
  /\ run[t].step = "dump" => run[t].start <= stamp
  /\ pulses[1] # -1 => run[t].start - pulses[1] >= PULSE_AGE - LAG
PulseInv == PulseTypeOK /\ DueInTime /\ AskedInTime /\ PulsesSpaced /\ (~lapped => OneTick /\ StampLeads /\ DumpsApart)

LEMMA PulseStartsWell == WarehouseInit => PulseInv
<1> SUFFICES ASSUME WarehouseInit PROVE PulseInv
  OBVIOUS
<1>1. pulseNow = 0 /\ stamp = -1 /\ pulses = <<-1, -1>> /\ lapped = FALSE
  BY DEF WarehouseInit, NoRun
<1>2. run \in [Ticks -> [step : {"idle", "due", "put", "dump"}, start : Nat, asked : Nat]] /\ \A t \in Ticks : run[t].step = "idle"
  BY DEF WarehouseInit, NoRun
<1>3. PulseTypeOK
  <2>1. stamp \in -1 .. pulseNow /\ pulseNow \in Nat
    BY <1>1
  <2>2. pulses \in PulseStarts \X PulseStarts
    BY <1>1 DEF PulseStarts
  <2> QED
    BY <1>1, <1>2, <2>1, <2>2 DEF PulseTypeOK
<1>4. DueInTime /\ AskedInTime /\ OneTick /\ DumpsApart
  BY <1>2 DEF DueInTime, AskedInTime, OneTick, DumpsApart
<1>5. StampLeads /\ PulsesSpaced
  BY <1>1 DEF StampLeads, PulsesSpaced
<1> QED
  BY <1>3, <1>4, <1>5 DEF PulseInv

LEMMA PulseStep == PulseInv /\ [PulseNext]_pulseVars => PulseInv'
<1> SUFFICES ASSUME PulseInv, [PulseNext]_pulseVars PROVE PulseInv'
  OBVIOUS
<1> USE WarehouseNumbers DEF PulseInv
<1>0. /\ PulseTypeOK /\ stamp \in Int /\ pulseNow \in Nat /\ lapped \in BOOLEAN
      /\ \A t \in Ticks : run[t] \in [step : {"idle", "due", "put", "dump"}, start : Nat, asked : Nat]
      /\ pulses = <<pulses[1], pulses[2]>> /\ pulses[1] \in Int /\ pulses[2] \in Int
  BY DEF PulseTypeOK, PulseStarts
<1>1. ASSUME NEW t \in Ticks, TickStarts(t) PROVE PulseInv'
  <2>1. /\ PulseTypeOK' /\ lapped' = (lapped \/ \E u \in Ticks \ {t} : run[u].step # "idle")
        /\ run'[t] = [step |-> "due", start |-> pulseNow, asked |-> 0] /\ \A u \in Ticks \ {t} : run'[u] = run[u]
        /\ UNCHANGED <<pulseNow, stamp, pulses>>
    BY <1>0, <1>1 DEF TickStarts, PulseTypeOK
  <2>2. DueInTime' /\ AskedInTime'
    BY <1>0, <2>1 DEF DueInTime, AskedInTime
  <2>3. PulsesSpaced' /\ (~lapped => StampLeads')
    BY <1>0, <2>1 DEF PulsesSpaced, StampLeads
  <2>4. ASSUME ~lapped' PROVE OneTick' /\ DumpsApart'
    <3>1. \A u \in Ticks : run'[u].step # "idle" => u = t
      BY <2>1, <2>4
    <3>2. run'[t].step \notin {"put", "dump"}
      BY <2>1
    <3> QED
      BY <3>1, <3>2 DEF OneTick, DumpsApart
  <2> QED
    BY <2>1, <2>2, <2>3, <2>4
<1>2. ASSUME NEW t \in Ticks, StampRead(t) PROVE PulseInv'
  <2>1. /\ run[t].step = "due"
        /\ StampIsOld =>
             run'[t].step = "put" /\ run'[t].start = run[t].start /\ run'[t].asked = pulseNow
        /\ ~StampIsOld => run'[t].step = "idle"
        /\ \A u \in Ticks \ {t} : run'[u] = run[u]
        /\ UNCHANGED <<pulseNow, stamp, pulses, lapped>>
    BY <1>0, <1>2 DEF StampRead, NoRun, PulseTypeOK
  <2>2. PulseTypeOK'
    BY <1>0, <1>2, <2>1 DEF StampRead, NoRun, PulseTypeOK
  <2>3. run[t].start \in Nat /\ run[t].start <= pulseNow /\ pulseNow - run[t].start <= LAG
    BY <1>0, <2>1 DEF DueInTime
  <2>4. DueInTime' /\ AskedInTime' /\ PulsesSpaced'
    BY <1>0, <2>1, <2>3 DEF NoRun, DueInTime, AskedInTime, PulsesSpaced
  <2>5. ASSUME ~lapped PROVE OneTick' /\ StampLeads'
    BY <2>1, <2>5 DEF NoRun, OneTick, StampLeads
  <2>6. ASSUME ~lapped PROVE DumpsApart'
    <3> SUFFICES ASSUME NEW u \in Ticks, run'[u].step \in {"put", "dump"}
                 PROVE  /\ run'[u].step = "put" => pulses[1] <= run'[u].asked
                        /\ run'[u].step = "dump" => run'[u].start <= stamp
                        /\ pulses[1] # -1 => run'[u].start - pulses[1] >= PULSE_AGE - LAG
      BY <2>1 DEF DumpsApart
    <3>1. u = t
      BY <2>1, <2>6 DEF OneTick
    <3>2. StampIsOld /\ run'[u].step = "put" /\ run'[u].start = run[t].start /\ run'[u].asked = pulseNow
      BY <2>1, <3>1 DEF NoRun
    <3>3. pulses[1] <= stamp /\ stamp <= pulseNow /\ (pulses[1] # -1 => pulses[1] >= 0)
      BY <1>0, <2>6 DEF StampLeads, PulseTypeOK, PulseStarts
    <3> QED
      BY <1>0, <2>3, <3>2, <3>3 DEF StampIsOld
  <2> QED
    BY <2>1, <2>2, <2>4, <2>5, <2>6
<1>3. ASSUME NEW t \in Ticks, StampNotRead(t) PROVE PulseInv'
  <2>1. /\ run'[t].step = "idle" /\ \A u \in Ticks \ {t} : run'[u] = run[u]
        /\ UNCHANGED <<pulseNow, stamp, pulses, lapped>>
    BY <1>0, <1>3 DEF StampNotRead, PulseEnds, NoRun, PulseTypeOK
  <2>2. PulseTypeOK'
    BY <1>0, <1>3, <2>1 DEF StampNotRead, PulseEnds, NoRun, PulseTypeOK
  <2> QED
    BY <1>0, <2>1, <2>2 DEF DueInTime, AskedInTime, PulsesSpaced, OneTick, StampLeads, DumpsApart
<1>4. ASSUME NEW t \in Ticks, StampPut(t) PROVE PulseInv'
  <2>1. /\ run[t].step = "put" /\ run'[t].step = "dump" /\ run'[t].start = run[t].start
        /\ \A u \in Ticks \ {t} : run'[u] = run[u]
        /\ stamp' = run[t].asked /\ UNCHANGED <<pulseNow, pulses, lapped>>
    BY <1>0, <1>4 DEF StampPut, PulseTypeOK
  <2>2. run[t].start <= run[t].asked /\ run[t].asked <= pulseNow /\ run[t].asked \in Nat
    BY <1>0, <2>1 DEF AskedInTime
  <2>3. PulseTypeOK'
    <3>1. stamp' \in -1 .. pulseNow
      BY <1>0, <2>1, <2>2
    <3>2. run' \in [Ticks -> [step : {"idle", "due", "put", "dump"}, start : Nat, asked : Nat]]
      BY <1>4 DEF StampPut, PulseTypeOK
    <3> QED
      BY <2>1, <3>1, <3>2 DEF PulseTypeOK
  <2>4. DueInTime' /\ AskedInTime' /\ PulsesSpaced'
    BY <1>0, <2>1 DEF DueInTime, AskedInTime, PulsesSpaced
  <2>5. ASSUME ~lapped PROVE OneTick' /\ StampLeads' /\ DumpsApart'
    <3>1. OneTick' /\ \A u \in Ticks : u # t => run'[u].step = "idle"
      BY <2>1, <2>5 DEF OneTick
    <3>2. StampLeads'
      BY <2>1, <2>5 DEF StampLeads, DumpsApart
    <3>3. DumpsApart'
      BY <2>1, <2>2, <2>5, <3>1 DEF DumpsApart
    <3> QED
      BY <3>1, <3>2, <3>3
  <2> QED
    BY <2>1, <2>3, <2>4, <2>5
<1>5. ASSUME NEW t \in Ticks, NEW taken \in BOOLEAN, StampNotPut(t, taken) PROVE PulseInv'
  <2>1. /\ run[t].step = "put" /\ run'[t].step = "idle" /\ \A u \in Ticks \ {t} : run'[u] = run[u]
        /\ stamp' = run[t].asked \/ stamp' = stamp
        /\ UNCHANGED <<pulseNow, pulses, lapped>>
    BY <1>0, <1>5 DEF StampNotPut, PulseEnds, NoRun, PulseTypeOK
  <2>2. run[t].asked <= pulseNow /\ run[t].asked \in Nat
    BY <1>0, <2>1 DEF AskedInTime
  <2>3. PulseTypeOK'
    BY <1>0, <1>5, <2>1, <2>2 DEF StampNotPut, PulseEnds, NoRun, PulseTypeOK
  <2>4. DueInTime' /\ AskedInTime' /\ PulsesSpaced'
    BY <1>0, <2>1 DEF DueInTime, AskedInTime, PulsesSpaced
  <2>5. ASSUME ~lapped PROVE OneTick' /\ StampLeads' /\ DumpsApart'
    <3>1. OneTick' /\ \A u \in Ticks : run'[u].step = "idle"
      BY <2>1, <2>5 DEF OneTick
    <3>2. StampLeads'
      BY <2>1, <2>5 DEF StampLeads, DumpsApart
    <3> QED
      BY <3>1, <3>2 DEF DumpsApart
  <2> QED
    BY <2>1, <2>3, <2>4, <2>5
<1>6. ASSUME NEW t \in Ticks, DumpPulse(t) PROVE PulseInv'
  <2>1. /\ run[t].step = "dump" /\ run'[t].step = "idle" /\ \A u \in Ticks \ {t} : run'[u] = run[u]
        /\ pulses' = <<run[t].start, pulses[1]>> /\ run[t].start \in Nat
        /\ UNCHANGED <<pulseNow, stamp, lapped>>
    BY <1>0, <1>6 DEF DumpPulse, PulseEnds, NoRun, PulseTypeOK
  <2>2. PulseTypeOK'
    BY <1>0, <1>6, <2>1 DEF DumpPulse, PulseEnds, NoRun, PulseTypeOK, PulseStarts
  <2>3. DueInTime' /\ AskedInTime'
    BY <1>0, <2>1 DEF DueInTime, AskedInTime
  <2>4. ASSUME ~lapped PROVE OneTick' /\ StampLeads' /\ DumpsApart' /\ PulsesSpaced'
    <3>1. OneTick' /\ \A u \in Ticks : run'[u].step = "idle"
      BY <2>1, <2>4 DEF OneTick
    <3>2. /\ run[t].start <= stamp
          /\ pulses[1] # -1 => run[t].start - pulses[1] >= PULSE_AGE - LAG
      BY <2>1, <2>4 DEF DumpsApart
    <3> QED
      BY <1>0, <2>1, <3>1, <3>2 DEF StampLeads, DumpsApart, PulsesSpaced
  <2>5. lapped => PulsesSpaced'
    BY <2>1 DEF PulsesSpaced
  <2> QED
    BY <1>0, <2>1, <2>2, <2>3, <2>4, <2>5
<1>7. ASSUME PulseTime PROVE PulseInv'
  <2>1. /\ \A t \in Ticks : run[t].step = "due" => pulseNow - run[t].start < LAG
        /\ pulseNow' = pulseNow + 1 /\ UNCHANGED <<stamp, run, pulses, lapped>>
    BY <1>7 DEF PulseTime
  <2>2. PulseTypeOK'
    BY <1>0, <2>1 DEF PulseTypeOK
  <2>3. DueInTime' /\ AskedInTime'
    BY <1>0, <2>1 DEF DueInTime, AskedInTime
  <2> QED
    BY <2>1, <2>2, <2>3 DEF PulsesSpaced, OneTick, StampLeads, DumpsApart
<1>8. ASSUME UNCHANGED pulseVars PROVE PulseInv'
  BY <1>0, <1>8 DEF pulseVars, PulseTypeOK, DueInTime, AskedInTime, PulsesSpaced, OneTick, StampLeads, DumpsApart
<1> QED
  BY <1>1, <1>2, <1>3, <1>4, <1>5, <1>6, <1>7, <1>8 DEF PulseNext

LEMMA OpsStepsWarehouse == [OpsNext]_opsVars => [CopyNext]_copyVars /\ [PulseNext]_pulseVars
  BY DEF OpsNext, opsVars, warehouseVars, CopyNext, PulseNext,
         AlertScene, WalletScene, SnapshotScene, ReceiptScene, MarketScene, CopyScene, PulseScene

(***************************************************************************)
(* A walk that ended shipped every row it owed, and without overlapping    *)
(* runs no pulse comes too early, for any keys, versions, page sizes,      *)
(* refusals and ages of the stamp.                                         *)
(***************************************************************************)
THEOREM WarehouseStaysFed == OpsSpec => []WarehouseIsFed
<1>1. OpsInit => CopyInv /\ PulseInv
  BY CopyStarts, PulseStartsWell DEF OpsInit
<1>2. CopyInv /\ PulseInv /\ [OpsNext]_opsVars => CopyInv' /\ PulseInv'
  BY CopyStep, PulseStep, OpsStepsWarehouse
<1>3. CopyInv /\ PulseInv => WarehouseIsFed
  BY DEF CopyInv, CopyTypeOK, Rows, PulseInv, PulseTypeOK, WarehouseIsFed, WarehouseTypeOK
<1> QED
  BY <1>1, <1>2, <1>3, PTL DEF OpsSpec
-----------------------------------------------------------------------------
(***************************************************************************)
(* The bid table under one live sync (MarketSync).  An answer that says    *)
(* live was read after the range began, so a retraction of that bid, if    *)
(* there is one by now, lies beyond the range; and once the range's        *)
(* retractions are struck, no row retracted in it is live again.           *)
(***************************************************************************)
Turns  == {"rest", "posted", "write", "retract", "discover", "list", "name", "advance"}
AfterStrike == {"discover", "list", "name", "advance"}

\* b was retracted in block n or before.
RetractedBy(b, n) == retractedAt[b] # 0 /\ retractedAt[b] <= n

MarketShape ==
  /\ tip \in 0 .. MaxTip /\ marketCursor \in 0 .. tip
  /\ postedAt \in [Bids -> 0 .. tip] /\ retractedAt \in [Bids -> 0 .. tip]
  /\ bidRow \in [Bids -> RowStates] /\ named \subseteq Models
  /\ UNION memo \subseteq Providers \cup HasSessions
  /\ turn \in [LiveSyncs -> Turns] /\ span \in [LiveSyncs -> Nat \X Nat]
  /\ gotLogs \in [LiveSyncs -> BOOLEAN] /\ fine \in BOOLEAN
  /\ DOMAIN answers = LiveSyncs
  /\ \A c \in LiveSyncs : DOMAIN answers[c] \subseteq Bids
  /\ \A c \in LiveSyncs : \A b \in DOMAIN answers[c] : answers[c][b] \in {"live", "deleted"}
SpanIsNext  == \A c \in LiveSyncs : turn[c] # "rest" =>
  span[c][1] = marketCursor + 1 /\ marketCursor <= span[c][2] /\ span[c][2] <= tip
AnswersLate == \A c \in LiveSyncs : turn[c] \in {"write", "list"} =>
  \A b \in DOMAIN answers[c] : answers[c][b] = "live" => ~RetractedBy(b, span[c][2])
RangeStruck == \A c \in LiveSyncs : turn[c] \in AfterStrike /\ gotLogs[c] =>
  \A b \in Bids : RetractedBy(b, span[c][2]) => bidRow[b] # "live"
MarketInv   == MarketShape /\ SpanIsNext /\ AnswersLate /\ RangeStruck /\ RetractedUnlisted

LEMMA MarketStarts == MarketInit => MarketInv
<1> SUFFICES ASSUME MarketInit PROVE MarketInv
  OBVIOUS
<1>1. MarketShape
  <2>1. /\ tip \in 0 .. MaxTip /\ marketCursor \in 0 .. tip
        /\ postedAt \in [Bids -> 0 .. tip] /\ retractedAt \in [Bids -> 0 .. tip]
    BY MarketAssumption DEF MarketInit
  <2>2. /\ bidRow \in [Bids -> RowStates] /\ named \subseteq Models /\ UNION memo \subseteq {}
        /\ turn \in [LiveSyncs -> Turns] /\ span \in [LiveSyncs -> Nat \X Nat]
        /\ gotLogs \in [LiveSyncs -> BOOLEAN] /\ fine \in BOOLEAN
    BY DEF MarketInit, RowStates, Turns, NoSpan
  <2>3. DOMAIN answers = LiveSyncs /\ \A c \in LiveSyncs : DOMAIN answers[c] = {}
    BY DEF MarketInit, Nothing
  <2> QED
    BY <2>1, <2>2, <2>3 DEF MarketShape
<1>2. SpanIsNext /\ AnswersLate /\ RangeStruck /\ RetractedUnlisted
  BY DEF MarketInit, SpanIsNext, AnswersLate, RangeStruck, AfterStrike, RetractedUnlisted
<1> QED
  BY <1>1, <1>2 DEF MarketInv

\* What a step of the sync may write to the table without listing what was retracted by block n.
LEMMA RowsWritten ==
  ASSUME MarketInv, NEW c \in LiveSyncs, turn[c] \in {"write", "list"}
  PROVE  /\ Upserted(c) \in [Bids -> RowStates]
         /\ \A b \in Bids : RetractedBy(b, span[c][2]) /\ bidRow[b] # "live" => Upserted(c)[b] # "live"
  BY DEF MarketInv, MarketShape, AnswersLate, Upserted, RowStates

LEMMA RangeHoldsCursor ==
  ASSUME MarketInv, NEW c \in LiveSyncs, turn[c] # "rest", NEW b \in Bids, RetractedBy(b, marketCursor)
  PROVE  RetractedBy(b, span[c][2])
<1>1. /\ retractedAt[b] \in Nat /\ retractedAt[b] # 0 /\ retractedAt[b] <= marketCursor /\ marketCursor \in Nat
      /\ marketCursor <= span[c][2] /\ span[c][2] \in Nat
  BY DEF MarketInv, MarketShape, SpanIsNext, RetractedBy
<1> QED
  BY <1>1 DEF RetractedBy

LEMMA MarketStep ==
  ASSUME NEW live, LiveSyncs = {live}
  PROVE  MarketInv /\ [MarketNext]_marketVars => MarketInv'
<1> SUFFICES ASSUME MarketInv, [MarketNext]_marketVars PROVE MarketInv'
  OBVIOUS
<1> USE DEF MarketInv
<1>0. /\ MarketShape /\ tip \in Nat /\ marketCursor \in Nat /\ marketCursor <= tip
      /\ \A b \in Bids : retractedAt[b] \in Nat /\ retractedAt[b] <= tip
      /\ turn[live] \in Turns /\ span[live] = <<span[live][1], span[live][2]>>
      /\ span[live][1] \in Nat /\ span[live][2] \in Nat
  BY MarketAssumption DEF MarketShape
<1>1. ASSUME NEW P \in SUBSET Bids, NEW R \in SUBSET Bids, BlockMined(P, R) PROVE MarketInv'
  <2>1. /\ tip' = tip + 1 /\ tip < MaxTip
        /\ postedAt' = [b \in Bids |-> IF b \in P THEN tip + 1 ELSE postedAt[b]]
        /\ retractedAt' = [b \in Bids |-> IF b \in R THEN tip + 1 ELSE retractedAt[b]]
        /\ UNCHANGED <<bidRow, named, memo, marketCursor, turn, span, answers, gotLogs, fine>>
    BY <1>1 DEF BlockMined
  <2>2. MarketShape'
    <3>1. tip' \in 0 .. MaxTip /\ marketCursor' \in 0 .. tip'
      BY <1>0, <2>1, MarketAssumption
    <3>2. postedAt' \in [Bids -> 0 .. tip'] /\ retractedAt' \in [Bids -> 0 .. tip']
      BY <1>0, <2>1 DEF MarketShape
    <3> QED
      BY <2>1, <3>1, <3>2 DEF MarketShape
  <2>3. \A b \in Bids, n \in 0 .. tip : retractedAt'[b] # 0 /\ retractedAt'[b] <= n => RetractedBy(b, n)
    BY <1>0, <2>1 DEF RetractedBy
  <2>4. \A c \in LiveSyncs : turn[c] # "rest" => span[c][2] \in 0 .. tip
    BY <1>0 DEF SpanIsNext
  <2>5. SpanIsNext'
    BY <1>0, <2>1, <2>4 DEF SpanIsNext
  <2>6. AnswersLate' /\ RangeStruck'
    <3>1. ASSUME NEW c \in LiveSyncs, turn[c] # "rest", NEW b \in Bids,
                 retractedAt'[b] # 0 /\ retractedAt'[b] <= span[c][2]
          PROVE  RetractedBy(b, span[c][2])
      BY <2>3, <2>4, <3>1
    <3>2. AnswersLate'
      <4> SUFFICES ASSUME NEW c \in LiveSyncs, turn[c] \in {"write", "list"},
                          NEW b \in DOMAIN answers[c], answers[c][b] = "live"
                   PROVE  ~(retractedAt'[b] # 0 /\ retractedAt'[b] <= span[c][2])
        BY <2>1 DEF AnswersLate, RetractedBy
      <4> QED
        BY <1>0, <3>1 DEF AnswersLate, MarketShape
    <3>3. RangeStruck'
      <4> SUFFICES ASSUME NEW c \in LiveSyncs, turn[c] \in AfterStrike, gotLogs[c], NEW b \in Bids,
                          retractedAt'[b] # 0 /\ retractedAt'[b] <= span[c][2]
                   PROVE  bidRow[b] # "live"
        BY <2>1 DEF RangeStruck, RetractedBy
      <4>1. turn[c] # "rest"
        BY DEF AfterStrike
      <4> QED
        BY <3>1, <4>1 DEF RangeStruck
    <3> QED
      BY <3>2, <3>3
  <2>7. RetractedUnlisted'
    BY <1>0, <2>1 DEF RetractedUnlisted
  <2> QED
    BY <2>2, <2>5, <2>6, <2>7
<1>2. ASSUME Ends \/ MemoExpires PROVE MarketInv'
  <2>1. MarketShape'
    BY <1>0, <1>2 DEF Ends, MemoExpires, marketChain, MarketShape
  <2>2. UNCHANGED <<marketChain, bidRow, named, marketCursor, turn, span, answers, gotLogs>>
    BY <1>2 DEF Ends, MemoExpires
  <2> QED
    BY <2>1, <2>2 DEF marketChain, SpanIsNext, AnswersLate, RangeStruck, RetractedUnlisted, RetractedBy
<1>3. ASSUME NEW ok \in BOOLEAN, TickBegins(live, ok) PROVE MarketInv'
  <2>1. /\ turn' = [turn EXCEPT ![live] = "posted"] /\ span' = [span EXCEPT ![live] = <<marketCursor + 1, tip>>]
        /\ gotLogs' = [gotLogs EXCEPT ![live] = ok]
        /\ UNCHANGED <<marketChain, bidRow, named, memo, marketCursor, answers, fine>>
    BY <1>3 DEF TickBegins, Steps
  <2>2. MarketShape'
    BY <1>0, <2>1 DEF MarketShape, Turns, marketChain
  <2>3. SpanIsNext'
    BY <1>0, <2>1 DEF SpanIsNext, MarketShape, marketChain
  <2> QED
    BY <2>1, <2>2, <2>3 DEF AnswersLate, RangeStruck, RetractedUnlisted, AfterStrike, MarketShape, marketChain
<1>4. ASSUME NEW read \in SUBSET Bids, NEW from \in {"posted", "discover"}, NEW to \in {"write", "list"},
             turn[live] = from, turn' = [turn EXCEPT ![live] = to], to = "list" => from = "discover",
             answers' = [answers EXCEPT ![live] = [b \in read |-> getBid(b)]],
             UNION memo' \subseteq Providers \cup HasSessions,
             UNCHANGED <<marketChain, bidRow, named, marketCursor, span, gotLogs, fine>>
      PROVE  MarketInv'
  <2>1. MarketShape'
    BY <1>0, <1>4 DEF MarketShape, Turns, marketChain, getBid
  <2>2. SpanIsNext' /\ RetractedUnlisted'
    BY <1>0, <1>4 DEF SpanIsNext, RetractedUnlisted, MarketShape, marketChain
  <2>3. AnswersLate'
    BY <1>0, <1>4 DEF AnswersLate, RetractedBy, getBid, MarketShape, marketChain
  <2>4. RangeStruck'
    BY <1>0, <1>4 DEF RangeStruck, RetractedBy, AfterStrike, MarketShape, marketChain
  <2> QED
    BY <2>1, <2>2, <2>3, <2>4
<1>5. ASSUME NEW read \in SUBSET PostedIn(span[live]), ReadPosted(live, read) PROVE MarketInv'
  BY <1>0, <1>4, <1>5 DEF ReadPosted, Steps, PostedIn, MarketShape
<1>6. ASSUME NEW read \in SUBSET Bids, Discover(live, read) PROVE MarketInv'
  <2>1. UNION memo' \subseteq Providers \cup HasSessions
    BY <1>0, <1>6 DEF Discover, Known, Seen, Providers, MarketShape
  <2> QED
    BY <1>4, <1>6, <2>1 DEF Discover, Steps
<1>7. ASSUME processBidPosted(live) \/ ListDiscovered(live) PROVE MarketInv'
  <2>1. /\ turn[live] \in {"write", "list"} /\ bidRow' = Upserted(live)
        /\ answers' = [answers EXCEPT ![live] = Nothing]
        /\ turn' = [turn EXCEPT ![live] = IF turn[live] = "write" THEN "retract" ELSE "name"]
        /\ UNCHANGED <<marketChain, named, memo, marketCursor, span, gotLogs, fine>>
    BY <1>7 DEF processBidPosted, ListDiscovered, Steps
  <2>2. /\ Upserted(live) \in [Bids -> RowStates]
        /\ \A b \in Bids : RetractedBy(b, span[live][2]) /\ bidRow[b] # "live" => Upserted(live)[b] # "live"
    BY <2>1, RowsWritten
  <2>3. MarketShape'
    BY <1>0, <2>1, <2>2 DEF MarketShape, Turns, marketChain, Nothing
  <2>4. SpanIsNext'
    BY <1>0, <2>1 DEF SpanIsNext, MarketShape, marketChain
  <2>5. AnswersLate'
    BY <1>0, <2>1 DEF AnswersLate, Nothing, MarketShape
  <2>6. RangeStruck'
    BY <1>0, <2>1, <2>2 DEF RangeStruck, RetractedBy, AfterStrike, MarketShape, marketChain
  <2>7. RetractedUnlisted'
    <3> SUFFICES ASSUME NEW b \in Bids, RetractedBy(b, marketCursor) PROVE Upserted(live)[b] # "live"
      BY <2>1 DEF RetractedUnlisted, RetractedBy, marketChain
    <3>1. bidRow[b] # "live"
      BY DEF RetractedUnlisted, RetractedBy
    <3>2. RetractedBy(b, span[live][2])
      BY <2>1, RangeHoldsCursor
    <3> QED
      BY <2>2, <3>1, <3>2
  <2> QED
    BY <2>3, <2>4, <2>5, <2>6, <2>7
<1>8. ASSUME processBidRetracted(live) PROVE MarketInv'
  <2>1. /\ turn[live] = "retract" /\ turn' = [turn EXCEPT ![live] = "discover"]
        /\ bidRow' = [b \in Bids |-> IF b \in Retracted(live) THEN "deleted" ELSE bidRow[b]]
        /\ UNCHANGED <<marketChain, named, memo, marketCursor, span, answers, gotLogs, fine>>
    BY <1>8 DEF processBidRetracted, Steps
  <2>2. MarketShape'
    BY <1>0, <2>1 DEF MarketShape, Turns, marketChain, RowStates
  <2>3. SpanIsNext' /\ AnswersLate' /\ RetractedUnlisted'
    BY <1>0, <2>1 DEF SpanIsNext, AnswersLate, RetractedUnlisted, RetractedBy, MarketShape, marketChain
  <2>4. ASSUME gotLogs[live], NEW b \in Bids, RetractedBy(b, span[live][2]) PROVE bidRow'[b] # "live"
    <3>1. CASE retractedAt[b] <= marketCursor
      BY <2>1, <2>4, <3>1 DEF RetractedUnlisted, RetractedBy
    <3>2. CASE marketCursor < retractedAt[b]
      <4>1. b \in RetractedIn(span[live])
        BY <1>0, <2>1, <2>4, <3>2 DEF RetractedIn, Within, RetractedBy, SpanIsNext
      <4>2. bidRow[b] = "live" => b \in Retracted(live)
        BY <2>4, <4>1 DEF Retracted, Struck, LogsOf, SamePair
      <4> QED
        BY <2>1, <4>2
    <3> QED
      BY <1>0, <3>1, <3>2
  <2>5. RangeStruck'
    BY <2>1, <2>4 DEF RangeStruck, RetractedBy, marketChain
  <2> QED
    BY <2>2, <2>3, <2>5
<1>9. ASSUME NEW read \in SUBSET Models, NameModels(live, read) PROVE MarketInv'
  <2>1. /\ turn[live] = "name" /\ turn' = [turn EXCEPT ![live] = "advance"] /\ named' = named \cup read
        /\ UNCHANGED <<marketChain, bidRow, memo, marketCursor, span, answers, gotLogs, fine>>
    BY <1>9 DEF NameModels, Steps
  <2>2. MarketShape'
    BY <1>0, <2>1 DEF MarketShape, Turns, marketChain
  <2> QED
    BY <1>0, <2>1, <2>2
    DEF SpanIsNext, AnswersLate, RangeStruck, RetractedUnlisted, RetractedBy, AfterStrike, MarketShape, marketChain
<1>10. ASSUME NEW held \in BOOLEAN, TickEnds(live, held) \/ RetractThrows(live) PROVE MarketInv'
  <2>1. /\ turn' = [turn EXCEPT ![live] = "rest"] /\ span' = [span EXCEPT ![live] = NoSpan]
        /\ gotLogs' = [gotLogs EXCEPT ![live] = FALSE]
        /\ UNCHANGED <<marketChain, bidRow, named, memo, answers, fine>>
        /\ \/ marketCursor' = marketCursor
           \/ marketCursor' = span[live][2] /\ gotLogs[live] /\ turn[live] = "advance"
    BY <1>10 DEF TickEnds, RetractThrows, Steps, Returns
  <2>2. marketCursor' \in 0 .. tip
    BY <1>0, <2>1 DEF SpanIsNext
  <2>3. MarketShape'
    BY <1>0, <2>1, <2>2 DEF MarketShape, Turns, NoSpan, marketChain
  <2>4. \A c \in LiveSyncs : turn'[c] = "rest"
    BY <1>0, <2>1 DEF MarketShape
  <2>5. RetractedUnlisted'
    BY <2>1 DEF RetractedUnlisted, RangeStruck, RetractedBy, AfterStrike, marketChain
  <2> QED
    BY <2>3, <2>4, <2>5 DEF SpanIsNext, AnswersLate, RangeStruck, AfterStrike
<1>11. ASSUME UNCHANGED marketVars PROVE MarketInv'
  BY <1>0, <1>11
  DEF marketVars, marketChain, MarketShape, SpanIsNext, AnswersLate, RangeStruck, RetractedUnlisted, RetractedBy
<1> QED
  BY <1>1, <1>2, <1>3, <1>5, <1>6, <1>7, <1>8, <1>9, <1>10, <1>11 DEF MarketNext, LiveStep

LEMMA OpsStepsMarket == [OpsNext]_opsVars => [MarketNext]_marketVars
  BY DEF OpsNext, opsVars, AlertScene, WalletScene, SnapshotScene, ReceiptScene, MarketScene, CopyScene, PulseScene

(***************************************************************************)
(* With one live sync, no bid retracted at or below the cursor is listed,  *)
(* for any bids, providers and models and whatever calls fail.             *)
(***************************************************************************)
THEOREM RetractedStaysUnlisted ==
  ASSUME NEW live, LiveSyncs = {live}
  PROVE  OpsSpec => []MarketFollowsChain
<1>1. OpsInit => MarketInv
  BY MarketStarts DEF OpsInit
<1>2. MarketInv /\ [OpsNext]_opsVars => MarketInv'
  BY MarketStep, OpsStepsMarket
<1>3. MarketInv => MarketFollowsChain
  BY DEF MarketInv, MarketShape, MarketFollowsChain, MarketTypeOK, Turns
<1> QED
  BY <1>1, <1>2, <1>3, PTL DEF OpsSpec
-----------------------------------------------------------------------------
(***************************************************************************)
(* The paging of transitions (Alerts implements Paging).  Debt(s) is how   *)
(* many pages on s may still repeat the one before without a further       *)
(* fault.  A run that has yet to page s repeats if it compares with a      *)
(* state the last page has overtaken (Mistaken); if all of them are        *)
(* mistaken each may repeat, and otherwise one of them may page first and  *)
(* turn the others.  A run that has yet to store what the last page        *)
(* overtook (StoresOld) misleads one later run, and so does a stored state *)
(* that nobody is about to overwrite.                                      *)
(***************************************************************************)
Before(s) == IF s = "stalled" THEN {"load", "stalled"} ELSE {"load", "stalled", "rpcFailing"}
Past(s)   == IF s = "stalled" THEN {"rpcFailing", "save"} ELSE {"save"}

Unpaged(s)    == {d \in Detections : detStep[d] \in Before(s)}
Stores(d, s)  == detStep[d] \in Past(s) /\ Changed(d)
SomeStores(s) == \E d \in Detections : Stores(d, s)
StoresOld(s)  == \E d \in Detections : Stores(d, s) /\ seen[d][s] # told[s]
StoredOld(s)  == stored[s] # told[s]
Mistaken(d, s) ==
  IF detStep[d] = "load" THEN StoredOld(s) \/ StoresOld(s) ELSE prev[d][s] # told[s]

AllMistaken(s)  == \A d \in Unpaged(s) : Mistaken(d, s)
SomeMistaken(s) == \E d \in Unpaged(s) : Mistaken(d, s)

\* n runs have yet to page; the Booleans are those of the six definitions above.
Owes(n, all, some, old, stored1, stores) ==
  IF n = 0 THEN IF old \/ (stored1 /\ ~stores) THEN 1 ELSE 0
  ELSE IF all THEN IF old THEN n + 1 ELSE n
  ELSE IF some \/ stored1 \/ stores THEN n ELSE n - 1

Debt(s) ==
  Owes(Cardinality(Unpaged(s)), AllMistaken(s), SomeMistaken(s), StoresOld(s), StoredOld(s), SomeStores(s))

Paid(s)  == repeats[s] + Debt(s) <= faults
AlertInv == AlertTypeOK /\ \A s \in Signals : Paid(s)

LEMMA AlertNumbers == MaxFaults \in Nat /\ MaxTurns \in Nat /\ IsFiniteSet(Detections)
  BY AlertAssumption

LEMMA RunsCount ==
  ASSUME NEW D \in SUBSET Detections
  PROVE  /\ Cardinality(D) \in Nat /\ (Cardinality(D) = 0 <=> D = {})
         /\ \A c \in Detections : c \notin D => Cardinality(D \union {c}) = Cardinality(D) + 1
         /\ \A c \in D : Cardinality(D \ {c}) = Cardinality(D) - 1
<1>1. IsFiniteSet(D)
  BY AlertNumbers, FS_Subset
<1> QED
  BY <1>1, FS_CardinalityType, FS_EmptySet, FS_AddElement, FS_RemoveElement

LEMMA AlertStarts == AlertInit => AlertInv
<1> SUFFICES ASSUME AlertInit PROVE AlertInv
  OBVIOUS
<1>1. AlertTypeOK
  <2>1. Healthy \in HealthState
    BY DEF Healthy, HealthState
  <2>2. /\ turns \in 0 .. MaxTurns /\ faults \in 0 .. MaxFaults /\ astray \in BOOLEAN
        /\ repeats \in [Signals -> Nat]
    <3>1. turns = 0 /\ faults = 0 /\ astray = FALSE
      BY DEF AlertInit
    <3>2. 0 \in 0 .. MaxTurns /\ 0 \in 0 .. MaxFaults
      BY AlertNumbers
    <3>3. repeats \in [Signals -> Nat]
      BY DEF AlertInit
    <3> QED
      BY <3>1, <3>2, <3>3
  <2> QED
    BY <2>1, <2>2 DEF AlertInit, AlertTypeOK
<1>2. ASSUME NEW s \in Signals PROVE Debt(s) = 0
  <2>1. Unpaged(s) = {}
    BY DEF AlertInit, Unpaged, Before
  <2>2. Cardinality(Unpaged(s)) = 0
    BY <2>1, RunsCount
  <2>3. ~SomeStores(s) /\ ~StoresOld(s) /\ ~StoredOld(s)
    BY DEF AlertInit, SomeStores, StoresOld, Stores, Past, StoredOld
  <2> QED
    BY <2>2, <2>3 DEF Debt, Owes
<1>3. ASSUME NEW s \in Signals PROVE Paid(s)
  BY <1>2, <1>3 DEF AlertInit, Paid
<1> QED
  BY <1>1, <1>3 DEF AlertInv

\* What is true of every state of the runs.
LEMMA DebtShape ==
  ASSUME NEW s \in Signals
  PROVE  /\ Cardinality(Unpaged(s)) \in Nat
         /\ Cardinality(Unpaged(s)) = 0 => AllMistaken(s) /\ ~SomeMistaken(s)
         /\ Cardinality(Unpaged(s)) # 0 /\ AllMistaken(s) => SomeMistaken(s)
         /\ StoresOld(s) => SomeStores(s)
<1>1. Unpaged(s) \in SUBSET Detections
  BY DEF Unpaged
<1> QED
  BY <1>1, RunsCount DEF AllMistaken, SomeMistaken, SomeStores, StoresOld

\* A run begins: it may be misled by what misleads now, and pays for itself unless it is alone.
LEMMA StartIsPaid ==
  ASSUME AlertInv, NEW c \in Detections, StartDetection(c), NEW s \in Signals
  PROVE  Paid(s)'
<1> USE DEF AlertInv, AlertTypeOK
<1>1. /\ detStep[c] = "idle" /\ detStep'[c] = "load"
      /\ \A d \in Detections : d # c => detStep'[d] = detStep[d] /\ seen'[d] = seen[d]
      /\ UNCHANGED <<stored, prev, told, repeats>>
  BY DEF StartDetection, Move, pageVars
<1>2. Unpaged(s)' = Unpaged(s) \union {c} /\ c \notin Unpaged(s)
  BY <1>1 DEF Unpaged, Before
<1>3. \A d \in Detections : Stores(d, s)' <=> Stores(d, s)
  BY <1>1 DEF Stores, Past, Changed
<1>4. (SomeStores(s)' <=> SomeStores(s)) /\ (StoresOld(s)' <=> StoresOld(s)) /\ (StoredOld(s)' <=> StoredOld(s))
  <2>1. \A d \in Detections : Stores(d, s) => d # c
    BY <1>1 DEF Stores, Past
  <2> QED
    BY <1>1, <1>3, <2>1 DEF SomeStores, StoresOld, StoredOld
<1>5. /\ \A d \in Unpaged(s) : Mistaken(d, s)' <=> Mistaken(d, s)
      /\ Mistaken(c, s)' <=> (StoredOld(s) \/ StoresOld(s))
  BY <1>1, <1>2, <1>4 DEF Mistaken, Unpaged
<1>6. /\ AllMistaken(s)' <=> (AllMistaken(s) /\ (StoredOld(s) \/ StoresOld(s)))
      /\ SomeMistaken(s)' <=> (SomeMistaken(s) \/ StoredOld(s) \/ StoresOld(s))
  BY <1>2, <1>5 DEF AllMistaken, SomeMistaken
<1>7. Cardinality(Unpaged(s)') = Cardinality(Unpaged(s)) + 1
  BY <1>2, RunsCount DEF Unpaged
<1>8. faults' = faults + 1 \/ (faults' = faults /\ Cardinality(Unpaged(s)) = 0 /\ ~SomeStores(s))
  <2>1. CASE \A d \in Detections : detStep[d] = "idle"
    <3>1. Unpaged(s) = {} /\ ~SomeStores(s)
      BY <2>1 DEF Unpaged, Before, SomeStores, Stores, Past
    <3> QED
      BY <2>1, <3>1, RunsCount DEF StartDetection
  <2> QED
    BY <2>1 DEF StartDetection, CountFault
<1>9. repeats'[s] = repeats[s] /\ repeats[s] \in Nat /\ faults \in Nat /\ repeats[s] + Debt(s) <= faults
  BY <1>1, AlertNumbers DEF Paid
<1> QED
  BY <1>4, <1>6, <1>7, <1>8, <1>9, DebtShape DEF Paid, Debt, Owes

\* A run compares with the stored state, which is what it was counted to be misled by.
LEMMA LoadIsPaid ==
  ASSUME AlertInv, NEW c \in Detections, LoadState(c) \/ LoadFails(c), NEW s \in Signals
  PROVE  Paid(s)'
<1> USE DEF AlertInv, AlertTypeOK
<1>1. /\ detStep[c] = "load" /\ detStep'[c] = "stalled"
      /\ \A d \in Detections : d # c => detStep'[d] = detStep[d] /\ prev'[d] = prev[d]
      /\ UNCHANGED <<stored, seen, told, repeats>>
  BY DEF LoadState, LoadFails, Move, pageVars
<1>2. Unpaged(s)' = Unpaged(s) /\ c \in Unpaged(s)
  BY <1>1 DEF Unpaged, Before
<1>3. \A d \in Detections : (Stores(d, s)' <=> Stores(d, s)) /\ (Stores(d, s) => d # c)
  BY <1>1 DEF Stores, Past, Changed
<1>4. (SomeStores(s)' <=> SomeStores(s)) /\ (StoresOld(s)' <=> StoresOld(s)) /\ (StoredOld(s)' <=> StoredOld(s))
  BY <1>1, <1>3 DEF SomeStores, StoresOld, StoredOld
<1>5. \A d \in Unpaged(s) : d # c => (Mistaken(d, s)' <=> Mistaken(d, s))
  BY <1>1, <1>4 DEF Mistaken, Unpaged
<1>6. Cardinality(Unpaged(s)) # 0 /\ Cardinality(Unpaged(s)') = Cardinality(Unpaged(s))
  BY <1>2, RunsCount DEF Unpaged
<1>7. repeats'[s] = repeats[s] /\ repeats[s] \in Nat /\ faults \in Nat /\ repeats[s] + Debt(s) <= faults
  BY <1>1, AlertNumbers DEF Paid
<1>8. CASE LoadState(c)
  <2>1. faults' = faults
    BY <1>8 DEF LoadState
  <2>2. (Mistaken(c, s) <=> StoredOld(s) \/ StoresOld(s)) /\ (Mistaken(c, s)' <=> StoredOld(s))
    BY <1>1, <1>8 DEF Mistaken, LoadState, StoredOld
  <2>3. /\ AllMistaken(s)' => AllMistaken(s)
        /\ ~StoresOld(s) => (AllMistaken(s)' <=> AllMistaken(s)) /\ (SomeMistaken(s)' <=> SomeMistaken(s))
    BY <1>2, <1>5, <2>2 DEF AllMistaken, SomeMistaken
  <2> QED
    BY <1>4, <1>6, <1>7, <2>1, <2>3, DebtShape DEF Paid, Debt, Owes
<1>9. CASE LoadFails(c)
  <2>1. faults' = faults + 1
    BY <1>9 DEF LoadFails, CountFault
  <2> QED
    BY <1>4, <1>6, <1>7, <2>1, DebtShape DEF Paid, Debt, Owes
<1> QED
  BY <1>8, <1>9

\* What a run does about one signal leaves the other alone.
LEMMA OtherSignal ==
  ASSUME AlertTypeOK, NEW c \in Detections, NEW t \in Signals, NEW s \in Signals, t # s,
         Move(c, t, After(t)), told'[s] = told[s], UNCHANGED <<stored, prev, seen>>
  PROVE  Debt(s)' = Debt(s)
<1> USE DEF AlertTypeOK
<1>1. /\ detStep[c] = t /\ detStep'[c] = After(t)
      /\ \A d \in Detections : d # c => detStep'[d] = detStep[d]
  BY DEF Move
<1>2. \A d \in Detections : /\ detStep'[d] \in Before(s) <=> detStep[d] \in Before(s)
                            /\ detStep'[d] \in Past(s) <=> detStep[d] \in Past(s)
                            /\ detStep'[d] = "load" <=> detStep[d] = "load"
  BY <1>1 DEF Before, Past, After, Signals
<1>3. \A d \in Detections : Stores(d, s)' <=> Stores(d, s)
  BY <1>2 DEF Stores, Changed
<1>4. (SomeStores(s)' <=> SomeStores(s)) /\ (StoresOld(s)' <=> StoresOld(s)) /\ (StoredOld(s)' <=> StoredOld(s))
  BY <1>3 DEF SomeStores, StoresOld, StoredOld
<1>5. Unpaged(s)' = Unpaged(s)
  BY <1>2 DEF Unpaged
<1>6. \A d \in Unpaged(s) : Mistaken(d, s)' <=> Mistaken(d, s)
  BY <1>2, <1>4 DEF Mistaken, Unpaged
<1>7. (AllMistaken(s)' <=> AllMistaken(s)) /\ (SomeMistaken(s)' <=> SomeMistaken(s))
  BY <1>5, <1>6 DEF AllMistaken, SomeMistaken
<1> QED
  BY <1>4, <1>5, <1>7 DEF Debt, Owes

\* A run is through with a signal: it pages no more, and stores what it has seen if anything changed.
LEMMA ThroughWith ==
  ASSUME AlertTypeOK, NEW c \in Detections, NEW s \in Signals,
         Move(c, s, After(s)), UNCHANGED <<stored, prev, seen>>
  PROVE  /\ c \in Unpaged(s) /\ Unpaged(s)' = Unpaged(s) \ {c}
         /\ Cardinality(Unpaged(s)) # 0 /\ Cardinality(Unpaged(s)') = Cardinality(Unpaged(s)) - 1
         /\ ~Stores(c, s) /\ (Stores(c, s)' <=> Changed(c))
         /\ \A d \in Detections : d # c => (Stores(d, s)' <=> Stores(d, s)) /\ detStep'[d] = detStep[d]
         /\ Mistaken(c, s) <=> prev[c][s] # told[s]
<1> USE DEF AlertTypeOK
<1>1. /\ detStep[c] = s /\ detStep'[c] = After(s)
      /\ \A d \in Detections : d # c => detStep'[d] = detStep[d]
  BY DEF Move
<1>2. c \in Unpaged(s) /\ Unpaged(s)' = Unpaged(s) \ {c}
  BY <1>1 DEF Unpaged, Before, After, Signals
<1>3. Cardinality(Unpaged(s)) # 0 /\ Cardinality(Unpaged(s)') = Cardinality(Unpaged(s)) - 1
  BY <1>2, RunsCount DEF Unpaged
<1>4. ~Stores(c, s) /\ (Stores(c, s)' <=> Changed(c))
  BY <1>1 DEF Stores, Past, After, Signals, Changed
<1>5. \A d \in Detections : d # c => (Stores(d, s)' <=> Stores(d, s))
  BY <1>1 DEF Stores, Changed
<1>6. Mistaken(c, s) <=> prev[c][s] # told[s]
  BY <1>1 DEF Mistaken, Signals
<1> QED
  BY <1>1, <1>2, <1>3, <1>4, <1>5, <1>6

\* A page that repeats spends one of the debt.
LEMMA RepeatIsPaid ==
  ASSUME AlertInv, NEW c \in Detections, NEW s \in Signals, Page(c, s), told[s] = seen[c][s]
  PROVE  Paid(s)' /\ repeats[s] < faults
<1> USE DEF AlertInv, AlertTypeOK
<1>1. /\ Move(c, s, After(s)) /\ UNCHANGED <<stored, prev, seen, faults>>
      /\ prev[c][s] # seen[c][s] /\ told'[s] = told[s] /\ repeats'[s] = repeats[s] + 1
  BY DEF Page, HealthState
<1>2. /\ c \in Unpaged(s) /\ Unpaged(s)' = Unpaged(s) \ {c}
      /\ Cardinality(Unpaged(s)) # 0 /\ Cardinality(Unpaged(s)') = Cardinality(Unpaged(s)) - 1
      /\ ~Stores(c, s) /\ (Stores(c, s)' <=> Changed(c))
      /\ \A d \in Detections : d # c => (Stores(d, s)' <=> Stores(d, s)) /\ detStep'[d] = detStep[d]
      /\ Mistaken(c, s) <=> prev[c][s] # told[s]
  BY <1>1, ThroughWith
<1>3. SomeStores(s)' /\ (StoresOld(s)' <=> StoresOld(s)) /\ (StoredOld(s)' <=> StoredOld(s))
  BY <1>1, <1>2 DEF SomeStores, StoresOld, StoredOld, Changed
<1>4. Mistaken(c, s) /\ \A d \in Unpaged(s) \ {c} : Mistaken(d, s)' <=> Mistaken(d, s)
  BY <1>1, <1>2, <1>3 DEF Mistaken, Unpaged
<1>5. SomeMistaken(s) /\ (AllMistaken(s)' <=> AllMistaken(s))
  BY <1>2, <1>4 DEF SomeMistaken, AllMistaken
<1>6. repeats[s] \in Nat /\ faults \in Nat /\ repeats[s] + Debt(s) <= faults
  BY AlertNumbers DEF Paid
<1>7. Cardinality(Unpaged(s)') = 0 => AllMistaken(s)'
  <2>1. Unpaged(s)' \in SUBSET Detections
    BY DEF Unpaged
  <2>2. Cardinality(Unpaged(s)') = 0 => Unpaged(s)' = {}
    BY <2>1, RunsCount
  <2> QED
    BY <2>2 DEF AllMistaken
<1> QED
  BY <1>1, <1>2, <1>3, <1>5, <1>6, <1>7, DebtShape DEF Paid, Debt, Owes

\* A page that tells something new turns the others, whose debt was counted but for its own run.
LEMMA NewsIsPaid ==
  ASSUME AlertInv, NEW c \in Detections, NEW s \in Signals, Page(c, s), told[s] # seen[c][s]
  PROVE  Paid(s)'
<1> USE DEF AlertInv, AlertTypeOK
<1>1. /\ Move(c, s, After(s)) /\ UNCHANGED <<stored, prev, seen, faults, repeats>>
      /\ prev[c][s] # seen[c][s] /\ told'[s] = seen[c][s]
  BY DEF Page, HealthState
<1>2. /\ c \in Unpaged(s) /\ Unpaged(s)' = Unpaged(s) \ {c}
      /\ Cardinality(Unpaged(s)) # 0 /\ Cardinality(Unpaged(s)') = Cardinality(Unpaged(s)) - 1
      /\ ~Stores(c, s) /\ (Stores(c, s)' <=> Changed(c))
      /\ \A d \in Detections : d # c => (Stores(d, s)' <=> Stores(d, s)) /\ detStep'[d] = detStep[d]
      /\ Mistaken(c, s) <=> prev[c][s] # told[s]
  BY <1>1, ThroughWith
<1>3. SomeStores(s)' /\ (StoresOld(s)' => SomeStores(s))
  BY <1>1, <1>2 DEF SomeStores, StoresOld, Changed
<1>4. ~Mistaken(c, s)
  <2>1. prev[c][s] \in BOOLEAN /\ seen[c][s] \in BOOLEAN /\ told[s] \in BOOLEAN
    BY DEF HealthState
  <2> QED
    BY <1>1, <1>2, <2>1
<1>5. ~AllMistaken(s)
  BY <1>2, <1>4 DEF AllMistaken
<1>6. repeats'[s] = repeats[s] /\ repeats[s] \in Nat /\ faults \in Nat /\ repeats[s] + Debt(s) <= faults
  BY <1>1, AlertNumbers DEF Paid
<1> QED
  BY <1>1, <1>2, <1>3, <1>5, <1>6, DebtShape DEF Paid, Debt, Owes

\* A run with nothing to page leaves the debt as it was, or stores what it was mistaken about.
LEMMA NothingIsPaid ==
  ASSUME AlertInv, NEW c \in Detections, NEW s \in Signals, NoPage(c, s)
  PROVE  Paid(s)'
<1> USE DEF AlertInv, AlertTypeOK
<1>1. /\ Move(c, s, After(s)) /\ UNCHANGED <<stored, prev, seen, faults, repeats, told>>
      /\ prev[c][s] = seen[c][s]
  BY DEF NoPage, pageVars
<1>2. /\ c \in Unpaged(s) /\ Unpaged(s)' = Unpaged(s) \ {c}
      /\ Cardinality(Unpaged(s)) # 0 /\ Cardinality(Unpaged(s)') = Cardinality(Unpaged(s)) - 1
      /\ ~Stores(c, s) /\ (Stores(c, s)' <=> Changed(c))
      /\ \A d \in Detections : d # c => (Stores(d, s)' <=> Stores(d, s)) /\ detStep'[d] = detStep[d]
      /\ Mistaken(c, s) <=> prev[c][s] # told[s]
  BY <1>1, ThroughWith
<1>3. repeats'[s] = repeats[s] /\ repeats[s] \in Nat /\ faults \in Nat /\ repeats[s] + Debt(s) <= faults
  BY <1>1, AlertNumbers DEF Paid
<1>4. CASE Mistaken(c, s)
  <2>1. SomeMistaken(s)
    BY <1>2, <1>4 DEF SomeMistaken
  <2> QED
    BY <1>2, <1>3, <1>1, <2>1, DebtShape DEF Paid, Debt, Owes
<1>5. CASE ~Mistaken(c, s)
  <2>1. /\ SomeStores(s) => SomeStores(s)'
        /\ StoresOld(s)' <=> StoresOld(s)
        /\ StoredOld(s)' <=> StoredOld(s)
    BY <1>1, <1>2, <1>5 DEF SomeStores, StoresOld, StoredOld
  <2>2. \A d \in Unpaged(s) \ {c} : Mistaken(d, s)' <=> Mistaken(d, s)
    BY <1>1, <1>2, <2>1 DEF Mistaken, Unpaged
  <2>3. /\ ~AllMistaken(s) /\ (SomeMistaken(s)' => SomeMistaken(s))
        /\ Cardinality(Unpaged(s)') # 0 /\ AllMistaken(s)' => SomeMistaken(s)'
    <3>1. ~AllMistaken(s) /\ (SomeMistaken(s)' => SomeMistaken(s))
      BY <1>2, <1>5, <2>2 DEF AllMistaken, SomeMistaken
    <3>2. Cardinality(Unpaged(s)') # 0 => Unpaged(s)' # {}
      BY RunsCount
    <3> QED
      BY <3>1, <3>2 DEF AllMistaken, SomeMistaken
  <2>4. Cardinality(Unpaged(s)') = 0 => ~SomeMistaken(s)' /\ ~SomeMistaken(s)
    <3>1. Unpaged(s)' \in SUBSET Detections
      BY DEF Unpaged
    <3>2. Cardinality(Unpaged(s)') = 0 => Unpaged(s)' = {}
      BY <3>1, RunsCount
    <3> QED
      BY <1>2, <1>5, <3>2 DEF SomeMistaken
  <2>5. (StoresOld(s)' => SomeStores(s)') /\ (StoresOld(s) => SomeStores(s))
    BY DEF StoresOld, SomeStores
  <2> QED
    BY <1>2, <1>3, <1>1, <2>1, <2>3, <2>4, <2>5, DebtShape DEF Paid, Debt, Owes
<1> QED
  BY <1>4, <1>5

\* A page that is lost costs a fault, and misleads one run at most.
LEMMA LostIsPaid ==
  ASSUME AlertInv, NEW c \in Detections, NEW s \in Signals, PageLost(c, s)
  PROVE  Paid(s)'
<1> USE DEF AlertInv, AlertTypeOK
<1>1. /\ Move(c, s, After(s)) /\ UNCHANGED <<stored, prev, seen, repeats, told>>
      /\ faults' = faults + 1
  BY DEF PageLost, CountFault, pageVars
<1>2. Cardinality(Unpaged(s)) # 0 /\ Cardinality(Unpaged(s)') = Cardinality(Unpaged(s)) - 1
  BY <1>1, ThroughWith
<1>3. repeats'[s] = repeats[s] /\ repeats[s] \in Nat /\ faults \in Nat /\ repeats[s] + Debt(s) <= faults
  BY <1>1, AlertNumbers DEF Paid
<1> QED
  BY <1>1, <1>2, <1>3, DebtShape DEF Paid, Debt, Owes

\* A run that stores makes the stored state as old as it was counted to be.
LEMMA SaveIsPaid ==
  ASSUME AlertInv, NEW c \in Detections, SaveState(c), NEW s \in Signals
  PROVE  Paid(s)'
<1> USE DEF AlertInv, AlertTypeOK
<1>1. /\ detStep[c] = "save" /\ detStep'[c] = "idle"
      /\ \A d \in Detections : d # c => detStep'[d] = detStep[d]
      /\ stored' = IF Changed(c) THEN seen[c] ELSE stored
      /\ UNCHANGED <<prev, seen, told, repeats, faults>>
  BY DEF SaveState, Move, pageVars
<1>2. Unpaged(s)' = Unpaged(s) /\ c \notin Unpaged(s)
  BY <1>1 DEF Unpaged, Before
<1>3. /\ (Stores(c, s) <=> Changed(c)) /\ ~Stores(c, s)'
      /\ \A d \in Detections : d # c => (Stores(d, s)' <=> Stores(d, s))
  BY <1>1 DEF Stores, Past, Changed
<1>4. repeats'[s] = repeats[s] /\ repeats[s] \in Nat /\ faults \in Nat /\ repeats[s] + Debt(s) <= faults
  BY <1>1, AlertNumbers DEF Paid
<1>5. CASE ~Changed(c)
  <2>1. (SomeStores(s)' <=> SomeStores(s)) /\ (StoresOld(s)' <=> StoresOld(s)) /\ (StoredOld(s)' <=> StoredOld(s))
    BY <1>1, <1>3, <1>5 DEF SomeStores, StoresOld, StoredOld
  <2>2. \A d \in Unpaged(s) : Mistaken(d, s)' <=> Mistaken(d, s)
    BY <1>1, <1>2, <2>1 DEF Mistaken, Unpaged
  <2>3. (AllMistaken(s)' <=> AllMistaken(s)) /\ (SomeMistaken(s)' <=> SomeMistaken(s))
    BY <1>2, <2>2 DEF AllMistaken, SomeMistaken
  <2> QED
    BY <1>1, <1>2, <1>4, <2>1, <2>3 DEF Paid, Debt, Owes
<1>6. CASE Changed(c)
  <2>1. SomeStores(s) /\ (StoresOld(s)' => StoresOld(s)) /\ (StoredOld(s)' => StoresOld(s))
    BY <1>1, <1>3, <1>6 DEF SomeStores, StoresOld, StoredOld
  <2>2. \A d \in Unpaged(s) : Mistaken(d, s)' => Mistaken(d, s)
    BY <1>1, <1>2, <2>1 DEF Mistaken, Unpaged
  <2>3. AllMistaken(s)' => AllMistaken(s)
    BY <1>2, <2>2 DEF AllMistaken
  <2> QED
    BY <1>1, <1>2, <1>4, <2>1, <2>3, DebtShape DEF Paid, Debt, Owes
<1> QED
  BY <1>5, <1>6

\* A run that dies costs a fault, and leaves one page at most to be repeated.
LEMMA DeathIsPaid ==
  ASSUME AlertInv, NEW c \in Detections, RunDies(c), NEW s \in Signals
  PROVE  Paid(s)'
<1> USE DEF AlertInv, AlertTypeOK
<1>1. /\ detStep[c] # "idle" /\ detStep'[c] = "idle"
      /\ \A d \in Detections : d # c => detStep'[d] = detStep[d]
      /\ UNCHANGED <<stored, prev, seen, told, repeats>> /\ faults' = faults + 1
  BY DEF RunDies, CountFault, pageVars
<1>2. Unpaged(s)' = Unpaged(s) \ {c} /\ Unpaged(s) \in SUBSET Detections
  BY <1>1 DEF Unpaged, Before
<1>3. \/ Cardinality(Unpaged(s)') = Cardinality(Unpaged(s))
      \/ Cardinality(Unpaged(s)') = Cardinality(Unpaged(s)) - 1 /\ Cardinality(Unpaged(s)) # 0
  <2>1. CASE c \in Unpaged(s)
    BY <1>2, <2>1, RunsCount
  <2>2. CASE c \notin Unpaged(s)
    <3>1. Unpaged(s)' = Unpaged(s)
      BY <1>2, <2>2
    <3> QED
      BY <3>1
  <2> QED
    BY <2>1, <2>2
<1>4. StoresOld(s)' => StoresOld(s)
  BY <1>1 DEF StoresOld, Stores, Past, Changed
<1>5. repeats'[s] = repeats[s] /\ repeats[s] \in Nat /\ faults \in Nat /\ repeats[s] + Debt(s) <= faults
  BY <1>1, AlertNumbers DEF Paid
<1> QED
  BY <1>1, <1>3, <1>4, <1>5, DebtShape DEF Paid, Debt, Owes

LEMMA AlertTypeStays == AlertTypeOK /\ [AlertNext]_alertVars => AlertTypeOK'
<1> SUFFICES ASSUME AlertTypeOK, [AlertNext]_alertVars PROVE AlertTypeOK'
  OBVIOUS
<1> USE AlertNumbers DEF AlertTypeOK, detVars, pageVars, CountFault, Move
<1>0. Healthy \in HealthState
  BY DEF Healthy, HealthState
<1>1. ASSUME NEW c \in Detections, StartDetection(c) PROVE AlertTypeOK'
  <2>1. faults' \in 0 .. MaxFaults
    BY <1>1 DEF StartDetection
  <2>2. astray' \in BOOLEAN
    BY <1>1 DEF StartDetection
  <2> QED
    BY <1>1, <2>1, <2>2 DEF StartDetection
<1>2. ASSUME NEW c \in Detections, LoadState(c) PROVE AlertTypeOK'
  BY <1>2 DEF LoadState
<1>3. ASSUME NEW c \in Detections, LoadFails(c) PROVE AlertTypeOK'
  BY <1>0, <1>3 DEF LoadFails, Unread
<1>4. ASSUME NEW c \in Detections, NEW s \in Signals, Page(c, s) PROVE AlertTypeOK'
  <2>1. told' \in HealthState
    BY <1>4 DEF Page, HealthState
  <2>2. repeats' \in [Signals -> Nat]
    BY <1>4 DEF Page
  <2> QED
    BY <1>4, <2>1, <2>2 DEF Page, After
<1>5. ASSUME NEW c \in Detections, NEW s \in Signals, NoPage(c, s) PROVE AlertTypeOK'
  BY <1>5 DEF NoPage, After
<1>6. ASSUME NEW c \in Detections, NEW s \in Signals, PageLost(c, s) PROVE AlertTypeOK'
  <2>1. faults' \in 0 .. MaxFaults
    BY <1>6 DEF PageLost
  <2> QED
    BY <1>6, <2>1 DEF PageLost, After
<1>7. ASSUME NEW c \in Detections, SaveState(c) PROVE AlertTypeOK'
  BY <1>7 DEF SaveState
<1>8. ASSUME NEW c \in Detections, RunDies(c) PROVE AlertTypeOK'
  <2>1. faults' \in 0 .. MaxFaults
    BY <1>8 DEF RunDies
  <2>2. astray' \in BOOLEAN
    BY <1>8 DEF RunDies
  <2> QED
    BY <1>8, <2>1, <2>2 DEF RunDies
<1>9. ASSUME NEW s \in Signals, HealthTurns(s) PROVE AlertTypeOK'
  <2>1. health' \in HealthState
    BY <1>9 DEF HealthTurns, HealthState
  <2>2. turns' \in 0 .. MaxTurns
    BY <1>9 DEF HealthTurns
  <2> QED
    BY <1>9, <2>1, <2>2 DEF HealthTurns
<1>10. ASSUME UNCHANGED alertVars PROVE AlertTypeOK'
  BY <1>10 DEF alertVars
<1> QED
  BY <1>1, <1>2, <1>3, <1>4, <1>5, <1>6, <1>7, <1>8, <1>9, <1>10
  DEF AlertNext, DetectionGoesOn, DetectionFails

\* Nothing the debt counts changes.
LEMMA DebtRests ==
  ASSUME AlertInv, NEW s \in Signals, UNCHANGED <<stored, detStep, prev, seen, told, repeats, faults>>
  PROVE  Paid(s)'
<1>1. \A d \in Detections : Stores(d, s)' <=> Stores(d, s)
  BY DEF Stores, Changed
<1>2. (SomeStores(s)' <=> SomeStores(s)) /\ (StoresOld(s)' <=> StoresOld(s)) /\ (StoredOld(s)' <=> StoredOld(s))
  BY <1>1 DEF SomeStores, StoresOld, StoredOld
<1>3. Unpaged(s)' = Unpaged(s)
  BY DEF Unpaged
<1>4. \A d \in Unpaged(s) : Mistaken(d, s)' <=> Mistaken(d, s)
  BY <1>2 DEF Mistaken
<1>5. (AllMistaken(s)' <=> AllMistaken(s)) /\ (SomeMistaken(s)' <=> SomeMistaken(s))
  BY <1>3, <1>4 DEF AllMistaken, SomeMistaken
<1>6. repeats[s] + Debt(s) <= faults
  BY DEF AlertInv, Paid
<1> QED
  BY <1>2, <1>3, <1>5, <1>6 DEF Paid, Debt, Owes

LEMMA AlertStep == AlertInv /\ [AlertNext]_alertVars => AlertInv'
<1> SUFFICES ASSUME AlertInv, [AlertNext]_alertVars, NEW s \in Signals PROVE Paid(s)'
  BY AlertTypeStays DEF AlertInv
<1>1. ASSUME NEW c \in Detections, NEW t \in Signals, Page(c, t) \/ NoPage(c, t) \/ PageLost(c, t)
      PROVE  Paid(s)'
  <2>1. CASE t = s
    BY <1>1, <2>1, RepeatIsPaid, NewsIsPaid, NothingIsPaid, LostIsPaid
  <2>2. CASE t # s
    <3>1. Move(c, t, After(t)) /\ told'[s] = told[s] /\ repeats'[s] = repeats[s] /\ UNCHANGED <<stored, prev, seen>>
      BY <1>1, <2>2 DEF Page, NoPage, PageLost, AlertInv, AlertTypeOK, HealthState, pageVars
    <3>2. Debt(s)' = Debt(s)
      BY <2>2, <3>1, OtherSignal DEF AlertInv
    <3>3. faults' = faults \/ faults' = faults + 1
      BY <1>1 DEF Page, NoPage, PageLost, CountFault
    <3>4. repeats[s] \in Nat /\ faults \in Nat /\ Debt(s) \in Nat /\ repeats[s] + Debt(s) <= faults
      <4>1. repeats[s] \in Nat /\ faults \in Nat /\ repeats[s] + Debt(s) <= faults
        BY AlertNumbers DEF AlertInv, AlertTypeOK, Paid
      <4>2. Debt(s) \in Nat
        BY DebtShape DEF Debt, Owes
      <4> QED
        BY <4>1, <4>2
    <3> QED
      BY <3>1, <3>2, <3>3, <3>4 DEF Paid
  <2> QED
    BY <2>1, <2>2
<1>2. ASSUME NEW t \in Signals, HealthTurns(t) PROVE Paid(s)'
  BY <1>2, DebtRests DEF HealthTurns, detVars, pageVars
<1>3. ASSUME UNCHANGED alertVars PROVE Paid(s)'
  BY <1>3, DebtRests DEF alertVars, detVars, pageVars
<1> QED
  BY <1>1, <1>2, <1>3, StartIsPaid, LoadIsPaid, SaveIsPaid, DeathIsPaid
  DEF AlertNext, DetectionGoesOn, DetectionFails

LEMMA OpsStepsAlerts == [OpsNext]_opsVars => [AlertNext]_alertVars
  BY DEF OpsNext, opsVars, AlertScene, WalletScene, SnapshotScene, ReceiptScene, MarketScene, CopyScene, PulseScene

\* Each step of the runs tells something new, tells it again, is a fault, or is none of Paging's concern.
LEMMA StepIsPaging ==
  AlertInv /\ [AlertNext]_alertVars => [Promised!PagingNext]_(Promised!pagingVars)
<1> SUFFICES ASSUME AlertInv, [AlertNext]_alertVars
             PROVE  [Promised!PagingNext]_(Promised!pagingVars)
  OBVIOUS
<1> DEFINE slack == [s \in Signals |-> faults - repeats[s]]
<1>0. /\ told \in [Signals -> BOOLEAN] /\ repeats \in [Signals -> Nat] /\ faults \in Nat
      /\ \A c \in Detections, s \in Signals : seen[c][s] \in BOOLEAN
  BY AlertNumbers DEF AlertInv, AlertTypeOK, HealthState
<1>1. ASSUME UNCHANGED <<told, repeats, faults>> PROVE [Promised!PagingNext]_(Promised!pagingVars)
  BY <1>1 DEF Promised!pagingVars
<1>2. ASSUME CountFault, UNCHANGED <<told, repeats>> PROVE Promised!PagingNext
  <2>1. slack' = [s \in Signals |-> slack[s] + 1]
    BY <1>0, <1>2 DEF CountFault
  <2> QED
    BY <1>2, <2>1 DEF Promised!PagingNext, Promised!Fault
<1>3. ASSUME NEW c \in Detections, NEW s \in Signals, Page(c, s) PROVE Promised!PagingNext
  <2>1. CASE told[s] # seen[c][s]
    <3>1. told' = [told EXCEPT ![s] = ~@] /\ UNCHANGED <<repeats, faults>>
      BY <1>0, <1>3, <2>1 DEF Page
    <3> QED
      BY <3>1 DEF Promised!PagingNext, Promised!Tell
  <2>2. CASE told[s] = seen[c][s]
    <3>1. repeats[s] < faults
      BY <1>3, <2>2, RepeatIsPaid
    <3>2. told' = told /\ faults' = faults /\ repeats' = [repeats EXCEPT ![s] = @ + 1]
      BY <1>0, <1>3, <2>2 DEF Page
    <3>3. slack[s] > 0
      BY <1>0, <3>1
    <3>4. \A t \in Signals : faults' - repeats'[t] = IF t = s THEN (faults - repeats[t]) - 1 ELSE faults - repeats[t]
      BY <1>0, <3>2
    <3>5. slack' = [slack EXCEPT ![s] = @ - 1]
      BY <3>4
    <3> QED
      BY <3>2, <3>3, <3>5 DEF Promised!PagingNext, Promised!TellAgain
  <2> QED
    BY <2>1, <2>2
<1>4. ASSUME NEW c \in Detections, StartDetection(c) PROVE [Promised!PagingNext]_(Promised!pagingVars)
  BY <1>1, <1>2, <1>4 DEF StartDetection, pageVars
<1>5. ASSUME NEW c \in Detections, LoadFails(c) \/ RunDies(c) \/ \E s \in Signals : PageLost(c, s)
      PROVE  Promised!PagingNext
  BY <1>2, <1>5 DEF LoadFails, RunDies, PageLost, pageVars
<1>6. ASSUME NEW c \in Detections, LoadState(c) \/ SaveState(c) \/ \E s \in Signals : NoPage(c, s)
      PROVE  [Promised!PagingNext]_(Promised!pagingVars)
  BY <1>1, <1>6 DEF LoadState, SaveState, NoPage, pageVars
<1>7. ASSUME NEW s \in Signals, HealthTurns(s) PROVE [Promised!PagingNext]_(Promised!pagingVars)
  BY <1>1, <1>7 DEF HealthTurns, pageVars
<1>8. ASSUME UNCHANGED alertVars PROVE [Promised!PagingNext]_(Promised!pagingVars)
  BY <1>1, <1>8 DEF alertVars, pageVars
<1> QED
  BY <1>3, <1>4, <1>5, <1>6, <1>7, <1>8 DEF AlertNext, DetectionGoesOn, DetectionFails

(***************************************************************************)
(* The detection implements Paging: whatever reads, writes, pages and runs *)
(* are lost and however runs overlap, pages on a signal alternate but for  *)
(* one repetition a fault, for any number of runs and faults.              *)
(***************************************************************************)
THEOREM PagingIsImplemented == OpsSpec => PagesAreTransitions
<1>1. OpsInit => AlertInv
  BY AlertStarts DEF OpsInit
<1>2. OpsInit => Promised!PagingInit
  <2>1. ASSUME AlertInit PROVE [s \in Signals |-> faults - repeats[s]] = [s \in Signals |-> 0]
    BY <2>1 DEF AlertInit
  <2> QED
    BY <2>1 DEF OpsInit, AlertInit, Healthy, Promised!PagingInit
<1>3. AlertInv /\ [OpsNext]_opsVars => AlertInv'
  BY AlertStep, OpsStepsAlerts
<1>4. AlertInv /\ [OpsNext]_opsVars => [Promised!PagingNext]_(Promised!pagingVars)
  BY StepIsPaging, OpsStepsAlerts
<1> QED
  BY <1>1, <1>2, <1>3, <1>4, PTL DEF OpsSpec, PagesAreTransitions, Promised!PagingSpec
=============================================================================
