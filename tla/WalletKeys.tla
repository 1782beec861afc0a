----------------------------- MODULE WalletKeys -----------------------------
(***************************************************************************)
(* The API key of one wallet: the sign-in challenge and its redemption,    *)
(* the key issued on first connect, rotation and revocation from the       *)
(* console, and the minute sweep that keeps the row's caps at the stake    *)
(* (src/src/routes/auth/wallet.ts, console.ts, src/src/db/auth.ts,         *)
(* src/src/utils/stake-tier.ts).  Every call awaits KV or D1 between its   *)
(* steps, so several browser tabs and the cron interleave.                 *)
(***************************************************************************)
EXTENDS Integers, FiniteSets

CONSTANTS
  Calls,       \* the POSTs to /console/wallet/verify, /console/key, /console/key/revoke
  Sweeps,      \* runs of refreshWalletCaps that may overlap
  Nonces,      \* challenges that may be minted
  Stakes,      \* stakes the wallet may come to hold
  MaxStakings, \* bound on the changes of the stake
  NoKey        \* no api_keys row

ASSUME WalletAssumption ==
  /\ Stakes \subseteq Nat /\ Stakes # {}
  /\ MaxStakings \in Nat
  /\ NoKey \notin Calls

VARIABLES
  stake,      \* builder_stakes.deposited of the wallet
  stakings,   \* the changes of it so far, for their bound
  minted,     \* the challenges in NONCE_CACHE
  account,    \* the wallet's api_keys row: its key and caps
  signedIn,   \* a session cookie of the wallet exists
  callStep,   \* where each call is
  nonceOf,    \* the challenge a verify redeems
  callCaps,   \* the caps a call has computed
  sweepStep,  \* where each sweep is
  sweepRow,   \* the row a sweep has read, joined with the stake of that moment
  clean,      \* history: the sweeps that began with no other stake in flight, and met none
  settled     \* history: one of those has written, and the stake was read right since

sweepers   == <<sweepStep, sweepRow>>
callVars   == <<callStep, nonceOf, callCaps>>
calmVars   == <<clean, settled>>
walletVars == <<stake, stakings, minted, account, signedIn, callVars, sweepers, calmVars>>

(***************************************************************************)
(* capsForStake: what a live stake buys.  Stakes are integers of a tenth   *)
(* of a MOR, so that fractions of a token, which the floors cut off, exist.*)
(***************************************************************************)
MOR == 10

CONNECTED_CAPS == [burst |-> 60, daily |-> 2000, monthly |-> 40000]
BURST_PER_MOR  == 3
BURST_MAX      == 10000

\* Requests a month that one MOR buys, by the size of the held.
PerMor(held) ==
  CASE held >= 10000 * MOR -> 2500
    [] held >= 2500 * MOR /\ held < 10000 * MOR -> 2000
    [] held >= 500 * MOR /\ held < 2500 * MOR -> 1500
    [] held < 500 * MOR -> 1000

BurstFor(held) ==
  LET scaled == (BURST_PER_MOR * held) \div MOR
  IN  IF scaled > BURST_MAX THEN BURST_MAX
      ELSE IF scaled < CONNECTED_CAPS.burst THEN CONNECTED_CAPS.burst ELSE scaled

MonthlyFor(held) ==
  IF held < 100 * MOR THEN CONNECTED_CAPS.monthly ELSE (held * PerMor(held)) \div MOR

\* DAILY_FRACTION_OF_MONTHLY is 0.05.
DailyFor(held) ==
  IF held < 100 * MOR THEN CONNECTED_CAPS.daily ELSE MonthlyFor(held) \div 20

capsForStake(held) ==
  IF held = 0 THEN CONNECTED_CAPS
  ELSE [burst |-> BurstFor(held), daily |-> DailyFor(held), monthly |-> MonthlyFor(held)]
-----------------------------------------------------------------------------
CapsOf(s) == capsForStake(s)
NoCaps    == [burst |-> 0, daily |-> 0, monthly |-> 0]
Absent    == [key |-> NoKey, caps |-> NoCaps]

CallSteps == {"new", "spend", "stake", "look", "insert", "update", "answer",
              "rotate", "revoke", "done"}

WalletInit ==
  /\ stake \in Stakes /\ stakings = 0
  /\ minted = {}
  /\ account = Absent
  /\ signedIn = FALSE
  /\ callStep = [c \in Calls |-> "new"]
  /\ nonceOf \in [Calls -> Nonces]
  /\ callCaps = [c \in Calls |-> NoCaps]
  /\ sweepStep = [w \in Sweeps |-> "idle"]
  /\ sweepRow = [w \in Sweeps |-> [caps |-> NoCaps, stake |-> 0]]
  /\ clean = {} /\ settled = FALSE

\* History: no call holds the caps, and no sweep the stake, of another moment.
NoneOutdated ==
  /\ \A c \in Calls : callStep[c] \in {"look", "insert", "update", "rotate"} => callCaps[c] = CapsOf(stake)
  /\ \A w \in Sweeps : sweepStep[w] = "write" => sweepRow[w].stake = stake

\* History: a stake is read as found.
FindsStake(found) ==
  /\ clean' = IF found = stake THEN clean ELSE {}
  /\ settled' = (settled /\ found = stake)

Goto(c, from, to) ==
  /\ callStep[c] = from
  /\ callStep' = [callStep EXCEPT ![c] = to]

\* A call has no use for its caps any more.
Forgets(c) == callCaps' = [callCaps EXCEPT ![c] = NoCaps]
-----------------------------------------------------------------------------
\* GET /console/wallet/challenge; it lives five minutes, Expire.
MintChallenge(n) ==
  /\ n \notin minted
  /\ minted' = minted \union {n}
  /\ UNCHANGED <<stake, stakings, account, signedIn, callVars, sweepers, calmVars>>

Expire(n) ==
  /\ n \in minted
  /\ minted' = minted \ {n}
  /\ UNCHANGED <<stake, stakings, account, signedIn, callVars, sweepers, calmVars>>

\* POST /console/wallet/verify: the stored challenge is read, then deleted.
Verify(c) ==
  /\ nonceOf[c] \in minted
  /\ Goto(c, "new", "spend")
  /\ UNCHANGED <<stake, stakings, minted, account, signedIn, nonceOf, callCaps, sweepers, calmVars>>

\* The deletion, then the checks of wallet, host and signature: any may refuse.
Spend(c, next) ==
  /\ Goto(c, "spend", next)
  /\ minted' = minted \ {nonceOf[c]}
  /\ UNCHANGED <<stake, stakings, account, signedIn, nonceOf, callCaps, sweepers, calmVars>>

\* stakeMorFor: a failed read counts as no stake.
ReadStake(c, found) ==
  /\ found \in {stake, 0} /\ FindsStake(found)
  /\ Goto(c, "stake", "look")
  /\ callCaps' = [callCaps EXCEPT ![c] = CapsOf(found)]
  /\ UNCHANGED <<stake, stakings, minted, account, signedIn, nonceOf, sweepers>>

\* getApiKeyValue.
LookUp(c) ==
  /\ Goto(c, "look", IF account.key = NoKey THEN "insert" ELSE "update")
  /\ UNCHANGED <<stake, stakings, minted, account, signedIn, nonceOf, callCaps, sweepers, calmVars>>

\* insertApiKeyIfAbsent: the key of this call is stored if there is none by now.
InsertIfAbsent(c) ==
  /\ Goto(c, "insert", "answer") /\ Forgets(c)
  /\ account' = IF account.key = NoKey THEN [key |-> c, caps |-> callCaps[c]] ELSE account
  /\ UNCHANGED <<stake, stakings, minted, signedIn, nonceOf, sweepers, calmVars>>

\* updateApiKeyCaps changes a row if there still is one; the answer names no key.
UpdateCaps(c) ==
  /\ Goto(c, "update", "done") /\ Forgets(c)
  /\ account' = IF account.key = NoKey THEN account ELSE [account EXCEPT !.caps = callCaps[c]]
  /\ signedIn' = TRUE
  /\ UNCHANGED <<stake, stakings, minted, nonceOf, sweepers, calmVars>>

\* The response with the new key, whether or not the insert stored it.
AnswerKey(c) ==
  /\ Goto(c, "answer", "done")
  /\ signedIn' = TRUE
  /\ UNCHANGED <<stake, stakings, minted, account, nonceOf, callCaps, sweepers, calmVars>>

\* POST /console/key: stakeMorFor, then upsertApiKeyWithRotation replaces the key only.
AskRotation(c, found) ==
  /\ signedIn /\ found \in {stake, 0} /\ FindsStake(found)
  /\ Goto(c, "new", "rotate")
  /\ callCaps' = [callCaps EXCEPT ![c] = CapsOf(found)]
  /\ UNCHANGED <<stake, stakings, minted, account, signedIn, nonceOf, sweepers>>

Rotate(c) ==
  /\ Goto(c, "rotate", "done") /\ Forgets(c)
  /\ account' = [key |-> c, caps |-> IF account.key = NoKey THEN callCaps[c] ELSE account.caps]
  /\ UNCHANGED <<stake, stakings, minted, signedIn, nonceOf, sweepers, calmVars>>

\* POST /console/key/revoke deletes the row; a later connect issues a new one.
Revoke(c) ==
  /\ signedIn
  /\ Goto(c, "new", "done")
  /\ account' = Absent
  /\ UNCHANGED <<stake, stakings, minted, signedIn, nonceOf, callCaps, sweepers, calmVars>>

\* The request dies at an await: no answer, and what it wrote stays.
CallDies(c) ==
  /\ callStep[c] \notin {"new", "done"}
  /\ callStep' = [callStep EXCEPT ![c] = "done"]
  /\ Forgets(c)
  /\ UNCHANGED <<stake, stakings, minted, account, signedIn, nonceOf, sweepers, calmVars>>
-----------------------------------------------------------------------------
\* The minute cron calls refreshWalletCaps: one joined read of row and stake.
SweepRead(w) ==
  /\ sweepStep[w] = "idle" /\ account.key # NoKey
  /\ sweepStep' = [sweepStep EXCEPT ![w] = "write"]
  /\ sweepRow' = [sweepRow EXCEPT ![w] = [caps |-> account.caps, stake |-> stake]]
  /\ clean' = IF NoneOutdated THEN clean \union {w} ELSE clean
  /\ UNCHANGED <<stake, stakings, minted, account, signedIn, callVars, settled>>

\* Mutant: only the monthly cap is compared.
Outdated_monthly(read) == read.caps.monthly # CapsOf(read.stake).monthly

\* Any of rate_limit, daily_cap and monthly_cap differs from what the stake buys.
Outdated(read) == read.caps # CapsOf(read.stake)

\* The batch of updates, by id: whatever row has that id by now.
SweepWrite(w) ==
  /\ sweepStep[w] = "write"
  /\ sweepStep' = [sweepStep EXCEPT ![w] = "idle"]
  /\ account' = IF account.key # NoKey /\ Outdated(sweepRow[w])
                  THEN [account EXCEPT !.caps = CapsOf(sweepRow[w].stake)] ELSE account
  /\ sweepRow' = [sweepRow EXCEPT ![w] = [caps |-> NoCaps, stake |-> 0]]
  /\ clean' = clean \ {w} /\ settled' = (settled \/ w \in clean)
  /\ UNCHANGED <<stake, stakings, minted, signedIn, callVars>>

\* The builder sync finds a deposit or a withdrawal.
ChangeStake(s) ==
  /\ s # stake /\ stakings < MaxStakings
  /\ stake' = s /\ stakings' = stakings + 1
  /\ clean' = {} /\ settled' = FALSE
  /\ UNCHANGED <<minted, account, signedIn, callVars, sweepers>>
-----------------------------------------------------------------------------
\* What a call does once it has begun.
CallGoesOn(c) ==
  \/ \E next \in {"stake", "done"} : Spend(c, next)
  \/ \E found \in Stakes \union {0} : ReadStake(c, found)
  \/ LookUp(c) \/ InsertIfAbsent(c) \/ UpdateCaps(c) \/ AnswerKey(c)
  \/ Rotate(c) \/ CallDies(c)

WalletNext ==
  \/ \E n \in Nonces : MintChallenge(n) \/ Expire(n)
  \/ \E c \in Calls : Verify(c) \/ Revoke(c) \/ CallGoesOn(c)
                      \/ \E found \in Stakes \union {0} : AskRotation(c, found)
  \/ \E w \in Sweeps : SweepRead(w) \/ SweepWrite(w)
  \/ \E s \in Stakes : ChangeStake(s)

\* The cron fires every minute, and no call or sweep waits for ever.
WalletFairness ==
  /\ \A w \in Sweeps : WF_walletVars(SweepRead(w)) /\ WF_walletVars(SweepWrite(w))
  /\ \A c \in Calls : WF_walletVars(CallGoesOn(c))

WalletSpec == WalletInit /\ [][WalletNext]_walletVars /\ WalletFairness
-----------------------------------------------------------------------------
Caps == [burst : Nat, daily : Nat, monthly : Nat]

WalletTypeOK ==
  /\ stake \in Stakes /\ stakings \in 0 .. MaxStakings
  /\ minted \subseteq Nonces
  /\ account \in [key : Calls \union {NoKey}, caps : Caps]
  /\ signedIn \in BOOLEAN
  /\ callStep \in [Calls -> CallSteps]
  /\ nonceOf \in [Calls -> Nonces]
  /\ callCaps \in [Calls -> Caps]
  /\ sweepStep \in [Sweeps -> {"idle", "write"}]
  /\ sweepRow \in [Sweeps -> [caps : Caps, stake : Nat]]
  /\ clean \subseteq Sweeps /\ settled \in BOOLEAN

AtMost(low, high) == low.burst <= high.burst /\ low.daily <= high.daily /\ low.monthly <= high.monthly

(***************************************************************************)
(* "A small stake can never LOWER your burst" (stake-tier.ts): no stake    *)
(* buys less than a connected wallet has for nothing, in any of the three  *)
(* caps, and none buys less than a smaller one, across the tiers, the      *)
(* ceiling of the burst and every rounding.  It is a claim on numbers,     *)
(* proved for all of them (StakeNeverLowers).                              *)
(***************************************************************************)
StakeBuysCaps == \A s \in Stakes :
  /\ AtMost(CONNECTED_CAPS, CapsOf(s))
  /\ \A more \in Stakes : s <= more => AtMost(CapsOf(s), CapsOf(more))

(***************************************************************************)
(* A stake change reaches the caps (stake-tier.ts: within a minute or      *)
(* two): whatever connects, rotations and overlapping sweeps wrote from    *)
(* stakes they had read before, the row ends at what the stake buys.       *)
(***************************************************************************)
CapsFollowStake == <>[](account.key # NoKey => account.caps = CapsOf(stake))

(***************************************************************************)
(* One sweep settles the row: if it began while no call and no other sweep *)
(* held caps or a stake of another moment, and none read a wrong one since,*)
(* then from its write on the caps are what the stake buys, whichever tabs *)
(* connect, rotate, revoke and connect again and whichever sweeps overlap  *)
(* it, until the stake changes or a read of it fails and counts as none.   *)
(***************************************************************************)
SettledCapsStay == settled /\ account.key # NoKey => account.caps = CapsOf(stake)

(***************************************************************************)
(* The rows and calls hold what they may, and a sweep that met nothing     *)
(* outdated has left the row at the stake.                                 *)
(***************************************************************************)
KeysAreSound == WalletTypeOK /\ SettledCapsStay
=============================================================================
