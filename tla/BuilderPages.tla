---------------------------- MODULE BuilderPages ----------------------------
(***************************************************************************)
(* The pages of a builder subnet and of a wallet's positions: the events   *)
(* and stakes that the builder indexer and its backfill leave, in any      *)
(* order and more than once, and what the pages make of them: who stakes   *)
(* and who has left, since when, and until when a stake is locked          *)
(* (src/src/handlers/builder-detail.ts, src/src/db/explorer-builder.ts,    *)
(* sync-builder.ts).  One subnet; time is counted in blocks, which are two *)
(* seconds each on Base; the limits of the lists are left out.             *)
(***************************************************************************)
EXTENDS Integers, FiniteSets, FiniteSetsExt

CONSTANTS
  Stakers,     \* wallets
  StakeMoves,  \* the amounts staked and withdrawn
  LOCK,        \* withdraw_lock_period, in blocks
  MaxMoves,    \* bound on the events of the subnet
  MaxHeight,   \* bound on the chain
  NoStake      \* no row

ASSUME StakingAssumption ==
  /\ LOCK \in Nat /\ MaxMoves \in Nat /\ MaxHeight \in Nat \ {0} /\ StakeMoves \subseteq Nat \ {0}
  /\ NoStake \notin [deposited : Nat, stamp : Nat]

VARIABLES
  height,      \* the block the chain is at
  headRow,     \* sync_state.current_block, which a tick of the compute indexer writes
  staking,     \* the deposits, withdrawals and claims on chain: the log index is the order
  eventRows,   \* the ones that are rows of builder_events
  stakeRow     \* builder_stakes: deposited and last_deposit_at, or NoStake

builderPageVars == <<height, headRow, staking, eventRows, stakeRow>>

BuilderPagesInit ==
  /\ height = 1 /\ headRow = 0
  /\ staking = {} /\ eventRows = {}
  /\ stakeRow = [w \in Stakers |-> NoStake]

EventsOf(events, w, kind) == {e \in events : e.wallet = w /\ e.kind = kind}
AmountOf(events) == MapThenSumSet(LAMBDA e : e.amount, events)
LastBlock(events) == Max({0} \union {e.block : e \in events})

\* A position on chain: what is in it, and the one lastDeposit that every deposit renews.
HeldBy(w)     == AmountOf(EventsOf(staking, w, "deposit")) - AmountOf(EventsOf(staking, w, "withdraw"))
LastDepositOf(w) == LastBlock(EventsOf(staking, w, "deposit"))

MoveOnChain(w, kind, amount) ==
  /\ Cardinality(staking) < MaxMoves
  /\ kind = "withdraw" => amount <= HeldBy(w) /\ height >= LastDepositOf(w) + LOCK
  /\ staking' = staking \union
       {[index |-> Cardinality(staking), wallet |-> w, kind |-> kind, amount |-> amount, block |-> height]}
  /\ UNCHANGED <<height, headRow, eventRows, stakeRow>>

BlockComes ==
  /\ height < MaxHeight /\ height' = height + 1
  /\ UNCHANGED <<headRow, staking, eventRows, stakeRow>>

HeadIsRead ==
  /\ headRow' = height
  /\ UNCHANGED <<height, staking, eventRows, stakeRow>>

\* getStakeFlowEvents, and the sum no lower than nothing.
NetOf(events, w) == LET net == AmountOf(EventsOf(events, w, "deposit")) - AmountOf(EventsOf(events, w, "withdraw"))
                    IN IF net < 0 THEN 0 ELSE net

\* The events of a range, for the first time or again: a deposit makes or stamps the
\* stake with the time of the run, and a touched stake is summed up from the rows.
IndexMoves(range) ==
  /\ range # {}
  /\ eventRows' = eventRows \union range
  /\ stakeRow' = [w \in Stakers |->
       LET staked == EventsOf(range, w, "deposit") # {} IN
       IF ~staked /\ (stakeRow[w] = NoStake \/ EventsOf(range, w, "withdraw") = {}) THEN stakeRow[w]
       ELSE [deposited |-> NetOf(eventRows', w), stamp |-> IF staked THEN height ELSE stakeRow[w].stamp]]
  /\ UNCHANGED <<height, headRow, staking>>

BuilderPagesNext ==
  \/ \E w \in Stakers, amount \in StakeMoves, kind \in {"deposit", "withdraw", "claim"} :
       MoveOnChain(w, kind, amount)
  \/ \E from \in 1 .. height : IndexMoves({e \in staking : e.block = from})
  \/ BlockComes \/ HeadIsRead
-----------------------------------------------------------------------------
RowsHeld == {w \in Stakers : stakeRow[w] # NoStake}

\* selectLatestDepositBlocksBySubnet, ByWallet.
LatestDeposit(w) == LastBlock(EventsOf(eventRows, w, "deposit"))

\* Mutant: the time of the run that stamped the stake.
depositTsFromBlock_stamp(w) == stakeRow[w].stamp

\* depositTsFromBlock: now - (head - block), or the stamp where the block is not known.
depositTsFromBlock(w) ==
  LET block == LatestDeposit(w) IN
  IF block # 0 /\ headRow > 0 /\ block <= headRow THEN height - (headRow - block) ELSE stakeRow[w].stamp

UnlockAt(w) == depositTsFromBlock(w) + LOCK
Locked(w)   == height < UnlockAt(w)

\* selectTopSubnetStakers and the positions of a wallet: what is left is more than nothing.
TopStakers == {w \in RowsHeld : stakeRow[w].deposited > 0}
Positions(w) == IF w \in TopStakers THEN stakeRow[w].deposited ELSE 0

\* selectPreviousSubnetStakers: a stake of nothing, and an event of any kind.
PreviousStakers == {w \in RowsHeld : stakeRow[w].deposited = 0 /\ \E e \in eventRows : e.wallet = w}

\* Credit for what they staked: the larger of all deposits and all withdrawals on record.
CreditOf(w) == Max({AmountOf(EventsOf(eventRows, w, "deposit")), AmountOf(EventsOf(eventRows, w, "withdraw"))})

\* countSubnetDepositors.
DepositorsEver == {w \in Stakers : EventsOf(eventRows, w, "deposit") # {}}
-----------------------------------------------------------------------------
BuilderPagesTypeOK ==
  /\ height \in 1 .. MaxHeight /\ headRow \in 0 .. height
  /\ eventRows \subseteq staking /\ Cardinality(staking) <= MaxMoves
  /\ stakeRow \in [Stakers -> [deposited : Nat, stamp : 1 .. MaxHeight] \union {NoStake}]

Indexed(w) == {e \in staking : e.wallet = w} \subseteq eventRows

(***************************************************************************)
(* "The one honest basis for the withdraw-unlock countdown": once the      *)
(* deposits of a wallet are indexed, late, out of order or again, no page  *)
(* shows a stake unlocked that the contract still locks; and where the     *)
(* block of the deposit is known, the countdown is longer than the         *)
(* contract's by no more than the age of the head that the tick stored.    *)
(***************************************************************************)
CountdownIsHonest == \A w \in RowsHeld : Indexed(w) =>
  /\ UnlockAt(w) >= LastDepositOf(w) + LOCK
  /\ LatestDeposit(w) \in 1 .. headRow => UnlockAt(w) <= LastDepositOf(w) + LOCK + (height - headRow)

(***************************************************************************)
(* "A wallet is active or previous, never both", and it is one of them     *)
(* once it has staked: a wallet whose events are all indexed is listed as  *)
(* a staker while it holds a stake and as a previous one with credit for   *)
(* all it staked when it does not.                                         *)
(***************************************************************************)
ActiveOrPrevious ==
  /\ TopStakers \intersect PreviousStakers = {}
  /\ TopStakers \union PreviousStakers = DepositorsEver
  /\ \A w \in DepositorsEver : Indexed(w) =>
       /\ w \in TopStakers <=> HeldBy(w) > 0
       /\ Positions(w) = HeldBy(w)
       /\ CreditOf(w) = AmountOf(EventsOf(staking, w, "deposit"))

(***************************************************************************)
(* What a subnet and a wallet page say of stakes is true once their events *)
(* are indexed.                                                            *)
(***************************************************************************)
StakePagesAreTrue == BuilderPagesTypeOK /\ CountdownIsHonest /\ ActiveOrPrevious
=============================================================================
