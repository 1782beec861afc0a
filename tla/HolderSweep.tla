---------------------------- MODULE HolderSweep -----------------------------
(***************************************************************************)
(* The MOR holders: discovery of the wallets that transfers touch, the     *)
(* sweep that reads their balances stalest first, and the pages that rank  *)
(* them (src/src/sync/compute-events.ts, db/sync-builder.ts,               *)
(* db/explorer-core.ts, handlers/holders.ts).  Amounts are in units small   *)
(* enough for the dust threshold to be one of them; the ETH balance, the   *)
(* block of the last transfer and the caps of the paging are left out.     *)
(***************************************************************************)
EXTENDS Integers, FiniteSets, Sequences

CONSTANTS
  Purses,         \* wallets, in the order of their addresses
  Participants,   \* the ones that are providers, users or stakers
  Distributions,  \* who may hold how much
  MIN_WEI,        \* the dust threshold
  PAGE_ROWS,      \* rows of a page
  PER_CALL,       \* wallets a sweep is asked for (limit)
  ROUND,          \* wallets of one RPC round (BATCH)
  Sweepers,       \* calls of the sweep
  MaxInstant,     \* bound on the clock
  MaxMisses,      \* bound on the calls that fail or are answered with nothing
  NoHolder,       \* no row
  NoData          \* a result that is null or "0x"

ASSUME HoldersAssumption ==
  /\ Purses \subseteq Nat /\ IsFiniteSet(Purses) /\ Participants \subseteq Purses
  /\ Distributions \subseteq [Purses -> Nat]
  /\ {MIN_WEI, PAGE_ROWS, PER_CALL, ROUND, MaxInstant, MaxMisses} \subseteq Nat
  /\ 0 \notin {MIN_WEI, PAGE_ROWS, PER_CALL, ROUND, MaxInstant}
  /\ NoHolder \notin [wei : Nat, stamp : Nat] /\ {NoHolder, NoData} \intersect Nat = {}

VARIABLES
  ledger,      \* the balances after each instant
  holderRow,   \* mor_holders: wei, stamp (updated_at), or NoHolder
  sweep,       \* each call: wallets to do with the stamps it met them by, the stamp it
               \* writes, the wallets and the answers of its round
  misses,      \* calls that failed or were answered with nothing
  blanks       \* history: the wallets answered with nothing, and when

holderVars == <<ledger, holderRow, sweep, misses, blanks>>

Idle == [todo |-> {}, stamp |-> 0, round |-> {}, read |-> {}]

HoldersInit ==
  /\ \E held \in Distributions : ledger = <<held>>
  /\ holderRow = [w \in Purses |-> NoHolder]
  /\ sweep = [c \in Sweepers |-> Idle] /\ misses = 0 /\ blanks = {}

Instant == Len(ledger)

Transfers ==
  /\ Instant < MaxInstant
  /\ \E held \in Distributions : ledger' = Append(ledger, held)
  /\ UNCHANGED <<holderRow, sweep, misses, blanks>>

Fails(lands) == misses' = IF lands THEN misses ELSE misses + 1
MayFail(lands) == lands \/ misses < MaxMisses

\* The wallets of the transfers of a block; the first one is the mint.
Touched(block) ==
  {w \in Purses : IF block = 1 THEN ledger[1][w] > 0 ELSE ledger[block][w] # ledger[block - 1][w]}

\* upsertMorHolderStmt: a row without a balance yet, and a row that is there keeps its own.
Discovered(w) == IF holderRow[w] = NoHolder THEN [wei |-> 0, stamp |-> 0] ELSE holderRow[w]

\* The transfers of a block, from the live tick or the history, in any order, and again.
processMorTransfers(block, lands) ==
  /\ MayFail(lands) /\ Fails(lands)
  /\ holderRow' = IF lands THEN [w \in Purses |-> IF w \in Touched(block) THEN Discovered(w) ELSE holderRow[w]]
                  ELSE holderRow
  /\ UNCHANGED <<ledger, sweep, blanks>>

HolderRows == {w \in Purses : holderRow[w] # NoHolder}

\* What a query reads of a row.
Met(w) == [wallet |-> w, stamp |-> holderRow[w].stamp]

\* ORDER BY updated_at: of two stamped alike the index gives the same one first.
Stalest(a, b) == a.stamp < b.stamp \/ (a.stamp = b.stamp /\ a.wallet < b.wallet)

\* LIMIT n: the rows that fewer than n are before.
FirstOf(n, rows, Before(_, _)) == {w \in rows : Cardinality({v \in rows : Before(v, w)}) < n}

\* getStalestHolderWallets; the stamp is taken before the first round.
PickStalest(c) ==
  /\ sweep[c] = Idle /\ HolderRows # {}
  /\ sweep' = [sweep EXCEPT ![c] = [Idle EXCEPT !.todo = FirstOf(PER_CALL, {Met(w) : w \in HolderRows}, Stalest),
                                                !.stamp = Instant]]
  /\ UNCHANGED <<ledger, holderRow, misses, blanks>>

\* A round is a slice of the list, in the order in which the rows came.
RoundOf(todo)    == FirstOf(ROUND, todo, Stalest)
WalletsOf(met)   == {m.wallet : m \in met}
AfterRound(todo) == todo \ RoundOf(todo)

\* One rpcBatch: a call it did not return is no answer, and a null or "0x" result is one.
ReadRound(c, answered, empty) ==
  LET round == WalletsOf(RoundOf(sweep[c].todo))
      whole == answered = round /\ empty = {} IN
  /\ sweep[c].todo # {} /\ sweep[c].round = {} /\ answered \subseteq round /\ empty \subseteq answered
  /\ MayFail(whole) /\ Fails(whole)
  /\ sweep' = [sweep EXCEPT ![c].round = round,
                            ![c].read = {[wallet |-> w, wei |-> IF w \in empty THEN NoData ELSE ledger[Instant][w]]
                                           : w \in answered}]
  /\ blanks' = blanks \union {<<w, Instant>> : w \in empty}
  /\ UNCHANGED <<ledger, holderRow>>

\* What the round was told of a wallet.
Told(c, w) == {a.wei : a \in {b \in sweep[c].read : b.wallet = w}}

\* Mutant: a wallet that was not answered is written as a zero too.
Written_falseZero(c, w) ==
  IF w \notin sweep[c].round THEN NoHolder
  ELSE IF Told(c, w) \subseteq {NoData} THEN 0 ELSE CHOOSE wei \in Told(c, w) : TRUE

\* The balance that the round writes for a wallet: none if it was not answered, a zero for no data.
Written(c, w) ==
  IF Told(c, w) = {} THEN NoHolder
  ELSE IF NoData \in Told(c, w) THEN 0 ELSE CHOOSE wei \in Told(c, w) : TRUE

\* updateHolderBalancesStmt for what was answered, and on to the next round.
WriteRound(c, lands) ==
  /\ sweep[c].round # {} /\ MayFail(lands) /\ Fails(lands)
  /\ holderRow' = [w \in Purses |->
       IF lands /\ Written(c, w) # NoHolder
       THEN [holderRow[w] EXCEPT !.wei = Written(c, w), !.stamp = sweep[c].stamp] ELSE holderRow[w]]
  /\ LET left == AfterRound(sweep[c].todo) IN
       sweep' = [sweep EXCEPT ![c] = IF left = {} THEN Idle ELSE [@ EXCEPT !.todo = left, !.round = {}, !.read = {}]]
  /\ UNCHANGED <<ledger, blanks>>

SweepGoesOn(c) ==
  \/ PickStalest(c)
  \/ \E answered \in SUBSET WalletsOf(RoundOf(sweep[c].todo)) :
       \E empty \in SUBSET answered : ReadRound(c, answered, empty)
  \/ \E lands \in BOOLEAN : WriteRound(c, lands)

HoldersNext ==
  \/ Transfers
  \/ \E block \in 1 .. Instant, lands \in BOOLEAN : processMorTransfers(block, lands)
  \/ \E c \in Sweepers : SweepGoesOn(c)
-----------------------------------------------------------------------------
\* Rows whose balance has been read.
Computed == {w \in HolderRows : holderRow[w].stamp > 0}

WithBalance == {w \in Computed : holderRow[w].wei > 0}
Meaningful  == {w \in Computed : holderRow[w].wei >= MIN_WEI}
Dust        == {w \in WithBalance : holderRow[w].wei < MIN_WEI}

\* countDustHolders, selectDustHolders: former holders too, and nobody who takes part.
DustPage == {w \in Computed \ Participants : holderRow[w].wei < MIN_WEI}

\* selectRankedHolders: the richest first, and of two alike the lower address.
Richer(a, b) == holderRow[a].wei > holderRow[b].wei \/ (holderRow[a].wei = holderRow[b].wei /\ a < b)

HolderPages == (Cardinality(WithBalance) + PAGE_ROWS - 1) \div PAGE_ROWS
Offset(page) == (page - 1) * PAGE_ROWS

\* handleHolders: the rows of a page, ranked on from the pages before.
HolderPage(page) ==
  LET rows == FirstOf(Offset(page) + PAGE_ROWS, WithBalance, Richer) \ FirstOf(Offset(page), WithBalance, Richer) IN
  {[wallet |-> w, rank |-> Offset(page) + 1 + Cardinality({v \in rows : Richer(v, w)})] : w \in rows}
-----------------------------------------------------------------------------
HoldersTypeOK ==
  /\ ledger \in Seq(Distributions) /\ Instant \in 1 .. MaxInstant
  /\ holderRow \in [Purses -> [wei : Nat, stamp : 0 .. MaxInstant] \union {NoHolder}]
  /\ \A c \in Sweepers : sweep[c].round \subseteq WalletsOf(sweep[c].todo) /\ WalletsOf(sweep[c].todo) \subseteq HolderRows
  /\ misses \in 0 .. MaxMisses /\ blanks \subseteq Purses \X (1 .. MaxInstant)

WasTrue(w) == \E t \in holderRow[w].stamp .. Instant : ledger[t][w] = holderRow[w].wei

(***************************************************************************)
(* "It is fully idempotent": a balance on display was the wallet's at some *)
(* moment not before its stamp, whatever sweeps overlapped, were late,     *)
(* lost answers or lost writes.  The one way to a balance that never was   *)
(* is a zero, of a wallet that an endpoint answered with no data since.    *)
(***************************************************************************)
BalancesWereTrue ==
  \A w \in Computed :
    \/ WasTrue(w)
    \/ holderRow[w].wei = 0 /\ \E t \in holderRow[w].stamp .. Instant : <<w, t>> \in blanks

(***************************************************************************)
(* "A wallet whose RPC read fails is SKIPPED rather than written as a      *)
(* false zero" (compute-events.ts).  Not so: a result that is null or "0x" *)
(* is no read of a balance, and it is written as a zero.                   *)
(***************************************************************************)
NoFalseZeros == \A w \in Computed : holderRow[w].wei = 0 => WasTrue(w)

(***************************************************************************)
(* The counts, the ranked pages and the dust page come from queries of     *)
(* their own: the pages list each wallet with a balance once, its rank     *)
(* continuous across them; the counts add up to the list; no wallet is     *)
(* meaningful and dust; and a computed wallet is listed, dust, or takes    *)
(* part in the network.                                                    *)
(***************************************************************************)
HolderPagesAddUp ==
  LET listed == UNION {HolderPage(page) : page \in 1 .. HolderPages} IN
  /\ {h.wallet : h \in listed} = WithBalance /\ Cardinality(listed) = Cardinality(WithBalance)
  /\ {h.rank : h \in listed} = 1 .. Cardinality(WithBalance)
  /\ \A a, b \in listed : a.rank < b.rank => holderRow[a.wallet].wei >= holderRow[b.wallet].wei
  /\ Cardinality(Meaningful) + Cardinality(Dust) = Cardinality(WithBalance)
  /\ DustPage \intersect Meaningful = {}
  /\ Computed \subseteq WithBalance \union DustPage \union Participants

(***************************************************************************)
(* Balances were true, and the queries over them add up.                   *)
(***************************************************************************)
HoldersAreTrue == HoldersTypeOK /\ BalancesWereTrue /\ HolderPagesAddUp
=============================================================================
