------------------------------ MODULE BidBook -------------------------------
(***************************************************************************)
(* The bids table as its readers see it: the rows that the indexer and the *)
(* discovery of historical bids write, and the queries behind the market   *)
(* rollup, the provider and model pages, the demand table, the reputation  *)
(* lists and the tape (src/src/db/explorer-market.ts, explorer-core.ts and *)
(* the handlers that call them).  A pair of a provider and a model may     *)
(* have several bids, one of them live on chain.                           *)
(***************************************************************************)
EXTENDS Integers, FiniteSets, FiniteSetsExt

CONSTANTS
  Offers,                      \* bid ids
  MakerOf, OfferedOn, AskOf,   \* a bid's provider, model and price
  Makers,                      \* providers
  LIST_CAP,                    \* LIMIT of a provider's retracted bids (50)
  MaxMoment,                   \* bound on the clock
  NoBid,                       \* no row, no answer
  NoTime                       \* the column is NULL

ASSUME BidsAssumption ==
  /\ IsFiniteSet(Offers)
  /\ MakerOf \in [Offers -> Makers] /\ AskOf \in [Offers -> Nat]
  /\ LIST_CAP \in Nat /\ MaxMoment \in Nat \ {0} /\ NoTime \notin Nat

VARIABLES
  moment,    \* seconds
  onChain,   \* each bid on chain: when it was posted and retracted (0 before)
  bidRow,    \* each bid's row, or NoBid
  fetched     \* each getBid answer not yet written, or NoBid

bidVars == <<moment, onChain, bidRow, fetched>>

BidsInit ==
  /\ moment = 1
  /\ onChain = [b \in Offers |-> [posted |-> 0, retracted |-> 0]]
  /\ bidRow = [b \in Offers |-> NoBid] /\ fetched = [b \in Offers |-> NoBid]

MomentPasses ==
  /\ moment < MaxMoment /\ moment' = moment + 1
  /\ UNCHANGED <<onChain, bidRow, fetched>>

SamePair(a, b) == MakerOf[a] = MakerOf[b] /\ OfferedOn[a] = OfferedOn[b]
OnSale(b)      == onChain[b].posted # 0 /\ onChain[b].retracted = 0

\* The contract retracts the bid that a new one of its pair replaces.
PostBid(b) ==
  /\ onChain[b].posted = 0
  /\ onChain' = [a \in Offers |-> IF a = b THEN [posted |-> moment, retracted |-> 0]
                                  ELSE IF SamePair(a, b) /\ OnSale(a)
                                  THEN [onChain[a] EXCEPT !.retracted = moment] ELSE onChain[a]]
  /\ UNCHANGED <<moment, bidRow, fetched>>

RetractBid(b) ==
  /\ OnSale(b)
  /\ onChain' = [onChain EXCEPT ![b].retracted = moment]
  /\ UNCHANGED <<moment, bidRow, fetched>>

BidRows == {b \in Offers : bidRow[b] # NoBid}

\* getBid at latest, for a posted log, a provider's list, or a session whose bid has no row.
ReadBid(b) ==
  /\ onChain[b].posted # 0 /\ fetched[b] = NoBid
  /\ fetched' = [fetched EXCEPT ![b] = [created |-> onChain[b].posted, deleted |-> onChain[b].retracted]]
  /\ UNCHANGED <<moment, onChain, bidRow>>

\* upsertBidStmt, upsertDiscoveredBid: INSERT OR REPLACE, or a call that fails.
WriteBid(b, lands) ==
  /\ fetched[b] # NoBid
  /\ bidRow' = IF lands THEN [bidRow EXCEPT ![b] = fetched[b]] ELSE bidRow
  /\ fetched' = [fetched EXCEPT ![b] = NoBid]
  /\ UNCHANGED <<moment, onChain>>

\* Some queries take a NULL for live, others and the strike do not.
LiveRows == {b \in BidRows : bidRow[b].deleted \in {0, NoTime}}
ZeroRows == {b \in BidRows : bidRow[b].deleted = 0}

\* Mutant: every live bid of the provider is struck.
StrikeBids_provider(b) ==
  /\ onChain[b].retracted # 0
  /\ bidRow' = [o \in Offers |-> IF o \in ZeroRows /\ MakerOf[o] = MakerOf[b]
                                 THEN [bidRow[o] EXCEPT !.deleted = moment] ELSE bidRow[o]]
  /\ UNCHANGED <<moment, onChain, fetched>>

\* markBidsDeletedStmt: the pair's live rows are retracted at the second of the tick.
StrikeBids(b) ==
  /\ onChain[b].retracted # 0
  /\ bidRow' = [o \in Offers |-> IF o \in ZeroRows /\ SamePair(o, b)
                                 THEN [bidRow[o] EXCEPT !.deleted = moment] ELSE bidRow[o]]
  /\ UNCHANGED <<moment, onChain, fetched>>

BidsNext ==
  \/ \E b \in Offers :
       \/ PostBid(b) \/ RetractBid(b) \/ ReadBid(b) \/ StrikeBids(b)
       \/ \E lands \in BOOLEAN : WriteBid(b, lands)
  \/ MomentPasses
-----------------------------------------------------------------------------
StruckRows   == {b \in BidRows : bidRow[b].deleted \notin {0, NoTime}}
OfMaker(p)   == {b \in BidRows : MakerOf[b] = p}
OnModels(ms) == {b \in BidRows : OfferedOn[b] \in ms}
MakersOf(bs) == {MakerOf[b] : b \in bs}
Asks(bs)     == {AskOf[b] : b \in bs}

\* The reputation list: of the providers that have bids.
countBidsByProvider ==
  [p \in MakersOf(BidRows) |-> [active |-> Cardinality(OfMaker(p) \intersect ZeroRows),
                                retracted |-> Cardinality(OfMaker(p) \intersect StruckRows)]]

\* The provider's page counts the bids it lists, the retracted ones cut at the cap.
ProviderSummary(p) == [active |-> Cardinality(OfMaker(p) \intersect LiveRows),
                       retracted |-> Min({LIST_CAP, Cardinality(OfMaker(p) \intersect StruckRows)})]

\* The whole market: both lists, and the providers that have a row (known) with theirs.
MarketAll(known) ==
  [total |-> Cardinality(LiveRows), retracted |-> Cardinality(StruckRows),
   byMaker |-> [p \in known |-> [active |-> OfMaker(p) \intersect LiveRows,
                                  retracted |-> OfMaker(p) \intersect StruckRows]]]

\* getBidStatsByModel: the supply of the demand table.
SupplyOf(m) == LET live == OnModels({m}) \intersect LiveRows IN
  [bids |-> Cardinality(live), makers |-> Cardinality(MakersOf(live)),
   low |-> Min(Asks(live)), high |-> Max(Asks(live))]
BidStats == [m \in {OfferedOn[b] : b \in LiveRows} |-> SupplyOf(m)]

\* The supply of a model page, over the listings of its group.
GroupSupply(ms) == LET live == OnModels(ms) \intersect LiveRows IN
  [bids |-> Cardinality(live), makers |-> MakersOf(live)]

\* The landing page and the tape: live bids, their models, the serving providers.
FrontBids == [bids |-> Cardinality(LiveRows), models |-> {OfferedOn[b] : b \in LiveRows},
              serving |-> MakersOf(LiveRows)]
-----------------------------------------------------------------------------
BidRowType == [created : 1 .. MaxMoment, deleted : (0 .. MaxMoment) \union {NoTime}]

BidsTypeOK ==
  /\ moment \in 1 .. MaxMoment
  /\ onChain \in [Offers -> [posted : 0 .. MaxMoment, retracted : 0 .. MaxMoment]]
  /\ bidRow \in [Offers -> BidRowType \union {NoBid}] /\ fetched \in [Offers -> BidRowType \union {NoBid}]

SumOver(f) == MapThenSumSet(LAMBDA x : f[x], DOMAIN f)

(***************************************************************************)
(* The handlers ask what is for sale with SQL of their own, grouped by     *)
(* provider, by model or not at all, and only some of it reads a NULL as   *)
(* live: for any rows that late, repeated and overlapping writes leave,    *)
(* the answers fit together, but for the retracted bids past a page's cap. *)
(***************************************************************************)
MarketAnswersAgree == BidRows # {} =>
  LET counts == countBidsByProvider
      all    == MarketAll(MakersOf(BidRows)) IN
  /\ all.total = SumOver([p \in MakersOf(BidRows) |-> counts[p].active])
  /\ all.retracted = SumOver([p \in MakersOf(BidRows) |-> counts[p].retracted])
  /\ all.total + all.retracted = Cardinality(BidRows)
  /\ all.total = SumOver([m \in FrontBids.models |-> BidStats[m].bids])
  /\ \A m \in FrontBids.models : BidStats[m].low <= BidStats[m].high
                                 /\ BidStats[m].makers = Cardinality(GroupSupply({m}).makers)
  /\ \A ms \in SUBSET FrontBids.models :
       GroupSupply(ms).bids = SumOver([m \in ms |-> GroupSupply({m}).bids])
  /\ FrontBids.bids = all.total
  /\ FrontBids.serving = {p \in MakersOf(BidRows) : counts[p].active > 0}
  /\ \A p \in MakersOf(BidRows) :
       /\ ProviderSummary(p).active = counts[p].active
       /\ Cardinality(all.byMaker[p].active) = counts[p].active
       /\ Cardinality(all.byMaker[p].retracted) = counts[p].retracted
       /\ ProviderSummary(p).retracted = Min({LIST_CAP, counts[p].retracted})

(***************************************************************************)
(* A strike is of the pair, whatever bids have taken the retracted one's   *)
(* place by the time its log is read, so the pages may list a live bid as  *)
(* retracted.  But a bid so listed was retracted, and not after the moment *)
(* they give, or it replaced a bid that was: whatever the order of strikes,*)
(* rescans and the discovery of a session's bid, the only bid of a pair is *)
(* not listed as gone while it is for sale, nor a bid of another pair.     *)
(***************************************************************************)
StruckWereRetracted ==
  /\ \A b \in StruckRows : \E a \in Offers :
       /\ SamePair(a, b) /\ onChain[a].retracted \in 1 .. bidRow[b].deleted
       /\ a = b \/ onChain[a].retracted <= onChain[b].posted
  /\ \A b \in BidRows : bidRow[b].created = onChain[b].posted

(***************************************************************************)
(* What readers are told of bids fits together, and is true of the chain   *)
(* where it says a bid is gone.                                            *)
(***************************************************************************)
BidBookIsTrue == BidsTypeOK /\ MarketAnswersAgree /\ StruckWereRetracted
=============================================================================
