---------------------------- MODULE SessionBook -----------------------------
(***************************************************************************)
(* The sessions table as its readers see it: what the indexer leaves in a  *)
(* row, the queries behind the lists, leaderboards, counts and analytics   *)
(* (src/src/db/explorer-sessions.ts, explorer-core.ts, ops.ts), the one    *)
(* classifier of wallet accounting and the repair it makes when the chain  *)
(* says that an expired row was closed (src/src/accounting).               *)
(***************************************************************************)
EXTENDS Integers, FiniteSets, FiniteSetsExt

CONSTANTS
  Sessions,            \* session ids
  UserOf, BidOf, StakeOf, TermOf, \* what a session is opened with
  SellerOf, ModelOfBid, \* what getBid answers of a bid
  Holders, Sellers, Listings, \* wallets, providers, models
  Accounted,           \* the wallets somebody asks an account of
  MaxTime,             \* bound on the clock
  Void                 \* no row, no provider, no model: the empty answer

Bids     == {BidOf[s] : s \in Sessions}
\* What the classifier makes of a row.
States   == {"active_open", "expired_open", "closed", "unknown_partial"}

\* A row of the sessions table.
RowType ==
  [user : Holders, bid : Bids, provider : Sellers \union {Void}, model : Listings \union {Void},
   stake : Nat, opened : Nat, ends : Nat, closed : Nat, closeout : {0, 1}, active : BOOLEAN]

ASSUME BookAssumption ==
  /\ StakeOf \in [Sessions -> Nat] /\ TermOf \in [Sessions -> Nat]
  /\ SellerOf \in [Bids -> Sellers] /\ ModelOfBid \in [Bids -> Listings]
  /\ UserOf \in [Sessions -> Holders] /\ MaxTime \in Nat \ {0} /\ Accounted \subseteq Holders
  /\ Void \notin Sellers \union Listings \union States \union RowType
  /\ IsFiniteSet(Sessions) /\ IsFiniteSet(Holders) /\ IsFiniteSet(Sellers) /\ IsFiniteSet(Listings)

VARIABLES
  clock,     \* seconds
  chain,     \* each session on chain: opened, ends, closed (0 before), closeout
  book,      \* each session's row, or Void
  acctStep, acctOf, acctNow, \* the accounting run, its wallet and the second it began
  acctState, \* the state it gives each session of the wallet
  acctSure,  \* no verification failed
  fixes      \* repairs sent and not awaited

acctVars == <<acctStep, acctOf, acctNow, acctState, acctSure>>
bookVars == <<clock, chain, book, acctVars, fixes>>

Unopened == [opened |-> 0, ends |-> 0, closed |-> 0, closeout |-> 0]

BookInit ==
  /\ clock = 1
  /\ chain = [s \in Sessions |-> Unopened]
  /\ book = [s \in Sessions |-> Void]
  /\ acctStep = "idle" /\ acctOf = Void /\ acctNow = 0
  /\ acctState = [s \in Sessions |-> Void] /\ acctSure = TRUE
  /\ fixes = {}

OpenOnChain(s) ==
  /\ chain[s] = Unopened
  /\ chain' = [chain EXCEPT ![s] = [Unopened EXCEPT !.opened = clock, !.ends = clock + TermOf[s]]]
  /\ UNCHANGED <<clock, book, acctVars, fixes>>

\* Closed before its end, after it, or by dispute.
CloseOnChain(s, how) ==
  /\ chain[s] # Unopened /\ chain[s].closed = 0
  /\ chain' = [chain EXCEPT ![s].closed = clock, ![s].closeout = how]
  /\ UNCHANGED <<clock, book, acctVars, fixes>>

\* insertSessionStmt: the row of an open session, also over one that was there.
IndexOpen(s, resolved) ==
  /\ chain[s] # Unopened
  /\ book' = [book EXCEPT ![s] =
       [user |-> UserOf[s], bid |-> BidOf[s],
        provider |-> IF resolved THEN SellerOf[BidOf[s]] ELSE Void,
        model |-> IF resolved THEN ModelOfBid[BidOf[s]] ELSE Void,
        stake |-> StakeOf[s], opened |-> chain[s].opened, ends |-> chain[s].ends,
        closed |-> 0, closeout |-> 0, active |-> TRUE]]
  /\ UNCHANGED <<clock, chain, acctVars, fixes>>

\* closeSessionStmt: closed at the time of the tick, and the closeout type left as it is.
IndexClose(s) ==
  /\ chain[s].closed # 0 /\ book[s] # Void
  /\ book' = [book EXCEPT ![s].closed = clock, ![s].active = FALSE]
  /\ UNCHANGED <<clock, chain, acctVars, fixes>>

SecondPasses ==
  /\ clock < MaxTime
  /\ clock' = clock + 1
  /\ UNCHANGED <<chain, book, acctVars, fixes>>
-----------------------------------------------------------------------------
Rows    == {s \in Sessions : book[s] # Void}
Flagged == {s \in Rows : book[s].active}

\* countActiveSessions, sumActiveSessionStake and isActive of the lists.
ActiveAt(now) == {s \in Flagged : book[s].ends = 0 \/ book[s].ends > now}

\* getClaimableSessionTotals, sumClaimableSessionStake.
ClaimableAt(now) == {s \in Flagged : book[s].ends > 0 /\ book[s].ends < now}

\* The column provider_withdrawn is never written and counts as 0.
classifySession(row, now) ==
  CASE ~row.active /\ row.closed > 0                -> "closed"
    [] ~row.active /\ row.closed = 0                -> "unknown_partial"
    [] row.active /\ row.ends > 0 /\ row.ends < now -> "expired_open"
    [] OTHER                                        -> "active_open"

\* SUM(CAST(stake AS REAL)).
StakeSum(ss) == MapThenSumSet(LAMBDA s : book[s].stake, ss)

RowsOfUser(w)     == {s \in Rows : book[s].user = w}
RowsOfProvider(p) == {s \in Rows : book[s].provider = p}
RowsOfModels(ms)  == {s \in Rows : book[s].model \in ms}
RowsOfBid(b)      == {s \in Rows : book[s].bid = b}

Succeeded(ss) == {s \in ss : book[s].closeout = 0 /\ book[s].closed > 0}
Disputed(ss)  == {s \in ss : book[s].closeout = 1}
CutShort(ss)  == {s \in ss : ~book[s].active /\ book[s].ends > 0
                             /\ book[s].closed > 0 /\ book[s].closed < book[s].ends}
Users(ss)     == {book[s].user : s \in ss}
Providers(ss) == {book[s].provider : s \in ss}
Models(ss)    == {book[s].model : s \in ss}

\* The summary a group of sessions is given: by provider, by model, by bid, by wallet.
SummaryOf(ss, now) ==
  [total |-> Cardinality(ss), active |-> Cardinality(ss \intersect ActiveAt(now)),
   disputed |-> Cardinality(Disputed(ss)), early |-> Cardinality(CutShort(ss)),
   success |-> Cardinality(Succeeded(ss)), stake |-> StakeSum(ss), users |-> Users(ss)]

\* upsertWalletStats: 'claimable' takes in the second of the end.
WalletStats(w, now) ==
  LET mine == RowsOfUser(w) IN
    [total |-> Cardinality(mine), active |-> Cardinality(mine \intersect ActiveAt(now)),
     closed |-> Cardinality({s \in mine : book[s].closed > 0}),
     claimable |-> Cardinality({s \in mine : book[s].active /\ book[s].ends > 0 /\ book[s].ends <= now})]

\* upsertProviderStats of one pair.
ProviderStats(p, m) ==
  LET pair == RowsOfProvider(p) \intersect RowsOfModels({m}) IN
    [total |-> Cardinality(pair), success |-> Cardinality(Succeeded(pair)),
     dispute |-> Cardinality(Disputed(pair)), early |-> Cardinality(CutShort(pair))]

\* The leaderboards: every wallet, and every provider that has a name.
WalletBoard(since, now) ==
  [w \in Users(Rows) |-> SummaryOf({s \in RowsOfUser(w) : book[s].opened >= since}, now)]

ProviderBoard(since, now) ==
  [p \in Providers(Rows) \ {Void} |-> SummaryOf({s \in RowsOfProvider(p) : book[s].opened >= since}, now)]

\* A bid's sessions, as the provider's and the model's page count them: by the flag alone.
BidCounts(among, b) ==
  LET group == among \intersect RowsOfBid(b) IN
    [active |-> Cardinality(group \intersect Flagged), success |-> Cardinality(Succeeded(group)),
     dispute |-> Cardinality(Disputed(group)), total |-> Cardinality(group)]

\* getModelSessionStats, for the models that have an id.
ModelStats(now) == [m \in Models(Rows) \ {Void} |-> SummaryOf(RowsOfModels({m}), now)]

\* Sessions by model in a window, and by the day they were opened on.
ModelCounts(since) == [m \in Models(Rows) \ {Void} |->
                         Cardinality({s \in RowsOfModels({m}) : book[s].opened > since})]
DayCounts(since)   == [day \in {book[s].opened : s \in Rows} |->
                         Cardinality({s \in Rows : book[s].opened = day /\ day > since})]

DisputeList == Disputed(Rows)

\* The landing page, built every minute: its leaderboards go by the flag alone,
FrontProviders == [p \in Providers(Rows) |-> [sessions |-> Cardinality(RowsOfProvider(p)),
                                              active |-> Cardinality(RowsOfProvider(p) \intersect Flagged)]]
\* its open sessions and their stake are split by the providers that have live bids,
Serving(lively) == {s \in Flagged : book[s].provider \in lively}
Zombie(lively)  == {s \in Flagged : book[s].provider \notin lively}
FrontWallets(lively) == [w \in Users(Rows) |->
                           [serving |-> Cardinality(RowsOfUser(w) \intersect Serving(lively)),
                            zombie  |-> Cardinality(RowsOfUser(w) \intersect Zombie(lively))]]
EscrowSplit(lively) == [serving |-> StakeSum(Serving(lively)), zombie |-> StakeSum(Zombie(lively))]

\* and its demand table counts every model, the unnamed one too.
FrontDemand(since) == [m \in Models(Rows) |->
                         [active |-> Cardinality(RowsOfModels({m}) \intersect Flagged),
                          recent |-> Cardinality({s \in RowsOfModels({m}) : book[s].opened > since})]]

\* Every event of a wallet's sessions, as its transaction history lists them.
Transactions(w, now) ==
  {<<"open", s>> : s \in RowsOfUser(w)}
    \union {<<IF book[s].closeout = 1 THEN "dispute" ELSE "close", s>> :
              s \in {t \in RowsOfUser(w) : book[t].closed > 0}}
    \union {<<"expired", s>> : s \in {t \in RowsOfUser(w) \intersect ClaimableAt(now) : book[t].closed = 0}}
-----------------------------------------------------------------------------
\* buildWalletAccounting: the rows, their states at this second.
BeginAccount(w) ==
  /\ acctStep \in {"idle", "told"}
  /\ acctStep' = "verify" /\ acctOf' = w /\ acctNow' = clock /\ acctSure' = TRUE
  /\ acctState' = [s \in Sessions |-> IF s \in RowsOfUser(w) THEN classifySession(book[s], clock) ELSE Void]
  /\ UNCHANGED <<clock, chain, book, fixes>>

PastEnd == {s \in Sessions : acctState[s] = "expired_open"}

\* Mutant: a session whose answer cannot be read stays what its row says.
VerifyOnChain_trustRow(unread) ==
  /\ acctStep = "verify"
  /\ acctStep' = "told"
  /\ acctState' = [s \in Sessions |->
       IF s \in PastEnd \ unread /\ chain[s].closed > 0 THEN "closed" ELSE acctState[s]]
  /\ acctSure' = (acctSure /\ "unknown_partial" \notin {acctState'[s] : s \in Sessions})
  /\ fixes' = fixes \union {s \in PastEnd \ unread : chain[s].closed > 0}
  /\ UNCHANGED <<clock, chain, book, acctOf, acctNow>>

\* The answers of getSession, some of them unreadable.
VerifyOnChain(unread) ==
  /\ acctStep = "verify"
  /\ acctStep' = "told"
  /\ acctState' = [s \in Sessions |->
       CASE s \in unread                             -> "unknown_partial"
         [] s \in PastEnd \ unread /\ chain[s].closed > 0 -> "closed"
         [] OTHER                                    -> acctState[s]]
  /\ acctSure' = (acctSure /\ "unknown_partial" \notin {acctState'[s] : s \in Sessions})
  /\ fixes' = fixes \union {s \in PastEnd \ unread : chain[s].closed > 0}
  /\ UNCHANGED <<clock, chain, book, acctOf, acctNow>>

\* The batch fails: the expired sessions stay reclaimable, and the account is partial.
VerifyFails ==
  /\ acctStep = "verify" /\ PastEnd # {}
  /\ acctStep' = "told" /\ acctSure' = FALSE
  /\ UNCHANGED <<clock, chain, book, acctOf, acctNow, acctState, fixes>>

\* fixStaleClosedSessionStmt, whenever it lands, or lost.
FixRow(s, lands) ==
  /\ s \in fixes
  /\ fixes' = fixes \ {s}
  /\ book' = IF lands THEN [book EXCEPT ![s].active = FALSE, ![s].closed = chain[s].closed,
                                          ![s].closeout = chain[s].closeout] ELSE book
  /\ UNCHANGED <<clock, chain, acctVars>>

Bucket(state) == {s \in Sessions : acctState[s] = state}

BookNext ==
  \/ \E s \in Sessions :
       \/ OpenOnChain(s) \/ IndexClose(s)
       \/ \E how \in {0, 1} : CloseOnChain(s, how)
       \/ \E given \in BOOLEAN : IndexOpen(s, given) \/ FixRow(s, given)
  \/ \E w \in Accounted : BeginAccount(w)
  \/ \E unread \in SUBSET PastEnd : VerifyOnChain(unread)
  \/ VerifyFails \/ SecondPasses
-----------------------------------------------------------------------------
BookTypeOK ==
  /\ clock \in 1 .. MaxTime
  /\ chain \in [Sessions -> [opened : Nat, ends : Nat, closed : Nat, closeout : {0, 1}]]
  /\ \A s \in Rows : book[s] \in RowType
  /\ fixes \subseteq Sessions
  /\ acctStep \in {"idle", "verify", "told"} /\ acctOf \in Holders \union {Void} /\ acctNow \in 0 .. MaxTime
  /\ acctState \in [Sessions -> States \union {Void}]
  /\ acctSure \in BOOLEAN

\* SUM over the groups of an answer.
Total(f) == MapThenSumSet(LAMBDA x : f[x], DOMAIN f)

(***************************************************************************)
(* The explorer answers the same questions in many places, each with SQL   *)
(* of its own (counts, lists, leaderboards, statistics, accounting): for   *)
(* any rows the indexer may leave the answers fit together, apart from the *)
(* very second a session ends in, which the parts treat differently.       *)
(***************************************************************************)
StatesAgree ==
  /\ ActiveAt(clock) \intersect ClaimableAt(clock) = {}
  /\ Flagged = ActiveAt(clock) \union ClaimableAt(clock) \union {s \in Flagged : book[s].ends = clock}
  /\ \A s \in Rows : book[s].ends # clock =>
       /\ s \in ActiveAt(clock) <=> classifySession(book[s], clock) = "active_open"
       /\ s \in ClaimableAt(clock) <=> classifySession(book[s], clock) = "expired_open"
  /\ \A w \in Holders : LET stats == WalletStats(w, clock) IN
       /\ stats.total = stats.active + stats.claimable + stats.closed
       /\ Cardinality(Transactions(w, clock)) + stats.active + Cardinality({s \in RowsOfUser(w) \intersect Flagged : book[s].ends = clock})
            = 2 * stats.total

TotalsAgree ==
  /\ Cardinality(Rows) = Total([w \in Holders |-> WalletStats(w, clock).total])
  /\ Cardinality(Rows) = Total([b \in Bids |-> SummaryOf(RowsOfBid(b), clock).total])
  /\ \A p \in Sellers : LET summary == SummaryOf(RowsOfProvider(p), clock) IN
       /\ summary.total = Total([m \in Listings |-> ProviderStats(p, m).total])
       /\ summary.early = Total([m \in Listings |-> ProviderStats(p, m).early])
       /\ summary.success = Total([m \in Listings |-> ProviderStats(p, m).success])
       /\ summary.disputed = Total([m \in Listings |-> ProviderStats(p, m).dispute])
  /\ SummaryOf(RowsOfModels(Listings), clock).stake = Total([p \in Sellers |-> SummaryOf(RowsOfProvider(p), clock).stake])

BoardsAgree ==
  /\ Cardinality(ActiveAt(clock)) = Total([w \in Users(Rows) |-> WalletBoard(0, clock)[w].active])
  /\ Cardinality(DisputeList) = Total([w \in Users(Rows) |-> WalletBoard(0, clock)[w].disputed])
  /\ \A since \in {0, clock - 1} :
       /\ Cardinality({s \in Rows : book[s].opened > since})
            = Total([w \in Users(Rows) |-> WalletBoard(since + 1, clock)[w].total])
       /\ Total([p \in Providers(Rows) \ {Void} |-> ProviderBoard(since + 1, clock)[p].total])
            = Total([m \in Models(Rows) \ {Void} |-> ModelCounts(since)[m]])
       /\ Total([m \in Models(Rows) |-> FrontDemand(since)[m].recent])
            = Total([day \in {book[s].opened : s \in Rows} |-> DayCounts(since)[day]])
  /\ Total([m \in Models(Rows) \ {Void} |-> ModelStats(clock)[m].success])
       = Total([b \in Bids |-> BidCounts(RowsOfModels(Listings), b).success])

FrontAgrees ==
  /\ Total([p \in Providers(Rows) |-> FrontProviders[p].active]) = Cardinality(Flagged)
  /\ Total([m \in Models(Rows) |-> FrontDemand(0)[m].active]) = Total([b \in Bids |-> BidCounts(Rows, b).active])
  /\ \A lively \in SUBSET Sellers :
       /\ StakeSum(Flagged) = EscrowSplit(lively).serving + EscrowSplit(lively).zombie
       /\ Cardinality(Flagged) = Total([w \in Users(Rows) |-> FrontWallets(lively)[w].serving + FrontWallets(lively)[w].zombie])

AnswersAgree == Rows # {} => StatesAgree /\ TotalsAgree /\ BoardsAgree /\ FrontAgrees

(***************************************************************************)
(* What an account calls reclaimable can be reclaimed (accounting/         *)
(* wallet.ts: chain-verify expired sessions before counting them): unless  *)
(* the account says it is partial, such a session had not been closed on   *)
(* chain when the account was begun, whatever the indexer has missed,      *)
(* rescanned or repaired.                                                  *)
(***************************************************************************)
ReclaimableWasOpen ==
  acctStep = "told" /\ acctSure =>
    \A s \in Bucket("expired_open") : chain[s].closed = 0 \/ chain[s].closed >= acctNow

(***************************************************************************)
(* A row that says closed is right: whoever closed it, the live sync, a    *)
(* rescan or a repair that landed late, the chain had closed the session,  *)
(* and no later than the row says.                                         *)
(***************************************************************************)
ClosedRowsAreTrue ==
  \A s \in Rows : ~book[s].active => chain[s].closed # 0 /\ chain[s].closed <= book[s].closed

(***************************************************************************)
(* What readers are told of sessions fits together, and the rows and       *)
(* accounts are true of the chain where they claim to be.                  *)
(***************************************************************************)
BookIsTrue == BookTypeOK /\ AnswersAgree /\ ReclaimableWasOpen /\ ClosedRowsAreTrue
=============================================================================
