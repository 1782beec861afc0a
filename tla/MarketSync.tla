----------------------------- MODULE MarketSync -----------------------------
(***************************************************************************)
(* The bid market: how the bids table follows the Marketplace facet.       *)
(* sync() posts the new bids of its range, retracts, discovers bids of     *)
(* providers that have none listed, and names models.  getBid is asked at  *)
(* "latest", so an answer may know more than the range it is asked for.    *)
(* The historical passes that run these processors over old ranges are     *)
(* left out.                                                               *)
(***************************************************************************)
EXTENDS Naturals, FiniteSets

CONSTANTS
  Bids,        \* bid ids: one per provider, model and nonce
  ProviderOf,  \* the provider of a bid
  ModelOf,     \* the model of a bid
  HasSessions, \* providers with a row in sessions
  LiveSyncs,   \* execution contexts of the live sync()
  MaxTip       \* bound: the chain stops growing here

ASSUME MarketAssumption ==
  /\ DOMAIN ProviderOf = Bids /\ DOMAIN ModelOf = Bids
  /\ MaxTip \in Nat

VARIABLES
  tip, postedAt, retractedAt, \* the chain (block of each event, 0: not yet)
  bidRow, named,              \* D1: bids by state, and models with a row
  memo,                       \* KV sync:known-providers, {} when there is none
  marketCursor,               \* D1: last_event_block
  turn, span, answers, gotLogs, \* what each context is doing
  fine                        \* from here on no call fails

marketChain == <<tip, postedAt, retractedAt>>
marketVars  == <<marketChain, bidRow, named, memo, marketCursor, turn, span, answers, gotLogs, fine>>

Providers == {ProviderOf[b] : b \in Bids}
Models    == {ModelOf[b] : b \in Bids}
RowStates == {"none", "live", "deleted"}
Nothing   == [b \in {} |-> "none"]
NoSpan    == <<1, 0>>

MarketInit ==
  /\ tip = 0 /\ postedAt = [b \in Bids |-> 0] /\ retractedAt = [b \in Bids |-> 0]
  /\ bidRow = [b \in Bids |-> "none"] /\ named = {}
  /\ memo = {} /\ marketCursor = 0
  /\ turn = [c \in LiveSyncs |-> "rest"]
  /\ span = [c \in LiveSyncs |-> NoSpan]
  /\ answers = [c \in LiveSyncs |-> Nothing]
  /\ gotLogs = [c \in LiveSyncs |-> FALSE]
  /\ fine = FALSE
-----------------------------------------------------------------------------
SamePair(a, b) == ProviderOf[a] = ProviderOf[b] /\ ModelOf[a] = ModelOf[b]

OnChain(b) == postedAt[b] # 0 /\ retractedAt[b] = 0

\* A block with any posts and retractions; one live bid per provider and model.
BlockMined(P, R) ==
  /\ tip < MaxTip
  /\ \A b \in P : postedAt[b] = 0
  /\ \A b \in R : OnChain(b)
  /\ \A a \in P, b \in Bids :
       SamePair(a, b) /\ a # b => b \notin P /\ (OnChain(b) => b \in R)
  /\ tip' = tip + 1
  /\ postedAt' = [b \in Bids |-> IF b \in P THEN tip + 1 ELSE postedAt[b]]
  /\ retractedAt' = [b \in Bids |-> IF b \in R THEN tip + 1 ELSE retractedAt[b]]
  /\ UNCHANGED <<bidRow, named, memo, marketCursor, turn, span, answers, gotLogs, fine>>

Ends ==
  /\ fine' = TRUE
  /\ UNCHANGED <<marketChain, bidRow, named, memo, marketCursor, turn, span, answers, gotLogs>>

MemoExpires ==
  /\ memo # {}
  /\ memo' = {}
  /\ UNCHANGED <<marketChain, bidRow, named, marketCursor, turn, span, answers, gotLogs, fine>>
-----------------------------------------------------------------------------
Steps(c, here, next) == turn[c] = here /\ turn' = [turn EXCEPT ![c] = next]

\* The context returns or throws, and its locals are gone.
Returns(c) ==
  /\ span' = [span EXCEPT ![c] = NoSpan]
  /\ gotLogs' = [gotLogs EXCEPT ![c] = FALSE]

Within(n, s) == n # 0 /\ s[1] <= n /\ n <= s[2]

PostedIn(s)    == {b \in Bids : Within(postedAt[b], s)}
RetractedIn(s) == {b \in Bids : Within(retractedAt[b], s)}

\* What getBid answers now: the stored deletedAt decides the state of the row.
getBid(b) == IF retractedAt[b] = 0 THEN "live" ELSE "deleted"

\* Blocks without market events keep coming and are not counted: a range may be empty.
TickBegins(c, ok) ==
  /\ Steps(c, "rest", "posted")
  /\ fine => ok
  /\ span' = [span EXCEPT ![c] = <<marketCursor + 1, tip>>]
  /\ gotLogs' = [gotLogs EXCEPT ![c] = ok]
  /\ UNCHANGED <<marketChain, bidRow, named, memo, marketCursor, answers, fine>>

LogsOf(c, found) == IF gotLogs[c] THEN found ELSE {}

\* getBidId and getBid of every posted bid; those that fail are passed over.
ReadPosted(c, read) ==
  /\ Steps(c, "posted", "write")
  /\ read \subseteq LogsOf(c, PostedIn(span[c]))
  /\ fine => read = LogsOf(c, PostedIn(span[c]))
  /\ answers' = [answers EXCEPT ![c] = [b \in read |-> getBid(b)]]
  /\ UNCHANGED <<marketChain, bidRow, named, memo, marketCursor, span, gotLogs, fine>>

Upserted(c) == [b \in Bids |-> IF b \in DOMAIN answers[c] THEN answers[c][b] ELSE bidRow[b]]

\* One batch of upserts; a batch that fails is as if no answer had come.
processBidPosted(c) ==
  /\ Steps(c, "write", "retract")
  /\ bidRow' = Upserted(c)
  /\ answers' = [answers EXCEPT ![c] = Nothing]
  /\ UNCHANGED <<marketChain, named, memo, marketCursor, span, gotLogs, fine>>

\* A retraction deletes whatever rows of its provider and model are live.
Struck(logs) == {a \in Bids : bidRow[a] = "live" /\ \E b \in logs : SamePair(a, b)}

Retracted(c) == Struck(LogsOf(c, RetractedIn(span[c])))

processBidRetracted(c) ==
  /\ Steps(c, "retract", "discover")
  /\ bidRow' = [b \in Bids |-> IF b \in Retracted(c) THEN "deleted" ELSE bidRow[b]]
  /\ UNCHANGED <<marketChain, named, memo, marketCursor, span, answers, gotLogs, fine>>

\* Nothing catches a failed retraction batch: sync() throws, the cursor stays.
RetractThrows(c) ==
  /\ ~fine
  /\ Steps(c, "retract", "rest")
  /\ Returns(c)
  /\ UNCHANGED <<marketChain, bidRow, named, memo, marketCursor, answers, fine>>
-----------------------------------------------------------------------------
Seen == {ProviderOf[b] : b \in {a \in Bids : bidRow[a] # "none"}} \cup HasSessions

Known == IF memo = {} THEN Seen ELSE UNION memo

Listed(p) == \E b \in Bids : ProviderOf[b] = p /\ bidRow[b] = "live"

Missing == {p \in Known : ~Listed(p)}

\* getProviderActiveBids of the providers with none listed, then getBid.
Discover(c, read) ==
  /\ Steps(c, "discover", "list")
  /\ memo' = {Known}
  /\ LET active == {b \in Bids : OnChain(b) /\ ProviderOf[b] \in Missing}
     IN  read \subseteq active /\ (fine => read = active)
  /\ answers' = [answers EXCEPT ![c] = [b \in read |-> getBid(b)]]
  /\ UNCHANGED <<marketChain, bidRow, named, marketCursor, span, gotLogs, fine>>

ListDiscovered(c) ==
  /\ Steps(c, "list", "name")
  /\ bidRow' = Upserted(c)
  /\ answers' = [answers EXCEPT ![c] = Nothing]
  /\ UNCHANGED <<marketChain, named, memo, marketCursor, span, gotLogs, fine>>

Unnamed == {ModelOf[b] : b \in {a \in Bids : bidRow[a] = "live"}} \ named

NameModels(c, read) ==
  /\ Steps(c, "name", "advance")
  /\ read \subseteq Unnamed /\ (fine => read = Unnamed)
  /\ named' = named \cup read
  /\ UNCHANGED <<marketChain, bidRow, memo, marketCursor, span, answers, gotLogs, fine>>

\* Mutant: the cursor passes a range whose getLogs failed.
TickEnds_always(c, held) ==
  /\ Steps(c, "advance", "rest")
  /\ Returns(c)
  /\ fine => ~held
  /\ marketCursor' = IF ~held THEN span[c][2] ELSE marketCursor
  /\ UNCHANGED <<marketChain, bidRow, named, memo, answers, fine>>

\* Errors of bids and of discovery do not hold the cursor; a failed getLogs
\* does, and so does what else failed in the range (held).
TickEnds(c, held) ==
  /\ Steps(c, "advance", "rest")
  /\ Returns(c)
  /\ fine => ~held
  /\ marketCursor' = IF gotLogs[c] /\ ~held THEN span[c][2] ELSE marketCursor
  /\ UNCHANGED <<marketChain, bidRow, named, memo, answers, fine>>
-----------------------------------------------------------------------------
LiveStep(c) ==
  \/ \E ok \in BOOLEAN : TickBegins(c, ok)
  \/ \E read \in SUBSET PostedIn(span[c]) : ReadPosted(c, read)
  \/ processBidPosted(c) \/ processBidRetracted(c) \/ RetractThrows(c)
  \/ \E read \in SUBSET Bids : Discover(c, read)
  \/ ListDiscovered(c)
  \/ \E read \in SUBSET Models : NameModels(c, read)
  \/ \E held \in BOOLEAN : TickEnds(c, held)

MarketNext ==
  \/ \E P \in SUBSET Bids, R \in SUBSET Bids : BlockMined(P, R)
  \/ Ends \/ MemoExpires
  \/ \E c \in LiveSyncs : LiveStep(c)

MarketSpec == MarketInit /\ [][MarketNext]_marketVars

\* The alarm loop ticks, and the memo's five minutes pass.
MarketFairness ==
  /\ \A c \in LiveSyncs : WF_marketVars(LiveStep(c))
  /\ WF_marketVars(MemoExpires)
-----------------------------------------------------------------------------
MarketTypeOK ==
  /\ tip \in 0..MaxTip /\ marketCursor \in 0..tip
  /\ postedAt \in [Bids -> 0..tip] /\ retractedAt \in [Bids -> 0..tip]
  /\ bidRow \in [Bids -> RowStates] /\ named \subseteq Models
  /\ UNION memo \subseteq Providers \cup HasSessions
  /\ \A c \in LiveSyncs :
       /\ turn[c] \in {"rest", "posted", "write", "retract", "discover", "list", "name", "advance"}
       /\ DOMAIN answers[c] \subseteq Bids
  /\ gotLogs \in [LiveSyncs -> BOOLEAN] /\ fine \in BOOLEAN

(***************************************************************************)
(* "Retracted bids are excluded" (api-script-1.html): with one live sync,  *)
(* no bid retracted at or below the cursor is listed, though getBid was    *)
(* asked at a later block than the range it answers for, discovery writes  *)
(* rows of its own, and any call between may have failed.                  *)
(***************************************************************************)
RetractedUnlisted ==
  \A b \in Bids :
    retractedAt[b] # 0 /\ retractedAt[b] <= marketCursor => bidRow[b] # "live"

(***************************************************************************)
(* Discovery heals: once calls stop failing, a provider the tables know,   *)
(* with bids on chain, is listed again whatever was lost before, and every *)
(* model listed has a name.                                                *)
(***************************************************************************)
ListingHeals ==
  /\ \A p \in Providers :
       (fine /\ p \in Seen) ~> (Listed(p) \/ ~\E b \in Bids : ProviderOf[b] = p /\ OnChain(b))
  /\ \A b \in Bids :
       (fine /\ bidRow[b] = "live") ~> (bidRow[b] # "live" \/ ModelOf[b] \in named)

(***************************************************************************)
(* The table follows the market: what is retracted is not listed.          *)
(***************************************************************************)
MarketFollowsChain == MarketTypeOK /\ RetractedUnlisted
=============================================================================
