----------------------------- MODULE EndpointWalk -----------------------------
(***************************************************************************)
(* How a JSON-RPC call is answered by a list of public endpoints, each of  *)
(* which may fail, limit, leave an answer out or reorder a batch, and be   *)
(* well again a moment later (src/src/utils/rpc.ts, rpc-pool.ts,           *)
(* rpc-fallback.ts, onchain-price.ts, src/src/sync/parsers-rpc.ts,         *)
(* compute-rpc.ts, events-batch.ts).  The chain's answer to call i is i;   *)
(* the endpoints of a walk are tried in any order, each at most once.      *)
(***************************************************************************)
EXTENDS Integers, FiniteSets, SequencesExt

CONSTANTS
  Endpoints, \* RPC_URL, the Alchemy keys and RPC_ENDPOINTS, without duplicates
  CALLS,     \* calls in a batch
  Nil        \* no answer: undefined, "0x" or a default zero

ASSUME EndpointWalkAssumption == CALLS \in Nat \ {0} /\ Nil \notin Nat

Calls == 1 .. CALLS

\* What asks: getCurrentBlock, ethCall, getWalletBalances (its MOR decides),
\* getLogsWithFallback, getUserStakesOnHold and rpc make one call ...
Single == {"block", "call", "balances", "logs", "holds", "rpc"}
\* ... ethCallBatchChecked, ethCallBatchMulti, ethCallBatch and rpcBatch several.
Batch  == {"checked", "prices", "unchecked", "batch"}

VARIABLES
  caller, \* what asks
  todo,   \* its walks not yet over: 0 is the batch's, i the one of call i alone
  left,   \* by walk, the endpoints not yet tried
  answer, \* by call
  up,     \* the endpoints that answer every call
  stayed  \* history: those up since the walks under way began

walkVars == <<caller, todo, left, answer, up, stayed>>

WalkInit ==
  /\ caller = "rpc" /\ todo = {}
  /\ left = [w \in 0 .. CALLS |-> Endpoints]
  /\ answer = [i \in Calls |-> Nil]
  /\ up \in SUBSET Endpoints /\ stayed = up

Ask(what) ==
  /\ todo = {}
  /\ caller' = what
  /\ todo' = IF what \in Batch THEN {0} ELSE {1}
  /\ left' = [w \in 0 .. CALLS |-> Endpoints]
  /\ answer' = [i \in Calls |-> Nil]
  /\ stayed' = up
  /\ UNCHANGED up

(***************************************************************************)
(* A batch's reply is the sequence of its entries: the id of the call and  *)
(* what came of it, the chain's value, an error or no result.  An endpoint *)
(* that is up answers every call, in an order of its own; another throws,  *)
(* answers no array (NoArray) or any entries.                              *)
(***************************************************************************)
NoArray == <<[id |-> 0, is |-> "noarray"]>>
Entries(ids, fates) == [ids -> fates]
Ordered(entries) ==
  {[k \in DOMAIN order |-> [id |-> order[k], is |-> entries[order[k]]]] :
     order \in SetToSeqs(DOMAIN entries)}

Replies(e) ==
  IF e \in up THEN Ordered([i \in Calls |-> "value"])
  ELSE {NoArray} \union UNION {Ordered(entries) :
         entries \in UNION {Entries(ids, {"value", "error", "nothing"}) : ids \in SUBSET Calls}}

Fates(reply) == {reply[k].is : k \in DOMAIN reply}

\* What ends the walk of a batch: two kinds ask for a result of every call, two for no error.
CheckedTakes(reply)   == Fates(reply) \subseteq {"value"} /\ Len(reply) = CALLS
PricesTake(reply)     == Fates(reply) \subseteq {"value"} /\ Len(reply) = CALLS
UncheckedTakes(reply) == Fates(reply) \subseteq {"value", "nothing"}
RpcBatchTakes(reply)  == Fates(reply) \subseteq {"value", "nothing"}

Accepted(reply) ==
  CASE caller = "checked" -> CheckedTakes(reply)
    [] caller = "prices"  -> PricesTake(reply)
    [] caller = "batch"   -> RpcBatchTakes(reply)
    [] OTHER              -> UncheckedTakes(reply)

\* Mutant: the entries are taken in the order they came in.
AnswersOf_byPosition(reply) ==
  [i \in Calls |-> IF i \in DOMAIN reply /\ reply[i].is = "value" THEN reply[i].id ELSE Nil]

\* resultMap: the entry with the call's id answers it.
AnswersOf(reply) ==
  [i \in Calls |-> IF \E k \in DOMAIN reply : reply[k] = [id |-> i, is |-> "value"]
                   THEN i ELSE Nil]

\* "continue": the next endpoint.
AfterFailure(w, e) == [left EXCEPT ![w] = @ \ {e}]

TryBatch(e, reply) ==
  /\ 0 \in todo /\ e \in left[0]
  /\ IF Accepted(reply)
     THEN answer' = AnswersOf(reply) /\ todo' = {} /\ left' = left
     ELSE left' = AfterFailure(0, e) /\ UNCHANGED <<answer, todo>>
  /\ UNCHANGED <<caller, up, stayed>>

\* An endpoint that does not answer in time, or not in JSON, fails any walk.
Throws(w, e) ==
  /\ w \in todo /\ e \in left[w] \ up
  /\ left' = AfterFailure(w, e)
  /\ UNCHANGED <<caller, todo, answer, up, stayed>>

(***************************************************************************)
(* No endpoint served the batch: rpcBatch asks call by call, the others    *)
(* answer null, or "0x" for every call.                                    *)
(***************************************************************************)
BatchGivesUp ==
  /\ 0 \in todo /\ left[0] = {}
  /\ todo' = IF caller = "batch" THEN Calls ELSE {}
  /\ stayed' = IF caller = "batch" THEN up ELSE stayed
  /\ UNCHANGED <<caller, left, answer, up>>

Alone == todo \ {0}

\* rpc asks the failover pool first, which finds an endpoint that is up or throws.
PoolServes(i) ==
  /\ i \in Alone /\ caller \in {"rpc", "batch"}
  /\ left[i] = Endpoints /\ up # {}
  /\ answer' = [answer EXCEPT ![i] = i] /\ todo' = todo \ {i}
  /\ UNCHANGED <<caller, left, up, stayed>>

\* What ends the walk of one call: rpc takes a reply without a result for one,
\* getLogsFromRpc for an empty list, and getUserStakesOnHold even an error.
BlockTakes    == {"value"}
CallTakes     == {"value"}
BalancesTake  == {"value"}
RpcTakes      == {"value", "nothing"}
LogsTake      == {"value", "nothing"}
HoldsTake     == {"value", "nothing", "error"}

Ends(is) ==
  CASE caller = "call"              -> is \in CallTakes
    [] caller = "balances"          -> is \in BalancesTake
    [] caller = "logs"              -> is \in LogsTake
    [] caller = "holds"             -> is \in HoldsTake
    [] caller \in {"rpc", "batch"} -> is \in RpcTakes
    [] OTHER                        -> is \in BlockTakes

TryAlone(i, e, is) ==
  /\ i \in Alone /\ e \in left[i]
  /\ e \in up => is = "value"
  /\ IF Ends(is)
     THEN /\ answer' = [answer EXCEPT ![i] = IF is = "value" THEN i ELSE Nil]
          /\ todo' = todo \ {i} /\ left' = left
     ELSE left' = AfterFailure(i, e) /\ UNCHANGED <<answer, todo>>
  /\ UNCHANGED <<caller, up, stayed>>

\* All failed: throw, or the default zeros.
GivesUp(i) ==
  /\ i \in Alone /\ left[i] = {}
  /\ todo' = todo \ {i}
  /\ UNCHANGED <<caller, left, answer, up, stayed>>

\* Limits, outages and recoveries come at any moment.
Flaps(e) ==
  /\ up' = IF e \in up THEN up \ {e} ELSE up \union {e}
  /\ stayed' = stayed \ {e}
  /\ UNCHANGED <<caller, todo, left, answer>>

WalkNext ==
  \/ \E what \in Single \union Batch : Ask(what)
  \/ \E e \in Endpoints :
       \/ \E reply \in Replies(e) : TryBatch(e, reply)
       \/ \E w \in 0 .. CALLS : Throws(w, e)
       \/ \E i \in Calls, is \in {"value", "error", "nothing"} : TryAlone(i, e, is)
       \/ Flaps(e)
  \/ \E i \in Calls : PoolServes(i) \/ GivesUp(i)
  \/ BatchGivesUp
-----------------------------------------------------------------------------
WalkTypeOK ==
  /\ caller \in Single \union Batch /\ todo \subseteq 0 .. CALLS
  /\ left \in [0 .. CALLS -> SUBSET Endpoints]
  /\ \A i \in Calls : answer[i] = Nil \/ answer[i] \in Calls
  /\ up \subseteq Endpoints /\ stayed \subseteq up

Asked == IF caller \in Batch THEN Calls ELSE {1}

(***************************************************************************)
(* A call is left without an answer only where no endpoint was up from the *)
(* first try to the last ("It only throws when every endpoint failed"): a  *)
(* failing one, wherever it stands in the list, is walked past.  The kinds *)
(* that take a reply without a result for an answer are left out.          *)
(***************************************************************************)
WalkFindsAnswer ==
  todo = {} /\ caller \in {"block", "call", "balances", "checked", "prices"} /\ stayed # {}
    => \A i \in Asked : answer[i] # Nil

(***************************************************************************)
(* A call is never given another call's answer, whatever the order of the  *)
(* entries, and a checked batch is answered for every call or for none:    *)
(* "RPC failed" is not confused with "a real on-chain zero".               *)
(***************************************************************************)
AnswersAreReal ==
  /\ \A i \in Calls : answer[i] \in {i, Nil}
  /\ todo = {} /\ caller \in {"checked", "prices"} =>
       (\A i \in Calls : answer[i] = i) \/ (\A i \in Calls : answer[i] = Nil)

(***************************************************************************)
(* A walk finds an answer where there is one, and makes none up.           *)
(***************************************************************************)
WalksAreTrue == WalkTypeOK /\ WalkFindsAnswer /\ AnswersAreReal
=============================================================================
