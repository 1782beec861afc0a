---------------------------- MODULE SsoSessions ----------------------------
(***************************************************************************)
(* Sign-in with a single-use launch token of the identity hub, the session *)
(* cookie it buys, and the revocation gate both ask: a cached copy of the  *)
(* hub's feed in one isolate (src/src/routes/auth/sso.ts,                  *)
(* src/src/vendor/drm3-sdk-sso.ts, src/src/db/auth.ts, utils/jwt.ts,       *)
(* utils/auth/session.ts).  The hub itself is outside this code.           *)
(***************************************************************************)
EXTENDS Integers, FiniteSets, FiniteSetsExt

CONSTANTS
  Visits,      \* requests: callbacks with the launch token, pages with a session
  Exp,         \* when the launch token expires
  LIFETIME,    \* seconds a session lasts, JWT_EXPIRY_SECONDS
  TTL,         \* seconds the gate trusts its table, REVOCATION_TTL_MS
  TIMEOUT,     \* seconds a feed read may take
  MaxWait,     \* seconds between a callback's checks and its claim
  GRACE,       \* seconds a claimed jti outlives its token
  MaxSecond,   \* bound on the clock
  NoAnswer     \* the hub has not answered yet

ASSUME SsoAssumption ==
  /\ {Exp, LIFETIME, TTL, TIMEOUT, MaxWait, GRACE, MaxSecond} \subseteq Nat
  /\ TTL > 0 /\ TIMEOUT <= MaxWait /\ MaxWait <= GRACE

VARIABLES
  second,      \* the clock
  feed,        \* the account's entries at the hub: cutoffs, and Banned
  endedAt,     \* history: when the entry came that ends each session, by issue time
  table,       \* the gate's limit for the account, or NoAnswer before the first read
  fetchedAt,   \* when its last read ended, however it ended
  inflight,    \* the read under way: when it began and the answer, if any
  outage,      \* history: some feed read has failed
  visit,       \* where each request is
  since,       \* when it came
  cookie,      \* the issue time of the session it carries
  jtiSeen,     \* the row of sso_jti_seen, if any
  sessions     \* issue times of the sessions the launch token has bought

gateVars  == <<table, fetchedAt, inflight, outage>>
visitVars == <<visit, since, cookie>>
ssoVars   == <<second, feed, endedAt, gateVars, visitVars, jtiSeen, sessions>>

Banned  == MaxSecond + 1   \* later than any issue time
NoLimit == 0
IssueTimes == 0 .. MaxSecond
Idle    == [began |-> 0, answer |-> NoAnswer, running |-> FALSE]

SsoInit ==
  /\ second = 0 /\ feed = {} /\ endedAt = [t \in IssueTimes |-> Banned]
  /\ table = NoAnswer /\ fetchedAt = 0 /\ inflight = Idle /\ outage = FALSE
  /\ visit = [v \in Visits |-> "new"]
  /\ since = [v \in Visits |-> 0]
  /\ cookie = [v \in Visits |-> 0]
  /\ jtiSeen = FALSE /\ sessions = {}
-----------------------------------------------------------------------------
\* Mutant: a later entry replaces an earlier one, so a cutoff hides a ban.
LimitOf_lastEntry(entries) ==
  LET cutoffs == entries \ {Banned}
  IN  IF cutoffs # {} THEN Max(cutoffs) ELSE Max(entries \union {NoLimit})

\* parseRevocationFeed: a ban beats a cutoff, of two cutoffs the later one wins.
LimitOf(entries) == Max(entries \union {NoLimit})

\* The end of isRevoked.
Revoked(limit, iat) == iat < limit

Trusted == table # NoAnswer /\ second - fetchedAt < TTL

\* What becomes of a request the gate has judged: kept out, or on to its next step.
AfterGate(v, limit) ==
  IF Revoked(limit, cookie[v]) THEN "refused"
  ELSE IF visit[v] \in {"callback", "callbackWaits"} THEN "claim" ELSE "served"

\* A request comes: its signature, expiry and audience hold, and it asks the gate.
Come(v, asking, iat) ==
  /\ visit[v] = "new"
  /\ cookie' = [cookie EXCEPT ![v] = iat]
  /\ since' = [since EXCEPT ![v] = second]
  /\ visit' = [visit EXCEPT ![v] = asking]
  /\ UNCHANGED <<second, feed, endedAt, gateVars, jtiSeen, sessions>>

\* verifyActiveLaunchToken; the token was issued at 0.
CallbackComes(v) == second <= Exp /\ Come(v, "callback", 0)

\* verifySession of a cookie the token has bought, not yet expired.
PageComes(v, iat) == iat \in sessions /\ second <= iat + LIFETIME /\ Come(v, "page", iat)

Asking == {v \in Visits : visit[v] \in {"callback", "page"}}
Waiting == {v \in Visits : visit[v] \in {"callbackWaits", "pageWaits"}}

\* isRevoked with a fresh table answers at once.
Judge(v) ==
  /\ v \in Asking /\ Trusted
  /\ visit' = [visit EXCEPT ![v] = AfterGate(v, table)]
  /\ UNCHANGED <<second, feed, endedAt, gateVars, since, cookie, jtiSeen, sessions>>

\* With a stale one it awaits the read under way, or starts it.
Await(v) ==
  /\ v \in Asking /\ ~Trusted
  /\ visit' = [visit EXCEPT ![v] = IF @ = "page" THEN "pageWaits" ELSE "callbackWaits"]
  /\ inflight' = IF inflight.running THEN inflight
                 ELSE [began |-> second, answer |-> NoAnswer, running |-> TRUE]
  /\ UNCHANGED <<second, feed, endedAt, table, fetchedAt, outage, since, cookie, jtiSeen, sessions>>

\* The hub makes its answer.
HubAnswers ==
  /\ inflight.running /\ inflight.answer = NoAnswer
  /\ inflight' = [inflight EXCEPT !.answer = LimitOf(feed)]
  /\ UNCHANGED <<second, feed, endedAt, table, fetchedAt, outage, visitVars, jtiSeen, sessions>>

\* refresh() settles: everyone who awaited it is judged by the new table.
RefreshEnds(limit, at) ==
  /\ inflight.running
  /\ table' = limit /\ fetchedAt' = at
  /\ inflight' = Idle
  /\ visit' = [v \in Visits |-> IF v \in Waiting THEN AfterGate(v, limit) ELSE visit[v]]
  /\ UNCHANGED <<second, feed, endedAt, since, cookie, jtiSeen, sessions>>

RefreshWorks ==
  /\ inflight.answer # NoAnswer
  /\ RefreshEnds(inflight.answer, second)
  /\ UNCHANGED outage

\* A refusal, a bad answer or a timeout: the last table stays, or an empty one, and is dated.
RefreshFails ==
  /\ outage' = TRUE
  /\ RefreshEnds(IF table = NoAnswer THEN NoLimit ELSE table, second)

\* Mutant: a jti is forgotten as soon as its token expires.
SweptBeforeClaim_eager == jtiSeen /\ Exp >= second

\* The DELETE of the batch: rows whose token expired more than GRACE ago.
SweptBeforeClaim == jtiSeen /\ Exp >= second - GRACE

\* claimSsoJti and, for the first claim, the session: iat is the moment of signing.
Claim(v) ==
  /\ visit[v] = "claim"
  /\ jtiSeen' = TRUE
  /\ IF SweptBeforeClaim
       THEN /\ visit' = [visit EXCEPT ![v] = "refused"]
            /\ UNCHANGED sessions
       ELSE /\ visit' = [visit EXCEPT ![v] = "signed in"]
            /\ sessions' = sessions \union {second}
  /\ UNCHANGED <<second, feed, endedAt, gateVars, since, cookie>>

\* D1 throws, before or after the claim was stored: no session.
ClaimFails(v, stored) ==
  /\ visit[v] = "claim"
  /\ visit' = [visit EXCEPT ![v] = "refused"]
  /\ jtiSeen' = (SweptBeforeClaim \/ stored)
  /\ UNCHANGED <<second, feed, endedAt, gateVars, since, cookie, sessions>>
-----------------------------------------------------------------------------
\* The hub bans the account, or ends what was issued before now.
HubRevokes(limit) ==
  /\ limit \in {second, Banned} /\ limit \notin feed
  /\ feed' = feed \union {limit}
  /\ endedAt' = [t \in IssueTimes |->
       IF Revoked(limit, t) /\ endedAt[t] = Banned THEN second ELSE endedAt[t]]
  /\ UNCHANGED <<second, gateVars, visitVars, jtiSeen, sessions>>

\* A feed read ends within TIMEOUT, a callback within MaxWait.
NextSecond ==
  /\ second < MaxSecond
  /\ inflight.running => second - inflight.began < TIMEOUT
  /\ \A v \in Visits :
       visit[v] \in {"callback", "callbackWaits", "claim"} => second - since[v] < MaxWait
  /\ Asking = {}
  /\ second' = second + 1
  /\ UNCHANGED <<feed, endedAt, gateVars, visitVars, jtiSeen, sessions>>

SsoNext ==
  \/ \E v \in Visits : CallbackComes(v) \/ Judge(v) \/ Await(v) \/ Claim(v)
  \/ \E v \in Visits, t \in IssueTimes : PageComes(v, t)
  \/ \E v \in Visits, stored \in BOOLEAN : ClaimFails(v, stored)
  \/ HubAnswers \/ RefreshWorks \/ RefreshFails
  \/ \E limit \in {second, Banned} : HubRevokes(limit)
  \/ NextSecond

SsoSpec == SsoInit /\ [][SsoNext]_ssoVars
-----------------------------------------------------------------------------
Places == {"new", "callback", "page", "callbackWaits", "pageWaits", "claim",
           "refused", "served", "signed in"}

SsoTypeOK ==
  /\ second \in 0 .. MaxSecond
  /\ feed \subseteq 0 .. Banned
  /\ endedAt \in [IssueTimes -> 0 .. Banned]
  /\ table \in 0 .. Banned \union {NoAnswer}
  /\ fetchedAt \in 0 .. MaxSecond
  /\ inflight.began \in 0 .. MaxSecond /\ inflight.running \in BOOLEAN
  /\ inflight.answer \in 0 .. Banned \union {NoAnswer}
  /\ Waiting # {} => inflight.running
  /\ visit \in [Visits -> Places]
  /\ since \in [Visits -> 0 .. MaxSecond] /\ cookie \in [Visits -> IssueTimes]
  /\ jtiSeen \in BOOLEAN /\ outage \in BOOLEAN
  /\ sessions \subseteq IssueTimes

SignedIn == {v \in Visits : visit[v] = "signed in"}

(***************************************************************************)
(* A launch token buys one session (sso.ts: a replay, from any PoP or      *)
(* racing the first use, gets none), however its callbacks, its expiry and *)
(* the sweep of old claims interleave.                                     *)
(***************************************************************************)
LaunchTokenOnce == SsoTypeOK /\ Cardinality(SignedIn) <= 1

(***************************************************************************)
(* The hub's word arrives within the gate's window (session.ts: inside the *)
(* feed's cache window, not at the cookie's expiry): while the feed can be *)
(* read, no page is served to a session that ended TTL + TIMEOUT ago.      *)
(***************************************************************************)
ServedInWindow ==
  \A v \in Visits :
    visit[v] # "served" /\ visit'[v] = "served" /\ ~outage'
      => second - endedAt[cookie[v]] < TTL + TIMEOUT

EndedWithinWindow == [][ServedInWindow]_ssoVars

(***************************************************************************)
(* Ending the old sessions spares the new ones (drm3-sdk-sso.ts: the fresh *)
(* sign-in after it is honoured): nothing is refused by the gate that no   *)
(* ban and no later cutoff ends.                                           *)
(***************************************************************************)
RefusedByFeed ==
  \A v \in Visits :
    visit[v] # "claim" /\ visit'[v] = "refused" /\ visit[v] # "refused"
      => \E limit \in feed : cookie[v] < limit

FreshSignInStands == [][RefusedByFeed]_ssoVars

(***************************************************************************)
(* The gate ends what the hub ended, soon, and nothing else.               *)
(***************************************************************************)
GateFollowsFeed == EndedWithinWindow /\ FreshSignInStands
=============================================================================
