----------------------- MODULE BackfillCoverageProofs -----------------------
(***************************************************************************)
(* Proofs about BackfillCoverage: the frontier is honest for any number of *)
(* passes, any windows and chunk sizes, and any head.                      *)
(***************************************************************************)
EXTENDS BackfillCoverage, TLAPS

Assumptions ==
  /\ MOR_DEPLOY_BLOCK \in Nat \ {0} /\ DIAMOND_DEPLOY_BLOCK \in Nat
  /\ LIVE_FROM \in Nat /\ MaxHead \in Nat
  /\ CHUNK_BLOCKS \in Nat \ {0} /\ MAX_CHUNKS \in Nat \ {0}
  /\ Requested \subseteq Nat \X Nat

LEMMA AllAssumptions == Assumptions
BY DeployBlocksAssumption, LiveAssumption, ChunksAssumption, RequestedAssumption
   DEF Assumptions

LEMMA TypeInit == Init => TypeOK
<1> SUFFICES ASSUME Init PROVE TypeOK
  OBVIOUS
<1>1. 0 \in 0 .. MAX_CHUNKS /\ 0 \in Ages /\ LIVE_FROM \in Nat
  BY AllAssumptions DEF Assumptions, Ages, Stale
<1>2. lock \in {NoLock} \cup Ages
  BY DEF Init
<1> QED
  BY <1>1, <1>2 DEF Init, TypeOK, Kinds

LEMMA LeaveType ==
  ASSUME TypeOK, NEW p \in Passes, Leave(p)
  PROVE  /\ pc' \in [Passes -> {"idle", "plan", "lock", "scan", "persist", "next"}]
         /\ kind' \in [Passes -> Kinds]
         /\ from' \in [Passes -> Nat] /\ to' \in [Passes -> Nat] /\ at' \in [Passes -> Nat]
         /\ chunks' \in [Passes -> 0 .. MAX_CHUNKS] /\ failed' \in [Passes -> BOOLEAN]
         /\ prevFrontier' \in [Passes -> Nat]
BY AllAssumptions DEF Leave, TypeOK, Assumptions, Kinds

LEMMA WindowType ==
  ASSUME TypeOK, NEW p \in Passes, NEW start \in Nat, NEW end \in Nat,
         OpenWindow(p, start, end)
  PROVE  /\ from' \in [Passes -> Nat] /\ to' \in [Passes -> Nat] /\ at' \in [Passes -> Nat]
         /\ chunks' \in [Passes -> 0 .. MAX_CHUNKS] /\ failed' \in [Passes -> BOOLEAN]
BY AllAssumptions DEF OpenWindow, TypeOK, Assumptions

LEMMA ResumeType == TypeOK => Resume \in Nat
BY AllAssumptions DEF TypeOK, Resume, Assumptions

LEMMA RequestType ==
  ASSUME TypeOK, NEW p \in Passes, NEW k \in Kinds, NEW start \in Nat, NEW end \in Nat,
         Request(p, k, start, end)
  PROVE  TypeOK'
BY WindowType DEF TypeOK, Request, Goto, campaign, history, Kinds

LEMMA ScanType ==
  ASSUME TypeOK, NEW p \in Passes, NEW kept \in SUBSET Chunk(p), ScanChunk(p, kept)
  PROVE  TypeOK'
<1> USE AllAssumptions DEF TypeOK, Assumptions
<1>1. ChunkTo(p) \in Nat
  BY DEF ChunkTo, Lesser
<1>2. chunks[p] + 1 \in 0 .. MAX_CHUNKS
  BY DEF ScanChunk, Scans
<1>3. Chunk(p) \subseteq History
  BY DEF Chunk
<1>4. /\ at' \in [Passes -> Nat]
      /\ chunks' \in [Passes -> 0 .. MAX_CHUNKS]
  BY <1>1, <1>2 DEF ScanChunk
<1> QED
  BY <1>3, <1>4 DEF ScanChunk, campaign

LEMMA NewFrontierType ==
  ASSUME TypeOK, NEW p \in Passes
  PROVE  NewFrontier(p) \in Nat
BY DEF NewFrontier, TypeOK, ScannedTo, Greater

LEMMA TypeStep == TypeOK /\ [Next]_vars => TypeOK'
<1> SUFFICES ASSUME TypeOK, [Next]_vars PROVE TypeOK'
  OBVIOUS
<1> USE DEF campaign, history, window
<1>1. CASE HeadMoves
  BY <1>1 DEF HeadMoves, TypeOK
<1>2. ASSUME NEW p \in Passes, NEW healthy \in BOOLEAN, CronFires(p, healthy)
      PROVE  TypeOK'
  <2>1. lock' \in {NoLock} \cup Ages
    BY <1>2 DEF CronFires, TypeOK, Older, Lesser, NoLock, Ages, Stale
  <2>2. age' \in [Passes -> Ages]
    BY <1>2 DEF CronFires, TypeOK, Older, Lesser, NoLock, Ages, Stale
  <2>3. pc' \in [Passes -> {"idle", "plan", "lock", "scan", "persist", "next"}]
    BY <1>2 DEF CronFires, TypeOK
  <2> QED
    BY <1>2, <2>1, <2>2, <2>3 DEF CronFires, TypeOK
<1>3. ASSUME NEW p \in Passes, PassStep(p)
      PROVE  TypeOK'
  <2>1. CASE GrindPlans(p)
    BY <2>1, ResumeType, WindowType DEF GrindPlans, Goto, TypeOK
  <2>2. CASE FullyCaughtUp(p)
    BY <2>2 DEF FullyCaughtUp, Goto, TypeOK
  <2>3. CASE TakeLock(p)
    BY <2>3 DEF TakeLock, Goto, TypeOK
  <2>4. CASE ScanChunk(p, Chunk(p))
    BY <2>4, ScanType
  <2>5. CASE ReadProgress(p)
    BY <2>5 DEF ReadProgress, Goto, TypeOK
  <2>6. CASE PersistProgress(p)
    <3>1. CASE kind[p] = "grind"
      BY <2>6, <3>1, NewFrontierType DEF PersistProgress, TypeOK
    <3>2. CASE kind[p] # "grind"
      BY <2>6, <3>2, NewFrontierType, LeaveType DEF PersistProgress, TypeOK
    <3> QED
      BY <3>1, <3>2
  <2>7. CASE GrindContinues(p)
    <3>1. at[p] \in Nat /\ to[p] \in Nat
      BY DEF TypeOK
    <3> QED
      BY <2>7, <3>1, WindowType DEF GrindContinues, Goto, TypeOK
  <2>8. CASE GrindEnds(p)
    BY <2>8, LeaveType DEF GrindEnds, TypeOK
  <2> QED
    BY <1>3, <2>1, <2>2, <2>3, <2>4, <2>5, <2>6, <2>7, <2>8 DEF PassStep
<1>4. ASSUME NEW p \in Passes, Trouble(p)
      PROVE  TypeOK'
  <2>1. ASSUME NEW k \in {"range", "holders"}, NEW q \in Requested, Request(p, k, q[1], q[2])
        PROVE  TypeOK'
    BY <2>1, AllAssumptions, RequestType DEF Assumptions, Kinds
  <2>2. CASE Request(p, "holders", Resume, head)
    BY <2>2, ResumeType, RequestType DEF TypeOK, Kinds
  <2>3. CASE CronFires(p, FALSE)
    BY <2>3, <1>2
  <2>4. ASSUME NEW kept \in SUBSET Chunk(p), ScanChunk(p, kept)
        PROVE  TypeOK'
    BY <2>4, ScanType
  <2>5. CASE FetchFails(p)
    BY <2>5 DEF FetchFails, TypeOK
  <2>6. CASE PersistFails(p)
    <3>1. CASE kind[p] = "grind"
      BY <2>6, <3>1 DEF PersistFails, TypeOK
    <3>2. CASE kind[p] # "grind"
      BY <2>6, <3>2, LeaveType DEF PersistFails, TypeOK
    <3> QED
      BY <3>1, <3>2
  <2>7. CASE Dies(p)
    BY <2>7, LeaveType DEF Dies, TypeOK
  <2> QED
    BY <1>4, <2>1, <2>2, <2>3, <2>4, <2>5, <2>6, <2>7 DEF Trouble
<1>5. CASE CalmDown
  BY <1>5 DEF CalmDown, TypeOK
<1>6. CASE UNCHANGED vars
  BY <1>6 DEF vars, TypeOK
<1> QED
  BY <1>1, <1>2, <1>3, <1>4, <1>5, <1>6 DEF Next
-----------------------------------------------------------------------------
(***************************************************************************)
(* What makes contiguity inductive: a pass has scanned its own window from *)
(* its start up to where it stands, and the frontier it read may be old by *)
(* the time it is used, but is never wrong, because scanned only grows.    *)
(***************************************************************************)
Covered(first, last) == \A b \in History : first <= b /\ b <= last => b \in scanned

WindowScanned(p) ==
  pc[p] \in {"lock", "scan", "persist", "next"} =>
    from[p] <= at[p] /\ Covered(from[p], at[p] - 1)

FrontierInv ==
  /\ Covered(MOR_DEPLOY_BLOCK, frontier)
  /\ \A p \in Passes :
       /\ WindowScanned(p)
       /\ pc[p] = "persist" => Covered(MOR_DEPLOY_BLOCK, prevFrontier[p])

LEMMA FrontierInvImplies == TypeOK /\ FrontierInv => FrontierIsContiguous
BY AllAssumptions DEF TypeOK, Assumptions, FrontierInv, Covered, FrontierIsContiguous

LEMMA FrontierInit == Init => FrontierInv
BY AllAssumptions DEF Init, Assumptions, FrontierInv, WindowScanned, Covered, History

(***************************************************************************)
(* A step that leaves the frontier, and moves no pass but p, only has p to *)
(* answer for.                                                             *)
(***************************************************************************)
LEMMA OthersStay ==
  ASSUME TypeOK, FrontierInv, scanned \subseteq scanned',
         NEW q \in Passes,
         pc'[q] = pc[q], from'[q] = from[q], at'[q] = at[q], prevFrontier'[q] = prevFrontier[q]
  PROVE  /\ WindowScanned(q)'
         /\ pc'[q] = "persist" => Covered(MOR_DEPLOY_BLOCK, prevFrontier[q])'
BY DEF FrontierInv, WindowScanned, Covered

(***************************************************************************)
(* The frontier a pass writes is covered: it is the one it read, or its    *)
(* window continues from the deploy block or from that one.                *)
(***************************************************************************)
LEMMA NewFrontierCovered ==
  ASSUME TypeOK, FrontierInv, NEW p \in Passes, pc[p] = "persist"
  PROVE  Covered(MOR_DEPLOY_BLOCK, NewFrontier(p))
<1> SUFFICES ASSUME NEW b \in History, MOR_DEPLOY_BLOCK <= b, b <= NewFrontier(p)
             PROVE  b \in scanned
  BY DEF Covered
<1>1. /\ b \in Int /\ MOR_DEPLOY_BLOCK \in Nat
      /\ from[p] \in Nat /\ at[p] \in Nat /\ prevFrontier[p] \in Nat
  BY AllAssumptions DEF Assumptions, History, TypeOK
<1>2. /\ \A c \in History : from[p] <= c /\ c <= at[p] - 1 => c \in scanned
      /\ \A c \in History : MOR_DEPLOY_BLOCK <= c /\ c <= prevFrontier[p] => c \in scanned
  BY DEF FrontierInv, WindowScanned, Covered
<1>3. b <= prevFrontier[p] \/ (from[p] <= b /\ b <= at[p] - 1)
  BY <1>1 DEF NewFrontier, ScannedTo, Greater
<1> QED
  BY <1>2, <1>3

(***************************************************************************)
(* A pass that opens a window has scanned none of it yet.                  *)
(***************************************************************************)
LEMMA Opened ==
  ASSUME TypeOK, NEW p \in Passes, NEW start \in Nat, NEW end \in Nat,
         OpenWindow(p, start, end), pc'[p] # "persist"
  PROVE  WindowScanned(p)' /\ (pc'[p] = "persist" => Covered(MOR_DEPLOY_BLOCK, prevFrontier[p])')
<1>1. from'[p] = start /\ at'[p] = start
  BY DEF OpenWindow, TypeOK
<1>2. History \subseteq Int
  BY DEF History
<1> QED
  BY <1>1, <1>2 DEF WindowScanned, Covered

LEMMA FrontierStep == TypeOK /\ TypeOK' /\ FrontierInv /\ [Next]_vars => FrontierInv'
<1> SUFFICES ASSUME TypeOK, TypeOK', FrontierInv, [Next]_vars PROVE FrontierInv'
  OBVIOUS
<1> USE DEF campaign, history, window
<1> DEFINE Fine(p) == /\ WindowScanned(p)
                      /\ pc[p] = "persist" => Covered(MOR_DEPLOY_BLOCK, prevFrontier[p])
<1> DEFINE Same(p) == /\ pc'[p] = pc[p] /\ from'[p] = from[p]
                      /\ at'[p] = at[p] /\ prevFrontier'[p] = prevFrontier[p]
\* A step that leaves the frontier, and all passes but p.
<1>1. ASSUME frontier' = frontier, scanned \subseteq scanned', NEW p \in Passes, Fine(p)',
             \A q \in Passes \ {p} : Same(q)
      PROVE  FrontierInv'
  <2>1. Covered(MOR_DEPLOY_BLOCK, frontier)'
    BY <1>1 DEF FrontierInv, Covered
  <2>2. ASSUME NEW q \in Passes PROVE Fine(q)'
    BY <1>1, OthersStay
  <2> QED
    BY <2>1, <2>2 DEF FrontierInv
\* A step that leaves the frontier, and all passes.
<1>2. ASSUME frontier' = frontier, scanned \subseteq scanned', \A q \in Passes : Same(q)
      PROVE  FrontierInv'
  <2>1. Covered(MOR_DEPLOY_BLOCK, frontier)'
    BY <1>2 DEF FrontierInv, Covered
  <2>2. ASSUME NEW q \in Passes PROVE Fine(q)'
    BY <1>2, OthersStay
  <2> QED
    BY <2>1, <2>2 DEF FrontierInv
\* A pass that leaves has nothing to answer for.
<1>3. ASSUME NEW p \in Passes, Leave(p)
      PROVE  Fine(p)' /\ \A q \in Passes \ {p} : Same(q)
  BY <1>3 DEF Leave, TypeOK, WindowScanned
<1>4. CASE HeadMoves
  BY <1>4, <1>2 DEF HeadMoves
<1>5. ASSUME NEW p \in Passes, NEW healthy \in BOOLEAN, CronFires(p, healthy)
      PROVE  FrontierInv'
  <2>1. Fine(p)' /\ \A q \in Passes \ {p} : Same(q)
    BY <1>5 DEF CronFires, TypeOK, WindowScanned
  <2> QED
    BY <1>1, <1>5, <2>1 DEF CronFires
<1>6. ASSUME NEW p \in Passes, NEW kept \in SUBSET Chunk(p), ScanChunk(p, kept)
      PROVE  FrontierInv'
  <2>1. /\ from'[p] = from[p] /\ from[p] \in Nat /\ at[p] \in Nat /\ to[p] \in Nat
        /\ at'[p] = ChunkTo(p) + 1 /\ at[p] <= ChunkTo(p) /\ ChunkTo(p) \in Nat
        /\ pc'[p] = "scan" /\ pc[p] = "scan" /\ scanned' = scanned \cup Chunk(p)
    BY <1>6, AllAssumptions DEF ScanChunk, Scans, TypeOK, ChunkTo, Lesser, Assumptions
  <2>2. from[p] <= at[p] /\ Covered(from[p], at[p] - 1)
    BY <2>1 DEF FrontierInv, WindowScanned
  <2>3. ASSUME NEW b \in History, from[p] <= b, b <= ChunkTo(p) PROVE b \in scanned'
    <3>1. b \in Int
      BY DEF History
    <3>2. CASE b <= at[p] - 1
      BY <2>1, <2>2, <2>3, <3>2 DEF Covered
    <3>3. CASE b \in at[p] .. ChunkTo(p)
      BY <2>1, <3>3 DEF Chunk
    <3> QED
      BY <2>1, <2>3, <3>1, <3>2, <3>3
  <2>4. WindowScanned(p)'
    BY <2>1, <2>2, <2>3 DEF WindowScanned, Covered
  <2>5. \A q \in Passes \ {p} : Same(q)
    BY <1>6 DEF ScanChunk, TypeOK
  <2> QED
    BY <1>1, <1>6, <2>1, <2>4, <2>5 DEF ScanChunk
<1>7. ASSUME NEW p \in Passes, NEW k, NEW start \in Nat, NEW end \in Nat,
             Request(p, k, start, end)
      PROVE  FrontierInv'
  <2>1. pc'[p] = "scan"
    BY <1>7 DEF Request, Goto, TypeOK
  <2>2. \A q \in Passes \ {p} : Same(q)
    BY <1>7 DEF Request, Goto, OpenWindow, TypeOK
  <2>3. Fine(p)'
    BY <1>7, <2>1, Opened DEF Request
  <2> QED
    BY <1>1, <1>7, <2>2, <2>3 DEF Request
<1>8. ASSUME NEW p \in Passes, PassStep(p)
      PROVE  FrontierInv'
  <2>1. CASE GrindPlans(p)
    <3>1. pc'[p] = "lock" /\ head \in Nat
      BY <2>1 DEF GrindPlans, Goto, TypeOK
    <3>2. \A q \in Passes \ {p} : Same(q)
      BY <2>1 DEF GrindPlans, Goto, OpenWindow, TypeOK
    <3>3. Fine(p)'
      BY <2>1, <3>1, ResumeType, Opened DEF GrindPlans
    <3> QED
      BY <1>1, <2>1, <3>2, <3>3 DEF GrindPlans
  <2>2. CASE FullyCaughtUp(p)
    <3>1. pc'[p] = "idle" /\ \A q \in Passes \ {p} : Same(q)
      BY <2>2 DEF FullyCaughtUp, Goto, TypeOK
    <3>2. Fine(p)'
      BY <3>1 DEF WindowScanned
    <3> QED
      BY <1>1, <2>2, <3>1, <3>2 DEF FullyCaughtUp
  <2>3. CASE TakeLock(p)
    <3>1. Fine(p)' /\ \A q \in Passes \ {p} : Same(q)
      BY <2>3 DEF TakeLock, Goto, TypeOK, FrontierInv, WindowScanned, Covered
    <3> QED
      BY <1>1, <2>3, <3>1 DEF TakeLock
  <2>4. CASE ScanChunk(p, Chunk(p))
    BY <1>6, <2>4
  <2>5. CASE ReadProgress(p)
    <3>1. Fine(p)' /\ \A q \in Passes \ {p} : Same(q)
      BY <2>5 DEF ReadProgress, Goto, TypeOK, FrontierInv, WindowScanned, Covered
    <3> QED
      BY <1>1, <2>5, <3>1 DEF ReadProgress
  <2>6. CASE PersistProgress(p)
    <3>1. Covered(MOR_DEPLOY_BLOCK, frontier)'
      BY <2>6, NewFrontierCovered DEF PersistProgress, Covered
    <3>2. Fine(p)' /\ \A q \in Passes \ {p} : Same(q)
      BY <1>3, <2>6 DEF PersistProgress, TypeOK, FrontierInv, WindowScanned, Covered
    <3>3. ASSUME NEW q \in Passes PROVE Fine(q)'
      BY <2>6, <3>2, OthersStay DEF PersistProgress
    <3> QED
      BY <3>1, <3>3 DEF FrontierInv
  <2>7. CASE GrindContinues(p)
    <3>1. pc'[p] = "scan" /\ at[p] \in Nat /\ to[p] \in Nat
      BY <2>7 DEF GrindContinues, Goto, TypeOK
    <3>2. \A q \in Passes \ {p} : Same(q)
      BY <2>7 DEF GrindContinues, Goto, OpenWindow, TypeOK
    <3>3. Fine(p)'
      BY <2>7, <3>1, Opened DEF GrindContinues
    <3> QED
      BY <1>1, <2>7, <3>2, <3>3 DEF GrindContinues
  <2>8. CASE GrindEnds(p)
    BY <1>1, <1>3, <2>8 DEF GrindEnds
  <2> QED
    BY <1>8, <2>1, <2>2, <2>3, <2>4, <2>5, <2>6, <2>7, <2>8 DEF PassStep
<1>9. ASSUME NEW p \in Passes, Trouble(p)
      PROVE  FrontierInv'
  <2>1. ASSUME NEW k \in {"range", "holders"}, NEW q \in Requested, Request(p, k, q[1], q[2])
        PROVE  FrontierInv'
    BY <1>7, <2>1, AllAssumptions DEF Assumptions
  <2>2. CASE Request(p, "holders", Resume, head)
    BY <1>7, <2>2, ResumeType DEF TypeOK
  <2>3. CASE CronFires(p, FALSE)
    BY <1>5, <2>3
  <2>4. ASSUME NEW kept \in SUBSET Chunk(p), ScanChunk(p, kept) PROVE FrontierInv'
    BY <1>6, <2>4
  <2>5. CASE FetchFails(p)
    BY <1>2, <2>5 DEF FetchFails
  <2>6. CASE PersistFails(p)
    <3>1. Fine(p)' /\ \A q \in Passes \ {p} : Same(q)
      BY <1>3, <2>6 DEF PersistFails, TypeOK, FrontierInv, WindowScanned, Covered
    <3> QED
      BY <1>1, <2>6, <3>1 DEF PersistFails
  <2>7. CASE Dies(p)
    BY <1>1, <1>3, <2>7 DEF Dies
  <2> QED
    BY <1>9, <2>1, <2>2, <2>3, <2>4, <2>5, <2>6, <2>7 DEF Trouble
<1>10. CASE CalmDown
  BY <1>2, <1>10 DEF CalmDown
<1>11. CASE UNCHANGED vars
  BY <1>2, <1>11 DEF vars
<1> QED
  BY <1>4, <1>5, <1>8, <1>9, <1>10, <1>11 DEF Next
-----------------------------------------------------------------------------
(***************************************************************************)
(* Every variable of the backfill keeps its type; in particular a frontier *)
(* is a block and not the -1 a window starting at block 0 could leave.     *)
(***************************************************************************)
THEOREM BackfillTypeCorrect == Spec => []TypeOK
BY TypeInit, TypeStep, PTL DEF Spec

LEMMA FrontierInvariant == Spec => [](TypeOK /\ FrontierInv)
<1>1. Init => TypeOK /\ FrontierInv
  BY TypeInit, FrontierInit
<1>2. TypeOK /\ FrontierInv /\ [Next]_vars => TypeOK' /\ FrontierInv'
  BY TypeStep, FrontierStep
<1> QED
  BY <1>1, <1>2, PTL DEF Spec

(***************************************************************************)
(* mor_holder_backfill_block is honest: any number of requested passes,    *)
(* windows and cron grinds may race to read it and write it back, die, or  *)
(* fail anywhere, and no block at or below it was left unfetched.          *)
(***************************************************************************)
THEOREM FrontierIsHonest == Spec => []FrontierIsContiguous
BY FrontierInvariant, FrontierInvImplies, PTL

LEMMA HonestCoverage == TypeOK /\ FrontierInv => CompleteIsScanned
<1> SUFFICES ASSUME TypeOK, FrontierInv, NEW h \in {0} \cup LIVE_FROM .. head, HoldersComplete(h)
             PROVE  /\ (MOR_DEPLOY_BLOCK .. h - LIVE_TAIL_BLOCKS) \cap History \subseteq scanned
                    /\ h # 0
  BY DEF CompleteIsScanned
<1>1. /\ MOR_DEPLOY_BLOCK \in Nat /\ LIVE_TAIL_BLOCKS \in Nat /\ LIVE_FROM \in Nat
      /\ MOR_DEPLOY_BLOCK + LIVE_TAIL_BLOCKS < LIVE_FROM
      /\ head \in Nat /\ frontier \in Nat
  BY AllAssumptions, LiveAssumption DEF Assumptions, TypeOK
<1>2. h \in Nat /\ h # 0
  BY <1>1 DEF HoldersComplete, ValidHead
<1>3. MOR_DEPLOY_BLOCK < h - LIVE_TAIL_BLOCKS /\ h - LIVE_TAIL_BLOCKS <= ScannedUpTo
  BY <1>1, <1>2 DEF HoldersComplete, ValidHead, ReportedHead, ScannedUpTo, Greater
<1>4. h - LIVE_TAIL_BLOCKS <= frontier
  BY <1>1, <1>2, <1>3 DEF ScannedUpTo, Greater
<1> QED
  BY <1>1, <1>2, <1>4 DEF FrontierInv, Covered, History

(***************************************************************************)
(* Complete means scanned: whenever /health calls the holders complete at  *)
(* the head it has in hand, every block of history up to the live tail was *)
(* fetched; and an unknown head is never called complete.                  *)
(***************************************************************************)
THEOREM CompletenessIsHonest == Spec => []CompleteIsScanned
BY FrontierInvariant, HonestCoverage, PTL
=============================================================================
