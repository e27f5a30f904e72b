------------------------------ MODULE RaceProof ------------------------------
(***************************************************************************)
(* Proofs about the scheduler and about the races run over it.             *)
(*                                                                         *)
(* The scheduler (Sched).  SchedInv, the conjunction of the type invariant *)
(* with the three pool invariants, is inductive: each step under the lock  *)
(* has a lemma of its own ("...Keeps"), which the scheduler's actions and  *)
(* the connections' share.  The one fact that is not about a single step   *)
(* is that a finite non-empty set of Active addresses has a best one       *)
(* (BestActiveIsActive), for which MinimalElement does the work.           *)
(*                                                                         *)
(* Its order.  Isolation holds until its deadline: a claim spares isolated *)
(* addresses only if the touchstone rotateLocked chooses, the address with *)
(* a certain number of predecessors, exists.  Insertion ranks must be      *)
(* distinct (RanksDistinct, an invariant of its own) for the rotation      *)
(* order to be total, and a finite total order has an element of every     *)
(* rank (RankExists).                                                      *)
(*                                                                         *)
(* The races (Race), for any number of connections and addresses and any   *)
(* race width: single flight, at most Width dials in flight, no address    *)
(* dialled again, and no refusal after a race without a failed candidate   *)
(* or a success that was left unread (Evidence).  Only the second needs to *)
(* know what the scheduler hands out: at most Width candidates, because    *)
(* the dial order is a total one on a pool with distinct ranks             *)
(* (RaceWidth), and the pool of a Race stays one (PoolStep, from the       *)
(* lemmas about the scheduler's steps).                                    *)
(*                                                                         *)
(* Last, Race implements Sched: every step of a connection is a call of    *)
(* the scheduler's specification or leaves the scheduler alone             *)
(* (RaceCalls), so what is proved of a pool under arbitrary callers holds  *)
(* beneath any number of races.                                            *)
(***************************************************************************)
EXTENDS Race, FiniteSetTheorems, WellFoundedInduction, TLAPS

\* A strict partial order has a minimal element on every finite non-empty
\* set: a smallest subset without one would lose it with any element.

LEMMA MinimalElement ==
    ASSUME NEW S, IsFiniteSet(S), S # {},
           NEW R,
           \A a \in S : <<a, a>> \notin R,
           \A a, b, c \in S : <<a, b>> \in R /\ <<b, c>> \in R => <<a, c>> \in R
    PROVE  \E m \in S : \A o \in S : <<o, m>> \notin R
<1> DEFINE NoMin(T) == T # {} /\ \A m \in T : \E o \in T : <<o, m>> \in R
           Bad == {T \in SUBSET S : NoMin(T)}
<1>1. SUFFICES ASSUME Bad # {} PROVE FALSE
  <2>1. S \notin Bad BY <1>1
  <2>2. QED BY <2>1
<1>2. IsWellFoundedOn(StrictSubsetOrdering(S), SUBSET S)
  BY FS_StrictSubsetOrderingWellFounded, FS_FiniteSubsetsOfFinite
<1>3. PICK T \in Bad : \A U \in Bad : <<U, T>> \notin StrictSubsetOrdering(S)
  <2>1. Bad \subseteq SUBSET S OBVIOUS
  <2> HIDE DEF Bad
  <2>2. QED BY <1>1, <1>2, <2>1, WFMin
<1>4. PICK x \in T : TRUE
  BY <1>3
<1>5. T \ {x} \notin Bad
  <2>1. T \in SUBSET S /\ T \ {x} \in SUBSET S /\ T \ {x} # T
    BY <1>3, <1>4
  <2>2. <<T \ {x}, T>> \in StrictSubsetOrdering(S)
    BY <2>1, Zenon DEF StrictSubsetOrdering
  <2>3. QED BY <1>3, <2>2
<1>6. CASE T \ {x} = {}
  <2>1. T = {x} BY <1>4, <1>6
  <2>2. QED BY <1>3, <2>1
<1>7. CASE T \ {x} # {}
  <2>1. PICK m \in T \ {x} : \A o \in T \ {x} : <<o, m>> \notin R
    BY <1>3, <1>5, <1>7
  <2>2. <<x, m>> \in R
    BY <1>3, <2>1
  <2>3. \A o \in T : <<o, x>> \notin R
    BY <1>3, <1>4, <2>1, <2>2
  <2>4. QED BY <1>3, <1>4, <2>3
<1>8. QED BY <1>6, <1>7

----------------------------------------------------------------------------
(* Types of the EWMAs, and the address the scheduler prefers.              *)

\* The type of one EWMA step; alpha is a percentage.
LEMMA EwmaType ==
    ASSUME NEW v \in Int, NEW x \in Int
    PROVE  EwmaAdd(v, x) \in Int
<1>1. Alpha \in Int BY SchedAssumption
<1>2. Alpha * (x - v) \in Int BY <1>1
<1>3. (Alpha * (x - v)) \div 100 \in Int BY <1>2
<1>4. QED BY <1>3 DEF EwmaAdd

Stats == [rtt : Int, cv : Int, fail : Int]

\* An observation turns statistics into statistics.
LEMMA ObserveType ==
    ASSUME NEW s \in Stats, NEW ms \in Int, NEW failed \in Int
    PROVE  Observe(s, ms, failed) \in Stats
<1> DEFINE m == EwmaAdd(s.rtt, ms)
           dev == AtMost((100 * AbsVal(ms - m)) \div m, 100)
<1>1. s.rtt \in Int /\ s.cv \in Int /\ s.fail \in Int BY DEF Stats
<1>2. m \in Int BY <1>1, EwmaType
<1>3. ASSUME m > 1 PROVE dev \in Int
  <2> HIDE DEF m
  <2>1. 100 * AbsVal(ms - m) \in Int BY <1>2 DEF AbsVal
  <2>2. (100 * AbsVal(ms - m)) \div m \in Int BY <1>2, <1>3, <2>1
  <2>3. QED BY <2>2 DEF AtMost
<1>4. m > 1 => EwmaAdd(s.cv, dev) \in Int BY <1>1, <1>3, EwmaType
<1>5. EwmaAdd(s.fail, failed) \in Int BY <1>1, EwmaType
<1> HIDE DEF m, dev
<1>6. (IF m > 1 THEN EwmaAdd(s.cv, dev) ELSE s.cv) \in Int BY <1>1, <1>4
<1>7. Observe(s, ms, failed) =
        [rtt |-> m, cv |-> IF m > 1 THEN EwmaAdd(s.cv, dev) ELSE s.cv,
         fail |-> EwmaAdd(s.fail, failed)]
  BY DEF Observe, m, dev
<1>8. QED BY <1>2, <1>5, <1>6, <1>7 DEF Stats

\* The score of every address is an integer.
LEMMA ScoreType ==
    ASSUME PoolTypeOK, NEW ip \in IPs
    PROVE  Score(ip) \in Int
<1>1. /\ stats[ip].fail \in Int /\ EwmaVal(stats[ip].rtt) \in Int
      /\ EwmaVal(stats[ip].cv) \in Int
  BY DEF PoolTypeOK, EwmaVal
<1>2. (3 * AtMost(EwmaVal(stats[ip].rtt), 1000)) \div 10 \in Int
  BY <1>1 DEF AtMost
<1>3. QED BY <1>1, <1>2 DEF Score

\* The best Active address exists when there is one, and is one.
LEMMA BestActiveIsActive ==
    ASSUME PoolTypeOK, Actives # {}
    PROVE  BestActive \in Actives
<1> DEFINE R == {p \in IPs \X IPs : Better(p[1], p[2])}
<1>1. \A a, b \in IPs : <<a, b>> \in R <=> Better(a, b)
  OBVIOUS
<1> HIDE DEF R
<1>2. Actives \subseteq IPs BY DEF Actives, Pool
<1>3. IsFiniteSet(Actives) BY <1>2, SchedAssumption, FS_Subset
<1>4. \A a \in IPs : Score(a) \in Int /\ pos[a] \in Nat
  BY ScoreType DEF PoolTypeOK
<1>5. \A a \in Actives : <<a, a>> \notin R
  BY <1>1, <1>2, <1>4 DEF Better
<1>6. \A a, b, c \in Actives : <<a, b>> \in R /\ <<b, c>> \in R => <<a, c>> \in R
  BY <1>1, <1>2, <1>4 DEF Better
<1>7. \E m \in Actives : \A o \in Actives : <<o, m>> \notin R
  BY <1>3, <1>5, <1>6, MinimalElement
<1>8. \E m \in Actives : \A o \in Actives : ~Better(o, m)
  BY <1>1, <1>2, <1>7
<1>9. QED BY <1>8 DEF BestActive

----------------------------------------------------------------------------
(* The invariant of the pool and the steps taken under the lock.           *)

PoolInv ==
    /\ PoolTypeOK
    /\ StickyIsActive
    /\ ClaimIffProbing
    /\ CountMatchesState

\* New candidates disturb nobody.
LEMMA AppendKeeps ==
    ASSUME PoolInv, NEW S \in SUBSET IPs, AppendCandidates(S)
    PROVE  PoolInv'
<1> USE DEF PoolInv
<1>1. pos' \in [IPs -> Nat]
  <2>1. Cardinality(IPs) \in Nat BY SchedAssumption, FS_CardinalityType
  <2>2. pos' \in [IPs -> 0..Cardinality(IPs)] BY DEF AppendCandidates
  <2>3. QED BY <2>1, <2>2
<1>2. \A ip \in Pool : ip \in Pool'
  BY DEF AppendCandidates, Pool, PoolTypeOK
<1>3. PoolTypeOK'
  BY <1>1 DEF PoolTypeOK, AppendCandidates
<1>4. StickyIsActive'
  BY <1>2 DEF StickyIsActive, AppendCandidates
<1>5. ClaimIffProbing' /\ CountMatchesState'
  BY DEF ClaimIffProbing, CountMatchesState, AppendCandidates
<1>6. QED BY <1>3, <1>4, <1>5

\* Pick and PickValidated bind the pool to an Active address or to none.
LEMMA BindKeeps ==
    ASSUME PoolInv, BindValidated, UNCHANGED <<pos, st>>
    PROVE  /\ sticky' \in IPs \cup {None} /\ stickyLeft' \in 0..Sticky
           /\ StickyIsActive'
           /\ sticky' = None \/ sticky' = Validated
<1> USE DEF PoolInv
<1>1. CASE StickyHit
  BY <1>1 DEF BindValidated, PoolTypeOK, StickyIsActive, Validated, Pool
<1>2. CASE ~StickyHit /\ Actives # {}
  <2>1. BestActive \in Actives BY <1>2, BestActiveIsActive
  <2>2. sticky' = BestActive /\ stickyLeft' = Sticky BY <1>2 DEF BindValidated
  <2>3. Sticky \in 0..Sticky BY SchedAssumption
  <2>4. StickyIsActive' BY <2>1, <2>2 DEF StickyIsActive, Actives, Pool
  <2>5. QED BY <1>2, <2>1, <2>2, <2>3, <2>4 DEF Actives, Pool, Validated
<1>3. CASE ~StickyHit /\ Actives = {}
  BY <1>3, SchedAssumption DEF BindValidated, StickyIsActive
<1>4. QED BY <1>1, <1>2, <1>3

\* PickValidated under the lock.
LEMMA PickValidatedKeeps ==
    ASSUME PoolInv, PickValidatedStep
    PROVE  PoolInv'
<1>1. /\ sticky' \in IPs \cup {None} /\ stickyLeft' \in 0..Sticky
      /\ StickyIsActive'
  BY BindKeeps DEF PickValidatedStep
<1>2. QED
  BY <1>1 DEF PoolInv, PickValidatedStep, PoolTypeOK, ClaimIffProbing, CountMatchesState

\* A claim sets the mark together with the state.
LEMMA ClaimKeeps ==
    ASSUME PoolInv, NEW S, Claim(S)
    PROVE  /\ st' \in [IPs -> States] /\ probing' \in [IPs -> BOOLEAN]
           /\ left' \in [IPs -> Nat]
           /\ ClaimIffProbing'
           /\ UNCHANGED count => CountMatchesState'
<1> USE DEF PoolInv
<1>1. /\ st' \in [IPs -> States] /\ probing' \in [IPs -> BOOLEAN]
      /\ left' \in [IPs -> Nat]
  BY DEF Claim, PoolTypeOK, States
<1>2. ClaimIffProbing'
  BY DEF Claim, ClaimIffProbing, PoolTypeOK
<1>3. UNCHANGED count => CountMatchesState'
  BY DEF Claim, CountMatchesState, PoolTypeOK
<1>4. QED BY <1>1, <1>2, <1>3

\* A race claims no Active address, hence not the sticky one.
LEMMA PickNKeeps ==
    ASSUME PoolInv, NEW n, NEW X, PickNStep(n, X)
    PROVE  PoolInv'
<1> DEFINE S == RaceOrder(n, X) \ Actives
<1>1. Claim(S) BY DEF PickNStep
<1>2. /\ st' \in [IPs -> States] /\ probing' \in [IPs -> BOOLEAN]
      /\ left' \in [IPs -> Nat] /\ ClaimIffProbing' /\ CountMatchesState'
  BY <1>1, ClaimKeeps DEF PickNStep
<1>3. StickyIsActive'
  <2> SUFFICES ASSUME sticky # None PROVE sticky \in Pool /\ st'[sticky] = "Active"
    BY DEF PickNStep, StickyIsActive, Pool
  <2>1. sticky \in Pool /\ st[sticky] = "Active" BY DEF PoolInv, StickyIsActive
  <2>2. sticky \in IPs /\ sticky \notin S BY <2>1 DEF Actives, Pool
  <2>3. QED BY <1>1, <2>1, <2>2 DEF Claim
<1>4. QED BY <1>2, <1>3 DEF PoolInv, PoolTypeOK, PickNStep

\* A release drops the mark together with the Probing state.
LEMMA ReleaseKeeps ==
    ASSUME PoolInv, NEW S, ReleaseStep(S)
    PROVE  PoolInv'
<1> USE DEF PoolInv
<1>1. PoolTypeOK' BY DEF PoolTypeOK, ReleaseStep, States
<1>2. StickyIsActive' BY DEF PoolTypeOK, StickyIsActive, ReleaseStep, Pool
<1>3. ClaimIffProbing' BY DEF PoolTypeOK, ClaimIffProbing, ReleaseStep
<1>4. CountMatchesState' BY DEF PoolTypeOK, CountMatchesState, ReleaseStep
<1>5. QED BY <1>1, <1>2, <1>3, <1>4

\* A success makes the address Active with a clean count.
LEMMA SuccessKeeps ==
    ASSUME PoolInv, NEW ip \in Pool, NEW ms \in RTTs, RecordSuccess(ip, ms)
    PROVE  PoolInv'
<1> USE DEF PoolInv
<1>1. ip \in IPs /\ ms \in Int BY SchedAssumption DEF Pool
<1>2. Observe(stats[ip], ms, 0) \in Stats
  BY <1>1, ObserveType DEF PoolTypeOK, Stats
<1>3. stats' \in [IPs -> Stats]
  BY <1>1, <1>2 DEF RecordSuccess, PoolTypeOK, Stats
<1>4. /\ sticky' \in IPs \cup {None} /\ stickyLeft' \in 0..Sticky
  BY <1>1, SchedAssumption DEF RecordSuccess, PoolTypeOK
<1>5. /\ st' \in [IPs -> States] /\ probing' \in [IPs -> BOOLEAN]
      /\ left' \in [IPs -> Nat] /\ count' \in [IPs -> 0..CountCap]
  BY <1>1, SchedAssumption DEF RecordSuccess, PoolTypeOK, States
<1>6. PoolTypeOK'
  BY <1>3, <1>4, <1>5 DEF RecordSuccess, PoolTypeOK, Stats
<1>7. StickyIsActive'
  BY <1>1 DEF RecordSuccess, PoolTypeOK, StickyIsActive, Pool
<1>8. ClaimIffProbing'
  BY <1>1 DEF RecordSuccess, PoolTypeOK, ClaimIffProbing
<1>9. CountMatchesState'
  BY <1>1 DEF RecordSuccess, PoolTypeOK, CountMatchesState
<1>10. QED BY <1>6, <1>7, <1>8, <1>9

\* A failure isolates the address and unbinds it if it is sticky.
LEMMA FailKeeps ==
    ASSUME PoolInv, NEW ip \in Pool, RecordFail(ip)
    PROVE  PoolInv'
<1> USE DEF PoolInv
<1> DEFINE n == AtMost(count[ip] + 1, CountCap)
           q == st[ip] = "Quarantine" \/ n >= CooldownMax
<1>1. ip \in IPs BY DEF Pool
<1>2. n \in 0..CountCap /\ n >= 1 /\ (st[ip] = "Quarantine" => n >= CooldownMax)
  BY <1>1, SchedAssumption DEF PoolTypeOK, AtMost, CountMatchesState
<1>3. /\ count' = [count EXCEPT ![ip] = n]
      /\ st' = [st EXCEPT ![ip] = IF q THEN "Quarantine" ELSE "Cooldown"]
      /\ left' = [left EXCEPT ![ip] = IF q THEN Quarantine ELSE Cooldown]
      /\ probing' = [probing EXCEPT ![ip] = FALSE]
  BY DEF RecordFail
<1> HIDE DEF n
<1>4. stats' \in [IPs -> Stats]
  <2>1. ProbeTimeout \in Int /\ 100 \in Int BY SchedAssumption
  <2>2. Observe(stats[ip], ProbeTimeout, 100) \in Stats
    BY <1>1, <2>1, ObserveType DEF PoolTypeOK, Stats
  <2>3. QED BY <1>1, <2>2 DEF RecordFail, PoolTypeOK, Stats
<1>5. sticky' \in IPs \cup {None} /\ stickyLeft' \in 0..Sticky
  BY SchedAssumption DEF RecordFail, PoolTypeOK
<1>6. /\ st' \in [IPs -> States] /\ probing' \in [IPs -> BOOLEAN]
      /\ left' \in [IPs -> Nat] /\ count' \in [IPs -> 0..CountCap]
  BY <1>1, <1>2, <1>3, SchedAssumption DEF PoolTypeOK, States
<1>7. PoolTypeOK'
  BY <1>4, <1>5, <1>6 DEF RecordFail, PoolTypeOK, Stats
<1>8. StickyIsActive'
  BY <1>1, <1>3 DEF RecordFail, PoolTypeOK, StickyIsActive, Pool
<1>9. ClaimIffProbing'
  BY <1>1, <1>3 DEF PoolTypeOK, ClaimIffProbing
<1>10. CountMatchesState'
  BY <1>1, <1>2, <1>3, SchedAssumption DEF PoolTypeOK, CountMatchesState
<1>11. QED BY <1>7, <1>8, <1>9, <1>10

\* Steps beside the pool.
LEMMA UnchangedPoolKeeps ==
    ASSUME PoolInv, UNCHANGED poolVars
    PROVE  PoolInv'
BY DEF PoolInv, poolVars, PoolTypeOK, StickyIsActive, ClaimIffProbing, CountMatchesState, Pool

\* A report, tracked or not.
LEMMA ReportKeeps ==
    ASSUME PoolInv, NEW ip, NEW ok \in BOOLEAN, Report(ip, ok)
    PROVE  PoolInv'
<1>1. CASE ip \notin Pool BY <1>1, UnchangedPoolKeeps DEF Report
<1>2. CASE ip \in Pool /\ ok BY <1>2, SuccessKeeps DEF Report
<1>3. CASE ip \in Pool /\ ~ok BY <1>3, FailKeeps DEF Report
<1>4. QED BY <1>1, <1>2, <1>3

\* Pick claims a touchstone only when no address is validated.
LEMMA PickKeeps ==
    ASSUME PoolInv, Pick
    PROVE  PoolInv'
<1>1. CASE Validated # None \/ RotatePool = {}
  <2>1. UNCHANGED <<pos, st, probing, left, count, stats, probeIdx>>
    BY <1>1 DEF Pick
  <2>2. PickValidatedStep BY <2>1 DEF Pick, PickValidatedStep
  <2>3. QED BY <2>2, PickValidatedKeeps
<1>2. CASE Validated = None /\ RotatePool # {}
  <2>1. Claim({RotatePick}) /\ probeIdx' = RotateSlot + 1 BY <1>2 DEF Pick
  <2>2. UNCHANGED <<pos, count, stats>> BY DEF Pick
  <2>3. sticky' = None /\ stickyLeft' \in 0..Sticky
    <3>1. ~StickyHit /\ (Actives # {} => BestActive = None)
      BY <1>2 DEF Validated, StickyHit
    <3>2. Actives = {}
      <4>1. None \notin Actives BY SchedAssumption DEF Actives, Pool
      <4>2. QED BY <3>1, <4>1, BestActiveIsActive DEF PoolInv
    <3>3. QED BY <3>1, <3>2, SchedAssumption DEF Pick, BindValidated
  <2>4. probeIdx' \in Nat
    <3>1. IsFiniteSet(RotatePool)
      BY SchedAssumption, FS_Subset DEF RotatePool, Pool
    <3>2. Cardinality(RotatePool) \in Nat \ {0}
      BY <1>2, <3>1, FS_CardinalityType, FS_EmptySet
    <3>3. RotateSlot \in Nat BY <3>2 DEF RotateSlot, PoolInv, PoolTypeOK
    <3>4. QED BY <2>1, <3>3
  <2>5. /\ st' \in [IPs -> States] /\ probing' \in [IPs -> BOOLEAN]
        /\ left' \in [IPs -> Nat] /\ ClaimIffProbing' /\ CountMatchesState'
    BY <2>1, <2>2, ClaimKeeps
  <2>6. QED BY <2>2, <2>3, <2>4, <2>5 DEF PoolInv, PoolTypeOK, StickyIsActive
<1>3. QED BY <1>1, <1>2

\* The clock.
LEMMA TickKeeps ==
    ASSUME PoolInv, Tick
    PROVE  PoolInv'
<1>1. PoolTypeOK'
  BY SchedAssumption DEF Tick, PoolInv, PoolTypeOK
<1>2. QED
  BY <1>1 DEF Tick, PoolInv, StickyIsActive, ClaimIffProbing, CountMatchesState, Pool

----------------------------------------------------------------------------
(* The theorems.                                                           *)

SchedInv == PoolInv /\ ProbeTypeOK

\* The invariant holds of a new scheduler.
LEMMA InitHolds == Init => SchedInv
<1> SUFFICES ASSUME Init PROVE SchedInv OBVIOUS
<1>1. PoolTypeOK
  BY SchedAssumption DEF Init, Fresh, PoolTypeOK, States, NoStats
<1>2. StickyIsActive /\ ClaimIffProbing /\ CountMatchesState
  BY DEF Init, Fresh, StickyIsActive, ClaimIffProbing, CountMatchesState
<1>3. QED BY <1>1, <1>2 DEF SchedInv, PoolInv, Init, Fresh, ProbeTypeOK

\* Every action of the scheduler preserves the invariant.
LEMMA StepHolds == SchedInv /\ [Next]_schedVars => SchedInv'
<1> SUFFICES ASSUME SchedInv, [Next]_schedVars PROVE SchedInv' OBVIOUS
<1>1. PoolInv /\ ProbeTypeOK BY DEF SchedInv
<1> USE DEF ProbeTypeOK
<1>2. ASSUME PoolInv', UNCHANGED probeVars PROVE SchedInv'
  BY <1>1, <1>2 DEF SchedInv, probeVars
<1>3. ASSUME UNCHANGED poolVars PROVE PoolInv'
  BY <1>1, <1>3, UnchangedPoolKeeps
<1>4. CASE Tick
  BY <1>1, <1>2, <1>4, TickKeeps DEF Tick
<1>5. CASE ResolveEnter
  BY <1>1, <1>3, <1>5 DEF ResolveEnter, SchedInv
<1>6. CASE ResolveExit
  BY <1>1, <1>3, <1>6 DEF ResolveExit, SchedInv, Pool
<1>7. ASSUME NEW S \in SUBSET IPs, ResolveAnswer(S) PROVE SchedInv'
  <2>1. PoolInv' BY <1>1, <1>7, AppendKeeps DEF ResolveAnswer
  <2>2. QED BY <1>1, <1>7, <2>1 DEF ResolveAnswer, SchedInv
<1>8. CASE PreflightStart
  BY <1>1, <1>3, <1>8 DEF PreflightStart, SchedInv, Pool
<1>9. CASE RefreshStart
  BY <1>1, <1>3, <1>9 DEF RefreshStart, RefreshTargets, SchedInv, Pool
<1>10. ASSUME NEW ip \in IPs, NEW ok \in BOOLEAN, PreflightReport(ip, ok) PROVE SchedInv'
  <2>1. PoolInv' BY <1>1, <1>10, ReportKeeps DEF PreflightReport
  <2>2. QED BY <1>1, <1>10, <2>1 DEF PreflightReport, SchedInv
<1>11. ASSUME NEW ip \in IPs, NEW ok \in BOOLEAN, RefreshReport(ip, ok) PROVE SchedInv'
  <2>1. PoolInv' BY <1>1, <1>11, ReportKeeps DEF RefreshReport
  <2>2. QED BY <1>1, <1>11, <2>1 DEF RefreshReport, SchedInv
<1>12. CASE Pick
  <2>1. PoolInv' BY <1>1, <1>12, PickKeeps
  <2>2. wantResolve' \in BOOLEAN /\ UNCHANGED <<resolving, preflight, refresh>>
    BY <1>1, <1>12 DEF Pick
  <2>3. QED BY <1>1, <2>1, <2>2 DEF SchedInv
<1>13. CASE PickValidated
  BY <1>1, <1>2, <1>13, PickValidatedKeeps DEF PickValidated
<1>14. ASSUME NEW n \in 1..Cardinality(IPs), NEW X \in SUBSET IPs, PickN(n, X) PROVE SchedInv'
  <2>1. PoolInv' BY <1>1, <1>14, PickNKeeps DEF PickN
  <2>2. wantResolve' \in BOOLEAN /\ UNCHANGED <<resolving, preflight, refresh>>
    BY <1>1, <1>14 DEF PickN
  <2>3. QED BY <1>1, <2>1, <2>2 DEF SchedInv
<1>15. ASSUME NEW S \in SUBSET IPs, AddCandidates(S) \/ ReleaseCandidates(S) PROVE SchedInv'
  BY <1>1, <1>2, <1>15, AppendKeeps, ReleaseKeeps DEF AddCandidates, ReleaseCandidates
<1>16. ASSUME NEW ip \in IPs, NEW ok \in BOOLEAN, ReportConn(ip, ok) PROVE SchedInv'
  BY <1>1, <1>2, <1>16, ReportKeeps DEF ReportConn
<1>17. CASE UNCHANGED schedVars
  BY <1>1, <1>2, <1>3, <1>17 DEF schedVars
<1>18. QED
  BY <1>4, <1>5, <1>6, <1>7, <1>8, <1>9, <1>10, <1>11, <1>12, <1>13, <1>14,
     <1>15, <1>16, <1>17 DEF Next, Background, Calls

\* Every variable keeps its type in every reachable state of the scheduler,
\* for any number of addresses and any configuration.
THEOREM TypeCorrect == Spec => []TypeOK
<1>1. SchedInv => TypeOK BY DEF SchedInv, PoolInv, TypeOK
<1>2. QED BY InitHolds, StepHolds, <1>1, PTL DEF Spec

\* The sticky address of a pool is always an Active member of it, so that the
\* sticky fast path never serves an isolated address.
THEOREM StickyCorrect == Spec => []StickyIsActive
<1>1. SchedInv => StickyIsActive BY DEF SchedInv, PoolInv
<1>2. QED BY InitHolds, StepHolds, <1>1, PTL DEF Spec

\* The probing mark and the Probing state agree, whatever order claims,
\* releases and late reports come in.
THEOREM ClaimCorrect == Spec => []ClaimIffProbing
<1>1. SchedInv => ClaimIffProbing BY DEF SchedInv, PoolInv
<1>2. QED BY InitHolds, StepHolds, <1>1, PTL DEF Spec

\* The failure count of an address and its state agree.
THEOREM CountCorrect == Spec => []CountMatchesState
<1>1. SchedInv => CountMatchesState BY DEF SchedInv, PoolInv
<1>2. QED BY InitHolds, StepHolds, <1>1, PTL DEF Spec

----------------------------------------------------------------------------
(* The rotation order.                                                     *)

\* The elements of S before x.
Predecessors(S, R, x) == {o \in S \ {x} : <<o, x>> \in R}

\* A finite set with a strict total order has an element with k predecessors
\* for every k below its size: the number of predecessors is an injection
\* into 0..n-1, hence onto.
LEMMA RankExists ==
    ASSUME NEW S, IsFiniteSet(S), NEW R,
           \A a \in S : <<a, a>> \notin R,
           \A a, b, c \in S : <<a, b>> \in R /\ <<b, c>> \in R => <<a, c>> \in R,
           \A a, b \in S : a = b \/ <<a, b>> \in R \/ <<b, a>> \in R,
           NEW k \in 0..(Cardinality(S) - 1)
    PROVE  \E x \in S : Cardinality(Predecessors(S, R, x)) = k
<1> DEFINE Before(x) == Predecessors(S, R, x)
           n == Cardinality(S)
           f == [x \in S |-> Cardinality(Before(x))]
<1>1. n \in Nat BY FS_CardinalityType
<1>2. \A x \in S : IsFiniteSet(Before(x)) /\ Cardinality(Before(x)) \in 0..(n - 1)
  <2> TAKE x \in S
  <2>1. IsFiniteSet(S \ {x}) /\ Cardinality(S \ {x}) = n - 1
    BY FS_RemoveElement
  <2>2. Before(x) \in SUBSET (S \ {x}) BY DEF Predecessors
  <2> HIDE DEF Before, n
  <2>3. IsFiniteSet(Before(x)) /\ Cardinality(Before(x)) <= n - 1
    BY <2>1, <2>2, FS_Subset
  <2>4. Cardinality(Before(x)) \in Nat BY <2>3, FS_CardinalityType
  <2>5. QED BY <1>1, <2>3, <2>4
<1>3. \A x, y \in S : <<x, y>> \in R => f[x] < f[y]
  <2> SUFFICES ASSUME NEW x \in S, NEW y \in S, <<x, y>> \in R PROVE f[x] < f[y]
    OBVIOUS
  <2>1. x # y /\ x \notin Before(x) BY DEF Predecessors
  <2>2. Before(x) \cup {x} \in SUBSET Before(y)
    <3>1. \A o \in Before(x) : o \in S /\ <<o, y>> \in R BY DEF Predecessors
    <3>2. \A o \in Before(x) : o # y BY <3>1
    <3>3. x \in Before(y) BY <2>1 DEF Predecessors
    <3>4. QED BY <3>1, <3>2, <3>3 DEF Predecessors
  <2> HIDE DEF Before
  <2>3. Cardinality(Before(x) \cup {x}) = Cardinality(Before(x)) + 1
    BY <1>2, <2>1, FS_AddElement
  <2>4. Cardinality(Before(x) \cup {x}) <= Cardinality(Before(y))
    BY <1>2, <2>2, FS_Subset
  <2>5. Cardinality(Before(x)) \in Int /\ Cardinality(Before(y)) \in Int
    BY <1>1, <1>2
  <2>6. QED BY <2>3, <2>4, <2>5
<1> HIDE DEF Before
<1>4. f \in [S -> 0..(n - 1)] BY <1>2
<1>5. \A x, y \in S : x # y => f[x] # f[y]
  <2> HIDE DEF f
  <2> SUFFICES ASSUME NEW x \in S, NEW y \in S, x # y PROVE f[x] # f[y]
    OBVIOUS
  <2>1. f[x] \in Int /\ f[y] \in Int BY <1>1, <1>4
  <2>2. <<x, y>> \in R \/ <<y, x>> \in R OBVIOUS
  <2>3. f[x] < f[y] \/ f[y] < f[x] BY <1>3, <2>2
  <2>4. QED BY <2>1, <2>3
<1>6. f \in Injection(S, 0..(n - 1))
  BY <1>4, <1>5 DEF Injection, IsInjective
<1>7. IsFiniteSet(0..(n - 1)) /\ Cardinality(0..(n - 1)) = n
  BY <1>1, FS_Interval
<1>8. f \in Surjection(S, 0..(n - 1))
  BY <1>6, <1>7, FS_Injection
<1>9. \E x \in S : f[x] = k
  BY <1>8 DEF Surjection
<1>10. QED BY <1>9 DEF Before

----------------------------------------------------------------------------
(* Insertion ranks.                                                        *)

\* The slice ips of the code: ranks are distinct and count the pool.
RanksDistinct ==
    /\ \A a, b \in Pool : pos[a] = pos[b] => a = b
    /\ \A a \in Pool : pos[a] <= Cardinality(Pool)

\* New candidates take the next ranks, each one its own.
LEMMA AppendKeepsRanks ==
    ASSUME PoolTypeOK, RanksDistinct, NEW S \in SUBSET IPs, AppendCandidates(S)
    PROVE  RanksDistinct'
<1> DEFINE new == S \ Pool
           p == Cardinality(Pool)
           n == Cardinality(new)
           next == (p + 1)..(p + n)
<1>1. /\ IsFiniteSet(Pool) /\ IsFiniteSet(new)
      /\ p \in Nat /\ n \in Nat
  BY SchedAssumption, FS_Subset, FS_CardinalityType DEF Pool
<1>2. /\ pos' \in [IPs -> 0..Cardinality(IPs)]
      /\ \A ip \in IPs \ new : pos'[ip] = pos[ip]
      /\ {pos'[ip] : ip \in new} = next
  BY DEF AppendCandidates
<1>3. \A ip \in new : pos'[ip] \in next BY <1>2
<1>4. Pool' = Pool \cup new
  <2>1. \A ip \in new : pos'[ip] # 0 BY <1>1, <1>3
  <2>2. \A ip \in IPs \ new : pos'[ip] # 0 <=> ip \in Pool BY <1>2 DEF Pool
  <2>3. QED BY <2>1, <2>2 DEF Pool
<1>5. Cardinality(Pool') = p + n
  <2>1. Pool \cap new = {} OBVIOUS
  <2>2. Cardinality(Pool \cap new) = 0 BY <2>1, FS_EmptySet
  <2> HIDE DEF new
  <2>3. Cardinality(Pool \cup new) = p + n - 0
    BY <1>1, <2>2, FS_Union
  <2> HIDE DEF p, n
  <2>4. QED BY <1>1, <1>4, <2>3
<1>6. \A a, b \in new : pos'[a] = pos'[b] => a = b
  <2> DEFINE g == [ip \in new |-> pos'[ip]]
  <2>1. g \in Surjection(new, next)
    BY <1>2 DEF Surjection
  <2>2. Cardinality(next) = n BY <1>1, FS_Interval
  <2>3. g \in Injection(new, next)
    BY <1>1, <2>1, <2>2, FS_Surjection
  <2>4. QED BY <2>3 DEF Injection, IsInjective
<1>7. \A a \in Pool : pos'[a] = pos[a] /\ pos[a] <= p /\ pos[a] \in Nat
  BY <1>2 DEF RanksDistinct, Pool, PoolTypeOK
<1> HIDE DEF new, p, n
<1>8. \A a, b \in Pool' : pos'[a] = pos'[b] => a = b
  <2>1. \A a, b \in Pool : pos'[a] = pos'[b] => a = b
    BY <1>7 DEF RanksDistinct
  <2>2. \A a \in Pool, b \in new : pos'[a] # pos'[b]
    BY <1>1, <1>3, <1>7
  <2>3. QED BY <1>4, <1>6, <2>1, <2>2
<1>9. \A a \in Pool' : pos'[a] <= p + n
  BY <1>1, <1>3, <1>4, <1>7
<1>10. QED BY <1>5, <1>8, <1>9 DEF RanksDistinct, p

\* Every other step leaves the ranks alone.
LEMMA RanksUnchanged ==
    ASSUME RanksDistinct, UNCHANGED pos
    PROVE  RanksDistinct'
BY DEF RanksDistinct, Pool

\* The pool starts empty.
LEMMA RanksInit == Init => RanksDistinct
<1> SUFFICES ASSUME Init PROVE RanksDistinct OBVIOUS
<1>1. Pool = {} BY DEF Init, Pool
<1>2. QED BY <1>1 DEF RanksDistinct

\* Only new candidates get ranks.
LEMMA RanksStep == SchedInv /\ RanksDistinct /\ [Next]_schedVars => RanksDistinct'
<1> SUFFICES ASSUME SchedInv, RanksDistinct, [Next]_schedVars PROVE RanksDistinct'
  OBVIOUS
<1>1. PoolTypeOK BY DEF SchedInv, PoolInv
<1>2. ASSUME NEW S \in SUBSET IPs, AddCandidates(S) \/ ResolveAnswer(S)
      PROVE  RanksDistinct'
  BY <1>1, <1>2, AppendKeepsRanks DEF AddCandidates, ResolveAnswer
<1>3. ASSUME NEW ip \in IPs, NEW ok \in BOOLEAN, Report(ip, ok) PROVE UNCHANGED pos
  BY <1>3 DEF Report, RecordSuccess, RecordFail, poolVars
<1>4. ASSUME NEW ip \in IPs, NEW ok \in BOOLEAN,
             ReportConn(ip, ok) \/ PreflightReport(ip, ok) \/ RefreshReport(ip, ok)
      PROVE  RanksDistinct'
  <2>1. UNCHANGED pos
    BY <1>3, <1>4 DEF ReportConn, PreflightReport, RefreshReport
  <2>2. QED BY <2>1, RanksUnchanged
<1>5. ASSUME Tick \/ ResolveEnter \/ ResolveExit \/ PreflightStart \/ RefreshStart
             \/ Pick \/ PickValidated \/ UNCHANGED schedVars
      PROVE  RanksDistinct'
  <2>1. UNCHANGED pos
    BY <1>5 DEF Tick, ResolveEnter, ResolveExit, PreflightStart, RefreshStart, Pick,
                PickValidated, PickValidatedStep, schedVars, poolVars
  <2>2. QED BY <2>1, RanksUnchanged
<1>6. ASSUME NEW S \in SUBSET IPs, ReleaseCandidates(S) PROVE RanksDistinct'
  BY <1>6, RanksUnchanged DEF ReleaseCandidates, ReleaseStep
<1>7. ASSUME NEW n \in 1..Cardinality(IPs), NEW X \in SUBSET IPs, PickN(n, X)
      PROVE  RanksDistinct'
  BY <1>7, RanksUnchanged DEF PickN, PickNStep
<1>8. QED BY <1>2, <1>4, <1>5, <1>6, <1>7 DEF Next, Background, Calls

----------------------------------------------------------------------------
(* The touchstone.                                                         *)

\* rotateLocked returns a member of its list: the order by rank and insertion
\* is total on it.
LEMMA RotatePickInPool ==
    ASSUME PoolTypeOK, RanksDistinct, RotatePool # {}
    PROVE  RotatePick \in RotatePool
<1> DEFINE R == {p \in IPs \X IPs : RotateBefore(p[1], p[2])}
<1>1. RotatePool \in SUBSET Pool BY DEF RotatePool
<1>2. Pool \in SUBSET IPs BY DEF Pool
<1>3. \A a, b \in IPs : <<a, b>> \in R <=> RotateBefore(a, b) OBVIOUS
<1>4. \A a \in IPs : Rank(a) \in Int /\ pos[a] \in Int
  BY DEF Rank, PoolTypeOK
<1> HIDE DEF R
<1>5. \A a \in RotatePool : <<a, a>> \notin R
  BY <1>1, <1>2, <1>3, <1>4 DEF RotateBefore
<1>6. \A a, b, c \in RotatePool : <<a, b>> \in R /\ <<b, c>> \in R => <<a, c>> \in R
  BY <1>1, <1>2, <1>3, <1>4 DEF RotateBefore
<1>7. \A a, b \in RotatePool : a = b \/ <<a, b>> \in R \/ <<b, a>> \in R
  <2>1. \A a, b \in RotatePool : pos[a] = pos[b] => a = b
    BY <1>1 DEF RanksDistinct
  <2> SUFFICES ASSUME NEW a \in RotatePool, NEW b \in RotatePool, a # b
               PROVE  <<a, b>> \in R \/ <<b, a>> \in R
    OBVIOUS
  <2>2. a \in IPs /\ b \in IPs /\ pos[a] # pos[b] BY <1>1, <1>2, <2>1
  <2>3. RotateBefore(a, b) \/ RotateBefore(b, a)
    BY <1>4, <2>2 DEF RotateBefore
  <2>4. QED BY <1>3, <2>2, <2>3
<1>8. IsFiniteSet(RotatePool) BY <1>1, <1>2, SchedAssumption, FS_Subset
<1>9. Cardinality(RotatePool) \in Nat \ {0}
  BY <1>8, FS_CardinalityType, FS_EmptySet
<1>10. RotateSlot \in 0..(Cardinality(RotatePool) - 1)
  BY <1>9 DEF RotateSlot, PoolTypeOK
<1>11. \E x \in RotatePool : Cardinality(Predecessors(RotatePool, R, x)) = RotateSlot
  BY <1>5, <1>6, <1>7, <1>8, <1>10, RankExists
<1>12. \A x \in RotatePool : Predecessors(RotatePool, R, x)
                              = {o \in RotatePool \ {x} : RotateBefore(o, x)}
  BY <1>1, <1>2, <1>3 DEF Predecessors
<1>13. \E x \in RotatePool :
           Cardinality({o \in RotatePool \ {x} : RotateBefore(o, x)}) = RotateSlot
  BY <1>11, <1>12
<1>14. QED BY <1>13 DEF RotatePick

----------------------------------------------------------------------------
(* Isolation.                                                              *)

Holds(ip) == Isolated(ip) => st'[ip] \in {st[ip], "Quarantine", "Active"}

\* A claim of addresses that are not isolated spares the isolated ones.
LEMMA ClaimSpares ==
    ASSUME PoolTypeOK, NEW S, Claim(S), \A ip \in S : ip \in IPs => ~Isolated(ip)
    PROVE  \A ip \in IPs : Holds(ip)
BY DEF Claim, Holds, PoolTypeOK

\* What rotatable admits, and what is in use, is not isolated.
LEMMA RotatableNotIsolated ==
    ASSUME NEW ip \in IPs, Rotatable(ip) \/ st[ip] \in {"Probing", "Active"}
    PROVE  ~Isolated(ip)
BY DEF Rotatable, Isolated

\* A report moves an isolated address to Active or to quarantine or leaves it
\* in cooldown; in quarantine a failure renews it.
LEMMA ReportSpares ==
    ASSUME PoolTypeOK, NEW i \in IPs, NEW ok \in BOOLEAN, Report(i, ok)
    PROVE  \A ip \in IPs : Holds(ip)
<1> TAKE ip \in IPs
<1>1. CASE i \notin Pool BY <1>1 DEF Report, poolVars, Holds
<1>2. CASE i \in Pool /\ ok
  BY <1>2 DEF Report, RecordSuccess, Holds, PoolTypeOK
<1>3. CASE i \in Pool /\ ~ok
  BY <1>3 DEF Report, RecordFail, Holds, PoolTypeOK, Isolated
<1>4. QED BY <1>1, <1>2, <1>3

\* Whatever the scheduler does spares the isolated addresses.
LEMMA StepSpares ==
    ASSUME SchedInv, RanksDistinct, [Next]_schedVars
    PROVE  \A ip \in IPs : Holds(ip)
<1>1. PoolTypeOK BY DEF SchedInv, PoolInv
<1>2. ASSUME UNCHANGED st PROVE \A ip \in IPs : Holds(ip)
  BY <1>2 DEF Holds
<1>3. ASSUME NEW S \in SUBSET IPs, AddCandidates(S) \/ ResolveAnswer(S)
      PROVE  UNCHANGED st
  BY <1>3 DEF AddCandidates, ResolveAnswer, AppendCandidates
<1>4. ASSUME Tick \/ ResolveEnter \/ ResolveExit \/ PreflightStart \/ RefreshStart
             \/ PickValidated \/ UNCHANGED schedVars
      PROVE  UNCHANGED st
  BY <1>4 DEF Tick, ResolveEnter, ResolveExit, PreflightStart, RefreshStart,
              PickValidated, PickValidatedStep, schedVars, poolVars
<1>5. ASSUME NEW ip \in IPs, NEW ok \in BOOLEAN,
             ReportConn(ip, ok) \/ PreflightReport(ip, ok) \/ RefreshReport(ip, ok)
      PROVE  \A i \in IPs : Holds(i)
  BY <1>1, <1>5, ReportSpares DEF ReportConn, PreflightReport, RefreshReport
<1>6. ASSUME NEW S \in SUBSET IPs, ReleaseCandidates(S) PROVE \A ip \in IPs : Holds(ip)
  BY <1>1, <1>6 DEF ReleaseCandidates, ReleaseStep, Holds, Isolated, PoolTypeOK
<1>7. ASSUME NEW n \in 1..Cardinality(IPs), NEW X \in SUBSET IPs, PickN(n, X)
      PROVE  \A ip \in IPs : Holds(ip)
  <2> DEFINE S == RaceOrder(n, X) \ Actives
  <2>1. Claim(S) BY <1>7 DEF PickN, PickNStep
  <2>2. \A ip \in S : ip \in IPs /\ (st[ip] = "Active" \/ Rotatable(ip))
    BY DEF RaceOrder, Pool
  <2>3. \A ip \in S : ~Isolated(ip) BY <2>2, RotatableNotIsolated
  <2> HIDE DEF S
  <2>4. QED BY <1>1, <2>1, <2>3, ClaimSpares
<1>8. CASE Pick
  <2>1. CASE UNCHANGED st BY <1>2, <2>1
  <2>2. CASE RotatePool # {} /\ Claim({RotatePick})
    <3>1. RotatePick \in RotatePool BY <1>1, <2>2, RotatePickInPool
    <3>2. RotatePick \in IPs /\ (Rotatable(RotatePick) \/ st[RotatePick] = "Probing")
      BY <3>1 DEF RotatePool, Pool
    <3>3. ~Isolated(RotatePick) BY <3>2, RotatableNotIsolated
    <3>4. QED BY <1>1, <2>2, <3>3, ClaimSpares
  <2>3. QED BY <1>8, <2>1, <2>2 DEF Pick
<1>9. QED BY <1>2, <1>3, <1>4, <1>5, <1>6, <1>7, <1>8 DEF Next, Background, Calls

\* An address in an unexpired cooldown or quarantine is never handed out or
\* made New, whatever is claimed, released or reported late; only a success
\* report ends an isolation early.
THEOREM IsolationCorrect == Spec => IsolationHolds
<1>1. SchedInv /\ RanksDistinct /\ [Next]_schedVars
        => [\A ip \in IPs : Isolated(ip) =>
               st'[ip] \in {st[ip], "Quarantine", "Active"}]_schedVars
  BY StepSpares DEF Holds
<1>2. QED
  BY InitHolds, StepHolds, RanksInit, RanksStep, <1>1, PTL DEF Spec, IsolationHolds

\* No two candidates share a place in the pool.
THEOREM RanksCorrect == Spec => []RanksDistinct
BY InitHolds, StepHolds, RanksInit, RanksStep, PTL DEF Spec

----------------------------------------------------------------------------
(* Connections.                                                            *)

Places == {"idle", "hot", "dial", "gate", "acquire", "wait", "woken",
           "finish", "refused", "direct", "relay", "done"} \cup RacePhase
Fates  == {"no", "queued", "dialing", "sent", "won", "late", "failed", "dropped"}

ConnTypes ==
    /\ slot \in Conns \cup {None}
    /\ pc \in [Conns -> Places]
    /\ exclude \in [Conns -> SUBSET IPs]
    /\ raced \in [Conns -> BOOLEAN]
    /\ target \in [Conns -> IPs \cup {None}]
    /\ cand \in [Conns -> [IPs -> Fates]]
    /\ unread \in [Conns -> BOOLEAN]

\* Outside a race there are no candidates; a target is dialled or relayed to.
Quiet(c) ==
    /\ pc[c] \in (Places \ RacePhase) \cup {"pick"} => \A ip \in IPs : cand[c][ip] = "no"
    /\ target[c] # None => pc[c] \in {"dial", "relay"} \/ (pc[c] = "unlock" /\ Won(c))
    /\ pc[c] = "dial" => target[c] # None

NoRedial(c) == \A ip \in exclude[c] : cand[c][ip] = "no" /\ target[c] # ip

\* A race without a winner ends with a failure that is booked, or with a success
\* that nobody read.
Evidenced(c) == exclude[c] # {} \/ unread[c]

Evidence(c) ==
    /\ raced[c] /\ pc[c] \notin {"race", "report", "win", "unlock", "relay", "done"} => Evidenced(c)
    /\ pc[c] = "race" => \E ip \in IPs : cand[c][ip] # "no"
    /\ pc[c] = "race" /\ ~Won(c) =>
          \A ip \in IPs : cand[c][ip] \in {"no", "queued", "dialing", "sent", "failed"}
    /\ pc[c] = "report" /\ ~Won(c) => Evidenced(c) \/ \E ip \in IPs : cand[c][ip] = "failed"
    /\ pc[c] = "win" => Won(c)
    /\ pc[c] = "unlock" /\ raced[c] => Won(c) \/ Evidenced(c)

\* Only a race dials, and no more than it was given.
InFlight(c) == {ip \in IPs : cand[c][ip] \in {"queued", "dialing"}}

Flight(c) ==
    /\ pc[c] # "race" => \A ip \in IPs : cand[c][ip] # "dialing"
    /\ pc[c] = "race" => Cardinality(InFlight(c)) <= Width

ConnInv(c) == Quiet(c) /\ NoRedial(c) /\ Evidence(c) /\ Flight(c)

RaceInv == ConnTypes /\ SlotDiscipline /\ \A c \in Conns : ConnInv(c)

\* A step of c leaves the other connections alone, but may wake them.
Spares(c) ==
    \A d \in Conns \ {c} :
        /\ pc'[d] = pc[d] \/ (pc[d] = "wait" /\ pc'[d] = "woken")
        /\ cand'[d] = cand[d] /\ exclude'[d] = exclude[d]
        /\ raced'[d] = raced[d] /\ target'[d] = target[d] /\ unread'[d] = unread[d]

LEMMA OthersKeep ==
    ASSUME RaceInv, NEW c \in Conns, Spares(c), NEW d \in Conns \ {c}
    PROVE  ConnInv(d)'
  <1>1. ConnInv(d) BY DEF RaceInv
  <1>2. /\ pc'[d] = pc[d] \/ (pc[d] = "wait" /\ pc'[d] = "woken")
        /\ cand'[d] = cand[d] /\ exclude'[d] = exclude[d]
        /\ raced'[d] = raced[d] /\ target'[d] = target[d] /\ unread'[d] = unread[d]
    BY DEF Spares
  <1>3. Quiet(d)' BY <1>1, <1>2 DEF ConnInv, Quiet, Places, RacePhase, Won, Having
  <1>4. NoRedial(d)' BY <1>1, <1>2 DEF ConnInv, NoRedial
  <1>5. Evidence(d)' BY <1>1, <1>2 DEF ConnInv, Evidence, Evidenced, Won, Having
  <1>6. Flight(d)' BY <1>1, <1>2 DEF ConnInv, Flight, InFlight
  <1> QED BY <1>3, <1>4, <1>5, <1>6 DEF ConnInv

LEMMA ConnStepKeeps ==
    ASSUME RaceInv, NEW c \in Conns, ConnTypes', SlotDiscipline', Spares(c), ConnInv(c)'
    PROVE  RaceInv'
  BY OthersKeep DEF RaceInv

-----------------------------------------------------------------------------
(* The pool under a race *)

PoolSafe == PoolInv /\ RanksDistinct

\* Every address of the pool has a place of its own in the dial order, so that
\* the first n are at most n.
LEMMA RaceWidth ==
    ASSUME PoolTypeOK, RanksDistinct, NEW n \in Nat, NEW X
    PROVE  Cardinality(RaceOrder(n, X)) <= n
  <1> DEFINE S == RaceOrder(n, X)
             C == {ip \in Pool \ X : st[ip] = "Active" \/ Rotatable(ip)}
             R == {p \in IPs \X IPs : DialBefore(p[1], p[2])}
             Before(ip) == {o \in C \ {ip} : DialBefore(o, ip)}
  <1>1. S \subseteq C /\ C \subseteq Pool /\ Pool \subseteq IPs BY DEF RaceOrder, Pool
  <1>2. \A ip \in S : Cardinality(Before(ip)) < n BY DEF RaceOrder
  <1>3. \A a, b \in IPs : <<a, b>> \in R <=> DialBefore(a, b) OBVIOUS
  <1>4. IsFiniteSet(IPs) BY SchedAssumption
  <1> HIDE DEF S, C, R
  <1>5. IsFiniteSet(S) /\ IsFiniteSet(C) BY <1>1, <1>4, FS_Subset
  <1>6. \A a \in IPs : Score(a) \in Int /\ pos[a] \in Nat BY ScoreType DEF PoolTypeOK
  <1>7. \A a, b \in Pool : pos[a] = pos[b] => a = b BY DEF RanksDistinct
  <1>8. \A a \in S : <<a, a>> \notin R
    BY <1>1, <1>3, <1>6 DEF DialBefore, Better
  <1>9. \A a, b, c \in S : <<a, b>> \in R /\ <<b, c>> \in R => <<a, c>> \in R
    BY <1>1, <1>3, <1>6 DEF DialBefore, Better
  <1>10. \A a, b \in S : a = b \/ <<a, b>> \in R \/ <<b, a>> \in R
    <2> SUFFICES ASSUME NEW a \in S, NEW b \in S, a # b PROVE DialBefore(a, b) \/ DialBefore(b, a)
      BY <1>1, <1>3
    <2>1. /\ Score(a) \in Int /\ Score(b) \in Int /\ pos[a] \in Nat /\ pos[b] \in Nat
          /\ pos[a] # pos[b]
      BY <1>1, <1>6, <1>7
    <2> HIDE <1>6, <1>7
    <2>2. Better(a, b) \/ Better(b, a) BY <2>1 DEF Better
    <2> QED BY <2>1, <2>2 DEF DialBefore
  <1>11. Cardinality(S) \in Nat BY <1>5, FS_CardinalityType
  <1>12. CASE S = {} BY <1>12, FS_EmptySet DEF S
  <1>13. CASE S # {}
    <2>1. Cardinality(S) # 0 BY <1>5, <1>13, FS_EmptySet
    <2>2. Cardinality(S) - 1 \in 0..(Cardinality(S) - 1) BY <1>11, <2>1
    <2>3. PICK x \in S : Cardinality(Predecessors(S, R, x)) = Cardinality(S) - 1
      BY <1>5, <1>8, <1>9, <1>10, <2>2, RankExists
    <2>4. Predecessors(S, R, x) \subseteq Before(x) BY <1>1, <1>3 DEF Predecessors
    <2>5. Before(x) \subseteq C OBVIOUS
    <2> HIDE DEF Before
    <2>6. IsFiniteSet(Before(x)) BY <1>5, <2>5, FS_Subset
    <2>7. Cardinality(Predecessors(S, R, x)) <= Cardinality(Before(x)) BY <2>4, <2>6, FS_Subset
    <2>8. Cardinality(Before(x)) \in Nat BY <2>6, FS_CardinalityType
    <2>9. Cardinality(S) <= n BY <1>2, <1>11, <2>3, <2>7, <2>8
    <2> QED BY <2>9 DEF S
  <1> QED BY <1>12, <1>13

\* The seeds are ranked, each with a rank of its own.
LEMMA PoolStart == RaceInit => PoolSafe
  <1> SUFFICES ASSUME RaceInit PROVE PoolSafe OBVIOUS
  <1> DEFINE n == Cardinality(IPs)
  <1>1. IsFiniteSet(IPs) /\ n \in Nat BY SchedAssumption, FS_CardinalityType
  <1>2. pos \in [IPs -> 1..n] /\ {pos[ip] : ip \in IPs} = 1..n BY DEF RaceInit
  <1>3. Cardinality(1..n) = n BY <1>1, FS_Interval
  <1>4. pos \in Surjection(IPs, 1..n) BY <1>2 DEF Surjection
  <1> HIDE DEF n
  <1>5. pos \in Injection(IPs, 1..n) BY <1>1, <1>3, <1>4, FS_Surjection DEF n
  <1>6. Pool = IPs BY <1>1, <1>2 DEF Pool
  <1>7. RanksDistinct BY <1>1, <1>2, <1>5, <1>6 DEF RanksDistinct, Injection, IsInjective, n
  <1>8. PoolTypeOK
    BY <1>1, <1>2, SchedAssumption DEF RaceInit, Fresh, PoolTypeOK, NoStats, States, n
  <1>9. PoolInv
    BY <1>8, SchedAssumption DEF RaceInit, Fresh, PoolInv, StickyIsActive, ClaimIffProbing, CountMatchesState
  <1> QED BY <1>7, <1>9 DEF PoolSafe

\* Every step of a Race takes at most one step of the scheduler, none of which
\* ranks anew.
LEMMA PoolStep == PoolSafe /\ [RaceNext]_raceVars => PoolSafe'
  <1> SUFFICES ASSUME PoolSafe, [RaceNext]_raceVars PROVE PoolSafe' OBVIOUS
  <1> USE DEF PoolSafe
  <1>1. CASE UNCHANGED poolVars BY <1>1, UnchangedPoolKeeps, RanksUnchanged DEF poolVars
  <1>2. ASSUME NEW ip, NEW ok \in BOOLEAN, Report(ip, ok) PROVE PoolSafe'
    <2>1. UNCHANGED pos BY <1>2 DEF Report, poolVars, RecordSuccess, RecordFail
    <2> QED BY <1>2, <2>1, ReportKeeps, RanksUnchanged
  <1>3. CASE UNCHANGED raceVars BY <1>1, <1>3 DEF raceVars, schedVars
  <1>4. CASE Environment
    <2>1. CASE Tick BY <2>1, TickKeeps, RanksUnchanged DEF Tick
    <2>2. ASSUME NEW ip \in IPs, NEW ok \in BOOLEAN, PreflightReport(ip, ok) PROVE PoolSafe'
      BY <1>2, <2>2 DEF PreflightReport
    <2> QED BY <1>4, <2>1, <2>2 DEF Environment
  <1>5. ASSUME NEW c \in Conns, BudgetPass(c) \/ Accept(c) PROVE PoolSafe'
    BY <1>1, <1>5 DEF BudgetPass, Accept, schedVars
  <1>6. ASSUME NEW c \in Conns, NEW ok \in BOOLEAN, RelayEnd(c, ok) PROVE PoolSafe'
    BY <1>2, <1>6 DEF RelayEnd
  <1>7. ASSUME NEW c \in Conns, ConnStep(c) PROVE PoolSafe'
    <2>1. CASE HotPick(c) BY <2>1, PickValidatedKeeps, RanksUnchanged DEF HotPick, PickValidatedStep
    <2>2. CASE HotFail(c) BY <1>2, <2>2 DEF HotFail
    <2>3. CASE RacePick(c) BY <2>3, PickNKeeps, RanksUnchanged DEF RacePick, PickNStep
    <2>4. CASE Reporting(c)
      <3>1. ASSUME NEW ip \in IPs, RoundReportFail(c, ip) \/ RoundReportLate(c, ip) PROVE PoolSafe'
        BY <1>2, <3>1 DEF RoundReportFail, RoundReportLate
      <3>2. CASE RoundRelease(c) BY <3>2, ReleaseKeeps, RanksUnchanged DEF RoundRelease, ReleaseStep
      <3>3. CASE RoundReportWin(c) BY <1>2, <3>3 DEF RoundReportWin
      <3> QED BY <2>4, <3>1, <3>2, <3>3 DEF Reporting
    <2>5. CASE Dialing(c) BY <1>1, <2>5 DEF Dialing, DialStart, DialOk, Collect, DialFail, schedVars
    <2>6. CASE \/ HotOk(c) \/ Gate(c) \/ Acquire(c) \/ WaitTimeout(c) \/ Woken(c)
               \/ RoundEnd(c) \/ Unlock(c) \/ Finish(c) \/ \E ok \in BOOLEAN : DirectEnd(c, ok)
      BY <1>1, <2>6
      DEF HotOk, Gate, Acquire, WaitTimeout, Woken, RoundEnd, Unlock, Finish, DirectEnd, schedVars
    <2> QED BY <1>7, <2>1, <2>2, <2>3, <2>4, <2>5, <2>6 DEF ConnStep
  <1> QED BY <1>3, <1>4, <1>5, <1>6, <1>7 DEF RaceNext

-----------------------------------------------------------------------------
(* The hot path and the slot *)

\* The steps that move a connection along outside a race; it may forget that it raced.
LEMMA MoveKeeps ==
    ASSUME RaceInv, NEW c \in Conns, NEW l \in Places, Goto(c, l), UNCHANGED <<slot, cand, target>>,
           pc[c] \notin RacePhase \cup {"relay", "done"}, l \notin RacePhase \cup {"wait", "dial"},
           target[c] # None => l = "relay",
           \/ UNCHANGED <<exclude, raced, unread>>
           \/ /\ raced' = [raced EXCEPT ![c] = FALSE] /\ unread' = [unread EXCEPT ![c] = FALSE]
              /\ exclude' \in {exclude, [exclude EXCEPT ![c] = {}]}
    PROVE  RaceInv'
  <1>1. ConnTypes' BY DEF RaceInv, ConnTypes, Goto
  <1>2. SlotDiscipline' BY DEF RaceInv, ConnTypes, SlotDiscipline, Goto
  <1>3. Spares(c) BY DEF Spares, RaceInv, ConnTypes, Goto
  <1>4. pc'[c] = l /\ pc[c] \in Places \ RacePhase BY DEF RaceInv, ConnTypes, Goto
  <1>5. ConnInv(c) BY DEF RaceInv
  <1>6. Quiet(c)' BY <1>4, <1>5 DEF ConnInv, Quiet
  <1>7. exclude'[c] \in {exclude[c], {}} BY DEF RaceInv, ConnTypes
  <1>8. NoRedial(c)' BY <1>5, <1>7 DEF ConnInv, NoRedial
  <1>9. raced'[c] => raced[c] /\ exclude'[c] = exclude[c] /\ unread'[c] = unread[c]
    BY DEF RaceInv, ConnTypes
  <1>10. Evidence(c)' BY <1>4, <1>5, <1>9 DEF ConnInv, Evidence, Evidenced, Places, RacePhase
  <1>20. Flight(c)' BY <1>4, <1>5 DEF ConnInv, Flight, RacePhase
  <1> QED BY <1>1, <1>2, <1>3, <1>6, <1>8, <1>10, <1>20, ConnStepKeeps DEF ConnInv

LEMMA HotPickKeeps == ASSUME RaceInv, NEW c \in Conns, HotPick(c) PROVE RaceInv'
  <1>1. CASE Goto(c, "gate") /\ UNCHANGED target
    <2>1. target[c] = None BY DEF RaceInv, ConnInv, Quiet, HotPick
    <2> QED BY <1>1, <2>1, MoveKeeps DEF HotPick, Places, RacePhase
  <1>2. CASE \E ip \in IPs \ exclude[c] : Goto(c, "dial") /\ target' = [target EXCEPT ![c] = ip]
    <2>1. PICK ip \in IPs \ exclude[c] : Goto(c, "dial") /\ target' = [target EXCEPT ![c] = ip] BY <1>2
    <2>2. UNCHANGED <<slot, cand, exclude, raced, unread>> /\ pc[c] = "hot" BY DEF HotPick
    <2>3. ConnTypes' BY <2>1, <2>2 DEF RaceInv, ConnTypes, Goto, Places
    <2>4. SlotDiscipline' BY <2>1, <2>2 DEF RaceInv, ConnTypes, SlotDiscipline, Goto, RacePhase
    <2>5. Spares(c) BY <2>1, <2>2 DEF Spares, RaceInv, ConnTypes, Goto
    <2>6. pc'[c] = "dial" /\ target'[c] = ip /\ ip # None
      BY <2>1, SchedAssumption DEF RaceInv, ConnTypes, Goto
    <2>7. ConnInv(c) BY DEF RaceInv
    <2>8. Quiet(c)' BY <2>2, <2>6, <2>7 DEF ConnInv, Quiet, Places, RacePhase
    <2>9. NoRedial(c)' BY <2>1, <2>2, <2>6, <2>7 DEF ConnInv, NoRedial
    <2>10. Evidence(c)' BY <2>2, <2>6, <2>7 DEF ConnInv, Evidence, Evidenced
    <2>20. Flight(c)' BY <2>2, <2>6, <2>7 DEF ConnInv, Flight
    <2> QED BY <2>3, <2>4, <2>5, <2>8, <2>9, <2>10, <2>20, ConnStepKeeps DEF ConnInv
  <1> QED BY <1>1, <1>2 DEF HotPick

LEMMA HotFailKeeps == ASSUME RaceInv, NEW c \in Conns, HotFail(c) PROVE RaceInv'
  <1>1. /\ pc[c] = "dial" /\ Goto(c, "gate") /\ UNCHANGED <<slot, cand, raced, unread>>
        /\ exclude' = [exclude EXCEPT ![c] = @ \cup {target[c]}]
        /\ target' = [target EXCEPT ![c] = None]
    BY DEF HotFail
  <1>2. ConnInv(c) BY DEF RaceInv
  <1>3. target[c] \in IPs BY <1>1, <1>2 DEF ConnInv, Quiet, RaceInv, ConnTypes
  <1>4. ConnTypes' BY <1>1, <1>3 DEF RaceInv, ConnTypes, Goto, Places
  <1>5. SlotDiscipline' BY <1>1 DEF RaceInv, ConnTypes, SlotDiscipline, Goto, RacePhase
  <1>6. Spares(c) BY <1>1 DEF Spares, RaceInv, ConnTypes, Goto
  <1>7. /\ pc'[c] = "gate" /\ target'[c] = None /\ exclude'[c] = exclude[c] \cup {target[c]}
        /\ exclude[c] \subseteq IPs /\ None \notin IPs
    BY <1>1, SchedAssumption DEF RaceInv, ConnTypes, Goto
  <1>8. \A ip \in IPs : cand[c][ip] = "no" BY <1>1, <1>2 DEF ConnInv, Quiet, Places, RacePhase
  <1>9. Quiet(c)' BY <1>1, <1>7, <1>8 DEF Quiet
  <1>10. NoRedial(c)' BY <1>1, <1>3, <1>7, <1>8 DEF NoRedial
  <1>11. Evidence(c)' BY <1>7 DEF Evidence, Evidenced
  <1>20. Flight(c)' BY <1>1, <1>2, <1>7 DEF ConnInv, Flight
  <1> QED BY <1>4, <1>5, <1>6, <1>9, <1>10, <1>11, <1>20, ConnStepKeeps DEF ConnInv

LEMMA AcquireKeeps == ASSUME RaceInv, NEW c \in Conns, Acquire(c) PROVE RaceInv'
  <1>1. PICK l \in {"pick", "woken", "wait"} :
          /\ pc[c] = "acquire" /\ Goto(c, l) /\ UNCHANGED <<cand, exclude, raced, target, unread>>
          /\ \/ l = "pick" /\ slot = None /\ slot' = c
             \/ l # "pick" /\ slot # None /\ slot' = slot
    BY DEF Acquire
  <1>2. ConnTypes' BY <1>1 DEF RaceInv, ConnTypes, Goto, Places, RacePhase
  <1>3. SlotDiscipline' BY <1>1, RaceAssumption DEF RaceInv, ConnTypes, SlotDiscipline, Goto, RacePhase
  <1>4. Spares(c) BY <1>1 DEF Spares, RaceInv, ConnTypes, Goto
  <1>5. pc'[c] = l BY <1>1 DEF RaceInv, ConnTypes, Goto
  <1>6. ConnInv(c) BY DEF RaceInv
  <1>7. Quiet(c)' BY <1>1, <1>5, <1>6 DEF ConnInv, Quiet, Places, RacePhase
  <1>8. NoRedial(c)' BY <1>1, <1>6 DEF ConnInv, NoRedial
  <1>9. Evidence(c)' BY <1>1, <1>5, <1>6 DEF ConnInv, Evidence, Evidenced
  <1>20. Flight(c)' BY <1>1, <1>5, <1>6 DEF ConnInv, Flight
  <1> QED BY <1>2, <1>3, <1>4, <1>7, <1>8, <1>9, <1>20, ConnStepKeeps DEF ConnInv

-----------------------------------------------------------------------------
(* A round *)

\* A step of the holder of the slot from one phase of its race to another.
LEMMA PhaseKeeps ==
    ASSUME RaceInv, NEW c \in Conns, NEW l \in RacePhase, pc' = [pc EXCEPT ![c] = l], pc[c] \in RacePhase,
           UNCHANGED slot
    PROVE  SlotDiscipline' /\ pc' \in [Conns -> Places] /\ slot' \in Conns \cup {None}
  BY DEF RaceInv, ConnTypes, SlotDiscipline, RacePhase, Places

LEMMA RacePickKeeps == ASSUME RaceInv, PoolSafe, NEW c \in Conns, RacePick(c) PROVE RaceInv'
  <1> DEFINE S == RaceOrder(Width, exclude[c])
             first == {ip \in S : \A o \in S \ {ip} : DialBefore(ip, o)}
             fate == [ip \in IPs |-> IF ip \in first THEN "dialing" ELSE IF ip \in S THEN "queued" ELSE "no"]
             next == IF S = {} THEN "unlock" ELSE "race"
  <1>1. /\ pc[c] = "pick" /\ Goto(c, next) /\ UNCHANGED <<slot, exclude, target, unread>>
        /\ raced' = [raced EXCEPT ![c] = @ \/ S # {}]
        /\ cand' = [cand EXCEPT ![c] = fate]
    BY DEF RacePick
  <1>2. S \subseteq IPs \ exclude[c] BY DEF RaceOrder, Pool
  <1>3. /\ fate \in [IPs -> Fates]
        /\ \A ip \in IPs : fate[ip] # "no" <=> ip \in S
        /\ \A ip \in IPs : fate[ip] \in {"no", "queued", "dialing"}
    BY <1>2 DEF Fates
  <1>4. IF S = {} THEN next = "unlock" ELSE next = "race" OBVIOUS
  <1>13. Cardinality(S) <= Width BY RaceWidth, RaceAssumption DEF PoolSafe, PoolInv
  <1> HIDE DEF S, first, fate, next
  <1>5. ConnTypes'
    <2>1. SlotDiscipline' /\ pc' \in [Conns -> Places] /\ slot' \in Conns \cup {None}
      BY <1>1, <1>4, PhaseKeeps DEF Goto, RacePhase
    <2> QED BY <1>1, <1>3, <2>1 DEF RaceInv, ConnTypes
  <1>6. SlotDiscipline' BY <1>1, <1>4, PhaseKeeps DEF Goto, RacePhase
  <1>7. Spares(c) BY <1>1 DEF Spares, RaceInv, ConnTypes, Goto
  <1>8. /\ pc'[c] = next /\ cand'[c] = fate /\ raced'[c] = (raced[c] \/ S # {})
        /\ exclude'[c] = exclude[c] /\ target'[c] = target[c]
    BY <1>1 DEF RaceInv, ConnTypes, Goto
  <1>9. ConnInv(c) BY DEF RaceInv
  <1>10. Quiet(c)' BY <1>1, <1>4, <1>8, <1>9 DEF ConnInv, Quiet, Places, RacePhase
  <1>11. NoRedial(c)'
    <2>1. exclude[c] \subseteq IPs BY DEF RaceInv, ConnTypes
    <2> QED BY <1>2, <1>3, <1>8, <1>9, <2>1 DEF ConnInv, NoRedial
  <1>12. Evidence(c)'
    <2>1. CASE next = "unlock"
      BY <1>1, <1>4, <1>8, <1>9, <2>1 DEF ConnInv, Evidence, Evidenced
    <2>2. CASE next = "race"
      BY <1>2, <1>3, <1>4, <1>8, <2>2 DEF Evidence, Evidenced
    <2> QED BY <1>4, <2>1, <2>2
  <1>14. Flight(c)'
    <2>1. CASE next = "unlock" BY <1>2, <1>3, <1>4, <1>8, <2>1 DEF Flight
    <2>2. CASE next = "race"
      <3>1. InFlight(c)' = S BY <1>2, <1>3, <1>8 DEF InFlight
      <3> QED BY <1>8, <1>13, <2>2, <3>1 DEF Flight
    <2> QED BY <1>4, <2>1, <2>2
  <1> QED BY <1>5, <1>6, <1>7, <1>10, <1>11, <1>12, <1>14, ConnStepKeeps DEF ConnInv

LEMMA FewerInFlight ==
    ASSUME NEW S \in SUBSET IPs, NEW T \in SUBSET S, Cardinality(S) <= Width
    PROVE  Cardinality(T) <= Width
  <1>1. IsFiniteSet(S) BY SchedAssumption, FS_Subset
  <1>2. IsFiniteSet(T) /\ Cardinality(T) <= Cardinality(S) BY <1>1, FS_Subset
  <1>3. Cardinality(S) \in Nat /\ Cardinality(T) \in Nat BY <1>1, <1>2, FS_CardinalityType
  <1> QED BY <1>2, <1>3, RaceAssumption

\* What becomes of one candidate, in a race or when it is reported.
LEMMA FateKeeps ==
    ASSUME RaceInv, NEW c \in Conns, NEW ip \in IPs, NEW s \in Fates, Became(c, ip, s), cand[c][ip] # "no",
           pc[c] \in {"race", "report"}, UNCHANGED <<slot, pc, raced, target, unread>>,
           exclude' = [exclude EXCEPT ![c] = @ \cup (IF cand[c][ip] = "failed" THEN {ip} ELSE {})],
           cand[c][ip] = "failed" => s = "no",
           cand[c][ip] # "won",
           s = "dialing" => cand[c][ip] = "queued",
           pc[c] = "race" => s \in {"dialing", "sent", "won", "failed"} \/ (Won(c) /\ s # "no"),
           pc[c] = "report" => s = "no"
    PROVE  RaceInv'
  <1>1. ConnTypes' BY DEF RaceInv, ConnTypes, Became
  <1>2. SlotDiscipline' BY DEF RaceInv, SlotDiscipline
  <1>3. Spares(c) BY DEF Spares, RaceInv, ConnTypes, Became
  <1>4. /\ exclude'[c] = exclude[c] \cup (IF cand[c][ip] = "failed" THEN {ip} ELSE {})
        /\ cand'[c] = [cand[c] EXCEPT ![ip] = s] /\ exclude[c] \subseteq IPs
        /\ cand[c] \in [IPs -> Fates]
    BY DEF RaceInv, ConnTypes, Became
  <1>5. ConnInv(c) BY DEF RaceInv
  <1>6. Quiet(c)' BY <1>5 DEF ConnInv, Quiet, RacePhase
  <1>7. NoRedial(c)'
    <2>1. target[c] = None BY <1>5 DEF ConnInv, Quiet
    <2> QED BY <1>4, <1>5, <2>1, SchedAssumption DEF ConnInv, NoRedial
  <1>8. Won(c) => Won(c)' BY <1>4 DEF Won, Having
  <1>9. Evidence(c)'
    <2>1. CASE pc[c] = "race"
      <3>1. cand'[c][ip] = s BY <1>4
      <3>2. \A o \in IPs \ {ip} : cand'[c][o] = cand[c][o] BY <1>4
      <3>3. s = "won" => Won(c)' BY <3>1 DEF Won, Having
      <3> QED BY <1>5, <1>8, <2>1, <3>1, <3>2, <3>3 DEF ConnInv, Evidence, Evidenced
    <2>2. CASE pc[c] = "report"
      <3>1. \A o \in IPs \ {ip} : cand'[c][o] = cand[c][o] BY <1>4
      <3> QED BY <1>4, <1>5, <1>8, <2>2, <3>1 DEF ConnInv, Evidence, Evidenced
    <2> QED BY <2>1, <2>2
  <1>10. Flight(c)'
    <2>1. CASE pc[c] = "race"
      <3>1. InFlight(c)' \subseteq InFlight(c)
        BY <1>4, <2>1 DEF InFlight
      <3>2. Cardinality(InFlight(c)) <= Width BY <1>5, <2>1 DEF ConnInv, Flight
      <3>3. InFlight(c) \in SUBSET IPs BY DEF InFlight
      <3>4. Cardinality(InFlight(c)') <= Width BY <3>1, <3>2, <3>3, FewerInFlight
      <3> QED BY <2>1, <3>4 DEF Flight
    <2>2. CASE pc[c] = "report" BY <1>4, <1>5, <2>2 DEF ConnInv, Flight
    <2> QED BY <2>1, <2>2
  <1> QED BY <1>1, <1>2, <1>3, <1>6, <1>7, <1>9, <1>10, ConnStepKeeps DEF ConnInv

LEMMA DialingKeeps == ASSUME RaceInv, NEW c \in Conns, Dialing(c) PROVE RaceInv'
  <1>1. PICK ip \in IPs : DialStart(c, ip) \/ DialOk(c, ip) \/ Collect(c, ip) \/ DialFail(c, ip)
    BY DEF Dialing
  <1>2. PICK s \in {"dialing", "sent", "late", "won", "failed", "dropped"} :
          /\ Became(c, ip, s) /\ cand[c][ip] \in {"queued", "dialing", "sent"} /\ pc[c] = "race"
          /\ s \in {"late", "dropped"} => Won(c)
          /\ s = "dialing" => cand[c][ip] = "queued"
    BY <1>1 DEF DialStart, DialOk, Collect, DialFail
  <1>3. UNCHANGED <<slot, pc, exclude, raced, target, unread>> BY <1>1 DEF DialStart, DialOk, Collect, DialFail
  <1>4. exclude' = [exclude EXCEPT ![c] = @ \cup (IF cand[c][ip] = "failed" THEN {ip} ELSE {})]
    BY <1>2, <1>3 DEF RaceInv, ConnTypes
  <1> QED BY <1>2, <1>3, <1>4, FateKeeps DEF Fates

LEMMA RoundReportKeeps ==
    ASSUME RaceInv, NEW c \in Conns, NEW ip \in IPs, RoundReportFail(c, ip) \/ RoundReportLate(c, ip)
    PROVE  RaceInv'
  <1>1. /\ Became(c, ip, "no") /\ cand[c][ip] \in {"failed", "late"} /\ pc[c] = "report"
        /\ UNCHANGED <<slot, pc, raced, target, unread>>
    BY DEF RoundReportFail, RoundReportLate
  <1>2. exclude' = [exclude EXCEPT ![c] = @ \cup (IF cand[c][ip] = "failed" THEN {ip} ELSE {})]
    <2>1. CASE RoundReportFail(c, ip) BY <2>1 DEF RoundReportFail
    <2>2. CASE RoundReportLate(c, ip) BY <2>2 DEF RoundReportLate, RaceInv, ConnTypes
    <2> QED BY <2>1, <2>2
  <1> QED BY <1>1, <1>2, FateKeeps DEF Fates

LEMMA RoundEndKeeps == ASSUME RaceInv, NEW c \in Conns, RoundEnd(c) PROVE RaceInv'
  <1> DEFINE fate == [ip \in IPs |-> IF cand[c][ip] = "sent" THEN "late" ELSE cand[c][ip]]
             lost == unread[c] \/ (Having(c, "sent") # {} /\ ~Won(c))
  <1>1. /\ pc[c] = "race" /\ pc' = [pc EXCEPT ![c] = "report"] /\ UNCHANGED <<slot, exclude, raced, target>>
        /\ cand' = [cand EXCEPT ![c] = fate] /\ unread' = [unread EXCEPT ![c] = lost]
        /\ \A ip \in IPs : cand[c][ip] # "dialing" /\ (cand[c][ip] = "queued" => Won(c))
    BY DEF RoundEnd, Goto, Having
  <1>2. fate \in [IPs -> Fates] /\ lost \in BOOLEAN BY DEF RaceInv, ConnTypes, Fates
  <1>3. Won(c) <=> \E ip \in IPs : fate[ip] = "won" BY DEF Won, Having
  <1>4. \A ip \in IPs : /\ cand[c][ip] = "no" => fate[ip] = "no"
                        /\ cand[c][ip] = "failed" => fate[ip] = "failed"
                        /\ cand[c][ip] # "dialing" => fate[ip] # "dialing"
    OBVIOUS
  <1>5. ~Won(c) => lost \/ \A ip \in IPs : cand[c][ip] # "sent" BY DEF Having
  <1>6. lost \in BOOLEAN /\ (unread[c] => lost) BY <1>2
  <1> HIDE DEF fate, lost
  <1>7. SlotDiscipline' /\ pc' \in [Conns -> Places] BY <1>1, PhaseKeeps DEF RacePhase
  <1>8. ConnTypes' BY <1>1, <1>2, <1>7 DEF RaceInv, ConnTypes
  <1>9. Spares(c) BY <1>1 DEF Spares, RaceInv, ConnTypes
  <1>10. /\ pc'[c] = "report" /\ cand'[c] = fate /\ unread'[c] = lost
         /\ exclude'[c] = exclude[c] /\ exclude[c] \subseteq IPs
    BY <1>1 DEF RaceInv, ConnTypes
  <1>11. ConnInv(c) BY DEF RaceInv
  <1>12. Quiet(c)' BY <1>1, <1>10, <1>11 DEF ConnInv, Quiet, RacePhase, Places
  <1>13. NoRedial(c)' BY <1>1, <1>4, <1>10, <1>11 DEF ConnInv, NoRedial
  <1>14. Won(c)' <=> Won(c) BY <1>3, <1>10 DEF Won, Having
  <1>15. ~Won(c) => lost \/ \E ip \in IPs : fate[ip] = "failed"
    <2>1. ~Won(c) => \A ip \in IPs : cand[c][ip] \in {"no", "sent", "failed"}
      BY <1>1, <1>11 DEF ConnInv, Evidence
    <2>2. \E ip \in IPs : cand[c][ip] # "no" BY <1>1, <1>11 DEF ConnInv, Evidence
    <2> QED BY <1>4, <1>5, <2>1, <2>2
  <1>16. Evidence(c)' BY <1>10, <1>14, <1>15 DEF Evidence, Evidenced
  <1>20. Flight(c)' BY <1>1, <1>4, <1>10 DEF Flight
  <1> QED BY <1>7, <1>8, <1>9, <1>12, <1>13, <1>16, <1>20, ConnStepKeeps DEF ConnInv

LEMMA RoundReleaseKeeps == ASSUME RaceInv, NEW c \in Conns, RoundRelease(c) PROVE RaceInv'
  <1> DEFINE fate == [ip \in IPs |-> IF cand[c][ip] = "queued" THEN "no" ELSE cand[c][ip]]
             next == IF Won(c) THEN "win" ELSE "unlock"
  <1>1. /\ pc[c] = "report" /\ pc' = [pc EXCEPT ![c] = next] /\ UNCHANGED <<slot, exclude, raced, target, unread>>
        /\ cand' = [cand EXCEPT ![c] = fate] /\ \A ip \in IPs : cand[c][ip] # "failed"
    BY DEF RoundRelease, Goto, Having
  <1>2. next \in RacePhase BY DEF RacePhase
  <1>3. fate \in [IPs -> Fates] BY DEF RaceInv, ConnTypes, Fates
  <1>4. Won(c) <=> \E ip \in IPs : fate[ip] = "won" BY DEF Won, Having
  <1>5. IF Won(c) THEN next = "win" ELSE next = "unlock" OBVIOUS
  <1>6. \A ip \in IPs : cand[c][ip] = "no" => fate[ip] = "no" OBVIOUS
  <1>21. \A ip \in IPs : cand[c][ip] # "dialing" => fate[ip] # "dialing" OBVIOUS
  <1> HIDE DEF fate, next
  <1>7. SlotDiscipline' /\ pc' \in [Conns -> Places] BY <1>1, <1>2, PhaseKeeps DEF RacePhase
  <1>8. ConnTypes' BY <1>1, <1>3, <1>7 DEF RaceInv, ConnTypes
  <1>9. Spares(c) BY <1>1 DEF Spares, RaceInv, ConnTypes
  <1>10. pc'[c] = next /\ cand'[c] = fate /\ exclude[c] \subseteq IPs BY <1>1 DEF RaceInv, ConnTypes
  <1>11. ConnInv(c) BY DEF RaceInv
  <1>12. Quiet(c)' BY <1>1, <1>5, <1>10, <1>11 DEF ConnInv, Quiet, Places, RacePhase
  <1>13. NoRedial(c)' BY <1>1, <1>6, <1>10, <1>11 DEF ConnInv, NoRedial
  <1>14. Won(c)' <=> Won(c) BY <1>4, <1>10 DEF Won, Having
  <1>15. Evidence(c)' BY <1>1, <1>5, <1>10, <1>11, <1>14 DEF ConnInv, Evidence, Evidenced
  <1>20. Flight(c)' BY <1>1, <1>5, <1>10, <1>11, <1>21 DEF ConnInv, Flight
  <1> QED BY <1>7, <1>8, <1>9, <1>12, <1>13, <1>15, <1>20, ConnStepKeeps DEF ConnInv

LEMMA RoundReportWinKeeps == ASSUME RaceInv, NEW c \in Conns, RoundReportWin(c) PROVE RaceInv'
  <1>1. PICK ip \in IPs : cand[c][ip] = "won" /\ target' = [target EXCEPT ![c] = ip]
    BY DEF RoundReportWin, Having
  <1>2. pc[c] = "win" /\ pc' = [pc EXCEPT ![c] = "unlock"] /\ UNCHANGED <<slot, cand, exclude, raced, unread>>
    BY DEF RoundReportWin, Goto
  <1>3. SlotDiscipline' /\ pc' \in [Conns -> Places] BY <1>2, PhaseKeeps DEF RacePhase
  <1>4. ConnTypes' BY <1>1, <1>2, <1>3 DEF RaceInv, ConnTypes
  <1>5. Spares(c) BY <1>1, <1>2 DEF Spares, RaceInv, ConnTypes
  <1>6. pc'[c] = "unlock" /\ target'[c] = ip BY <1>1, <1>2 DEF RaceInv, ConnTypes
  <1>7. ConnInv(c) BY DEF RaceInv
  <1>8. Won(c)' BY <1>1, <1>2 DEF Won, Having
  <1>9. NoRedial(c)' BY <1>1, <1>2, <1>6, <1>7 DEF ConnInv, NoRedial
  <1>10. Quiet(c)' BY <1>6, <1>8 DEF Quiet, Places, RacePhase
  <1>11. Evidence(c)' BY <1>6, <1>8 DEF Evidence, Evidenced
  <1>20. Flight(c)' BY <1>2, <1>6, <1>7 DEF ConnInv, Flight
  <1> QED BY <1>3, <1>4, <1>5, <1>9, <1>10, <1>11, <1>20, ConnStepKeeps DEF ConnInv

LEMMA UnlockKeeps == ASSUME RaceInv, NEW c \in Conns, Unlock(c) PROVE RaceInv'
  <1> DEFINE next == Onward(c, round[c] + 1)
  <1>1. /\ pc[c] = "unlock" /\ slot' = None /\ UNCHANGED <<exclude, target>>
        /\ cand' = [cand EXCEPT ![c] = NoCand]
        /\ pc' = [d \in Conns |-> IF d = c THEN next ELSE IF pc[d] = "wait" THEN "woken" ELSE pc[d]]
    BY DEF Unlock
  <1>2. IF Won(c) THEN next = "relay" ELSE next \in {"hot", "finish"} BY DEF Onward
  <1>14. IF Won(c)
         THEN raced' = [raced EXCEPT ![c] = FALSE] /\ unread' = [unread EXCEPT ![c] = FALSE]
         ELSE UNCHANGED <<raced, unread>>
    BY DEF Unlock, AfterRound, Connected
  <1> HIDE DEF next
  <1>3. next \in {"relay", "hot", "finish"} BY <1>2
  <1>15. raced' \in [Conns -> BOOLEAN] /\ unread' \in [Conns -> BOOLEAN]
    BY <1>14 DEF RaceInv, ConnTypes
  <1>4. ConnTypes' BY <1>1, <1>3, <1>15 DEF RaceInv, ConnTypes, Places, NoCand, Fates
  <1>5. slot = c BY <1>1 DEF RaceInv, SlotDiscipline, RacePhase
  <1>6. SlotDiscipline'
    BY <1>1, <1>3, <1>5, RaceAssumption DEF RaceInv, ConnTypes, SlotDiscipline, RacePhase
  <1>7. Spares(c) BY <1>1, <1>14 DEF Spares, RaceInv, ConnTypes
  <1>8. /\ pc'[c] = next /\ cand'[c] = NoCand /\ exclude'[c] = exclude[c] /\ exclude[c] \subseteq IPs
        /\ IF Won(c) THEN raced'[c] = FALSE ELSE raced'[c] = raced[c] /\ unread'[c] = unread[c]
        /\ target'[c] = target[c]
    BY <1>1, <1>14 DEF RaceInv, ConnTypes
  <1>9. ConnInv(c) BY DEF RaceInv
  <1>10. ~Won(c) => target[c] = None BY <1>1, <1>9 DEF ConnInv, Quiet
  <1>11. Quiet(c)' BY <1>2, <1>3, <1>8, <1>10 DEF Quiet, NoCand
  <1>12. NoRedial(c)' BY <1>8, <1>9 DEF ConnInv, NoRedial, NoCand
  <1>13. Evidence(c)' BY <1>1, <1>2, <1>8, <1>9 DEF ConnInv, Evidence, Evidenced
  <1>20. Flight(c)' BY <1>3, <1>8 DEF Flight, NoCand
  <1> QED BY <1>4, <1>6, <1>7, <1>11, <1>12, <1>13, <1>20, ConnStepKeeps DEF ConnInv

-----------------------------------------------------------------------------
(* The end of a connection, and the whole *)

LEMMA RelayEndKeeps == ASSUME RaceInv, NEW c \in Conns, NEW ok, RelayEnd(c, ok) PROVE RaceInv'
  <1>1. /\ pc[c] = "relay" /\ pc' = [pc EXCEPT ![c] = "done"] /\ UNCHANGED <<slot, cand, raced, unread>>
        /\ target' = [target EXCEPT ![c] = None] /\ exclude' = [exclude EXCEPT ![c] = {}]
    BY DEF RelayEnd, Goto
  <1>2. ConnTypes' BY <1>1 DEF RaceInv, ConnTypes, Places
  <1>3. SlotDiscipline' BY <1>1 DEF RaceInv, ConnTypes, SlotDiscipline, RacePhase
  <1>4. Spares(c) BY <1>1 DEF Spares, RaceInv, ConnTypes
  <1>5. /\ pc'[c] = "done" /\ target'[c] = None /\ exclude'[c] = {}
    BY <1>1, SchedAssumption DEF RaceInv, ConnTypes
  <1>6. ConnInv(c) BY DEF RaceInv
  <1>7. Quiet(c)' BY <1>1, <1>5, <1>6 DEF ConnInv, Quiet, Places, RacePhase
  <1>8. NoRedial(c)' BY <1>1, <1>5, <1>6 DEF ConnInv, NoRedial
  <1>9. Evidence(c)' BY <1>5 DEF Evidence, Evidenced
  <1>20. Flight(c)' BY <1>1, <1>5, <1>6 DEF ConnInv, Flight
  <1> QED BY <1>2, <1>3, <1>4, <1>7, <1>8, <1>9, <1>20, ConnStepKeeps DEF ConnInv

\* The steps MoveKeeps is about.
LEMMA PlainKeeps ==
    ASSUME RaceInv, NEW c \in Conns,
           \/ Accept(c) \/ HotOk(c) \/ Gate(c) \/ WaitTimeout(c) \/ Woken(c)
           \/ Finish(c) \/ \E ok \in BOOLEAN : DirectEnd(c, ok)
    PROVE  RaceInv'
  <1>1. PICK l \in {"hot", "relay", "finish", "acquire", "woken", "refused", "direct", "done"} :
          /\ Goto(c, l) /\ pc[c] \in {"idle", "dial", "gate", "wait", "woken", "finish", "direct"}
          /\ pc[c] = "dial" => l = "relay"
    BY DEF Accept, HotOk, Gate, WaitTimeout, Woken, Finish, DirectEnd
  <1>2. /\ UNCHANGED <<slot, cand, target>>
        /\ \/ UNCHANGED <<exclude, raced, unread>>
           \/ /\ raced' = [raced EXCEPT ![c] = FALSE] /\ unread' = [unread EXCEPT ![c] = FALSE]
              /\ exclude' \in {exclude, [exclude EXCEPT ![c] = {}]}
    BY DEF Accept, HotOk, Gate, WaitTimeout, Woken, Finish, DirectEnd, Connected
  <1>3. target[c] # None => pc[c] = "dial" BY <1>1 DEF RaceInv, ConnInv, Quiet
  <1> QED BY <1>1, <1>2, <1>3, MoveKeeps DEF Places, RacePhase

LEMMA UnchangedKeeps ==
    ASSUME RaceInv, UNCHANGED <<slot, pc, cand, exclude, raced, target, unread>>
    PROVE  RaceInv'
  <1>1. ConnTypes' /\ SlotDiscipline' BY DEF RaceInv, ConnTypes, SlotDiscipline
  <1>2. ASSUME NEW c \in Conns PROVE ConnInv(c)'
    <2>1. ConnInv(c) BY DEF RaceInv
    <2>2. Quiet(c)' /\ NoRedial(c)' BY <2>1 DEF ConnInv, Quiet, NoRedial, Won, Having
    <2>3. Evidence(c)' BY <2>1 DEF ConnInv, Evidence, Evidenced, Won, Having
    <2>4. Flight(c)' BY <2>1 DEF ConnInv, Flight, InFlight
    <2> QED BY <2>2, <2>3, <2>4 DEF ConnInv
  <1> QED BY <1>1, <1>2 DEF RaceInv

LEMMA InvInit == RaceInit => RaceInv
  BY RaceAssumption DEF RaceInit, RaceInv, ConnTypes, SlotDiscipline, ConnInv, Quiet, NoRedial, Evidence,
                        Flight, NoCand, Fates, Places, RacePhase

LEMMA InvStep == RaceInv /\ PoolSafe /\ [RaceNext]_raceVars => RaceInv'
  <1> SUFFICES ASSUME RaceInv, PoolSafe, [RaceNext]_raceVars PROVE RaceInv' OBVIOUS
  <1>1. CASE UNCHANGED raceVars BY <1>1, UnchangedKeeps DEF raceVars, connVars
  <1>2. CASE Environment BY <1>2, UnchangedKeeps DEF Environment, connVars
  <1>3. ASSUME NEW c \in Conns, BudgetPass(c) PROVE RaceInv'
    BY <1>3, UnchangedKeeps DEF BudgetPass
  <1>4. ASSUME NEW c \in Conns, ConnStep(c) PROVE RaceInv'
    <2>1. CASE Reporting(c) BY <2>1, RoundReportKeeps, RoundReleaseKeeps, RoundReportWinKeeps DEF Reporting
    <2> QED
      BY <1>4, <2>1, PlainKeeps, HotPickKeeps, HotFailKeeps, AcquireKeeps, RacePickKeeps, DialingKeeps,
         RoundEndKeeps, UnlockKeeps
      DEF ConnStep
  <1>5. ASSUME NEW c \in Conns, Accept(c) PROVE RaceInv' BY <1>5, PlainKeeps
  <1> QED BY <1>1, <1>2, <1>3, <1>4, <1>5, RelayEndKeeps DEF RaceNext

LEMMA InvHolds == RaceSpec => []RaceInv
  BY InvInit, InvStep, PoolStart, PoolStep, PTL DEF RaceSpec

\* Single flight: a connection races exactly while it holds the slot, and none
\* waits for a slot that is free (race.go acquireRaceSlot, releaseRaceSlot).
THEOREM SingleFlight == RaceSpec => []SlotDiscipline
  <1>1. RaceInv => SlotDiscipline BY DEF RaceInv
  <1> QED BY <1>1, InvHolds, PTL

\* "A thousand connections do not amplify the storm" (race.go): however many
\* connections there are, at most Width dials of races are in flight.
THEOREM StormBounded == RaceSpec => []StormBound
  <1>1. RaceInv => StormBound
    <2> SUFFICES ASSUME RaceInv PROVE StormBound OBVIOUS
    <2> DEFINE D == {dial \in Conns \X IPs : cand[dial[1]][dial[2]] = "dialing"}
    <2>1. \A dial \in D : pc[dial[1]] = "race" /\ dial[1] = slot
      BY DEF RaceInv, ConnInv, Flight, SlotDiscipline, RacePhase
    <2>2. CASE D = {}
      <3>1. Cardinality(D) = 0 BY <2>2, FS_EmptySet
      <3> HIDE DEF D
      <3>2. Cardinality(D) <= Width BY <3>1, RaceAssumption
      <3> QED BY <3>2 DEF StormBound, D
    <2>3. CASE D # {}
      <3>1. slot \in Conns /\ pc[slot] = "race" BY <2>1, <2>3
      <3>2. Cardinality(InFlight(slot)) <= Width BY <3>1 DEF RaceInv, ConnInv, Flight
      <3> DEFINE f == [dial \in D |-> dial[2]]
      <3>3. f \in [D -> InFlight(slot)] BY <2>1 DEF InFlight
      <3>4. \A a, b \in D : f[a] = f[b] => a = b BY <2>1
      <3>5. f \in Injection(D, InFlight(slot)) BY <3>3, <3>4 DEF Injection, IsInjective
      <3>6. IsFiniteSet(InFlight(slot)) BY SchedAssumption, FS_Subset DEF InFlight
      <3> HIDE DEF D, f
      <3>7. IsFiniteSet(D) /\ Cardinality(D) <= Cardinality(InFlight(slot)) BY <3>5, <3>6, FS_Injection
      <3>8. Cardinality(D) \in Nat /\ Cardinality(InFlight(slot)) \in Nat
        BY <3>6, <3>7, FS_CardinalityType
      <3>9. Cardinality(D) <= Width BY <3>2, <3>7, <3>8, RaceAssumption
      <3> QED BY <3>9 DEF StormBound, D
    <2> QED BY <2>2, <2>3
  <1> QED BY <1>1, InvHolds, PTL

\* No connection dials an address again that it saw fail (race.go: exclude).
THEOREM NoneRedialed == RaceSpec => []NeverRedialed
  <1>1. RaceInv => NeverRedialed BY DEF RaceInv, ConnInv, NoRedial, NeverRedialed
  <1> QED BY <1>1, InvHolds, PTL

\* A 502 after a race has a candidate behind it that this connection saw fail, or a success that
\* a round of its own left unread (race.go connectAccel, dialRaceRound; tunnel.go handle).
THEOREM RefusalsHaveEvidence == RaceSpec => []RefusedHasEvidence
  <1>1. RaceInv => RefusedHasEvidence
    <2> SUFFICES ASSUME RaceInv, NEW c \in Conns, pc[c] = "refused", raced[c]
                 PROVE  exclude[c] # {} \/ unread[c]
      BY DEF RefusedHasEvidence
    <2> QED BY DEF RaceInv, ConnInv, Evidence, Evidenced
  <1> QED BY <1>1, InvHolds, PTL

-----------------------------------------------------------------------------
(* The scheduler under a race *)

\* A race wider than the domain is a race of the domain.
LEMMA WidestRace ==
    ASSUME NEW n \in Nat, n >= Cardinality(IPs), NEW X
    PROVE  RaceOrder(n, X) = RaceOrder(Cardinality(IPs), X)
  <1> DEFINE C == {ip \in Pool \ X : st[ip] = "Active" \/ Rotatable(ip)}
             Before(ip) == {o \in C \ {ip} : DialBefore(o, ip)}
  <1>1. IsFiniteSet(IPs) /\ Cardinality(IPs) \in Nat BY SchedAssumption, FS_CardinalityType
  <1>2. ASSUME NEW ip \in C PROVE Cardinality(Before(ip)) < Cardinality(IPs)
    <2>1. ip \in IPs /\ Before(ip) \subseteq IPs \ {ip} BY DEF Pool
    <2> HIDE DEF Before
    <2>2. IsFiniteSet(IPs \ {ip}) /\ Cardinality(IPs \ {ip}) = Cardinality(IPs) - 1
      BY <1>1, <2>1, FS_RemoveElement
    <2>3. IsFiniteSet(Before(ip)) /\ Cardinality(Before(ip)) <= Cardinality(IPs \ {ip})
      BY <2>1, <2>2, FS_Subset
    <2>4. Cardinality(Before(ip)) \in Nat BY <2>3, FS_CardinalityType
    <2> QED BY <1>1, <2>2, <2>3, <2>4
  <1>3. \A ip \in C : IsFiniteSet(Before(ip)) /\ Cardinality(Before(ip)) \in Nat
    <2> SUFFICES ASSUME NEW ip \in C
                 PROVE  IsFiniteSet(Before(ip)) /\ Cardinality(Before(ip)) \in Nat
      OBVIOUS
    <2>1. Before(ip) \subseteq IPs BY DEF Pool
    <2> HIDE DEF Before
    <2> QED BY <1>1, <2>1, FS_Subset, FS_CardinalityType
  <1>4. RaceOrder(n, X) = {ip \in C : Cardinality(Before(ip)) < n} BY DEF RaceOrder
  <1>5. RaceOrder(Cardinality(IPs), X) = {ip \in C : Cardinality(Before(ip)) < Cardinality(IPs)}
    BY DEF RaceOrder
  <1> HIDE DEF C, Before
  <1>6. \A ip \in C : Cardinality(Before(ip)) < n BY <1>1, <1>2, <1>3
  <1> QED BY <1>2, <1>4, <1>5, <1>6

\* What a connection asks of the scheduler is a call any caller may make, and its other steps
\* leave the pool alone.
LEMMA RaceCalls ==
    ASSUME IPs # {}, RaceInv, [RaceNext]_raceVars
    PROVE  [Next]_schedVars
  <1>1. ConnTypes BY DEF RaceInv
  <1>2. ASSUME NEW ip \in IPs \cup {None}, NEW ok \in BOOLEAN, Report(ip, ok), UNCHANGED probeVars
        PROVE  [Next]_schedVars
    <2>1. CASE ip \in IPs BY <1>2, <2>1 DEF ReportConn, Next, Calls
    <2>2. CASE ip \notin IPs BY <1>2, <2>2 DEF Report, Pool, schedVars
    <2> QED BY <2>1, <2>2
  <1>3. CASE UNCHANGED schedVars BY <1>3
  <1>4. CASE UNCHANGED raceVars BY <1>4 DEF raceVars
  <1>5. CASE Environment BY <1>5 DEF Environment, Next, Background
  <1>6. ASSUME NEW c \in Conns, Accept(c) \/ BudgetPass(c) PROVE [Next]_schedVars
    BY <1>6 DEF Accept, BudgetPass
  <1>7. ASSUME NEW c \in Conns, NEW ok \in BOOLEAN, RelayEnd(c, ok) PROVE [Next]_schedVars
    BY <1>1, <1>2, <1>7 DEF RelayEnd, ConnTypes
  <1>8. ASSUME NEW c \in Conns, ConnStep(c) PROVE [Next]_schedVars
    <2>1. CASE HotPick(c) BY <2>1 DEF HotPick, PickValidated, Next, Calls
    <2>2. CASE HotFail(c) BY <1>1, <1>2, <2>2 DEF HotFail, ConnTypes
    <2>3. CASE RacePick(c)
      <3> DEFINE X == exclude[c]
      <3>1. X \in SUBSET IPs BY <1>1 DEF ConnTypes
      <3>2. Width \in Nat \ {0} BY RaceAssumption
      <3>3. /\ PickNStep(Width, X) /\ wantResolve' = (wantResolve \/ RaceOrder(Width, X) = {})
            /\ UNCHANGED <<resolving, preflight, refresh>>
        BY <2>3 DEF RacePick
      <3>4. Cardinality(IPs) \in Nat \ {0}
        BY SchedAssumption, FS_CardinalityType, FS_EmptySet
      <3> HIDE DEF X
      <3>5. PICK n \in 1..Cardinality(IPs) : RaceOrder(n, X) = RaceOrder(Width, X)
        <4>1. CASE Width <= Cardinality(IPs) BY <3>2, <3>4, <4>1
        <4>2. CASE Width > Cardinality(IPs) BY <3>2, <3>4, <4>2, WidestRace
        <4> QED BY <3>2, <3>4, <4>1, <4>2
      <3>6. PickN(n, X) BY <3>3, <3>5 DEF PickN, PickNStep
      <3> QED BY <3>1, <3>6 DEF Next, Calls
    <2>4. CASE Reporting(c)
      <3>1. ASSUME NEW ip \in IPs, RoundReportFail(c, ip) \/ RoundReportLate(c, ip) PROVE [Next]_schedVars
        BY <1>2, <3>1 DEF RoundReportFail, RoundReportLate
      <3>2. CASE RoundRelease(c)
        <4>1. Having(c, "queued") \in SUBSET IPs BY DEF Having
        <4>2. ReleaseCandidates(Having(c, "queued")) BY <3>2 DEF RoundRelease, ReleaseCandidates
        <4> QED BY <4>1, <4>2 DEF Next, Calls
      <3>3. CASE RoundReportWin(c)
        <4>1. PICK ip \in Having(c, "won") : Report(ip, TRUE) BY <3>3 DEF RoundReportWin
        <4> QED BY <1>2, <3>3, <4>1 DEF Having, RoundReportWin
      <3> QED BY <2>4, <3>1, <3>2, <3>3 DEF Reporting
    <2>5. CASE Dialing(c) BY <2>5 DEF Dialing, DialStart, DialOk, Collect, DialFail
    <2>6. CASE \/ HotOk(c) \/ Gate(c) \/ Acquire(c) \/ WaitTimeout(c) \/ Woken(c)
               \/ RoundEnd(c) \/ Unlock(c) \/ Finish(c) \/ \E ok \in BOOLEAN : DirectEnd(c, ok)
      BY <2>6 DEF HotOk, Gate, Acquire, WaitTimeout, Woken, RoundEnd, Unlock, Finish, DirectEnd
    <2> QED BY <1>8, <2>1, <2>2, <2>3, <2>4, <2>5, <2>6 DEF ConnStep
  <1> QED BY <1>4, <1>5, <1>6, <1>7, <1>8 DEF RaceNext

\* However many connections race, time out and report late, the scheduler sees nothing but the
\* calls and the background of its own specification: each access of proxy/tunnel.go and race.go
\* is one call under its lock.
THEOREM RaceImplementsSched == ASSUME IPs # {} PROVE RaceSpec => [][Next]_schedVars
  <1>1. RaceInv /\ [RaceNext]_raceVars => [Next]_schedVars BY RaceCalls
  <1> QED BY <1>1, InvHolds, PTL DEF RaceSpec

\* So what a pool promises holds beneath any number of races: types, claims, counts and stickiness ...
THEOREM RaceKeepsPool ==
    ASSUME IPs # {}
    PROVE  RaceSpec => [](TypeOK /\ StickyIsActive /\ ClaimIffProbing /\ CountMatchesState)
  <1>1. RaceInit => SchedInv
    BY PoolStart DEF PoolSafe, SchedInv, RaceInit, Fresh, ProbeTypeOK
  <1>2. SchedInv => TypeOK /\ StickyIsActive /\ ClaimIffProbing /\ CountMatchesState
    BY DEF SchedInv, PoolInv, TypeOK
  <1> QED BY <1>1, <1>2, RaceImplementsSched, StepHolds, PTL DEF RaceSpec

\* ... and no race, release or late report ends an isolation before its time.
THEOREM RaceKeepsIsolation == ASSUME IPs # {} PROVE RaceSpec => IsolationHolds
  <1>1. RaceInit => SchedInv /\ RanksDistinct
    BY PoolStart DEF PoolSafe, SchedInv, RaceInit, Fresh, ProbeTypeOK
  <1>2. SchedInv /\ RanksDistinct /\ [Next]_schedVars
          => [\A ip \in IPs : Isolated(ip) => st'[ip] \in {st[ip], "Quarantine", "Active"}]_schedVars
    BY StepSpares DEF Holds
  <1> QED BY <1>1, <1>2, RaceImplementsSched, StepHolds, RanksStep, PTL DEF RaceSpec, IsolationHolds
=============================================================================
