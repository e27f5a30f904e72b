------------------------------- MODULE Sched -------------------------------
(***************************************************************************)
(* The IP scheduler of engine/sched: the candidate pool of ONE accelerated *)
(* domain (the scheduler keeps one such pool per host and the pools share  *)
(* nothing but the mutex).  Every exported method runs under Scheduler.mu, *)
(* so each is one action; what the code does outside the lock (a dial, a   *)
(* DoH lookup) separates two actions and anything may happen in between.   *)
(*                                                                         *)
(* Time is a countdown: left[ip] is what remains of the cooldown or the    *)
(* quarantine of ip and stickyLeft what remains of the sticky window, so   *)
(* now.Before(t) reads "left > 0".  The two deadlines of an ipState are    *)
(* one counter because each is read only in the state that set it.         *)
(***************************************************************************)
EXTENDS Integers, FiniteSets

CONSTANTS
    IPs,          \* addresses that can ever become candidates of the domain
    None,         \* the nil *ipState
    Cooldown,     \* Config.Cooldown, in ticks
    Quarantine,   \* Config.Quarantine, in ticks
    CooldownMax,  \* Config.CooldownMax
    Sticky,       \* Config.Sticky, in ticks
    ProbeTimeout, \* Config.ProbeTimeout in ms: the RTT a failure is booked as
    Alpha,        \* ewma.alpha of a pool member, in percent
    RTTs,         \* round-trip times, in ms, a successful dial may take
    TopN,         \* the width of one background refresh (ProbeBest)
    CountCap      \* bound: cooldownCount is kept exact up to here

ASSUME SchedAssumption ==
    /\ None \notin IPs
    /\ IsFiniteSet(IPs)
    /\ Cooldown \in Nat \ {0} /\ Quarantine \in Nat \ {0} /\ Sticky \in Nat \ {0}
    /\ CooldownMax \in Nat \ {0}
    /\ CountCap \in Nat /\ CountCap >= CooldownMax
    /\ Alpha \in 0..100
    /\ RTTs \subseteq Nat /\ ProbeTimeout \in Nat
    /\ TopN \in Nat

VARIABLES
    pos,         \* insertion rank of ip in domainState.ips; 0 = not in the pool
    st,          \* ipState.state
    probing,     \* ipState.probing: held by a connection as its touchstone
    left,        \* ticks until the cooldown / quarantine of ip ends
    count,       \* ipState.cooldownCount, saturating at CountCap
    stats,       \* EWMAs of ip: failure rate, RTT mean, RTT deviation
    sticky,      \* domainState.sticky
    stickyLeft,  \* ticks until stickyUntil
    probeIdx,    \* domainState.probeIdx
    wantResolve, \* a resolveAsync goroutine was spawned and has not run yet
    resolving,   \* Scheduler.resolving[host], and how far that lookup is
    preflight,   \* addresses a running Preflight will report
    refresh      \* addresses a running ProbeBest will report

poolVars  == <<pos, st, probing, left, count, stats, sticky, stickyLeft, probeIdx>>
probeVars == <<wantResolve, resolving, preflight, refresh>>
schedVars == <<poolVars, probeVars>>

States == {"New", "Probing", "Active", "Cooldown", "Quarantine"}

----------------------------------------------------------------------------
(* EWMA and score.  An ewma is -1 until its first sample (field "set").    *)

EwmaAdd(v, x) == IF v = -1 THEN x ELSE v + (Alpha * (x - v)) \div 100

AbsVal(x) == IF x < 0 THEN -x ELSE x
AtMost(x, b) == IF x > b THEN b ELSE x
EwmaVal(v) == IF v = -1 THEN 0 ELSE v

\* rttStats.observe: the deviation, in percent of the mean, is skipped for
\* means of at most 1 ms and clamped to 100.
Observe(s, ms, failed) ==
    LET m == EwmaAdd(s.rtt, ms) IN
    [rtt  |-> m,
     cv   |-> IF m > 1 THEN EwmaAdd(s.cv, AtMost((100 * AbsVal(ms - m)) \div m, 100))
                       ELSE s.cv,
     fail |-> EwmaAdd(s.fail, failed)]

NoStats == [rtt |-> -1, cv |-> -1, fail |-> -1]

\* score, in thousandths: 0.3 RTT (of one second) + 0.5 failure rate + 0.2
\* deviation, lower is better; 0.5 for an address without samples.
Score(ip) ==
    IF stats[ip].fail = -1 THEN 500
    ELSE (3 * AtMost(EwmaVal(stats[ip].rtt), 1000)) \div 10
         + 5 * stats[ip].fail + 2 * EwmaVal(stats[ip].cv)

----------------------------------------------------------------------------
(* The pool and the choices made from it.                                  *)

Pool    == {ip \in IPs : pos[ip] # 0}
Actives == {ip \in Pool : st[ip] = "Active"}

\* ipState.rotatable: may be handed out as a touchstone.
Rotatable(ip) ==
    \/ st[ip] = "New"
    \/ st[ip] = "Probing" /\ ~probing[ip]
    \/ st[ip] \in {"Cooldown", "Quarantine"} /\ ~probing[ip] /\ left[ip] = 0

\* The order of a stable sort by score: insertion order breaks ties.
Better(a, b) == \/ Score(a) < Score(b)
                \/ Score(a) = Score(b) /\ pos[a] < pos[b]

BestActive == CHOOSE ip \in Actives : \A o \in Actives : ~Better(o, ip)

\* The part Pick and PickValidated share: the sticky address while its
\* window is open, otherwise the best Active one, otherwise nil.
StickyHit == sticky # None /\ stickyLeft > 0 /\ st[sticky] = "Active"

Validated == IF StickyHit THEN sticky
             ELSE IF Actives # {} THEN BestActive ELSE None

BindValidated ==
    IF StickyHit THEN UNCHANGED <<sticky, stickyLeft>>
    ELSE IF Actives # {}
         THEN sticky' = BestActive /\ stickyLeft' = Sticky
         ELSE sticky' = None /\ stickyLeft' = 0

\* PickN: Active addresses by score, then rotatable ones by insertion order.
DialBefore(a, b) ==
    IF st[a] = "Active" THEN st[b] = "Active" => Better(a, b)
                        ELSE st[b] # "Active" /\ pos[a] < pos[b]

RaceOrder(n, exclude) ==
    LET C == {ip \in Pool \ exclude : st[ip] = "Active" \/ Rotatable(ip)}
    IN  {ip \in C : Cardinality({o \in C \ {ip} : DialBefore(o, ip)}) < n}

\* rotateLocked: rotatable addresses, or the busy Probing ones when there is
\* none; New first, then expired isolation, then reuse; probeIdx rotates.
RotatePool == LET R == {ip \in Pool : Rotatable(ip)}
              IN  IF R # {} THEN R ELSE {ip \in Pool : st[ip] = "Probing"}

Rank(ip) == CASE st[ip] = "New" -> 0 [] st[ip] = "Probing" -> 2 [] OTHER -> 1

RotateBefore(a, b) == \/ Rank(a) < Rank(b)
                      \/ Rank(a) = Rank(b) /\ pos[a] < pos[b]

RotateSlot == probeIdx % Cardinality(RotatePool)

RotatePick ==
    CHOOSE ip \in RotatePool :
        Cardinality({o \in RotatePool \ {ip} : RotateBefore(o, ip)}) = RotateSlot

----------------------------------------------------------------------------
(* State changes made under the lock, without the probe goroutines.        *)

\* AddCandidates: the new addresses are appended in the order of the list.
AppendCandidates(S) ==
    LET new == S \ Pool IN
    /\ \E f \in [IPs -> 0..Cardinality(IPs)] :
          /\ \A ip \in IPs \ new : f[ip] = pos[ip]
          /\ {f[ip] : ip \in new} =
                 (Cardinality(Pool) + 1)..(Cardinality(Pool) + Cardinality(new))
          /\ pos' = f
    /\ UNCHANGED <<st, probing, left, count, stats, sticky, stickyLeft, probeIdx>>

\* The addresses are claimed: state Probing, probing set.
Claim(S) ==
    /\ st' = [ip \in IPs |-> IF ip \in S THEN "Probing" ELSE st[ip]]
    /\ probing' = [ip \in IPs |-> ip \in S \/ probing[ip]]
    /\ left' = [ip \in IPs |-> IF ip \in S THEN 0 ELSE left[ip]]

PickValidatedStep ==
    /\ BindValidated
    /\ UNCHANGED <<pos, st, probing, left, count, stats, probeIdx>>

PickNStep(n, exclude) ==
    LET S == RaceOrder(n, exclude) IN
    /\ Claim(S \ Actives)
    /\ UNCHANGED <<pos, count, stats, sticky, stickyLeft, probeIdx>>

\* Bug variant: whatever state the address is in, it falls back to New.
ReleaseToNew(S) ==
    /\ st' = [ip \in IPs |-> IF ip \in S \cap Pool THEN "New" ELSE st[ip]]
    /\ probing' = [ip \in IPs |-> ip \notin S \cap Pool /\ probing[ip]]
    /\ UNCHANGED <<pos, left, count, stats, sticky, stickyLeft, probeIdx>>

\* Bug variant: only the mark is dropped.
ReleaseMarkOnly(S) ==
    /\ probing' = [ip \in IPs |-> ip \notin S \cap Pool /\ probing[ip]]
    /\ UNCHANGED <<pos, st, left, count, stats, sticky, stickyLeft, probeIdx>>

\* ReleaseCandidates: Probing falls back to New, the claim is dropped, and
\* nothing is booked against the address.
ReleaseStep(S) ==
    /\ st' = [ip \in IPs |-> IF ip \in S \cap Pool /\ st[ip] = "Probing" THEN "New" ELSE st[ip]]
    /\ probing' = [ip \in IPs |-> ip \notin S \cap Pool /\ probing[ip]]
    /\ UNCHANGED <<pos, left, count, stats, sticky, stickyLeft, probeIdx>>

\* Bug variant: the failure count survives a success.
RecordSuccessKeepCount(ip, ms) ==
    /\ stats' = [stats EXCEPT ![ip] = Observe(@, ms, 0)]
    /\ probing' = [probing EXCEPT ![ip] = FALSE]
    /\ st' = [st EXCEPT ![ip] = "Active"]
    /\ left' = [left EXCEPT ![ip] = 0]
    /\ IF sticky \in {None, ip}
       THEN sticky' = ip /\ stickyLeft' = Sticky
       ELSE UNCHANGED <<sticky, stickyLeft>>
    /\ UNCHANGED <<pos, count, probeIdx>>

\* recordSuccessLocked
RecordSuccess(ip, ms) ==
    /\ stats' = [stats EXCEPT ![ip] = Observe(@, ms, 0)]
    /\ count' = [count EXCEPT ![ip] = 0]
    /\ probing' = [probing EXCEPT ![ip] = FALSE]
    /\ st' = [st EXCEPT ![ip] = "Active"]
    /\ left' = [left EXCEPT ![ip] = 0]
    /\ IF sticky \in {None, ip}
       THEN sticky' = ip /\ stickyLeft' = Sticky
       ELSE UNCHANGED <<sticky, stickyLeft>>
    /\ UNCHANGED <<pos, probeIdx>>

\* Bug variant: the sticky binding survives the failure.
RecordFailKeepSticky(ip) ==
    LET n == AtMost(count[ip] + 1, CountCap)
        quarantined == st[ip] = "Quarantine" \/ n >= CooldownMax IN
    /\ stats' = [stats EXCEPT ![ip] = Observe(@, ProbeTimeout, 100)]
    /\ count' = [count EXCEPT ![ip] = n]
    /\ probing' = [probing EXCEPT ![ip] = FALSE]
    /\ st' = [st EXCEPT ![ip] = IF quarantined THEN "Quarantine" ELSE "Cooldown"]
    /\ left' = [left EXCEPT ![ip] = IF quarantined THEN Quarantine ELSE Cooldown]
    /\ UNCHANGED <<pos, sticky, stickyLeft, probeIdx>>

\* recordFailLocked: a failed retry out of quarantine renews it, otherwise
\* CooldownMax failures in a row lead there and fewer to a short cooldown.
RecordFail(ip) ==
    LET n == AtMost(count[ip] + 1, CountCap)
        quarantined == st[ip] = "Quarantine" \/ n >= CooldownMax IN
    /\ stats' = [stats EXCEPT ![ip] = Observe(@, ProbeTimeout, 100)]
    /\ count' = [count EXCEPT ![ip] = n]
    /\ probing' = [probing EXCEPT ![ip] = FALSE]
    /\ st' = [st EXCEPT ![ip] = IF quarantined THEN "Quarantine" ELSE "Cooldown"]
    /\ left' = [left EXCEPT ![ip] = IF quarantined THEN Quarantine ELSE Cooldown]
    /\ IF sticky = ip THEN sticky' = None /\ stickyLeft' = 0
                      ELSE UNCHANGED <<sticky, stickyLeft>>
    /\ UNCHANGED <<pos, probeIdx>>

\* Report: an address outside the pool is not tracked.
Report(ip, ok) ==
    IF ip \notin Pool THEN UNCHANGED poolVars
    ELSE IF ok THEN \E ms \in RTTs : RecordSuccess(ip, ms)
               ELSE RecordFail(ip)

----------------------------------------------------------------------------
(* Actions.                                                                *)

\* A new scheduler, apart from what is in the pool and what Preflight runs.
Fresh ==
    /\ st = [ip \in IPs |-> "New"]
    /\ probing = [ip \in IPs |-> FALSE]
    /\ left = [ip \in IPs |-> 0]
    /\ count = [ip \in IPs |-> 0]
    /\ stats = [ip \in IPs |-> NoStats]
    /\ sticky = None /\ stickyLeft = 0 /\ probeIdx = 0
    /\ wantResolve = FALSE /\ resolving = "no" /\ refresh = {}

Init == Fresh /\ pos = [ip \in IPs |-> 0] /\ preflight = {}

\* Candidates arrive from the bootstrap chain, last_good or a rules update.
AddCandidates(S) == AppendCandidates(S) /\ UNCHANGED probeVars

PickValidated == PickValidatedStep /\ UNCHANGED probeVars

\* An empty answer means the pool is exhausted and spawns resolveAsync.
PickN(n, exclude) ==
    /\ PickNStep(n, exclude)
    /\ wantResolve' = (wantResolve \/ (n > 0 /\ RaceOrder(n, exclude) = {}))
    /\ UNCHANGED <<resolving, preflight, refresh>>

\* Pick: a validated address, otherwise the next touchstone, otherwise the
\* pool is exhausted and resolveAsync is spawned.
Pick ==
    /\ BindValidated
    /\ IF Validated # None
       THEN UNCHANGED <<st, probing, left, probeIdx, wantResolve>>
       ELSE IF RotatePool # {}
            THEN /\ Claim({RotatePick})
                 /\ probeIdx' = RotateSlot + 1
                 /\ UNCHANGED wantResolve
            ELSE /\ wantResolve' = TRUE
                 /\ UNCHANGED <<st, probing, left, probeIdx>>
    /\ UNCHANGED <<pos, count, stats, resolving, preflight, refresh>>

ReleaseCandidates(S) == ReleaseStep(S) /\ UNCHANGED probeVars

\* A connection or a download reports what became of its address.
ReportConn(ip, ok) == Report(ip, ok) /\ UNCHANGED probeVars

\* resolveAsync enters: one lookup per host at a time.
ResolveEnter ==
    /\ wantResolve
    /\ wantResolve' = FALSE
    /\ resolving' = IF resolving = "no" THEN "lookup" ELSE resolving
    /\ UNCHANGED <<poolVars, preflight, refresh>>

\* The lookup answers S ({} stands for an error); if anything was new a
\* Preflight is spawned.
ResolveAnswer(S) ==
    /\ resolving = "lookup"
    /\ AppendCandidates(S)
    /\ resolving' = IF S \ Pool # {} THEN "preflight" ELSE "exit"
    /\ UNCHANGED <<wantResolve, preflight, refresh>>

\* The deferred delete of the resolving mark.
ResolveExit ==
    /\ resolving \in {"exit", "preflight"}
    /\ resolving' = "no"
    /\ preflight' = IF resolving = "preflight"
                    THEN preflight \cup {ip \in Pool : st[ip] = "New"} ELSE preflight
    /\ UNCHANGED <<poolVars, wantResolve, refresh>>

\* Preflight takes every New candidate; the dials run without the lock.
PreflightStart ==
    /\ preflight' = preflight \cup {ip \in Pool : st[ip] = "New"}
    /\ UNCHANGED <<poolVars, wantResolve, resolving, refresh>>

PreflightReport(ip, ok) ==
    /\ ip \in preflight
    /\ Report(ip, ok)
    /\ preflight' = preflight \ {ip}
    /\ UNCHANGED <<wantResolve, resolving, refresh>>

\* ProbeBest takes the TopN best of the Active and New candidates.  Rounds
\* of the refresh loop do not overlap.
RefreshTargets ==
    LET C == {ip \in Pool : st[ip] \in {"Active", "New"}}
    IN  {ip \in C : Cardinality({o \in C \ {ip} : Better(o, ip)}) < TopN}

RefreshStart ==
    /\ refresh = {}
    /\ refresh' = RefreshTargets
    /\ UNCHANGED <<poolVars, wantResolve, resolving, preflight>>

RefreshReport(ip, ok) ==
    /\ ip \in refresh
    /\ Report(ip, ok)
    /\ refresh' = refresh \ {ip}
    /\ UNCHANGED <<wantResolve, resolving, preflight>>

\* One tick of the clock.
Tick ==
    /\ left' = [ip \in IPs |-> IF left[ip] > 0 THEN left[ip] - 1 ELSE 0]
    /\ stickyLeft' = IF stickyLeft > 0 THEN stickyLeft - 1 ELSE 0
    /\ UNCHANGED <<pos, st, probing, count, stats, sticky, probeIdx, probeVars>>

\* What goes on beside the connections.
Background ==
    \/ Tick
    \/ ResolveEnter \/ ResolveExit
    \/ \E S \in SUBSET IPs : ResolveAnswer(S)
    \/ PreflightStart \/ RefreshStart
    \/ \E ip \in IPs, ok \in BOOLEAN : PreflightReport(ip, ok) \/ RefreshReport(ip, ok)

\* Callers of the scheduler, in any order: a report may be arbitrarily late.
Calls ==
    \/ Pick \/ PickValidated
    \/ \E n \in 1..Cardinality(IPs), X \in SUBSET IPs : PickN(n, X)
    \/ \E S \in SUBSET IPs : AddCandidates(S) \/ ReleaseCandidates(S)
    \/ \E ip \in IPs, ok \in BOOLEAN : ReportConn(ip, ok)

Next == Background \/ Calls

Spec == Init /\ [][Next]_schedVars

----------------------------------------------------------------------------
(* Properties.                                                             *)

\* Every variable has its type and the sticky window its configured length.
PoolTypeOK ==
    /\ pos \in [IPs -> Nat]
    /\ st \in [IPs -> States]
    /\ probing \in [IPs -> BOOLEAN]
    /\ left \in [IPs -> Nat]
    /\ count \in [IPs -> 0..CountCap]
    /\ stats \in [IPs -> [rtt : Int, cv : Int, fail : Int]]
    /\ sticky \in IPs \cup {None}
    /\ stickyLeft \in 0..Sticky
    /\ probeIdx \in Nat

ProbeTypeOK ==
    /\ wantResolve \in BOOLEAN
    /\ resolving \in {"no", "lookup", "preflight", "exit"}
    /\ preflight \subseteq IPs
    /\ refresh \subseteq IPs

TypeOK == PoolTypeOK /\ ProbeTypeOK

\* Circuit breaking beats stickiness (sched.go Pick and recordFailLocked):
\* whatever order claims, releases and late reports arrive in, a sticky
\* address is a pool member in state Active, so the sticky fast path never
\* serves an isolated address.
StickyIsActive == sticky # None => sticky \in Pool /\ st[sticky] = "Active"

\* The probing mark and the Probing state are one thing: no caller leaves an
\* address Probing without its mark (which rotatable would hand out twice)
\* nor marks an address in another state (which rotatable would never hand
\* out again once its isolation ends).
ClaimIffProbing == \A ip \in IPs : probing[ip] <=> st[ip] = "Probing"

\* The failure count and the state agree: a short cooldown means fewer than
\* CooldownMax failures in a row, quarantine at least that many, and an
\* Active address has a clean record.
CountMatchesState ==
    \A ip \in IPs :
        /\ st[ip] = "Active" => count[ip] = 0
        /\ st[ip] = "Cooldown" => count[ip] \in 1..(CooldownMax - 1)
        /\ st[ip] = "Quarantine" => count[ip] >= CooldownMax

\* Isolation holds until its deadline: an address in an unexpired cooldown or
\* quarantine is never handed out as a touchstone or made New, whatever is
\* released or reported late and however empty the pool is; only a success
\* report ends it early, and no failure turns a quarantine into the shorter
\* cooldown.  So the code; the state diagram of state.go has another way out,
\* ExhaustionReleases below.
Isolated(ip) == st[ip] \in {"Cooldown", "Quarantine"} /\ left[ip] > 0

IsolationHolds ==
    [][\A ip \in IPs : Isolated(ip) =>
          st'[ip] \in {st[ip], "Quarantine", "Active"}]_schedVars

\* What state.go documents and rotateLocked does not do: a Pick that finds the
\* pool exhausted releases the quarantined addresses, which start anew.
Exhausted == Pool # {} /\ Validated = None /\ RotatePool = {}

ExhaustionReleases ==
    [][Pick /\ Exhausted => \A ip \in Pool : st'[ip] # "Quarantine"]_schedVars
=============================================================================
