------------------------------ MODULE Channel ------------------------------
(***************************************************************************)
(* The channel-level circuit breaker of engine/channel (Router) with the   *)
(* two doctors that drive its recovery: the periodic loop of               *)
(* cmd/ghydra/doctor_loop.go and the run the API starts (apicore.go        *)
(* doctorOnce).  Channel A is the direct one, channel B the CDN prefix.    *)
(*                                                                         *)
(* Every method of Router holds Router.mu and is one action.  A doctor     *)
(* measures first and calls NotifyB and NotifyDoctor later, so what it     *)
(* says may be about the past; traffic reports may be late as well.        *)
(* Deadlines are countdowns: now.Before(openUntil) reads "openLeft > 0".   *)
(***************************************************************************)
EXTENDS Integers, FiniteSets

CONSTANTS
    WindowSize,    \* Config.WindowSize
    MinSamples,    \* Config.MinSamples
    FailThreshold, \* Config.FailThreshold, in percent
    OpenCooldown,  \* Config.OpenCooldown, in ticks
    BackoffMax,    \* Config.BackoffMax, in ticks
    BHealthTTL,    \* Config.BHealthTTL, in ticks
    Half,          \* durations are machine integers in -Half..Half-1
    Doctors,       \* the doctors that may run at the same time
    Loop,          \* the one that is the periodic loop
    Overrides,     \* values the user may set the override to: auto, forceA, forceB
    DoctorLag,     \* ticks from a doctor's measurement of A to its verdict, at most
    BackoffCap     \* bound: backoff is kept exact up to here

ASSUME ChannelAssumption ==
    /\ WindowSize \in Nat \ {0}
    /\ MinSamples \in 1..WindowSize
    /\ FailThreshold \in 1..100
    /\ OpenCooldown \in Nat \ {0} /\ BackoffMax \in Nat \ {0}
    /\ BHealthTTL \in Nat
    /\ Half \in Nat \ {0} /\ "auto" \in Overrides
    /\ Loop \in Doctors /\ DoctorLag \in Nat /\ BackoffCap \in Nat \ {0}

VARIABLES
    override,  \* Router.override
    st,        \* Router.st
    openLeft,  \* ticks until openUntil
    backoff,   \* Router.backoff, saturating at BackoffCap
    win,       \* Router.win, the ring of the last outcomes
    winN,      \* Router.winN
    winHead,   \* Router.winHead
    bOK,       \* Router.bOK: what the last probe of B said
    bLeft,     \* ticks until that is older than BHealthTTL
    docPc,     \* where each doctor is
    verdict,   \* the verdict it will deliver
    lag,       \* ticks it has left to deliver it
    stale      \* channel A was tripped after it measured

winVars    == <<win, winN, winHead>>
breakVars  == <<st, openLeft, backoff, winVars>>
bVars      == <<bOK, bLeft>>
docVars    == <<docPc, verdict, lag, stale>>
vars       == <<override, breakVars, bVars, docVars>>

Verdicts  == {"none", "healthy", "source", "network", "unclear"}
Faults    == {"source", "network"}
Kinds     == {"connect", "git", "download", "plain"}

AtMost(x, b) == IF x > b THEN b ELSE x

----------------------------------------------------------------------------
(* The pieces of Router that run under its lock.                           *)

Expired == st = "open" /\ openLeft = 0

\* Bug variant: the deadline of an open channel is not looked at.
StateAsStored == st

\* stateLocked: the state after Open has been left for HalfOpen.
State == IF Expired THEN "half" ELSE st

\* failRateLocked, compared with the threshold.
Fails(w, n) == Cardinality({i \in 0..(n - 1) : ~w[i]})
RateHigh(w, n) == 100 * Fails(w, n) >= FailThreshold * n

\* bKnownDeadLocked
BKnownDead == bOK = "dead" /\ bLeft > 0

\* A shift of a signed duration keeps its low bits only.
Wrap(x) == ((x + Half) % (2 * Half)) - Half

\* Bug variant: the shift is not tested for overflow.
CooldownUnchecked(b) ==
    LET cd == Wrap(OpenCooldown * 2^b) IN IF cd > BackoffMax THEN BackoffMax ELSE cd

\* The time tripLocked opens the channel for.
CooldownFor(b) ==
    LET cd == Wrap(OpenCooldown * 2^b)
    IN  IF cd > BackoffMax \/ cd <= 0 THEN BackoffMax ELSE cd

\* Bug variant: only the write position is reset.
ResetHeadOnly == winN' = winN /\ winHead' = 0

\* resetWindowLocked
ResetWindow == winN' = 0 /\ winHead' = 0

\* Every verdict still to be delivered was measured before this trip.
Trip(b) ==
    /\ st' = "open"
    /\ openLeft' = (IF CooldownFor(b) < 0 THEN 0 ELSE CooldownFor(b))
    /\ ResetWindow
    /\ stale' = [d \in Doctors |-> docPc[d] # "idle"]

\* The channel Route answers for a kind of traffic.
RouteOf(k) ==
    CASE override = "forceA" -> "A"
      [] override = "forceB" -> IF k = "connect" THEN "A" ELSE "B"
      [] OTHER -> IF k = "connect" \/ State = "closed" THEN "A" ELSE "B"

----------------------------------------------------------------------------
(* Router's methods.                                                       *)

\* Bug variant: the write position of the ring does not wrap.
ReportPastEnd(ok) ==
    LET w == [win EXCEPT ![winHead] = ok]
        n == AtMost(winN + 1, WindowSize) IN
    /\ win' = w
    /\ IF st = "closed" /\ n >= MinSamples /\ RateHigh(w, n)
       THEN IF BKnownDead THEN ResetWindow /\ UNCHANGED <<st, openLeft, stale>>
                          ELSE Trip(backoff)
       ELSE /\ winN' = n /\ winHead' = winHead + 1
            /\ UNCHANGED <<st, openLeft, stale>>
    /\ UNCHANGED <<override, backoff, bVars, docPc, verdict, lag>>

\* The outcome of a request that went through A: CONNECT events always did,
\* plain requests when they were routed there.  (Outcomes of B are ignored.)
ReportA(ok) ==
    LET w == [win EXCEPT ![winHead] = ok]
        n == AtMost(winN + 1, WindowSize) IN
    /\ win' = w
    /\ IF st = "closed" /\ n >= MinSamples /\ RateHigh(w, n)
       THEN IF BKnownDead THEN ResetWindow /\ UNCHANGED <<st, openLeft, stale>>
                          ELSE Trip(backoff)
       ELSE /\ winN' = n /\ winHead' = (winHead + 1) % WindowSize
            /\ UNCHANGED <<st, openLeft, stale>>
    /\ UNCHANGED <<override, backoff, bVars, docPc, verdict, lag>>

\* Route and Snapshot: what they change is the state they advance.
Observe ==
    /\ st' = State
    /\ UNCHANGED <<override, openLeft, backoff, winVars, bVars, docVars>>

SetOverride(o) ==
    /\ override' = o
    /\ UNCHANGED <<breakVars, bVars, docVars>>

\* NotifyDoctor with a fault: nothing while B is known dead, a failed
\* re-check doubles the cooldown, an open channel keeps its deadline.
NotifyFault ==
    IF BKnownDead \/ State = "open"
    THEN st' = State /\ UNCHANGED <<openLeft, backoff, winN, winHead, stale>>
    ELSE LET b == IF State = "half" THEN AtMost(backoff + 1, BackoffCap) ELSE backoff
         IN  backoff' = b /\ Trip(b)

\* Bug variant: the exponent is kept for the next outage.
NotifyHealthyKeepBackoff ==
    IF State = "half"
    THEN st' = "closed" /\ ResetWindow /\ UNCHANGED <<openLeft, backoff, stale>>
    ELSE st' = State /\ UNCHANGED <<openLeft, backoff, winN, winHead, stale>>

\* Bug variant: a healthy verdict closes an open channel too.
NotifyHealthyAnytime ==
    IF State # "closed"
    THEN st' = "closed" /\ ResetWindow /\ backoff' = 0 /\ UNCHANGED <<openLeft, stale>>
    ELSE st' = State /\ UNCHANGED <<openLeft, backoff, winN, winHead, stale>>

\* NotifyDoctor with a healthy verdict: only a half-open channel closes.
NotifyHealthy ==
    IF State = "half"
    THEN st' = "closed" /\ ResetWindow /\ backoff' = 0 /\ UNCHANGED <<openLeft, stale>>
    ELSE st' = State /\ UNCHANGED <<openLeft, backoff, winN, winHead, stale>>

NotifyDoctor(v) ==
    CASE v \in Faults    -> NotifyFault
      [] v = "healthy"   -> NotifyHealthy
      [] OTHER           -> st' = State /\ UNCHANGED <<openLeft, backoff, winN, winHead, stale>>

----------------------------------------------------------------------------
(* The doctors.                                                            *)

\* A run starts to measure A; its verdict will be v.
DocMeasure(d, v) ==
    /\ docPc[d] = "idle"
    /\ docPc' = [docPc EXCEPT ![d] = "cdn"]
    /\ verdict' = [verdict EXCEPT ![d] = v]
    /\ lag' = [lag EXCEPT ![d] = DoctorLag]
    /\ stale' = [stale EXCEPT ![d] = FALSE]
    /\ UNCHANGED <<override, breakVars, bVars>>

\* NotifyB with the result of the CDN column.
DocNotifyB(d, ok) ==
    /\ docPc[d] = "cdn"
    /\ bOK' = IF ok THEN "ok" ELSE "dead"
    /\ bLeft' = BHealthTTL
    /\ docPc' = [docPc EXCEPT ![d] = "notify"]
    /\ UNCHANGED <<override, breakVars, verdict, lag, stale>>

\* No CDN prefix is configured.
DocNoCDN(d) ==
    /\ docPc[d] = "cdn"
    /\ docPc' = [docPc EXCEPT ![d] = "notify"]
    /\ UNCHANGED <<override, breakVars, bVars, verdict, lag, stale>>

Forget(d) ==
    /\ docPc' = [docPc EXCEPT ![d] = "idle"]
    /\ verdict' = [verdict EXCEPT ![d] = "none"]
    /\ lag' = [lag EXCEPT ![d] = 0]

\* The loop drops its verdict when it cannot open the store.
DocStoreFails ==
    /\ docPc[Loop] = "notify"
    /\ Forget(Loop)
    /\ stale' = [stale EXCEPT ![Loop] = FALSE]
    /\ UNCHANGED <<override, breakVars, bVars>>

DocNotify(d) ==
    /\ docPc[d] = "notify"
    /\ NotifyDoctor(verdict[d])
    /\ Forget(d)
    /\ UNCHANGED <<override, win, bVars>>

\* One tick of the clock; no doctor takes longer than DoctorLag.
Tick ==
    /\ \A d \in Doctors : docPc[d] # "idle" => lag[d] > 0
    /\ openLeft' = IF openLeft > 0 THEN openLeft - 1 ELSE 0
    /\ bLeft' = IF bLeft > 0 THEN bLeft - 1 ELSE 0
    /\ lag' = [d \in Doctors |-> IF lag[d] > 0 THEN lag[d] - 1 ELSE 0]
    /\ UNCHANGED <<override, st, backoff, winVars, bOK, docPc, verdict, stale>>

----------------------------------------------------------------------------
Init ==
    /\ override = "auto" /\ st = "closed" /\ openLeft = 0 /\ backoff = 0
    /\ win = [i \in 0..(WindowSize - 1) |-> FALSE] /\ winN = 0 /\ winHead = 0
    /\ bOK = "unknown" /\ bLeft = 0
    /\ docPc = [d \in Doctors |-> "idle"]
    /\ verdict = [d \in Doctors |-> "none"]
    /\ lag = [d \in Doctors |-> 0]
    /\ stale = [d \in Doctors |-> FALSE]

Doctor(d) ==
    \/ \E v \in Verdicts : DocMeasure(d, v)
    \/ \E ok \in BOOLEAN : DocNotifyB(d, ok)
    \/ DocNoCDN(d) \/ DocNotify(d)

Next ==
    \/ \E ok \in BOOLEAN : ReportA(ok)
    \/ \E o \in Overrides : SetOverride(o)
    \/ Observe \/ Tick \/ DocStoreFails
    \/ \E d \in Doctors : Doctor(d)

Spec == Init /\ [][Next]_vars

\* The loop measures every interval and its goroutine runs on, as does that of
\* an API run once started; time passes; the store can be opened again and
\* again.  Nothing makes anybody call Route or start a doctor by hand.
Fairness ==
    /\ SF_vars(Tick)
    /\ WF_vars(\E v \in Verdicts : DocMeasure(Loop, v))
    /\ \A d \in Doctors :
          /\ WF_vars(DocNoCDN(d) \/ \E ok \in BOOLEAN : DocNotifyB(d, ok))
          /\ SF_vars(DocNotify(d))

LiveSpec == Spec /\ Fairness

----------------------------------------------------------------------------
(* Properties.                                                             *)

\* Types; the ring positions stay inside the ring and deadlines in bounds.
TypeOK ==
    /\ override \in Overrides
    /\ st \in {"closed", "open", "half"}
    /\ openLeft \in 0..BackoffMax
    /\ backoff \in 0..BackoffCap
    /\ win \in [0..(WindowSize - 1) -> BOOLEAN]
    /\ winN \in 0..WindowSize
    /\ winHead \in 0..(WindowSize - 1)
    /\ bOK \in {"unknown", "ok", "dead"}
    /\ bLeft \in 0..BHealthTTL
    /\ docPc \in [Doctors -> {"idle", "cdn", "notify"}]
    /\ verdict \in [Doctors -> Verdicts]
    /\ lag \in [Doctors -> 0..DoctorLag]
    /\ stale \in [Doctors -> BOOLEAN]

\* A closed channel never sits on a window that calls for a trip: neither the
\* samples an outage left behind nor a suppressed trip survive as a full
\* window of failures (Report, NotifyDoctor, resetWindowLocked).
ClosedMeansWindowOK ==
    st = "closed" => winN < MinSamples \/ ~RateHigh(win, winN)

\* The backoff exponent belongs to one outage: a recovered channel starts the
\* next outage with the base cooldown.
BackoffEndsWithOutage == st = "closed" => backoff = 0

\* While a channel stays open its deadline is never moved away (NotifyDoctor,
\* "already open: the cooldown is not restarted"), whatever the doctors and
\* late failures of the same outage report; and a trip, or a failed re-check,
\* opens it for at least the base cooldown (or the maximum, when that is
\* shorter), for every exponent a long outage reaches: the shifted duration
\* may overflow.
CooldownKept ==
    [][/\ State = "open" /\ State' = "open" => openLeft' <= openLeft
       /\ (st # "open" /\ st' = "open") \/ openLeft' > openLeft
            => openLeft' \in AtMost(OpenCooldown, BackoffMax)..BackoffMax]_vars

\* The channel switches on evidence only.  It closes on a result measured after
\* the trip: with two doctors and delayed verdicts, none from before the outage
\* ends it; and neither traffic nor a doctor trips it while a probe of B younger
\* than its TTL says B is dead.
EvidenceOnly ==
    [][/\ st # "closed" /\ st' = "closed"
            => \E d \in Doctors : verdict[d] = "healthy" /\ ~stale[d]
       /\ State # "open" /\ State' = "open" => ~(bOK = "dead" /\ bLeft > 0)]_vars

\* Recovery: if from some time on everything the doctors measure is healthy,
\* channel A carries traffic again and again, even if nobody calls Route.
Recovers ==
    <>[](\A d \in Doctors : docPc[d] # "idle" => verdict[d] = "healthy")
        => []<>(st = "closed")
=============================================================================
