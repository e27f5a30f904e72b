----------------------------- MODULE ChannelProof -----------------------------
(***************************************************************************)
(* Proofs about the channel breaker, for every window, threshold, cooldown *)
(* and width of durations and any number of doctors.  The state of the     *)
(* breaker alone gives the window and backoff invariants; that no verdict  *)
(* from before an outage ends it needs the race of two countdowns (Fresh): *)
(* a verdict overtaken by a trip runs out of time before the channel does. *)
(***************************************************************************)
EXTENDS Channel, TLAPS

\* While a verdict measured before a trip is still to be delivered, the
\* channel stays open for longer than the doctor has left.
Fresh ==
    \A d \in Doctors : docPc[d] # "idle" /\ stale[d] => st = "open" /\ lag[d] < openLeft

\* The base cooldown is shorter than no other one, whatever a shift leaves.
CooldownsKeepBase ==
    \A b \in 0..BackoffCap : CooldownFor(b) >= AtMost(OpenCooldown, BackoffMax)

\* A doctor delivers its verdict before the shortest cooldown is over.
DoctorsInTime == \A b \in 0..BackoffCap : CooldownFor(b) > DoctorLag

-----------------------------------------------------------------------------
(* Durations                                                               *)

LEMMA CooldownType ==
    ASSUME NEW b \in Nat
    PROVE  CooldownFor(b) \in 1..BackoffMax
  <1>1. 2^b \in Int OBVIOUS
  <1>2. OpenCooldown * 2^b \in Int BY <1>1, ChannelAssumption
  <1>3. ASSUME NEW x \in Int PROVE Wrap(x) \in Int
    <2>1. x + Half \in Int /\ 2 * Half \in Nat /\ 2 * Half > 0 BY ChannelAssumption
    <2>2. (x + Half) % (2 * Half) \in Int BY <2>1
    <2> QED BY <2>2, ChannelAssumption DEF Wrap
  <1>4. Wrap(OpenCooldown * 2^b) \in Int BY <1>2, <1>3
  <1> QED BY <1>4, ChannelAssumption DEF CooldownFor

-----------------------------------------------------------------------------
(* What a step of the breaker does, told apart from who takes it           *)

\* The breaker is tripped with exponent b.
Trips(b) == st' = "open" /\ openLeft' = CooldownFor(b) /\ winN' = 0 /\ winHead' = 0
            /\ stale' = [d \in Doctors |-> docPc[d] # "idle"]

LEMMA TripOf ==
    ASSUME NEW b \in Nat, Trip(b)
    PROVE  Trips(b) /\ CooldownFor(b) \in 1..BackoffMax
  <1>1. CooldownFor(b) \in 1..BackoffMax BY CooldownType
  <1> QED BY <1>1, ChannelAssumption DEF Trip, Trips, ResetWindow

\* What a verdict does: nothing but advance the state, a trip, or a close.
LEMMA VerdictOf ==
    ASSUME TypeOK, NEW v \in Verdicts, NotifyDoctor(v)
    PROVE  \/ st' = State /\ UNCHANGED <<openLeft, backoff, winN, winHead, stale>>
           \/ /\ State # "open" /\ ~BKnownDead
              /\ backoff' \in 0..BackoffCap
              /\ State = "closed" => backoff' = backoff
              /\ Trips(backoff') /\ openLeft' \in 1..BackoffMax
           \/ /\ State = "half" /\ v = "healthy"
              /\ st' = "closed" /\ backoff' = 0 /\ winN' = 0 /\ winHead' = 0
              /\ UNCHANGED <<openLeft, stale>>
  <1>1. CASE v \in Faults
    <2>1. NotifyFault BY <1>1 DEF NotifyDoctor, Faults
    <2>2. CASE BKnownDead \/ State = "open" BY <2>1, <2>2 DEF NotifyFault
    <2>3. CASE ~(BKnownDead \/ State = "open")
      <3> DEFINE b == IF State = "half" THEN AtMost(backoff + 1, BackoffCap) ELSE backoff
      <3>1. backoff' = b /\ Trip(b) BY <2>1, <2>3 DEF NotifyFault
      <3>2. b \in 0..BackoffCap /\ b \in Nat /\ (State = "closed" => b = backoff)
        BY ChannelAssumption DEF TypeOK, AtMost
      <3> HIDE DEF b
      <3>3. Trips(b) /\ CooldownFor(b) \in 1..BackoffMax BY <3>1, <3>2, TripOf
      <3>4. openLeft' \in 1..BackoffMax BY <3>3 DEF Trips
      <3> QED BY <2>3, <3>1, <3>2, <3>3, <3>4
    <2> QED BY <2>2, <2>3
  <1>2. CASE v = "healthy"
    <2>1. NotifyHealthy BY <1>2 DEF NotifyDoctor, Faults
    <2> QED BY <1>2, <2>1 DEF NotifyHealthy, ResetWindow
  <1>3. CASE v \notin Faults /\ v # "healthy" BY <1>3 DEF NotifyDoctor
  <1> QED BY <1>1, <1>2, <1>3

\* What the outcome of a request does: a trip, a reset of the window, or one
\* more sample in it.
LEMMA ReportOf ==
    ASSUME TypeOK, NEW ok \in BOOLEAN, ReportA(ok)
    PROVE  /\ win' \in [0..(WindowSize - 1) -> BOOLEAN] /\ UNCHANGED <<override, backoff, bVars, docPc, verdict, lag>>
           /\ \/ st = "closed" /\ ~BKnownDead /\ Trips(backoff) /\ openLeft' \in 1..BackoffMax
              \/ winN' = 0 /\ winHead' = 0 /\ UNCHANGED <<st, openLeft, stale>>
              \/ /\ winN' \in 0..WindowSize /\ winHead' \in 0..(WindowSize - 1)
                 /\ st = "closed" => winN' < MinSamples \/ ~RateHigh(win', winN')
                 /\ UNCHANGED <<st, openLeft, stale>>
  <1> DEFINE w == [win EXCEPT ![winHead] = ok]
             n == AtMost(winN + 1, WindowSize)
  <1>1. win' = w /\ UNCHANGED <<override, backoff, bVars, docPc, verdict, lag>> BY DEF ReportA
  <1>2. w \in [0..(WindowSize - 1) -> BOOLEAN] BY DEF TypeOK
  <1>3. n \in 0..WindowSize BY ChannelAssumption DEF TypeOK, AtMost
  <1>4. (winHead + 1) % WindowSize \in 0..(WindowSize - 1)
    <2>1. winHead + 1 \in Int /\ WindowSize \in Nat /\ WindowSize > 0 BY ChannelAssumption DEF TypeOK
    <2> QED BY <2>1
  <1>5. CASE st = "closed" /\ n >= MinSamples /\ RateHigh(w, n)
    <2>1. CASE BKnownDead
      <3>1. ResetWindow /\ UNCHANGED <<st, openLeft, stale>> BY <1>5, <2>1 DEF ReportA
      <3> QED BY <1>1, <1>2, <3>1 DEF ResetWindow
    <2>2. CASE ~BKnownDead
      <3>1. Trip(backoff) BY <1>5, <2>2 DEF ReportA
      <3>2. backoff \in Nat BY ChannelAssumption DEF TypeOK
      <3>3. Trips(backoff) /\ CooldownFor(backoff) \in 1..BackoffMax BY <3>1, <3>2, TripOf
      <3>4. openLeft' \in 1..BackoffMax BY <3>3 DEF Trips
      <3> QED BY <1>1, <1>2, <1>5, <2>2, <3>3, <3>4
    <2> QED BY <2>1, <2>2
  <1>6. CASE ~(st = "closed" /\ n >= MinSamples /\ RateHigh(w, n))
    <2>1. winN' = n /\ winHead' = (winHead + 1) % WindowSize /\ UNCHANGED <<st, openLeft, stale>>
      BY <1>6 DEF ReportA
    <2> HIDE DEF w, n
    <2>2. st = "closed" => winN' < MinSamples \/ ~RateHigh(win', winN')
      <3>1. n \in Int /\ MinSamples \in Int BY <1>3, ChannelAssumption
      <3> QED BY <1>1, <1>6, <2>1, <3>1
    <2>3. winN' \in 0..WindowSize /\ winHead' \in 0..(WindowSize - 1) BY <1>3, <1>4, <2>1
    <2> QED BY <1>1, <1>2, <2>1, <2>2, <2>3
  <1> QED BY <1>5, <1>6

-----------------------------------------------------------------------------
(* The invariants                                                          *)

Inv == TypeOK /\ ClosedMeansWindowOK /\ BackoffEndsWithOutage

LEMMA StateOf == TypeOK => State \in {"closed", "open", "half"} /\ (State = "closed" <=> st = "closed")
  BY DEF TypeOK, State, Expired

LEMMA InvInit == Init => Inv
  BY ChannelAssumption
     DEF Init, Inv, TypeOK, ClosedMeansWindowOK, BackoffEndsWithOutage, Verdicts

LEMMA StepReport == ASSUME Inv, NEW ok \in BOOLEAN, ReportA(ok) PROVE Inv'
  <1>0. TypeOK /\ backoff \in Nat /\ MinSamples > 0 BY ChannelAssumption DEF Inv, TypeOK
  <1>1. win' \in [0..(WindowSize - 1) -> BOOLEAN] /\ UNCHANGED <<override, backoff, bVars, docPc, verdict, lag>>
    BY <1>0, ReportOf
  <1>2. CASE Trips(backoff) /\ openLeft' \in 1..BackoffMax
    <2>1. st' = "open" /\ winN' = 0 /\ winHead' = 0 /\ stale' \in [Doctors -> BOOLEAN]
      BY <1>2 DEF Trips
    <2>2. TypeOK' BY <1>0, <1>1, <1>2, <2>1, ChannelAssumption DEF TypeOK, bVars
    <2> QED BY <2>1, <2>2 DEF Inv, ClosedMeansWindowOK, BackoffEndsWithOutage
  <1>3. CASE winN' = 0 /\ winHead' = 0 /\ UNCHANGED <<st, openLeft, stale>>
    <2>1. TypeOK' BY <1>0, <1>1, <1>3, ChannelAssumption DEF TypeOK, bVars
    <2>2. ClosedMeansWindowOK' BY <1>0, <1>3 DEF ClosedMeansWindowOK
    <2>3. BackoffEndsWithOutage' BY <1>1, <1>3 DEF Inv, BackoffEndsWithOutage
    <2> QED BY <2>1, <2>2, <2>3 DEF Inv
  <1>4. CASE /\ winN' \in 0..WindowSize /\ winHead' \in 0..(WindowSize - 1)
             /\ st = "closed" => winN' < MinSamples \/ ~RateHigh(win', winN')
             /\ UNCHANGED <<st, openLeft, stale>>
    <2>1. TypeOK' BY <1>0, <1>1, <1>4 DEF TypeOK, bVars
    <2>2. ClosedMeansWindowOK'
      <3>1. RateHigh(win, winN)' <=> RateHigh(win', winN') BY DEF RateHigh, Fails
      <3> QED BY <1>4, <3>1 DEF ClosedMeansWindowOK
    <2>3. BackoffEndsWithOutage' BY <1>1, <1>4 DEF Inv, BackoffEndsWithOutage
    <2> QED BY <2>1, <2>2, <2>3 DEF Inv
  <1> QED BY <1>0, <1>2, <1>3, <1>4, ReportOf

LEMMA StepNotify == ASSUME Inv, NEW d \in Doctors, DocNotify(d) PROVE Inv'
  <1>0. TypeOK /\ verdict[d] \in Verdicts /\ MinSamples > 0 BY ChannelAssumption DEF Inv, TypeOK
  <1>1. /\ NotifyDoctor(verdict[d]) /\ UNCHANGED <<override, win, bVars>>
        /\ docPc' = [docPc EXCEPT ![d] = "idle"] /\ verdict' = [verdict EXCEPT ![d] = "none"]
        /\ lag' = [lag EXCEPT ![d] = 0]
    BY DEF DocNotify, Forget
  <1>2. /\ docPc' \in [Doctors -> {"idle", "cdn", "notify"}] /\ verdict' \in [Doctors -> Verdicts]
        /\ lag' \in [Doctors -> 0..DoctorLag]
    <2>1. 0 \in 0..DoctorLag BY ChannelAssumption
    <2> QED BY <1>0, <1>1, <2>1 DEF TypeOK, Verdicts
  <1>3. CASE st' = State /\ UNCHANGED <<openLeft, backoff, winN, winHead, stale>>
    <2>1. TypeOK' BY <1>0, <1>1, <1>2, <1>3, StateOf DEF TypeOK, bVars
    <2>2. ClosedMeansWindowOK'
      <3>1. RateHigh(win, winN)' <=> RateHigh(win, winN) BY <1>1, <1>3 DEF RateHigh, Fails
      <3> QED BY <1>0, <1>3, <3>1, StateOf DEF Inv, ClosedMeansWindowOK
    <2>3. BackoffEndsWithOutage' BY <1>0, <1>3, StateOf DEF Inv, BackoffEndsWithOutage
    <2> QED BY <2>1, <2>2, <2>3 DEF Inv
  <1>4. CASE backoff' \in 0..BackoffCap /\ Trips(backoff') /\ openLeft' \in 1..BackoffMax
    <2>1. st' = "open" /\ winN' = 0 /\ winHead' = 0 /\ stale' \in [Doctors -> BOOLEAN]
      BY <1>4 DEF Trips
    <2>2. TypeOK' BY <1>0, <1>1, <1>2, <1>4, <2>1, ChannelAssumption DEF TypeOK, bVars
    <2> QED BY <2>1, <2>2 DEF Inv, ClosedMeansWindowOK, BackoffEndsWithOutage
  <1>5. CASE /\ st' = "closed" /\ backoff' = 0 /\ winN' = 0 /\ winHead' = 0
             /\ UNCHANGED <<openLeft, stale>>
    <2>1. TypeOK' BY <1>0, <1>1, <1>2, <1>5, ChannelAssumption DEF TypeOK, bVars
    <2> QED BY <1>0, <1>5, <2>1 DEF Inv, ClosedMeansWindowOK, BackoffEndsWithOutage
  <1> QED BY <1>0, <1>1, <1>3, <1>4, <1>5, VerdictOf

\* The steps that leave the breaker alone, or only advance it.
LEMMA StepRest ==
    ASSUME Inv,
           \/ \E o \in Overrides : SetOverride(o)
           \/ Observe \/ Tick \/ DocStoreFails
           \/ \E d \in Doctors, v \in Verdicts : DocMeasure(d, v)
           \/ \E d \in Doctors, ok \in BOOLEAN : DocNotifyB(d, ok)
           \/ \E d \in Doctors : DocNoCDN(d)
    PROVE  Inv'
  <1>0. TypeOK BY DEF Inv
  <1>1. UNCHANGED <<backoff, win, winN, winHead>> /\ st' \in {st, State}
    BY DEF SetOverride, Observe, Tick, DocStoreFails, DocMeasure, DocNotifyB, DocNoCDN,
           breakVars, winVars, docVars
  <1>2. TypeOK'
    <2>1. ASSUME NEW o \in Overrides, SetOverride(o) PROVE TypeOK'
      BY <1>0, <2>1 DEF TypeOK, SetOverride, breakVars, winVars, bVars, docVars
    <2>2. ASSUME Observe PROVE TypeOK'
      BY <1>0, <2>2, StateOf DEF TypeOK, Observe, winVars, bVars, docVars
    <2>3. ASSUME Tick PROVE TypeOK'
      <3>1. openLeft' \in 0..BackoffMax /\ bLeft' \in 0..BHealthTTL
        BY <1>0, <2>3, ChannelAssumption DEF TypeOK, Tick
      <3>2. lag' \in [Doctors -> 0..DoctorLag]
        <4>1. \A d \in Doctors : (IF lag[d] > 0 THEN lag[d] - 1 ELSE 0) \in 0..DoctorLag
          BY <1>0, ChannelAssumption DEF TypeOK
        <4> QED BY <2>3, <4>1 DEF Tick
      <3> QED BY <1>0, <2>3, <3>1, <3>2 DEF TypeOK, Tick, winVars
    <2>4. 0 \in 0..DoctorLag /\ DoctorLag \in 0..DoctorLag /\ BHealthTTL \in 0..BHealthTTL
      BY ChannelAssumption
    <2>5. ASSUME DocStoreFails PROVE TypeOK'
      BY <1>0, <2>4, <2>5 DEF TypeOK, DocStoreFails, Forget, breakVars, winVars, bVars, Verdicts
    <2>6. ASSUME NEW d \in Doctors, NEW v \in Verdicts, DocMeasure(d, v) PROVE TypeOK'
      BY <1>0, <2>4, <2>6 DEF TypeOK, DocMeasure, breakVars, winVars, bVars
    <2>7. ASSUME NEW d \in Doctors, NEW ok \in BOOLEAN, DocNotifyB(d, ok) PROVE TypeOK'
      BY <1>0, <2>4, <2>7 DEF TypeOK, DocNotifyB, breakVars, winVars
    <2>8. ASSUME NEW d \in Doctors, DocNoCDN(d) PROVE TypeOK'
      BY <1>0, <2>8 DEF TypeOK, DocNoCDN, breakVars, winVars, bVars
    <2> QED BY <2>1, <2>2, <2>3, <2>5, <2>6, <2>7, <2>8
  <1>3. RateHigh(win, winN)' <=> RateHigh(win, winN) BY <1>1 DEF RateHigh, Fails
  <1>4. st' = "closed" => st = "closed" BY <1>0, <1>1, StateOf
  <1> QED BY <1>1, <1>2, <1>3, <1>4 DEF Inv, ClosedMeansWindowOK, BackoffEndsWithOutage

LEMMA InvStep == ASSUME Inv, [Next]_vars PROVE Inv'
  <1>1. CASE UNCHANGED vars
    <2>1. RateHigh(win, winN)' <=> RateHigh(win, winN)
      BY <1>1 DEF vars, breakVars, winVars, RateHigh, Fails
    <2> QED BY <1>1, <2>1 DEF Inv, TypeOK, ClosedMeansWindowOK, BackoffEndsWithOutage,
                              vars, breakVars, winVars, bVars, docVars
  <1>2. ASSUME NEW ok \in BOOLEAN, ReportA(ok) PROVE Inv' BY <1>2, StepReport
  <1>3. ASSUME NEW d \in Doctors, Doctor(d) PROVE Inv'
    BY <1>3, StepRest, StepNotify, ChannelAssumption DEF Doctor
  <1>4. CASE Observe \/ Tick \/ DocStoreFails \/ \E o \in Overrides : SetOverride(o)
    BY <1>4, StepRest, ChannelAssumption
  <1> QED BY <1>1, <1>2, <1>3, <1>4 DEF Next

-----------------------------------------------------------------------------
(* The switch of the channel and the two countdowns                        *)

\* Nothing but time changes the breaker.
Calm == st' \in {st, State} /\ openLeft' \in 0..openLeft

Tripped ==
    /\ State # "open" /\ ~BKnownDead
    /\ backoff' \in 0..BackoffCap /\ Trips(backoff') /\ openLeft' \in 1..BackoffMax

Closes(d) ==
    /\ docPc[d] = "notify" /\ State = "half" /\ verdict[d] = "healthy"
    /\ st' = "closed" /\ UNCHANGED <<openLeft, stale>>

LEMMA NotifySwitch ==
    ASSUME TypeOK, NEW d \in Doctors, DocNotify(d)
    PROVE  (Calm /\ st' = State /\ UNCHANGED <<openLeft, stale>>) \/ Tripped \/ Closes(d)
  <1>1. NotifyDoctor(verdict[d]) /\ verdict[d] \in Verdicts /\ docPc[d] = "notify" /\ openLeft \in Nat
    BY ChannelAssumption DEF DocNotify, TypeOK
  <1> QED BY <1>1, VerdictOf DEF Calm, Tripped, Closes

LEMMA ReportSwitch ==
    ASSUME TypeOK, NEW ok \in BOOLEAN, ReportA(ok)
    PROVE  (Calm /\ UNCHANGED <<st, openLeft, stale, docPc, lag>>) \/ Tripped
  <1>1. openLeft \in Nat /\ backoff \in 0..BackoffCap /\ (st = "closed" => State # "open")
    BY ChannelAssumption, StateOf DEF TypeOK
  <1>2. UNCHANGED <<backoff, docPc, lag>> BY ReportOf
  <1>3. CASE st = "closed" /\ ~BKnownDead /\ Trips(backoff) /\ openLeft' \in 1..BackoffMax
    BY <1>1, <1>2, <1>3 DEF Tripped
  <1>4. CASE UNCHANGED <<st, openLeft, stale>> BY <1>1, <1>2, <1>4 DEF Calm
  <1> QED BY <1>3, <1>4, ReportOf

LEMMA Switch ==
    ASSUME TypeOK, [Next]_vars
    PROVE  Calm \/ Tripped \/ \E d \in Doctors : Closes(d)
  <1>0. openLeft \in Nat BY ChannelAssumption DEF TypeOK
  <1>1. CASE UNCHANGED vars BY <1>0, <1>1 DEF Calm, vars, breakVars
  <1>2. ASSUME NEW ok \in BOOLEAN, ReportA(ok) PROVE Calm \/ Tripped BY <1>2, ReportSwitch
  <1>3. ASSUME NEW d \in Doctors, DocNotify(d) PROVE Calm \/ Tripped \/ Closes(d) BY <1>3, NotifySwitch
  <1>4. CASE Tick BY <1>0, <1>4 DEF Tick, Calm
  <1>5. CASE \/ Observe \/ DocStoreFails \/ \E o \in Overrides : SetOverride(o)
             \/ \E d \in Doctors, v \in Verdicts : DocMeasure(d, v)
             \/ \E d \in Doctors, ok \in BOOLEAN : DocNotifyB(d, ok)
             \/ \E d \in Doctors : DocNoCDN(d)
    BY <1>0, <1>5 DEF Calm, Observe, DocStoreFails, SetOverride, DocMeasure, DocNotifyB, DocNoCDN, breakVars
  <1> QED BY <1>1, <1>2, <1>3, <1>4, <1>5 DEF Next, Doctor

LEMMA FreshTrip == ASSUME TypeOK', DoctorsInTime, Tripped PROVE Fresh'
  <1> SUFFICES ASSUME NEW d \in Doctors PROVE st' = "open" /\ lag'[d] < openLeft'
    BY DEF Fresh
  <1>1. st' = "open" /\ openLeft' = CooldownFor(backoff') /\ backoff' \in 0..BackoffCap /\ openLeft' \in Nat
    BY DEF Tripped, Trips
  <1>2. lag'[d] \in 0..DoctorLag BY DEF TypeOK
  <1>3. openLeft' > DoctorLag BY <1>1 DEF DoctorsInTime
  <1> QED BY <1>1, <1>2, <1>3, ChannelAssumption

\* As long as such a verdict is due, the state is open indeed.
LEMMA FreshState ==
    ASSUME TypeOK, Fresh, NEW d \in Doctors, docPc[d] # "idle", stale[d]
    PROVE  State = "open" /\ st = "open"
  <1>1. st = "open" /\ lag[d] < openLeft /\ lag[d] \in 0..DoctorLag /\ openLeft \in Int
    BY ChannelAssumption DEF Fresh, TypeOK
  <1>2. openLeft # 0 BY <1>1, ChannelAssumption
  <1> QED BY <1>1, <1>2 DEF State, Expired

LEMMA FreshStep == ASSUME TypeOK, TypeOK', DoctorsInTime, Fresh, [Next]_vars PROVE Fresh'
  <1>1. CASE Tripped BY <1>1, FreshTrip
  <1>2. CASE UNCHANGED <<st, openLeft, stale, docPc, lag>> BY <1>2 DEF Fresh
  <1>3. CASE Tick
    <2> SUFFICES ASSUME NEW d \in Doctors, docPc[d] # "idle", stale[d]
                 PROVE  st' = "open" /\ lag'[d] < openLeft'
      BY <1>3 DEF Tick, Fresh
    <2>1. st = "open" /\ lag[d] < openLeft /\ lag[d] \in 0..DoctorLag /\ openLeft \in Nat /\ lag[d] > 0
      BY <1>3, ChannelAssumption DEF Fresh, TypeOK, Tick
    <2>2. st' = st /\ lag'[d] = lag[d] - 1 /\ openLeft' = openLeft - 1
      BY <1>3, <2>1, ChannelAssumption DEF Tick
    <2>3. lag[d] \in Int BY <2>1, ChannelAssumption
    <2> QED BY <2>1, <2>2, <2>3
  <1>4. CASE Observe
    <2> SUFFICES ASSUME NEW d \in Doctors, docPc[d] # "idle", stale[d]
                 PROVE  st' = "open" /\ lag[d] < openLeft
      BY <1>4 DEF Observe, Fresh, docVars
    <2> QED BY <1>4, FreshState DEF Observe, Fresh
  <1>5. ASSUME NEW d \in Doctors, DocNotify(d) PROVE Fresh'
    <2>1. CASE st' = State /\ UNCHANGED <<openLeft, stale>>
      <3> SUFFICES ASSUME NEW e \in Doctors, docPc'[e] # "idle", stale[e]
                   PROVE  st' = "open" /\ lag'[e] < openLeft
        BY <2>1 DEF Fresh
      <3>1. docPc[e] # "idle" /\ lag'[e] = lag[e] BY <1>5 DEF DocNotify, Forget, TypeOK
      <3> QED BY <2>1, <3>1, FreshState DEF Fresh
    <2>2. CASE Closes(d)
      <3> SUFFICES ASSUME NEW e \in Doctors, docPc'[e] # "idle", stale[e] PROVE FALSE
        BY <2>2 DEF Fresh, Closes
      <3>1. docPc[e] # "idle" BY <1>5 DEF DocNotify, Forget, TypeOK
      <3> QED BY <2>2, <3>1, FreshState DEF Closes
    <2> QED BY <1>1, <1>5, <2>1, <2>2, NotifySwitch
  <1>6. CASE DocStoreFails
    BY <1>6 DEF DocStoreFails, Forget, Fresh, breakVars, TypeOK
  <1>7. ASSUME NEW d \in Doctors, NEW v \in Verdicts, DocMeasure(d, v) PROVE Fresh'
    BY <1>7 DEF DocMeasure, Fresh, breakVars, TypeOK
  <1>8. ASSUME NEW d \in Doctors, DocNoCDN(d) \/ \E ok \in BOOLEAN : DocNotifyB(d, ok) PROVE Fresh'
    BY <1>8 DEF DocNoCDN, DocNotifyB, Fresh, breakVars, TypeOK
  <1>9. ASSUME NEW ok \in BOOLEAN, ReportA(ok) PROVE Fresh'
    BY <1>1, <1>2, <1>9, ReportSwitch
  <1>10. CASE (\E o \in Overrides : SetOverride(o)) \/ UNCHANGED vars
    BY <1>2, <1>10 DEF SetOverride, vars, breakVars, docVars
  <1> QED BY <1>3, <1>4, <1>5, <1>6, <1>7, <1>8, <1>9, <1>10 DEF Next, Doctor

-----------------------------------------------------------------------------
(* The theorems                                                            *)

\* Types, ring positions and deadlines, for every width of durations: the
\* shift of tripLocked never leaves a deadline outside 0..BackoffMax.
THEOREM BreakerTypes == Spec => []TypeOK
  <1>1. Inv /\ [Next]_vars => Inv' BY InvStep
  <1>2. Inv => TypeOK BY DEF Inv
  <1> QED BY <1>1, <1>2, InvInit, PTL DEF Spec

\* A closed channel never sits on a window that calls for a trip
\* (channel.go Report, resetWindowLocked).
THEOREM ClosedWindow == Spec => []ClosedMeansWindowOK
  <1>1. Inv /\ [Next]_vars => Inv' BY InvStep
  <1>2. Inv => ClosedMeansWindowOK BY DEF Inv
  <1> QED BY <1>1, <1>2, InvInit, PTL DEF Spec

\* The backoff exponent belongs to one outage (channel.go NotifyDoctor).
THEOREM BackoffEnds == Spec => []BackoffEndsWithOutage
  <1>1. Inv /\ [Next]_vars => Inv' BY InvStep
  <1>2. Inv => BackoffEndsWithOutage BY DEF Inv
  <1> QED BY <1>1, <1>2, InvInit, PTL DEF Spec

\* The deadline of an open channel is never moved away, and a trip opens it
\* for at least the base cooldown, where no overflow leaves less than that
\* (channel.go tripLocked, NotifyDoctor).
THEOREM DeadlineKept == ASSUME CooldownsKeepBase PROVE Spec => CooldownKept
  <1> DEFINE Kept == /\ State = "open" /\ State' = "open" => openLeft' <= openLeft
                     /\ (st # "open" /\ st' = "open") \/ openLeft' > openLeft
                          => openLeft' \in AtMost(OpenCooldown, BackoffMax)..BackoffMax
  <1>1. Inv /\ [Next]_vars => [Kept]_vars
    <2> SUFFICES ASSUME Inv, [Next]_vars PROVE Kept OBVIOUS
    <2>1. TypeOK /\ TypeOK' /\ openLeft \in Nat /\ openLeft' \in Nat
      BY InvStep, ChannelAssumption DEF Inv, TypeOK
    <2>2. CASE Calm
      <3>1. openLeft' <= openLeft BY <2>1, <2>2 DEF Calm
      <3>2. st' = "open" => st = "open" BY <2>2 DEF Calm, State
      <3> QED BY <2>1, <3>1, <3>2
    <2>3. CASE Tripped
      <3>1. openLeft' = CooldownFor(backoff') /\ backoff' \in 0..BackoffCap /\ openLeft' \in 1..BackoffMax
        BY <2>3 DEF Tripped, Trips
      <3>2. openLeft' >= AtMost(OpenCooldown, BackoffMax) BY <3>1 DEF CooldownsKeepBase
      <3>3. AtMost(OpenCooldown, BackoffMax) \in Nat BY ChannelAssumption DEF AtMost
      <3>4. openLeft' \in AtMost(OpenCooldown, BackoffMax)..BackoffMax
        BY <3>1, <3>2, <3>3, ChannelAssumption
      <3> QED BY <2>3, <3>4 DEF Tripped
    <2>4. ASSUME NEW d \in Doctors, Closes(d) PROVE Kept BY <2>1, <2>4 DEF Closes
    <2> QED BY <2>1, <2>2, <2>3, <2>4, Switch
  <1>2. Inv /\ [Next]_vars => Inv' BY InvStep
  <1> QED BY <1>1, <1>2, InvInit, PTL DEF Spec, CooldownKept

\* The channel switches on evidence only: no verdict from before an outage
\* ends it, with any number of doctors, if they deliver their verdicts before
\* the shortest cooldown is over; and nothing trips it while B is known dead.
THEOREM OnlyEvidence == ASSUME DoctorsInTime PROVE Spec => EvidenceOnly
  <1> DEFINE Evidence ==
        /\ st # "closed" /\ st' = "closed" => \E d \in Doctors : verdict[d] = "healthy" /\ ~stale[d]
        /\ State # "open" /\ State' = "open" => ~(bOK = "dead" /\ bLeft > 0)
  <1>1. Inv /\ Fresh /\ [Next]_vars => [Evidence]_vars
    <2> SUFFICES ASSUME Inv, Fresh, [Next]_vars PROVE Evidence OBVIOUS
    <2>1. TypeOK /\ openLeft \in Nat BY ChannelAssumption DEF Inv, TypeOK
    <2>2. CASE Calm
      <3>1. st' = "closed" => st = "closed" BY <2>2 DEF Calm, State
      <3>2. State' = "open" => State = "open"
        <4> SUFFICES ASSUME st' = "open", openLeft' # 0 PROVE State = "open"
          BY DEF State, Expired
        <4>1. st = "open" BY <2>2 DEF Calm, State
        <4>2. openLeft # 0 BY <2>1, <2>2 DEF Calm
        <4> QED BY <4>1, <4>2 DEF State, Expired
      <3> QED BY <3>1, <3>2
    <2>3. CASE Tripped BY <2>3 DEF Tripped, Trips, BKnownDead
    <2>4. ASSUME NEW d \in Doctors, Closes(d) PROVE Evidence
      <3>1. verdict[d] = "healthy" /\ ~stale[d] BY <2>1, <2>4, FreshState DEF Closes
      <3>2. State' = "closed" BY <2>4 DEF Closes, State, Expired
      <3> QED BY <3>1, <3>2
    <2> QED BY <2>1, <2>2, <2>3, <2>4, Switch
  <1>2. Inv /\ [Next]_vars => Inv' BY InvStep
  <1>3. Init => Fresh BY DEF Init, Fresh
  <1>4. Inv /\ Inv' /\ Fresh /\ [Next]_vars => Fresh' BY FreshStep DEF Inv
  <1> QED BY <1>1, <1>2, <1>3, <1>4, InvInit, PTL DEF Spec, EvidenceOnly
=============================================================================
