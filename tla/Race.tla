-------------------------------- MODULE Race --------------------------------
(***************************************************************************)
(* CONNECT handling of engine/proxy (tunnel.go, race.go) on top of the     *)
(* scheduler pool of one accelerated domain: the validated hot path, the   *)
(* staggered race of several candidates, the single-flight slot a race     *)
(* holds, the budget of a request, and the reports each of them sends to   *)
(* the scheduler.                                                          *)
(*                                                                         *)
(* A member of Conns is one client connection, served once by a goroutine  *)
(* of its own.  Each access to the scheduler or to the slot takes a lock   *)
(* and is one action; dials take any time and may end either way.          *)
(* The daemon has just started: the seeds are in the pool and Preflight is *)
(* verifying some of them while the first connections arrive; the others   *)
(* came after it had listed the pool.                                      *)
(***************************************************************************)
EXTENDS Sched

CONSTANTS
    Conns,      \* client connections
    Width,      \* Server.RaceWidth
    Verifying   \* bound: how many seeds Preflight is still verifying

ASSUME RaceAssumption == None \notin Conns /\ Width \in Nat \ {0} /\ Verifying \in Nat

VARIABLES
    slot,     \* the connection that holds the race slot of the host, or None
    pc,       \* where each connection is
    round,    \* rounds consumed
    exclude,  \* addresses this connection saw fail
    raced,    \* a race of this connection had candidates
    budget,   \* time left before its deadline: ample, short (< 2 s) or gone
    target,   \* the address it dials on the hot path or relays through
    cand,     \* what became of each address in its current race round
    unread    \* history: a round of this connection ended with a success
              \* that was never read from its channel as the first

connVars == <<pc, round, exclude, raced, budget, target, cand, unread>>
raceVars == <<schedVars, slot, connVars>>

NoCand == [ip \in IPs |-> "no"]
Having(c, s) == {ip \in IPs : cand[c][ip] = s}

Goto(c, l) == pc' = [pc EXCEPT ![c] = l]
Became(c, ip, s) == cand' = [cand EXCEPT ![c][ip] = s]

\* connectAccel returns with a connection: its variables are gone, but for the
\* addresses it saw fail, which are kept to compare the relay with.
Connected(c) ==
    /\ round' = [round EXCEPT ![c] = 0]
    /\ raced' = [raced EXCEPT ![c] = FALSE]
    /\ budget' = [budget EXCEPT ![c] = "ample"]
    /\ unread' = [unread EXCEPT ![c] = FALSE]

RacePhase == {"pick", "race", "report", "release", "win", "unlock"}

RaceInit ==
    /\ Fresh /\ preflight \in {S \in SUBSET IPs : Cardinality(S) <= Verifying}
    /\ pos \in {f \in [IPs -> 1..Cardinality(IPs)] : {f[ip] : ip \in IPs} = 1..Cardinality(IPs)}
    /\ slot = None
    /\ pc = [c \in Conns |-> "idle"]
    /\ round = [c \in Conns |-> 0]
    /\ exclude = [c \in Conns |-> {}]
    /\ raced = [c \in Conns |-> FALSE]
    /\ budget = [c \in Conns |-> "ample"]
    /\ target = [c \in Conns |-> None]
    /\ cand = [c \in Conns |-> NoCand]
    /\ unread = [c \in Conns |-> FALSE]

----------------------------------------------------------------------------
(* connectAccel: hot path, budget gate and slot.                           *)

\* A CONNECT for port 443 arrives.
Accept(c) ==
    /\ pc[c] = "idle"
    /\ Goto(c, "hot")
    /\ UNCHANGED <<schedVars, slot, round, exclude, raced, budget, target, cand, unread>>

\* ValidatedPick: an address that just failed this connection is not retried.
HotPick(c) ==
    /\ pc[c] = "hot"
    /\ PickValidatedStep
    /\ IF Validated \in IPs \ exclude[c]
       THEN Goto(c, "dial") /\ target' = [target EXCEPT ![c] = Validated]
       ELSE Goto(c, "gate") /\ UNCHANGED target
    /\ UNCHANGED <<probeVars, slot, round, exclude, raced, budget, cand, unread>>

HotOk(c) ==
    /\ pc[c] = "dial"
    /\ Goto(c, "relay")
    /\ Connected(c)
    /\ UNCHANGED <<schedVars, slot, exclude, target, cand>>

HotFail(c) ==
    /\ pc[c] = "dial"
    /\ Report(target[c], FALSE)
    /\ exclude' = [exclude EXCEPT ![c] = @ \cup {target[c]}]
    /\ target' = [target EXCEPT ![c] = None]
    /\ Goto(c, "gate")
    /\ UNCHANGED <<probeVars, slot, round, raced, budget, cand, unread>>

\* Too little budget left for another round, unless nothing was tried yet.
Gate(c) ==
    /\ pc[c] = "gate"
    /\ Goto(c, IF budget[c] # "ample" /\ (raced[c] \/ exclude[c] # {})
               THEN "finish" ELSE "acquire")
    /\ UNCHANGED <<schedVars, slot, round, exclude, raced, budget, target, cand, unread>>

\* Bug variant: the busy mark is not looked at.
AcquireUnchecked(c) ==
    /\ pc[c] = "acquire"
    /\ slot' = c /\ Goto(c, "pick")
    /\ UNCHANGED <<schedVars, round, exclude, raced, budget, target, cand, unread>>

\* acquireRaceSlot: take the free slot, or wait for the round of whoever
\* holds it unless the deadline has passed.
Acquire(c) ==
    /\ pc[c] = "acquire"
    /\ IF slot = None
       THEN slot' = c /\ Goto(c, "pick")
       ELSE /\ Goto(c, IF budget[c] = "gone" THEN "woken" ELSE "wait")
            /\ UNCHANGED slot
    /\ UNCHANGED <<schedVars, round, exclude, raced, budget, target, cand, unread>>

WaitTimeout(c) ==
    /\ pc[c] = "wait" /\ budget[c] = "gone"
    /\ Goto(c, "woken")
    /\ UNCHANGED <<schedVars, slot, round, exclude, raced, budget, target, cand, unread>>

\* A wait consumes no round: back to the hot path unless time is up.
Woken(c) ==
    /\ pc[c] = "woken"
    /\ Goto(c, IF budget[c] = "gone" THEN "finish" ELSE "hot")
    /\ UNCHANGED <<schedVars, slot, round, exclude, raced, budget, target, cand, unread>>

----------------------------------------------------------------------------
(* dialRaceRound.                                                          *)

\* Bug variant: the retry round forgets what has failed.
RacePickAll(c) ==
    LET S == RaceOrder(Width, {})
        first == {ip \in S : \A o \in S \ {ip} : DialBefore(ip, o)} IN
    /\ pc[c] = "pick"
    /\ PickNStep(Width, {})
    /\ wantResolve' = (wantResolve \/ S = {})
    /\ raced' = [raced EXCEPT ![c] = @ \/ S # {}]
    /\ cand' = [cand EXCEPT ![c] = [ip \in IPs |->
                  IF ip \in first THEN "dialing" ELSE IF ip \in S THEN "queued" ELSE "no"]]
    /\ Goto(c, IF S = {} THEN "unlock" ELSE "race")
    /\ UNCHANGED <<resolving, preflight, refresh, slot, round, exclude, budget, target, unread>>

\* RacingPick; the first candidate is dialled at once, the others queue
\* behind the stagger timer.
RacePick(c) ==
    LET S == RaceOrder(Width, exclude[c])
        first == {ip \in S : \A o \in S \ {ip} : DialBefore(ip, o)} IN
    /\ pc[c] = "pick"
    /\ PickNStep(Width, exclude[c])
    /\ wantResolve' = (wantResolve \/ S = {})
    /\ raced' = [raced EXCEPT ![c] = @ \/ S # {}]
    /\ cand' = [cand EXCEPT ![c] = [ip \in IPs |->
                  IF ip \in first THEN "dialing" ELSE IF ip \in S THEN "queued" ELSE "no"]]
    /\ Goto(c, IF S = {} THEN "unlock" ELSE "race")
    /\ UNCHANGED <<resolving, preflight, refresh, slot, round, exclude, budget, target, unread>>

Won(c) == Having(c, "won") # {}

\* The stagger timer fires; this may still happen after the race was won.
DialStart(c, ip) ==
    /\ pc[c] = "race" /\ cand[c][ip] = "queued"
    /\ Became(c, ip, "dialing")
    /\ UNCHANGED <<schedVars, slot, pc, round, exclude, raced, budget, target, unread>>

\* A dial succeeds and its goroutine puts the connection into ch.
DialOk(c, ip) ==
    /\ pc[c] = "race" /\ cand[c][ip] = "dialing"
    /\ Became(c, ip, "sent")
    /\ UNCHANGED <<schedVars, slot, pc, round, exclude, raced, budget, target, unread>>

\* The collecting loop reads a success: the first wins and cancels the rest, a
\* later one is a late winner.
Collect(c, ip) ==
    /\ pc[c] = "race" /\ cand[c][ip] = "sent"
    /\ Became(c, ip, IF Won(c) THEN "late" ELSE "won")
    /\ UNCHANGED <<schedVars, slot, pc, round, exclude, raced, budget, target, unread>>

\* Bug variant: every failing dial is taken for a cancelled one.
DialFailSilent(c, ip) ==
    /\ pc[c] = "race" /\ cand[c][ip] = "dialing"
    /\ Became(c, ip, "dropped")
    /\ UNCHANGED <<schedVars, slot, pc, round, exclude, raced, budget, target, unread>>

\* A dial that fails once the context is cancelled sends no result; one that
\* failed just before the cancellation is still a failure.
DialFail(c, ip) ==
    /\ pc[c] = "race" /\ cand[c][ip] = "dialing"
    /\ \/ Became(c, ip, "failed")
       \/ Won(c) /\ Became(c, ip, "dropped")
    /\ UNCHANGED <<schedVars, slot, pc, round, exclude, raced, budget, target, unread>>

\* Every goroutine has returned, so done is closed; the ones still queued saw
\* the cancellation.  The loop's select may take done although ch still holds
\* successes: the drain files them as late winners, the first one too.
RoundEnd(c) ==
    /\ pc[c] = "race"
    /\ Having(c, "dialing") = {}
    /\ Having(c, "queued") # {} => Won(c)
    /\ cand' = [cand EXCEPT ![c] = [ip \in IPs |-> IF @[ip] = "sent" THEN "late" ELSE @[ip]]]
    /\ unread' = [unread EXCEPT ![c] = @ \/ (Having(c, "sent") # {} /\ ~Won(c))]
    /\ Goto(c, "report")
    /\ UNCHANGED <<schedVars, slot, round, exclude, raced, budget, target>>

----------------------------------------------------------------------------
(* The reports of a round, each a call of its own, then the slot.          *)

RoundReportFail(c, ip) ==
    /\ pc[c] = "report" /\ cand[c][ip] = "failed"
    /\ Report(ip, FALSE)
    /\ exclude' = [exclude EXCEPT ![c] = @ \cup {ip}]
    /\ Became(c, ip, "no")
    /\ UNCHANGED <<probeVars, slot, pc, round, raced, budget, target, unread>>

RoundReportLate(c, ip) ==
    /\ pc[c] = "report" /\ Having(c, "failed") = {} /\ cand[c][ip] = "late"
    /\ Report(ip, TRUE)
    /\ Became(c, ip, "no")
    /\ UNCHANGED <<probeVars, slot, pc, round, exclude, raced, budget, target, unread>>

\* RacingRelease returns the candidates that were never dialled.
RoundRelease(c) ==
    /\ pc[c] = "report" /\ Having(c, "failed") = {} /\ Having(c, "late") = {}
    /\ ReleaseStep(Having(c, "queued"))
    /\ cand' = [cand EXCEPT ![c] = [ip \in IPs |-> IF @[ip] = "queued" THEN "no" ELSE @[ip]]]
    /\ Goto(c, IF Won(c) THEN "win" ELSE "unlock")
    /\ UNCHANGED <<probeVars, slot, round, exclude, raced, budget, target, unread>>

RoundReportWin(c) ==
    /\ pc[c] = "win"
    /\ \E ip \in Having(c, "won") :
          Report(ip, TRUE) /\ target' = [target EXCEPT ![c] = ip]
    /\ Goto(c, "unlock")
    /\ UNCHANGED <<probeVars, slot, round, exclude, raced, budget, cand, unread>>

\* The winner relays; a loser has consumed a round and goes on with n of them.
AfterRound(c, n) ==
    IF Won(c)
    THEN Connected(c)
    ELSE round' = [round EXCEPT ![c] = n] /\ UNCHANGED <<raced, budget, unread>>

Onward(c, n) == IF Won(c) THEN "relay" ELSE IF n < 2 THEN "hot" ELSE "finish"

\* Bug variant: the waiters are not told.
UnlockSilent(c) ==
    /\ pc[c] = "unlock"
    /\ slot' = None
    /\ cand' = [cand EXCEPT ![c] = NoCand]
    /\ AfterRound(c, round[c] + 1)
    /\ Goto(c, Onward(c, round[c] + 1))
    /\ UNCHANGED <<schedVars, exclude, target>>

\* Bug variant: the round that finds the pool empty is not consumed.
UnlockFreeRound(c) ==
    LET n == IF cand[c] = NoCand /\ exclude[c] = {} THEN round[c] ELSE round[c] + 1 IN
    /\ pc[c] = "unlock"
    /\ slot' = None
    /\ cand' = [cand EXCEPT ![c] = NoCand]
    /\ AfterRound(c, n)
    /\ pc' = [d \in Conns |->
                 IF d = c THEN Onward(c, n)
                 ELSE IF pc[d] = "wait" THEN "woken" ELSE pc[d]]
    /\ UNCHANGED <<schedVars, exclude, target>>

\* releaseRaceSlot wakes every waiter.
Unlock(c) ==
    /\ pc[c] = "unlock"
    /\ slot' = None
    /\ cand' = [cand EXCEPT ![c] = NoCand]
    /\ AfterRound(c, round[c] + 1)
    /\ pc' = [d \in Conns |->
                 IF d = c THEN Onward(c, round[c] + 1)
                 ELSE IF pc[d] = "wait" THEN "woken" ELSE pc[d]]
    /\ UNCHANGED <<schedVars, exclude, target>>

----------------------------------------------------------------------------
(* The end of a connection.                                                *)

\* 502 after a race without a winner; otherwise the domain name is dialled
\* with the system DNS.
Finish(c) ==
    /\ pc[c] = "finish"
    /\ Goto(c, IF raced[c] THEN "refused" ELSE "direct")
    /\ round' = [round EXCEPT ![c] = 0] /\ budget' = [budget EXCEPT ![c] = "ample"]
    /\ UNCHANGED <<schedVars, slot, exclude, raced, target, cand, unread>>

\* That dial gives a relay, of which nothing is reported since its target is no
\* member of the pool, or, like every dial error, a 502.
DirectEnd(c, ok) ==
    /\ pc[c] = "direct"
    /\ IF ok
       THEN Goto(c, "done") /\ Connected(c) /\ exclude' = [exclude EXCEPT ![c] = {}]
       ELSE Goto(c, "refused") /\ UNCHANGED <<round, exclude, raced, budget, unread>>
    /\ UNCHANGED <<schedVars, slot, target, cand>>

\* The relay is over and handle emits its event: ReportEvent books a success
\* unless the 200 could not be written or the handshake was dead.
RelayEnd(c, ok) ==
    /\ pc[c] = "relay"
    /\ Report(target[c], ok)
    /\ Goto(c, "done")
    /\ target' = [target EXCEPT ![c] = None]
    /\ exclude' = [exclude EXCEPT ![c] = {}]
    /\ UNCHANGED <<probeVars, slot, round, raced, budget, cand, unread>>

\* The deadline of a running request comes closer.  Time passes everywhere, but
\* it is read at these places only, and there as late as one likes.
BudgetPass(c) ==
    /\ pc[c] \in {"gate", "acquire", "wait", "woken"}
    /\ budget[c] # "gone"
    /\ budget' = [budget EXCEPT ![c] = IF @ = "ample" THEN "short" ELSE "gone"]
    /\ UNCHANGED <<schedVars, slot, pc, round, exclude, raced, target, cand, unread>>

\* The scheduler's clock and the start-up verification of the seeds.
Environment ==
    /\ \/ Tick
       \/ \E ip \in IPs, ok \in BOOLEAN : PreflightReport(ip, ok)
    /\ UNCHANGED <<slot, connVars>>

Dialing(c) ==
    \E ip \in IPs : DialStart(c, ip) \/ DialOk(c, ip) \/ Collect(c, ip) \/ DialFail(c, ip)

Reporting(c) ==
    \/ \E ip \in IPs : RoundReportFail(c, ip) \/ RoundReportLate(c, ip)
    \/ RoundRelease(c) \/ RoundReportWin(c)

ConnStep(c) ==
    \/ HotPick(c) \/ HotOk(c) \/ HotFail(c) \/ Gate(c)
    \/ Acquire(c) \/ WaitTimeout(c) \/ Woken(c)
    \/ RacePick(c) \/ Dialing(c) \/ RoundEnd(c) \/ Reporting(c)
    \/ Unlock(c) \/ Finish(c) \/ \E ok \in BOOLEAN : DirectEnd(c, ok)

RaceNext ==
    \/ \E c \in Conns : Accept(c) \/ ConnStep(c) \/ BudgetPass(c)
    \/ \E c \in Conns, ok \in BOOLEAN : RelayEnd(c, ok)
    \/ Environment

RaceSpec == RaceInit /\ [][RaceNext]_raceVars

\* The Go scheduler runs every goroutine that can run, a dial ends within its
\* timeout, and time passes.  A relay may last as long as the client likes.
Fairness == \A c \in Conns : WF_raceVars(ConnStep(c)) /\ WF_raceVars(BudgetPass(c))

LiveSpec == RaceSpec /\ Fairness

----------------------------------------------------------------------------
(* Properties.                                                             *)

\* Types of the variables of this module.
RaceTypeOK ==
    /\ slot \in Conns \cup {None}
    /\ pc \in [Conns -> {"idle", "hot", "dial", "gate", "acquire", "wait", "woken",
                         "finish", "refused", "direct", "relay", "done"} \cup RacePhase]
    /\ round \in [Conns -> 0..2]
    /\ exclude \in [Conns -> SUBSET IPs]
    /\ raced \in [Conns -> BOOLEAN]
    /\ budget \in [Conns -> {"ample", "short", "gone"}]
    /\ target \in [Conns -> IPs \cup {None}]
    /\ cand \in [Conns -> [IPs -> {"no", "queued", "dialing", "sent", "won", "late", "failed",
                                "dropped"}]]
    /\ unread \in [Conns -> BOOLEAN]

\* Single flight (race.go acquireRaceSlot / releaseRaceSlot): a connection is
\* in a race exactly while it holds the slot, and a connection waits only
\* while somebody holds it, so no wake-up is lost.
SlotDiscipline ==
    \A c \in Conns :
        /\ pc[c] \in RacePhase <=> slot = c
        /\ pc[c] = "wait" => slot # None

\* "A thousand connections do not amplify the storm" (race.go): whatever the
\* number of connections, a domain has at most Width race dials in flight.
StormBound ==
    Cardinality({dial \in Conns \X IPs : cand[dial[1]][dial[2]] = "dialing"}) <= Width

\* An address a connection has seen fail is neither raced nor dialled on its
\* hot path again by this connection, even if another one made it Active in
\* between.
NeverRedialed ==
    \A c \in Conns : \A ip \in exclude[c] :
        /\ cand[c][ip] = "no"
        /\ target[c] # ip

\* A 502 after a race is no accident of timing: this connection itself saw a
\* candidate fail, or a round of its own left a success unread.  Rounds cut
\* short by other winners, waits and empty pools are no reason.
RefusedHasEvidence ==
    \A c \in Conns : pc[c] = "refused" /\ raced[c] => exclude[c] # {} \/ unread[c]

\* A late winner is "a live candidate that completes its dial after the winner
\* was decided" (race.go, raceWin): there is a winner beside it.  The code
\* breaks this where done is taken before the channel is empty.
LateHasWinner ==
    \A c \in Conns : Having(c, "late") # {} => Won(c)

\* Every CONNECT is answered (race.go: "never hang silently"): it gets an
\* upstream, a connection to the domain itself or a 502, whoever else races.
Answered ==
    \A c \in Conns : pc[c] = "hot" ~> pc[c] \in {"relay", "done", "refused"}

=============================================================================
