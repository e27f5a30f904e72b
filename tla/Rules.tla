------------------------------- MODULE Rules -------------------------------
(***************************************************************************)
(* The rule updates of engine/rules: the Provider with its three floors    *)
(* (the rules embedded in the binary, the signed pair of files on disk,    *)
(* the version accepted last) and the Refresher that pulls new releases,   *)
(* with what main.go and rulesglue.go persist in the row rules_state.      *)
(*                                                                         *)
(* A signed release is its version.  Two goroutines refresh: "loop", which *)
(* pulls periodically, and "manual", which POST /api/rules/refresh starts. *)
(* Apply runs under Provider.mu, but each file, the row and the snapshot   *)
(* are written one after the other and the process may die in between.     *)
(* While the process is down its variables keep their last values, so that *)
(* properties can compare a restart with what was there before.            *)
(***************************************************************************)
EXTENDS Integers, FiniteSets

CONSTANTS
    MaxVersion,  \* bound: releases are 1..MaxVersion
    Ships,       \* the versions the binaries that may be installed embed
    Steps,       \* len(RefresherConfig.BackoffSteps)
    Faults,      \* what else may go wrong, of FaultKinds
    MaxFaults    \* bound: how many of them

\* "crash": the process dies in the middle of a refresh (serve's exit does
\* not wait for a manual one either); "damage": the files are lost or
\* altered while it is down; "db": the row cannot be written or read;
\* "partial": the second file of a pair cannot be written; "overlap": the
\* loop and a manual refresh run at the same time, as only the manual ones
\* call tryEnter.
FaultKinds == {"crash", "damage", "db", "partial", "overlap"}

ASSUME RulesAssumption ==
    /\ MaxVersion \in Nat \ {0} /\ Steps \in Nat \ {0} /\ MaxFaults \in Nat
    /\ Ships \subseteq 1..MaxVersion /\ Ships # {}
    /\ Faults \subseteq FaultKinds

VARIABLES
    embedded,  \* the version of the embedded rules
    sigV,      \* the release current.json.minisig belongs to, 0 for none
    jsonV,     \* the release current.json is, 0 for none
    row,       \* rules_state: seen_max, failures in a row, backoff
    up,        \* serve runs
    snap,      \* version of Provider.snap
    seenMax,   \* Provider.seenMax
    fails,     \* RefreshState.ConsecutiveFailures, up to Steps + 1
    off,       \* the step of the backoff that has not expired, 0 for none
    held,      \* the timer of the loop was set to the end of a backoff
    g,         \* what each goroutine is doing
    best,      \* highest version that has ever been in force
    faults     \* which faults there have been

files == <<sigV, jsonV>>
state == <<fails, off>>
vars  == <<embedded, files, row, up, snap, seenMax, state, held, g, best, faults>>

Goroutines == {"loop", "manual"}
Versions   == 1..MaxVersion

NotRunning == [pc |-> "idle", cand |-> 0, seen |-> 0, ok |-> FALSE, fails |-> 0, off |-> 0]

At(a, l)   == g[a].pc = l
Goto(a, l) == g' = [g EXCEPT ![a].pc = l]
Fault(k)   == k \in Faults \ faults /\ Cardinality(faults) < MaxFaults /\ faults' = faults \union {k}

Higher(x, y) == IF x > y THEN x ELSE y

----------------------------------------------------------------------------
(* Starting and stopping serve.                                            *)

\* loadDisk verifies the pair; whatever is wrong, the embedded rules serve.
Loaded(e) == IF jsonV # 0 /\ sigV = jsonV THEN jsonV ELSE e

\* Bug variant: the version in force alone is the floor.
FloorOfDisk(v, seen) == v

\* Bug variant: the persisted value replaces the floor.
FloorOfRow(v, seen) == IF seen # 0 THEN seen ELSE v

\* restoreSeenMax, SetSeenMax: the floor only rises.
Floor(v, seen) == Higher(v, seen)

\* Refresher.Start restores counters and backoff; the first pull waits for
\* the backoff.  An unreadable row is skipped.
Start ==
    /\ ~up
    /\ up' = TRUE
    /\ embedded' \in {e \in Ships : e >= embedded}
    /\ snap' = Loaded(embedded')
    /\ best' = Higher(best, snap')
    /\ \/ /\ seenMax' = Floor(snap', row.seen)
          /\ fails' = row.fails /\ off' = row.off /\ UNCHANGED faults
       \/ seenMax' = snap' /\ fails' = 0 /\ off' = 0 /\ Fault("db")
    /\ held' = (off' # 0)
    /\ g' = [a \in Goroutines |-> NotRunning]
    /\ UNCHANGED <<files, row>>

\* Stop waits for the loop.
Stop ==
    /\ up /\ \A a \in Goroutines : At(a, "idle")
    /\ up' = FALSE
    /\ UNCHANGED <<embedded, files, row, snap, seenMax, state, held, g, best, faults>>

Crash ==
    /\ up /\ \E a \in Goroutines : ~At(a, "idle")
    /\ Fault("crash")
    /\ up' = FALSE
    /\ g' = [a \in Goroutines |-> NotRunning]
    /\ UNCHANGED <<embedded, files, row, snap, seenMax, state, held, best>>

Damage ==
    /\ ~up /\ jsonV # 0
    /\ Fault("damage")
    /\ jsonV' = 0 /\ sigV' = 0
    /\ UNCHANGED <<embedded, row, up, snap, seenMax, state, held, g, best>>

----------------------------------------------------------------------------
(* Refresher: who pulls, and what comes back.                              *)

MayRefresh(a) ==
    /\ up /\ At(a, "idle")
    /\ IF \A b \in Goroutines : At(b, "idle") THEN UNCHANGED faults ELSE Fault("overlap")

\* The timer of the loop: the interval, or the backoff if there was one when
\* it was set.
LoopFires ==
    /\ MayRefresh("loop") /\ ~held
    /\ Goto("loop", "pull")
    /\ UNCHANGED <<embedded, files, row, up, snap, seenMax, state, held, best>>

\* Trigger: one manual refresh at a time, in a backoff or not.
Trigger ==
    /\ MayRefresh("manual")
    /\ Goto("manual", "pull")
    /\ UNCHANGED <<embedded, files, row, up, snap, seenMax, state, held, best>>

\* The backoff ends (one deadline: the row holds the same one), and with it
\* the wait of the loop, even if a manual refresh has ended the backoff.
Expire ==
    /\ off # 0 \/ row.off # 0 \/ held
    /\ off' = 0 /\ row' = [row EXCEPT !.off = 0] /\ held' = FALSE
    /\ g' = [a \in Goroutines |-> [g[a] EXCEPT !.off = 0]]
    /\ UNCHANGED <<embedded, files, up, snap, seenMax, fails, best, faults>>

\* pull: some source has a matching pair, of any release it has kept.
Pulled(a, v) ==
    /\ At(a, "pull")
    /\ g' = [g EXCEPT ![a].pc = "apply", ![a].cand = v]
    /\ UNCHANGED <<embedded, files, row, up, snap, seenMax, state, held, best, faults>>

\* No source answers, or what it has is oversized.
PullFails(a) ==
    /\ At(a, "pull")
    /\ g' = [g EXCEPT ![a].pc = "finish", ![a].ok = FALSE]
    /\ UNCHANGED <<embedded, files, row, up, snap, seenMax, state, held, best, faults>>

----------------------------------------------------------------------------
(* Provider.Apply, under Provider.mu.                                      *)

Applying(a) == g[a].pc \in {"sig", "json", "publish"}

\* Bug variant: no release may be skipped.
NewerByOne(v) == v = seenMax + 1

\* DecideVersion
Newer(v) == v > seenMax

\* A pair that does not verify, or is no newer than the floor, is refused.
Decide(a) ==
    /\ At(a, "apply") /\ \A b \in Goroutines : ~Applying(b)
    /\ \/ Newer(g[a].cand) /\ Goto(a, "sig")
       \/ g' = [g EXCEPT ![a].pc = "finish", ![a].ok = FALSE]
    /\ UNCHANGED <<embedded, files, row, up, snap, seenMax, state, held, best, faults>>

\* SavePairAtomic: first the signature, then the rules.
WriteSig(a) ==
    /\ At(a, "sig")
    /\ sigV' = g[a].cand
    /\ Goto(a, "json")
    /\ UNCHANGED <<embedded, jsonV, row, up, snap, seenMax, state, held, best, faults>>

WriteJson(a) ==
    /\ At(a, "json")
    /\ jsonV' = g[a].cand
    /\ Goto(a, "publish")
    /\ UNCHANGED <<embedded, sigV, row, up, snap, seenMax, state, held, best, faults>>

\* A write fails; the first without an effect, the second leaves a new
\* signature beside the old rules.
WriteFails(a) ==
    /\ \/ At(a, "sig") /\ UNCHANGED faults
       \/ At(a, "json") /\ Fault("partial")
    /\ g' = [g EXCEPT ![a].pc = "finish", ![a].ok = FALSE]
    /\ UNCHANGED <<embedded, files, row, up, snap, seenMax, state, held, best>>

Publish(a) ==
    /\ At(a, "publish")
    /\ snap' = g[a].cand /\ seenMax' = g[a].cand
    /\ best' = Higher(best, g[a].cand)
    /\ Goto(a, "setseen")
    /\ UNCHANGED <<embedded, files, row, up, state, held, faults>>

----------------------------------------------------------------------------
(* What runOnce persists afterwards.                                       *)

\* StateStore.SetSeenMax, whose error is only logged.
PersistSeen(a) ==
    /\ At(a, "setseen")
    /\ \/ row' = [row EXCEPT !.seen = g[a].cand] /\ UNCHANGED faults
       \/ UNCHANGED row /\ Fault("db")
    /\ g' = [g EXCEPT ![a].pc = "finish", ![a].ok = TRUE]
    /\ UNCHANGED <<embedded, files, up, snap, seenMax, state, held, best>>

\* The backoff step n failures in a row lead to.
BackoffAfter(n) == IF n > Steps THEN Steps ELSE n

\* finish, up to the copy of the state it makes under the lock.
Finish(a) ==
    /\ At(a, "finish")
    /\ IF g[a].ok THEN fails' = 0 /\ off' = 0
       ELSE /\ fails' = IF fails > Steps THEN fails ELSE fails + 1
            /\ off' = BackoffAfter(fails')
    /\ g' = [g EXCEPT ![a].pc = "load", ![a].fails = fails', ![a].off = off']
    /\ UNCHANGED <<embedded, files, row, up, snap, seenMax, held, best, faults>>

\* SaveRefreshState reads the row to keep its seen_max ...
LoadRow(a) ==
    /\ At(a, "load")
    /\ \/ g' = [g EXCEPT ![a].pc = "save", ![a].seen = row.seen] /\ UNCHANGED faults
       \/ Goto(a, "leave") /\ Fault("db")
    /\ UNCHANGED <<embedded, files, row, up, snap, seenMax, state, held, best>>

\* Bug variant: a column is forgotten.
RowWithoutBackoff(a) == [seen |-> g[a].seen, fails |-> g[a].fails, off |-> 0]

RowOf(a) == [seen |-> g[a].seen, fails |-> g[a].fails, off |-> g[a].off]

\* ... and writes all its columns.
SaveRow(a) ==
    /\ At(a, "save")
    /\ \/ row' = RowOf(a) /\ UNCHANGED faults
       \/ UNCHANGED row /\ Fault("db")
    /\ Goto(a, "leave")
    /\ UNCHANGED <<embedded, files, up, snap, seenMax, state, held, best>>

\* leave; the loop sets its timer again.
Leave(a) ==
    /\ At(a, "leave")
    /\ held' = IF a = "loop" THEN off # 0 ELSE held
    /\ g' = [g EXCEPT ![a] = NotRunning]
    /\ UNCHANGED <<embedded, files, row, up, snap, seenMax, state, best, faults>>

----------------------------------------------------------------------------
Init ==
    /\ embedded \in Ships /\ best = 0
    /\ sigV = 0 /\ jsonV = 0
    /\ row = [seen |-> 0, fails |-> 0, off |-> 0]
    /\ up = FALSE
    /\ snap = embedded /\ seenMax = embedded
    /\ fails = 0 /\ off = 0 /\ held = FALSE
    /\ g = [a \in Goroutines |-> NotRunning]
    /\ faults = {}

RefreshStep(a) ==
    \/ (\E v \in Versions : Pulled(a, v)) \/ PullFails(a)
    \/ Decide(a) \/ WriteSig(a) \/ WriteJson(a) \/ WriteFails(a) \/ Publish(a)
    \/ PersistSeen(a) \/ Finish(a) \/ LoadRow(a) \/ SaveRow(a) \/ Leave(a)

Next ==
    \/ Start \/ Stop \/ Crash \/ Damage
    \/ LoopFires \/ Trigger \/ Expire
    \/ \E a \in Goroutines : RefreshStep(a)

Spec == Init /\ [][Next]_vars

\* A refresh runs to its end (a fetch has a timeout), time passes, the timer
\* of the loop fires however often somebody refreshes by hand, the newest
\* release does not stay out of reach of the loop for ever, is not refused
\* for ever, and the disk is not full for ever.
Fairness ==
    /\ \A a \in Goroutines : WF_vars(RefreshStep(a))
    /\ WF_vars(Expire) /\ SF_vars(LoopFires)
    /\ SF_vars(Pulled("loop", MaxVersion))
    /\ SF_vars(Decide("loop") /\ At("loop", "sig")') /\ SF_vars(WriteSig("loop"))

LiveSpec == Spec /\ Fairness

----------------------------------------------------------------------------
(* Properties.                                                             *)

\* A release is accepted only if it is newer than every one that was ever in
\* force, restarts included: the files and the row secure each other, so no
\* single fault makes an old release acceptable again (rules_state.go and
\* docs: "seen_max, insured twice").
NoReplay ==
    [][\A a \in Goroutines : Publish(a) => g[a].cand > best]_vars

\* Although every save of the counters rewrites the whole row, the persisted
\* floor only rises as long as no two refreshes overlap; and an ordinary
\* restart changes nothing: the rules, the floor, the failures in a row and the
\* backoff (R2b) come back from the files and the row.
CountersKept ==
    [][/\ row'.seen >= row.seen \/ "overlap" \in faults
       /\ Start /\ faults' = {} /\ best # 0 =>
            snap' = snap /\ seenMax' = seenMax /\ fails' = fails /\ off' = off]_vars

\* While serve runs its floor covers the rules in force and the embedded
\* ones (rules_state.go: "max(embedded, disk, this table)"), after any fault.
FloorCoversRules == up => seenMax >= snap /\ seenMax >= embedded

\* Serve does not run for ever without the newest release.  The exception is
\* the code's: a release accepted before and lost with the files is below the
\* floor, and only the next release replaces it.
Converges == []<>(~up \/ snap = MaxVersion \/ (seenMax = MaxVersion /\ jsonV = 0))
=============================================================================
