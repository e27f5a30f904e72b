------------------------------ MODULE Takeover ------------------------------
(***************************************************************************)
(* Taking the system proxy over and giving it back (cmd/ghydra daemon.go,  *)
(* apicore.go, the exit path of serve in main.go).  Four kinds of agents   *)
(* change the same three things, the system proxy, the snapshot row of the *)
(* store and serve.json, without a lock: the command line (on, off and the *)
(* reconciliation every command starts with), the API handler of a running *)
(* serve, and the exit hooks of each serve.  Each read or write is one     *)
(* action, any process may be killed between two of them.                  *)
(*                                                                         *)
(* A proxy setting is the user's ("orig", or "near", what Apply leaves of  *)
(* it), GHydra's ("ghydra"), or "mixed": Apply writes value after value    *)
(* and failed in between.  Ports are those of the serve that listens.      *)
(***************************************************************************)
EXTENDS Integers, FiniteSets

CONSTANTS
    Serves,    \* serve processes
    None,      \* no snapshot row, no serve.json, no process
    MaxKills,  \* bound: how many times some process is killed
    Back,      \* what Apply of the user's setting makes of it
    Faults     \* what else may go wrong, of FaultKinds

\* "partial": sysproxy.Apply fails after it has written some values;
\* "store": a restore finds the store locked or unreadable, or cannot delete
\* the snapshot; "nosnap": so does a takeover; "unread": a takeover cannot
\* read the current setting; "overlap": an "on" overlaps with another command,
\* API call or exiting serve.
FaultKinds == {"partial", "store", "nosnap", "unread", "overlap"}

Users    == {"orig", "near"}
Settings == Users \cup {"ghydra", "mixed"}

Agents == Serves \cup {"cli", "api"}

ASSUME TakeoverAssumption ==
    /\ None \notin Agents \cup Settings
    /\ Serves \cap {"cli", "api"} = {}
    /\ MaxKills \in Nat /\ Back \in Users
    /\ Faults \subseteq FaultKinds

VARIABLES
    proxy,  \* the setting of the system proxy
    snap,   \* the snapshot row of the store
    json,   \* the serve serve.json speaks of
    sv,     \* the life of each serve process
    ag,     \* what each agent is doing
    kills,  \* processes killed so far
    lost    \* history: the last copy of the user's setting was deleted

files == <<proxy, snap, json, lost>>
vars  == <<files, sv, ag, kills>>

\* An agent: where it is, in which phase of which job, the setting it has
\* read, whether the snapshot is its own, whether its last restore failed,
\* "told" in its result or in "silent", and the serve it deals with.
Idle == [pc |-> "idle", phase |-> "none", job |-> "none", got |-> None,
         fresh |-> FALSE, err |-> "no", serve |-> None]

Begin(pc, phase, job, s) ==
    [Idle EXCEPT !.pc = pc, !.phase = phase, !.job = job, !.serve = s]

ExitHook(s) == Begin("load", "hook1", "exit", s)

At(a, l) == ag[a].pc = l
Goto(a, l) == ag' = [ag EXCEPT ![a].pc = l]

\* serveAlive: the port answers from the bind to ln.Close.
Alive(s) == s # None /\ sv[s] \in {"bound", "up", "exiting"}

\* Which jobs may begin now: an "on" runs alone unless "overlap" is allowed.
MayBegin(job) ==
    \/ "overlap" \in Faults
    \/ \A a \in Agents : IF job = "on" THEN ag[a] = Idle ELSE ag[a].job # "on"

----------------------------------------------------------------------------
(* Restoring: ensureReconcile, releaseTakeover and restoreSnapshot differ  *)
(* only in the test of the serve and in the removal of serve.json.         *)

\* What follows a restore that is over or skipped, or failed (e).
AfterRestore(a, e) ==
    LET r == [ag[a] EXCEPT !.err = e, !.got = None]
        n == [r EXCEPT !.err = "no"] IN
    CASE r.phase = "reconcile" /\ r.job = "on"   -> [n EXCEPT !.pc = "check"]
      [] r.phase = "reconcile" /\ r.job = "off"  -> [n EXCEPT !.pc = "load", !.phase = "release"]
      [] r.phase = "release" /\ a = "cli"        -> [r EXCEPT !.pc = "stop"]
      [] r.phase = "release" /\ r.job = "shutdown" /\ e # "told" -> [n EXCEPT !.pc = "shutdown"]
      [] r.phase = "hook1"                       -> [n EXCEPT !.pc = "close"]
      [] r.phase = "hook2"                       -> [r EXCEPT !.pc = "exit"]
      [] OTHER                                   -> Idle

Restored(a, e) == ag' = [ag EXCEPT ![a] = AfterRestore(a, e)]

LoadSnap(a) ==
    /\ At(a, "load")
    /\ IF snap = None THEN Restored(a, "no")
       ELSE ag' = [ag EXCEPT ![a].got = snap,
                             ![a].pc = IF ag[a].phase = "reconcile" THEN "alive" ELSE "apply"]
    /\ UNCHANGED <<files, sv, kills>>

\* store.Open or LoadSnapshotJSON fails: the restore is skipped and nobody is
\* told.
SkipRestore(a) ==
    /\ At(a, "load") /\ "store" \in Faults
    /\ Restored(a, "silent")
    /\ UNCHANGED <<files, sv, kills>>

\* Bug variant: serve.json alone is taken for a living serve.
CheckAliveByFile(a) ==
    /\ At(a, "alive")
    /\ IF json # None THEN Restored(a, "no") ELSE Goto(a, "apply")
    /\ UNCHANGED <<files, sv, kills>>

\* The serve serve.json names answers: the snapshot belongs to its session.
CheckAlive(a) ==
    /\ At(a, "alive")
    /\ IF Alive(json) THEN Restored(a, "no") ELSE Goto(a, "apply")
    /\ UNCHANGED <<files, sv, kills>>

\* What Apply of v leaves: it writes neither all that Current reads nor all
\* that was set (AutoDetect; ProxyServer and states on some platforms).
Written(v) == IF v \in Users THEN Back ELSE v

\* What an Apply of v leaves that fails: nothing written, all, or a part of
\* it, which shows only over another setting.
LeftBy(v) ==
    IF "partial" \notin Faults THEN {proxy}
    ELSE {proxy, Written(v)} \cup
         (IF proxy = v \/ {proxy, v} \subseteq Users THEN {} ELSE {"mixed"})

ApplyOk(a) ==
    /\ At(a, "apply")
    /\ proxy' = Written(ag[a].got)
    /\ ag' = [ag EXCEPT ![a].pc = "delete", ![a].got = None]
    /\ UNCHANGED <<snap, json, lost, sv, kills>>

\* Bug variant: the snapshot is deleted all the same.
ApplyFailDelete(a) ==
    /\ At(a, "apply")
    /\ proxy' \in LeftBy(ag[a].got)
    /\ snap' = None
    /\ Restored(a, "told")
    /\ UNCHANGED <<json, lost, sv, kills>>

\* The snapshot is kept for another try.
ApplyFail(a) ==
    /\ At(a, "apply")
    /\ proxy' \in LeftBy(ag[a].got)
    /\ Restored(a, "told")
    /\ UNCHANGED <<snap, json, lost, sv, kills>>

\* DeleteSnapshot, whose error nobody looks at.
Deleted == IF "store" \in Faults THEN {None, snap} ELSE {None}

DeleteSnap(a) ==
    /\ At(a, "delete")
    /\ snap' \in Deleted
    /\ IF ag[a].phase = "release" THEN Restored(a, "no") ELSE Goto(a, "rmjson")
    /\ UNCHANGED <<proxy, json, lost, sv, kills>>

RemoveJson(a) ==
    /\ At(a, "rmjson")
    /\ json' = None
    /\ Restored(a, ag[a].err)
    /\ UNCHANGED <<proxy, snap, lost, sv, kills>>

----------------------------------------------------------------------------
(* The processes.                                                          *)

\* The agents A once s is dead: its hooks and its API handler die with it.
WithoutServe(A, s) ==
    [a \in Agents |-> IF a = s \/ (a = "api" /\ A[a].serve = s) THEN Idle ELSE A[a]]

\* killServe: SIGTERM on unix, where it kills a serve that has not installed
\* its handler yet, runs the hooks of one that is up and changes nothing for
\* one that is exiting; taskkill /F on windows.  A is what ag becomes besides.
StopServe(s, A) ==
    IF s = None THEN ag' = A /\ UNCHANGED sv
    ELSE \/ sv' = [sv EXCEPT ![s] = "dead"] /\ ag' = WithoutServe(A, s)
         \/ sv[s] = "up" /\ sv' = [sv EXCEPT ![s] = "exiting"]
                         /\ ag' = [A EXCEPT ![s] = ExitHook(s)]
         \/ sv[s] \in {"exiting", "closing"} /\ ag' = A /\ UNCHANGED sv

Bind(s) ==
    /\ sv[s] = "starting"
    /\ sv' = [sv EXCEPT ![s] = "bound"]
    /\ UNCHANGED <<files, ag, kills>>

\* A managed serve writes serve.json itself (an error is only logged), then
\* installs its signal handler.
ServeUp(s) ==
    /\ sv[s] = "bound"
    /\ json' \in {json, s}
    /\ sv' = [sv EXCEPT ![s] = "up"]
    /\ UNCHANGED <<proxy, snap, lost, ag, kills>>

\* The GUI's supervisor starts a serve when none answers.
Launch(s) ==
    /\ sv[s] = "dead" /\ ~Alive(json)
    /\ sv' = [sv EXCEPT ![s] = "starting"]
    /\ UNCHANGED <<files, ag, kills>>

\* A SIGTERM from elsewhere: logout, or the GUI leaving.
Quit(s) ==
    /\ sv[s] = "up" /\ MayBegin("exit")
    /\ sv' = [sv EXCEPT ![s] = "exiting"]
    /\ ag' = [ag EXCEPT ![s] = ExitHook(s)]
    /\ UNCHANGED <<files, kills>>

\* ln.Close; Serve returns and the second restore runs.
CloseListener(s) ==
    /\ At(s, "close")
    /\ sv' = [sv EXCEPT ![s] = "closing"]
    /\ ag' = [ag EXCEPT ![s].pc = "load", ![s].phase = "hook2"]
    /\ UNCHANGED <<files, kills>>

Exit(s) ==
    /\ At(s, "exit")
    /\ sv' = [sv EXCEPT ![s] = "dead"]
    /\ ag' = WithoutServe(ag, s)
    /\ UNCHANGED <<files, kills>>

\* kill -9, power loss.
KillServe(s) ==
    /\ sv[s] # "dead" /\ kills < MaxKills
    /\ sv' = [sv EXCEPT ![s] = "dead"]
    /\ ag' = WithoutServe(ag, s)
    /\ kills' = kills + 1
    /\ UNCHANGED files

KillCommand ==
    /\ ag["cli"] # Idle /\ kills < MaxKills
    /\ ag' = [ag EXCEPT !["cli"] = Idle]
    /\ kills' = kills + 1
    /\ UNCHANGED <<files, sv>>

----------------------------------------------------------------------------
(* onCmd and applyTakeover.                                                *)

\* A command starts with ensureReconcile; "status" stands for those that do
\* no more to the proxy.
Command(job) ==
    /\ ag["cli"] = Idle /\ MayBegin(job)
    /\ ag' = [ag EXCEPT !["cli"] = Begin("load", "reconcile", job, None)]
    /\ UNCHANGED <<files, sv, kills>>

Refuse ==
    /\ At("cli", "check") /\ Alive(json)
    /\ ag' = [ag EXCEPT !["cli"] = Idle]
    /\ UNCHANGED <<files, sv, kills>>

Spawn(s) ==
    /\ At("cli", "check") /\ ~Alive(json) /\ sv[s] = "dead"
    /\ sv' = [sv EXCEPT ![s] = "starting"]
    /\ ag' = [ag EXCEPT !["cli"].pc = "waitup", !["cli"].serve = s]
    /\ UNCHANGED <<files, kills>>

\* fork fails.
SpawnFail ==
    /\ At("cli", "check") /\ ~Alive(json)
    /\ ag' = [ag EXCEPT !["cli"] = Idle]
    /\ UNCHANGED <<files, sv, kills>>

\* The port answers: serve.json is written by the command too.
Answers ==
    /\ At("cli", "waitup") /\ Alive(ag["cli"].serve)
    /\ json' \in {json, ag["cli"].serve}
    /\ Goto("cli", "snapcheck")
    /\ UNCHANGED <<proxy, snap, lost, sv, kills>>

\* 15 s without an answer on that port (the serve may have moved to another).
NeverAnswers ==
    /\ At("cli", "waitup")
    /\ StopServe(ag["cli"].serve, [ag EXCEPT !["cli"] = Idle])
    /\ UNCHANGED <<files, kills>>

\* POST /api/on in a serve.
ApiOn(s) ==
    /\ ag["api"] = Idle /\ sv[s] \in {"up", "exiting"} /\ MayBegin("on")
    /\ ag' = [ag EXCEPT !["api"] = Begin("snapcheck", "take", "on", s)]
    /\ UNCHANGED <<files, sv, kills>>

\* Bug variant: the snapshot of an earlier takeover is not looked for.
SnapCheckAlways(a) ==
    /\ At(a, "snapcheck")
    /\ ag' = [ag EXCEPT ![a].fresh = TRUE, ![a].pc = "current"]
    /\ UNCHANGED <<files, sv, kills>>

\* A snapshot that is already there is kept: this is a repeated "on".  Where
\* the store does not open there is no snapshot to make, and one that cannot
\* be loaded counts as none.
SnapCheck(a) ==
    /\ At(a, "snapcheck")
    /\ \E none \in BOOLEAN, l \in {"current", "take"} :
          /\ \/ none = (snap = None) /\ l = IF none THEN "current" ELSE "take"
             \/ "nosnap" \in Faults /\ none
          /\ ag' = [ag EXCEPT ![a].fresh = none, ![a].pc = l]
    /\ UNCHANGED <<files, sv, kills>>

\* When the current setting cannot be read, the takeover just goes on.
ReadCurrent(a) ==
    /\ At(a, "current")
    /\ \E l \in IF "unread" \in Faults THEN {"savesnap", "take"} ELSE {"savesnap"} :
          ag' = [ag EXCEPT ![a].got = proxy, ![a].pc = l]
    /\ UNCHANGED <<files, sv, kills>>

SaveSnap(a) ==
    /\ At(a, "savesnap")
    /\ \E saved \in BOOLEAN :
          /\ snap' = IF saved THEN ag[a].got ELSE snap
          /\ ag' = [ag EXCEPT ![a].pc = IF saved THEN "take" ELSE "failed", ![a].got = None]
    /\ UNCHANGED <<proxy, json, lost, sv, kills>>

TakeOk(a) ==
    /\ At(a, "take")
    /\ proxy' = "ghydra"
    /\ ag' = [ag EXCEPT ![a] = Idle]
    /\ UNCHANGED <<snap, json, lost, sv, kills>>

TakeFail(a) ==
    /\ At(a, "take")
    /\ proxy' \in LeftBy("ghydra")
    /\ Goto(a, IF ag[a].fresh THEN "undo" ELSE "failed")
    /\ UNCHANGED <<snap, json, lost, sv, kills>>

\* The snapshot this takeover made is deleted again, however much of
\* GHydra's setting its Apply has left.
UndoSnap(a) ==
    /\ At(a, "undo")
    /\ snap' \in Deleted
    /\ lost' = (lost \/ (ag[a].fresh /\ snap' = None /\ proxy \notin Users))
    /\ ag' = [ag EXCEPT ![a].pc = "failed", ![a].fresh = FALSE]
    /\ UNCHANGED <<proxy, json, sv, kills>>

\* The handler answers 500; the command stops its serve and removes
\* serve.json.
TakeoverFailed(a) ==
    /\ At(a, "failed")
    /\ IF a = "api"
       THEN ag' = [ag EXCEPT ![a] = Idle] /\ UNCHANGED sv
       ELSE StopServe(ag[a].serve, [ag EXCEPT ![a].pc = "rmjson", ![a].phase = "rollback",
                                             ![a].serve = None])
    /\ UNCHANGED <<files, kills>>

----------------------------------------------------------------------------
(* offCmd and SystemOff, after releaseTakeover.                            *)

ApiOff(s, job) ==
    /\ ag["api"] = Idle /\ sv[s] \in {"up", "exiting"} /\ MayBegin(job)
    /\ ag' = [ag EXCEPT !["api"] = Begin("load", "release", job, s)]
    /\ UNCHANGED <<files, sv, kills>>

\* The answered shutdown request closes shutdownCh, once.
ApiShutdown ==
    LET s == ag["api"].serve
        A == [ag EXCEPT !["api"] = Idle] IN
    /\ At("api", "shutdown")
    /\ IF sv[s] = "up"
       THEN sv' = [sv EXCEPT ![s] = "exiting"] /\ ag' = [A EXCEPT ![s] = ExitHook(s)]
       ELSE ag' = A /\ UNCHANGED sv
    /\ UNCHANGED <<files, kills>>

\* off stops the serve of serve.json and, with --wait, waits for its death.
OffStop ==
    /\ At("cli", "stop")
    /\ \E l \in {"wait", "rmjson"} :
          StopServe(json, [ag EXCEPT !["cli"].pc = IF json = None THEN "rmjson" ELSE l,
                                     !["cli"].phase = "stop", !["cli"].serve = json])
    /\ UNCHANGED <<files, kills>>

\* The serve is gone, or 10 s are over and it is killed.
OffWaited ==
    LET s == ag["cli"].serve IN
    /\ At("cli", "wait")
    /\ sv' = [sv EXCEPT ![s] = "dead"]
    /\ ag' = WithoutServe([ag EXCEPT !["cli"].pc = "rmjson"], s)
    /\ UNCHANGED <<files, kills>>

----------------------------------------------------------------------------
Init ==
    /\ proxy = "orig" /\ snap = None /\ json = None
    /\ sv = [s \in Serves |-> "dead"]
    /\ ag = [a \in Agents |-> Idle]
    /\ kills = 0 /\ lost = FALSE

Restore(a) ==
    \/ LoadSnap(a) \/ SkipRestore(a) \/ CheckAlive(a)
    \/ ApplyOk(a) \/ ApplyFail(a) \/ DeleteSnap(a) \/ RemoveJson(a)

Take(a) ==
    \/ SnapCheck(a) \/ ReadCurrent(a) \/ SaveSnap(a)
    \/ TakeOk(a) \/ TakeFail(a) \/ UndoSnap(a) \/ TakeoverFailed(a)

CliOn == Refuse \/ (\E s \in Serves : Spawn(s)) \/ SpawnFail \/ Answers \/ NeverAnswers
CliOff == OffStop \/ OffWaited

CliStep == Restore("cli") \/ CliOn \/ Take("cli") \/ CliOff
ApiStep == Restore("api") \/ Take("api") \/ ApiShutdown
ServeStep(s) == Bind(s) \/ ServeUp(s) \/ Restore(s) \/ CloseListener(s) \/ Exit(s)

Commands == \E job \in {"on", "off", "status"} : Command(job)

Next ==
    \/ Commands \/ CliStep \/ ApiStep
    \/ \E s \in Serves :
          \/ Launch(s) \/ Quit(s) \/ ServeStep(s) \/ KillServe(s)
          \/ ApiOn(s) \/ ApiOff(s, "off") \/ ApiOff(s, "shutdown")
    \/ KillCommand

Spec == Init /\ [][Next]_vars

\* Neither reading the store nor writing the proxy settings fails for ever.
\* (Nothing is assumed of handlers and hooks, and that a command runs on is
\* part of the condition of Heals.)
Fairness == SF_vars(LoadSnap("cli")) /\ SF_vars(ApplyOk("cli"))

LiveSpec == Spec /\ Fairness

----------------------------------------------------------------------------
(* Properties.                                                             *)

\* The user's setting is not lost (sysproxy.go: "the original is saved before
\* Apply"), wherever restorers overlap, processes die, Apply stops halfway
\* and the store fails: while the proxy is not the user's the store holds the
\* user's, and nothing else is ever saved as the original.  There is one
\* exception, "lost": a first takeover whose Apply fails halfway deletes the
\* copy it has just made (NoHalfTakeover).
OriginalNeverLost ==
    ~lost => /\ snap \in Users \cup {None}
             /\ proxy \notin Users => snap \in Users

\* off keeps its word: when it goes on to stop the serve and its own restore
\* met no error, the proxy is the user's, whatever hook or API call restored
\* it first or failed to; and so does a serve that leaves of its own accord
\* (main.go, exit hook).
LeavingRestores ==
    /\ [](At("cli", "stop") /\ ag["cli"].err = "no" /\ ~lost => proxy \in Users)
    /\ [][\A s \in Serves : Exit(s) /\ ag[s].err = "no" /\ ~lost => proxy \in Users]_vars

\* After a failed "on" nothing is left half done (daemon.go: stop serve,
\* remove serve.json, "no half-takeover"): by the time the command rolls
\* back, the proxy is the user's or, after a repeated "on", its snapshot is
\* still there.  Violated: of an Apply that fails halfway nothing is undone,
\* and the snapshot that could undo it is deleted (apicore.go).
NoHalfTakeover ==
    At("cli", "rmjson") /\ ag["cli"].phase = "rollback" => proxy \in Users \/ snap \in Users

\* off never leaves a takeover behind in silence (daemon.go, offExitCode):
\* where it goes on to stop the serve and has no error to report, the proxy
\* is the user's.  Violated: a store that does not open or load is no error.
NeverSilent ==
    At("cli", "stop") /\ ag["cli"].err # "told" => proxy \in Users

\* A takeover without a snapshot is cleared by off all the same (the log line
\* of applyTakeover says so).  Violated: releaseTakeover does nothing where
\* there is no snapshot.
ClearedByOff ==
    At("cli", "stop") /\ ag["cli"].err = "no" => proxy # "ghydra"

\* Any command heals what a kill left behind (ensureReconcile): if commands
\* keep being run, a proxy that points at no serve does not stay.
DeadProxy == proxy \notin Users /\ ~lost /\ \A s \in Serves : sv[s] = "dead"

Heals == []<><<Commands>>_vars => []<>~DeadProxy
=============================================================================
