----------------------------- MODULE SelfUpdate -----------------------------
(***************************************************************************)
(* Self-update: engine/selfupdate (swap.go, state.go, update.go), its      *)
(* assembly in cmd/ghydra (selfupdateglue.go, updateapi.go) and the        *)
(* supervisor of the GUI shell, which starts the successor of an updated   *)
(* daemon.                                                                 *)
(*                                                                         *)
(* A binary is its version, 0 stands for a missing file.  Every ghydra     *)
(* process runs the code of the binary it was started from, and the boot   *)
(* hook before its own command.  Nothing locks the installation directory  *)
(* or update.json against other processes: each rename, each read and each *)
(* write is a step of its own.  Releases appear in order; what they must   *)
(* prove (signature, checksums, hosts) is a download that fails.           *)
(***************************************************************************)
EXTENDS Integers, Sequences, FiniteSets

CONSTANTS
    MaxVersion,  \* bound: version 1 is installed, releases are 2..MaxVersion
    Dead,        \* releases that cannot be started
    Serves,      \* bound: the daemons that may run at the same time
    None,
    Shell,       \* a GUI shell with its supervisor runs
    Overlap,     \* an update may begin while another process is at work
    Faults,      \* what else may go wrong, of FaultKinds, each once
    MaxFaults    \* bound: how many of them

\* "crash": every process dies; "rename": a rename of the swap or of the
\* rollback fails; "save": update.json cannot be written.
FaultKinds == {"crash", "rename", "save"}

ASSUME SelfUpdateAssumption ==
    /\ MaxVersion \in Nat \ {0} /\ Dead \subseteq 2..MaxVersion
    /\ "cmd" \notin Serves /\ None \notin Serves \union {"cmd"}
    /\ Shell \in BOOLEAN /\ Overlap \in BOOLEAN
    /\ Faults \subseteq FaultKinds /\ MaxFaults \in Nat

VARIABLES
    exe, old, bad,  \* ghydra, ghydra.old, ghydra.bad
    staged,         \* the binary in update-staging
    disk,           \* update.json
    latest,         \* the latest release
    proc,           \* the processes: one command and the daemons
    sj,             \* the running daemon that serve.json names
    shell, intent,  \* the supervisor's loop and Loop.restart
    off,            \* history: the user's last word on the daemon is "off"
    marked,         \* history: versions ever recorded as bad
    passed,         \* history: versions that have passed a self-check
    lapse,          \* history: a swap without a record, or over an unconfirmed update
    faults          \* history: the faults so far

files == <<exe, old, bad, staged>>
hist  == <<off, marked, passed, lapse>>
vars  == <<files, disk, latest, proc, sj, shell, intent, hist, faults>>

Procs    == {"cmd"} \union Serves
Versions == 1..MaxVersion
Roles    == {"status", "on", "off", "update", "rollback"}

\* A missing update.json behaves like this one.
NoState == [pending |-> 0, confirmed |-> FALSE, attempts |-> 0, bad |-> 0, was |-> FALSE]

Gone == [role |-> "none", ver |-> 0, pc |-> "none", job |-> "none", up |-> FALSE,
         leaving |-> FALSE, st |-> NoState, want |-> 0, was |-> FALSE, ops |-> <<>>]

At(p, l)     == proc[p].pc = l
Goto(p, l)   == [proc EXCEPT ![p].pc = l]
UnconfirmedFew == disk.pending # 0 /\ ~disk.confirmed /\ disk.attempts < 2  \* bug variant
Unconfirmed  == disk.pending # 0 /\ ~disk.confirmed       \* ShouldSelfCheck
Startable(v) == v # 0 /\ v \notin Dead
Alive        == sj # None /\ proc[sj].up
FreeServes   == {s \in Serves : proc[s].role = "none"}
Fault(k)     == k \in Faults \ faults /\ Cardinality(faults) < MaxFaults /\ faults' = faults \union {k}

Started(role) == [Gone EXCEPT !.role = role, !.ver = exe, !.pc = "recover", !.job = "boot"]

\* The processes f with a daemon more.  A binary that does not start adds none,
\* a daemon beyond the bound dies at once.
Spawned(f) ==
    IF Startable(exe) /\ FreeServes # {}
    THEN [f EXCEPT ![CHOOSE s \in FreeServes : TRUE] = Started("serve")] ELSE f

\* Stop: the daemon serve.json names is killed.
Stopped(f) == IF sj # None THEN [f EXCEPT ![sj] = Gone] ELSE f

\* saveStateMerge: the last bad version survives.
Merged(st) == [st EXCEPT !.bad = IF st.bad = 0 THEN disk.bad ELSE st.bad]

Save(st) ==
    \/ disk' = Merged(st) /\ UNCHANGED faults
       /\ marked' = IF Merged(st).bad = 0 THEN marked ELSE marked \union {Merged(st).bad}
    \/ UNCHANGED <<disk, marked>> /\ Fault("save")

\* Where a process goes on after the boot hook, and after its update or rollback.
AfterBoot(p) ==
    CASE proc[p].role = "serve"    -> [proc[p] EXCEPT !.pc = "bind", !.job = "none"]
      [] proc[p].role = "update"   -> [proc[p] EXCEPT !.pc = "plan", !.job = "apply"]
      [] proc[p].role = "rollback" -> [proc[p] EXCEPT !.pc = "rbstat", !.job = "manual"]
      [] OTHER                     -> [proc[p] EXCEPT !.pc = proc[p].role]

AfterJob(p) ==
    IF proc[p].job = "boot" THEN AfterBoot(p)
    ELSE IF proc[p].role = "serve" THEN [proc[p] EXCEPT !.pc = "serving", !.job = "none"]
    ELSE [proc[p] EXCEPT !.pc = "status"]

GotoAfterBoot(p) == [proc EXCEPT ![p] = AfterBoot(p)]
GotoAfterJob(p)  == [proc EXCEPT ![p] = AfterJob(p)]

----------------------------------------------------------------------------
(* BootHook.                                                               *)

\* RecoverFromCrash sweeps; an interrupted swap leaves ghydra.old alone.
Recover(p) ==
    /\ At(p, "recover")
    /\ staged' = 0 /\ bad' = 0
    /\ proc' = Goto(p, IF exe = 0 /\ old # 0 THEN "restore" ELSE "load")
    /\ UNCHANGED <<exe, old, disk, latest, sj, shell, intent, hist, faults>>

Restore(p) ==
    /\ At(p, "restore")
    /\ IF old # 0 THEN exe' = old /\ old' = 0 /\ proc' = Goto(p, "restored")
       ELSE UNCHANGED <<exe, old>> /\ proc' = GotoAfterBoot(p)
    /\ UNCHANGED <<bad, staged, disk, latest, sj, shell, intent, hist, faults>>

\* An update that was interrupted has failed; one that is not confirmed is
\* checked; otherwise a command starts the daemon that should be running.
Load(p) ==
    /\ At(p, "load") \/ At(p, "restored")
    /\ \/ /\ Unconfirmed /\ At(p, "restored")
          /\ proc' = [proc EXCEPT ![p].pc = "bootsave",
                         ![p].st = [disk EXCEPT !.pending = 0, !.bad = disk.pending]]
       \/ /\ Unconfirmed /\ At(p, "load")
          /\ proc' = [proc EXCEPT ![p].pc = "bootcheck", ![p].st = disk]
       \/ /\ ~Unconfirmed
          /\ IF proc[p].role # "serve" /\ disk.was /\ ~Alive
             THEN proc' = Spawned(GotoAfterBoot(p))
             ELSE proc' = GotoAfterBoot(p)
    /\ UNCHANGED <<files, disk, latest, sj, shell, intent, hist, faults>>

\* selfCheck: the binary in place runs and is the version wanted.  It may fail
\* anyway (the child is killed after a timeout).
SelfCheck(v, ok) ==
    /\ ok => exe = v /\ Startable(v)
    /\ passed' = IF ok THEN passed \union {v} ELSE passed

\* Bug variant: the failure is not counted.
FailedUncounted(st) == st
\* RecordBootFailure
Failed(st)  == [st EXCEPT !.attempts = @ + 1]
TooMany(st) == st.attempts > 2

BootCheck(p) ==
    /\ At(p, "bootcheck")
    /\ LET st == proc[p].st
       IN  \/ /\ SelfCheck(st.pending, TRUE)
              /\ proc' = [proc EXCEPT ![p].pc = "bootconfirm", ![p].st.confirmed = TRUE]
           \/ /\ SelfCheck(st.pending, FALSE)
              /\ proc' = IF TooMany(Failed(st))
                         THEN [proc EXCEPT ![p].pc = "rbstat", ![p].st = Failed(st),
                                           ![p].want = st.pending, ![p].was = st.was]
                         ELSE [proc EXCEPT ![p].pc = "bootsave", ![p].st = Failed(st)]
    /\ UNCHANGED <<files, disk, latest, sj, shell, intent, off, marked, lapse, faults>>

BootSave(p) ==
    /\ At(p, "bootsave")
    /\ Save(proc[p].st)
    /\ proc' = GotoAfterBoot(p)
    /\ UNCHANGED <<files, latest, sj, shell, intent, off, passed, lapse>>

BootConfirm(p) ==
    /\ At(p, "bootconfirm")
    /\ Save(proc[p].st)
    /\ IF faults' = faults /\ proc[p].role # "serve" /\ proc[p].st.was /\ ~Alive
       THEN proc' = Spawned(GotoAfterBoot(p))
       ELSE proc' = GotoAfterBoot(p)
    /\ UNCHANGED <<files, latest, sj, shell, intent, off, passed, lapse>>

----------------------------------------------------------------------------
(* RollbackSwap and its callers: the boot hook, a failed update, a user.   *)

RollbackFailed(p) ==
    proc' = IF proc[p].job = "manual" THEN GotoAfterJob(p) ELSE Goto(p, "mark")

\* Bug variant: the rollback is recorded and not done.
RbStatSkip(p) ==
    /\ At(p, "rbstat")
    /\ RollbackFailed(p)
    /\ UNCHANGED <<files, disk, latest, sj, shell, intent, hist, faults>>

RbStat(p) ==
    /\ At(p, "rbstat")
    /\ IF old = 0 THEN RollbackFailed(p) ELSE proc' = Goto(p, "rbout")
    /\ UNCHANGED <<files, disk, latest, sj, shell, intent, hist, faults>>

RbOut(p) ==
    /\ At(p, "rbout")
    /\ \/ exe # 0 /\ bad' = exe /\ exe' = 0 /\ proc' = Goto(p, "rbin") /\ UNCHANGED faults
       \/ exe = 0 /\ RollbackFailed(p) /\ UNCHANGED <<exe, bad, faults>>
       \/ RollbackFailed(p) /\ Fault("rename") /\ UNCHANGED <<exe, bad>>
    /\ UNCHANGED <<old, staged, disk, latest, sj, shell, intent, hist>>

RbIn(p) ==
    /\ At(p, "rbin")
    /\ \/ old # 0 /\ exe' = old /\ old' = 0 /\ proc' = Goto(p, "mark") /\ UNCHANGED faults
       \/ old = 0 /\ RollbackFailed(p) /\ UNCHANGED <<exe, old, faults>>
       \/ RollbackFailed(p) /\ Fault("rename") /\ UNCHANGED <<exe, old>>
    /\ UNCHANGED <<bad, staged, disk, latest, sj, shell, intent, hist>>

\* MarkRolledBack, whether the files were rolled back or not.
Mark(p) ==
    /\ At(p, "mark")
    /\ LET manual == proc[p].job = "manual"
           v      == IF manual THEN disk.pending ELSE proc[p].want
           daemon == IF manual THEN disk.was /\ ~Alive ELSE proc[p].was
       IN  proc' = [proc EXCEPT ![p].pc = IF daemon THEN "rbstop" ELSE "rbsave",
                       ![p].st = IF v = 0 THEN disk ELSE [disk EXCEPT !.pending = 0, !.bad = v]]
    /\ UNCHANGED <<files, disk, latest, sj, shell, intent, hist, faults>>

\* DaemonControl.Stop.  A daemon that rolls back its own update signals itself
\* and leaves, at whatever it is doing by then.
Stop(p, next) ==
    /\ proc' = IF sj = p
               THEN [proc EXCEPT ![p].pc = next, ![p].up = FALSE, ![p].leaving = TRUE]
               ELSE [Stopped(proc) EXCEPT ![p].pc = next]
    /\ sj' = None
    /\ UNCHANGED <<files, disk, latest, shell, intent, hist, faults>>

RbStop(p) == At(p, "rbstop") /\ Stop(p, "rbstart")

RbStart(p) ==
    /\ At(p, "rbstart")
    /\ proc' = Spawned(Goto(p, "rbwait"))
    /\ UNCHANGED <<files, disk, latest, sj, shell, intent, hist, faults>>

\* Whether the daemon answers or not.
RbWait(p) ==
    /\ At(p, "rbwait")
    /\ proc' = Goto(p, "rbsave")
    /\ UNCHANGED <<files, disk, latest, sj, shell, intent, hist, faults>>

RbSave(p) ==
    /\ At(p, "rbsave")
    /\ Save(proc[p].st)
    /\ proc' = GotoAfterJob(p)
    /\ UNCHANGED <<files, latest, sj, shell, intent, off, passed, lapse>>

----------------------------------------------------------------------------
(* Check and ApplyPlan, by `ghydra update` or inside the daemon.           *)

\* An update that ends clears its staging directory.
EndApply(p) == staged' = 0 /\ proc' = GotoAfterJob(p)

\* Bug variant: bad versions are not remembered.
OfferedAlways(p) == latest > proc[p].ver

\* SelectAsset: newer than the running code and not rolled back before.
Offered(p) == latest > proc[p].ver /\ latest # disk.bad

Plan(p) ==
    /\ At(p, "plan")
    /\ IF Offered(p) THEN proc' = [proc EXCEPT ![p].pc = "download", ![p].want = latest]
                     ELSE proc' = GotoAfterJob(p)
    /\ UNCHANGED <<files, disk, latest, sj, shell, intent, hist, faults>>

Download(p) ==
    /\ At(p, "download")
    /\ \/ staged' = proc[p].want /\ proc' = Goto(p, "planswap")
       \/ EndApply(p)
    /\ UNCHANGED <<exe, old, bad, disk, latest, sj, shell, intent, hist, faults>>

\* Bug variant: the previous binary is removed after it was replaced.
SwapOpsLate == (IF exe # 0 THEN <<"out">> ELSE <<>>) \o <<"in">> \o (IF old # 0 THEN <<"remove">> ELSE <<>>)

\* PlanSwap
SwapOps ==
    (IF old # 0 THEN <<"remove">> ELSE <<>>) \o (IF exe # 0 THEN <<"out">> ELSE <<>>) \o <<"in">>

PlanSwap(p) ==
    /\ At(p, "planswap")
    /\ IF staged = proc[p].want
       THEN /\ proc' = [proc EXCEPT ![p].pc = "swap", ![p].was = Alive, ![p].ops = SwapOps]
            /\ lapse' = (lapse \/ Unconfirmed) /\ UNCHANGED staged
       ELSE EndApply(p) /\ UNCHANGED lapse
    /\ UNCHANGED <<exe, old, bad, disk, latest, sj, shell, intent, off, marked, passed, faults>>

\* ExecuteSwap: an operation that fails ends it, what was done stays done.
SwapOp(p) ==
    /\ At(p, "swap")
    /\ LET op   == Head(proc[p].ops)
           rest == Tail(proc[p].ops)
           next == [proc EXCEPT ![p].ops = rest, ![p].pc = IF rest = <<>> THEN "record" ELSE "swap"]
       IN  \/ /\ op = "remove" /\ old' = 0 /\ proc' = next
              /\ UNCHANGED <<exe, staged, faults>>
           \/ /\ op = "out" /\ exe # 0
              /\ old' = exe /\ exe' = 0 /\ proc' = next
              /\ UNCHANGED <<staged, faults>>
           \/ /\ op = "in" /\ staged = proc[p].want
              /\ exe' = staged /\ staged' = 0 /\ proc' = next
              /\ UNCHANGED <<old, faults>>
           \/ /\ (op = "out" /\ exe = 0) \/ (op = "in" /\ staged # proc[p].want)
              /\ EndApply(p) /\ UNCHANGED <<exe, old, faults>>
           \/ EndApply(p) /\ Fault("rename") /\ UNCHANGED <<exe, old>>
    /\ UNCHANGED <<bad, disk, latest, sj, shell, intent, hist>>

Record(p) ==
    /\ At(p, "record")
    /\ LET st == [NoState EXCEPT !.pending = proc[p].want, !.was = proc[p].was]
       IN  /\ Save(st)
           /\ IF faults' = faults
              THEN proc' = [proc EXCEPT ![p].pc = "inline", ![p].st = st] /\ UNCHANGED lapse
              ELSE proc' = GotoAfterJob(p) /\ lapse' = TRUE
    /\ UNCHANGED <<files, latest, sj, shell, intent, off, passed>>

\* The inline check.  The daemon leaves the rest to its successor and shuts
\* down; a command restarts the daemon it found.
Inline(p) ==
    /\ At(p, "inline")
    /\ \/ /\ SelfCheck(proc[p].want, TRUE)
          /\ proc' = IF proc[p].role = "serve" THEN [GotoAfterJob(p) EXCEPT ![p].leaving = TRUE]
                     ELSE Goto(p, IF proc[p].was THEN "stop" ELSE "confirm")
       \/ SelfCheck(proc[p].want, FALSE) /\ proc' = Goto(p, "rbstat")
    /\ UNCHANGED <<files, disk, latest, sj, shell, intent, off, marked, lapse, faults>>

StopOld(p) == At(p, "stop") /\ Stop(p, "start")

StartNew(p) ==
    /\ At(p, "start")
    /\ proc' = Spawned(Goto(p, "wait"))
    /\ UNCHANGED <<files, disk, latest, sj, shell, intent, hist, faults>>

WaitVersion(p) ==
    /\ At(p, "wait")
    /\ \/ Alive /\ proc[sj].ver = proc[p].want /\ proc' = Goto(p, "confirm")
       \/ proc' = Goto(p, "rbstat")
    /\ UNCHANGED <<files, disk, latest, sj, shell, intent, hist, faults>>

Confirm(p) ==
    /\ At(p, "confirm")
    /\ Save([proc[p].st EXCEPT !.confirmed = TRUE])
    /\ proc' = GotoAfterJob(p)
    /\ UNCHANGED <<files, latest, sj, shell, intent, off, passed, lapse>>

----------------------------------------------------------------------------
(* Processes.                                                              *)

\* Without Overlap, p begins its work when every other process and the shell
\* rest, and a command waits until the daemon it has started rests.
Rests(q) == proc[q].pc \in {"none", "serving"}
Calm(p) ==
    Overlap \/ (/\ \A q \in Procs : IF q = p THEN ~proc[q].leaving ELSE Rests(q)
                /\ p \in Procs => shell \in {"absent", "watch"})
Turn(p) == Overlap \/ p \in Serves \/ \A s \in Serves : Rests(s)

Ends(p) ==
    /\ proc' = [proc EXCEPT ![p] = Gone]
    /\ sj' = IF sj = p THEN None ELSE sj
    /\ lapse' = (lapse \/ At(p, "record"))

Command(role) ==
    /\ proc["cmd"].role = "none" /\ Startable(exe) /\ Calm("cmd")
    /\ proc' = [proc EXCEPT !["cmd"] = Started(role)]
    /\ off' = (off /\ role # "on")
    /\ UNCHANGED <<files, disk, latest, sj, shell, intent, marked, passed, lapse, faults>>

\* on starts a daemon unless one runs; off stops the one that runs.
On ==
    /\ At("cmd", "on") /\ Turn("cmd")
    /\ IF Alive THEN proc' = Goto("cmd", "status")
       ELSE proc' = Spawned(Goto("cmd", "status"))
    /\ UNCHANGED <<files, disk, latest, sj, shell, intent, hist, faults>>

Off ==
    /\ At("cmd", "off") /\ Turn("cmd")
    /\ proc' = [Stopped(proc) EXCEPT !["cmd"].pc = "status"]
    /\ sj' = None /\ off' = TRUE
    /\ UNCHANGED <<files, disk, latest, shell, intent, marked, passed, lapse, faults>>

\* A command ends, a daemon that is leaving exits whatever its update does.
Exit(p) ==
    /\ At(p, "status") \/ proc[p].leaving
    /\ Ends(p)
    /\ UNCHANGED <<files, disk, latest, shell, intent, off, marked, passed, faults>>

Crash ==
    /\ Fault("crash")
    /\ proc' = [p \in Procs |-> Gone] /\ sj' = None
    /\ shell' = IF Shell THEN "start" ELSE "absent"
    /\ intent' = FALSE
    /\ lapse' = (lapse \/ \E p \in Procs : At(p, "record"))
    /\ UNCHANGED <<files, disk, latest, off, marked, passed>>

\* serve binds its port and writes serve.json.
Bind(s) ==
    /\ At(s, "bind")
    /\ proc' = [proc EXCEPT ![s].pc = "serving", ![s].up = TRUE]
    /\ sj' = s
    /\ UNCHANGED <<files, disk, latest, shell, intent, hist, faults>>

\* POST /api/update/apply, one at a time.
Apply(s) ==
    /\ At(s, "serving") /\ Calm(s)
    /\ proc' = [proc EXCEPT ![s].pc = "plan", ![s].job = "apply"]
    /\ UNCHANGED <<files, disk, latest, sj, shell, intent, hist, faults>>

Release ==
    /\ latest < MaxVersion
    /\ latest' = latest + 1
    /\ UNCHANGED <<files, disk, proc, sj, shell, intent, hist, faults>>

----------------------------------------------------------------------------
(* The supervisor: Step reads serve.json, then update.json, and spawns.    *)

Probe ==
    /\ Calm(None)
    /\ \/ shell = "start" /\ shell' = IF Alive THEN "watch" ELSE "spawn"
       \/ shell = "watch" /\ ~Alive /\ shell' = "dead"
    /\ UNCHANGED <<files, disk, latest, proc, sj, intent, hist, faults>>

\* A daemon that has died is revived for a pending update or on request.
Decide ==
    /\ shell = "dead"
    /\ shell' = IF Unconfirmed \/ intent THEN "spawn" ELSE "watch"
    /\ intent' = (intent /\ Unconfirmed)
    /\ UNCHANGED <<files, disk, latest, proc, sj, hist, faults>>

ShellSpawn ==
    /\ shell = "spawn"
    /\ proc' = Spawned(proc) /\ shell' = "wait"
    /\ UNCHANGED <<files, disk, latest, sj, intent, hist, faults>>

\* waitHealthy
ShellWait ==
    /\ shell = "wait" /\ shell' = "watch"
    /\ UNCHANGED <<files, disk, latest, proc, sj, intent, hist, faults>>

Restart ==
    /\ shell # "absent" /\ ~intent /\ Calm("cmd") /\ proc["cmd"].role = "none"
    /\ intent' = TRUE /\ off' = FALSE
    /\ proc' = Stopped(proc) /\ sj' = None
    /\ UNCHANGED <<files, disk, latest, shell, marked, passed, lapse, faults>>

----------------------------------------------------------------------------
Init ==
    /\ exe = 1 /\ old = 0 /\ bad = 0 /\ staged = 0
    /\ disk = NoState /\ latest = 1
    /\ proc = [p \in Procs |-> Gone] /\ sj = None
    /\ shell = IF Shell THEN "start" ELSE "absent"
    /\ intent = FALSE
    /\ off = FALSE /\ marked = {} /\ passed = {} /\ lapse = FALSE
    /\ faults = {}

BootHook(p)    == Recover(p) \/ Restore(p) \/ Load(p) \/ BootCheck(p) \/ BootSave(p) \/ BootConfirm(p)
Rollback(p)    == RbStat(p) \/ RbOut(p) \/ RbIn(p) \/ Mark(p) \/ RbStop(p) \/ RbStart(p) \/ RbWait(p) \/ RbSave(p)
ApplyPlan(p)   == Plan(p) \/ Download(p) \/ PlanSwap(p) \/ SwapOp(p) \/ Record(p) \/ Inline(p)
                  \/ StopOld(p) \/ StartNew(p) \/ WaitVersion(p) \/ Confirm(p)
Supervisor     == Probe \/ Decide \/ ShellSpawn \/ ShellWait
ProcessStep(p) == Turn(p) /\ (BootHook(p) \/ Rollback(p) \/ ApplyPlan(p) \/ Exit(p))

Next ==
    \/ \E p \in Procs : ProcessStep(p)
    \/ \E s \in Serves : Bind(s) \/ Apply(s)
    \/ \E r \in Roles : Command(r)
    \/ On \/ Off \/ Release \/ Supervisor \/ Restart \/ Crash

Spec == Init /\ [][Next]_vars

\* Processes run on, the user keeps giving commands, the supervisor observes.
Fairness ==
    /\ \A p \in Procs : WF_vars(ProcessStep(p))
    /\ \A s \in Serves : WF_vars(Bind(s))
    /\ WF_vars(On) /\ WF_vars(Off)
    /\ SF_vars(Command("status"))
    /\ WF_vars(Supervisor)

LiveSpec == Spec /\ Fairness

----------------------------------------------------------------------------
(* Properties.                                                             *)

\* No file operation failed; processes may have died.
Undisturbed == faults \subseteq {"crash"}

Quiet == \A p \in Procs : Rests(p)

\* A binary that starts is never lost: it is in place or one rename away, at
\* every moment of every update and rollback.
StartableStays == Undisturbed => Startable(exe) \/ Startable(old)

\* No unverified release is in force unnoticed: it has passed a check, or the
\* next process will check it.
UncheckedIsPending ==
    Quiet /\ Undisturbed /\ ~lapse /\ exe > 1 => exe \in passed \/ (Unconfirmed /\ disk.pending = exe)

\* A release that was rolled back is not installed again.
BadStaysOut == [][\A p \in Procs : Record(p) => proc[p].want \notin marked]_vars

\* What was rolled back is not in force.
BadNotInForce == Quiet /\ Undisturbed /\ ~lapse /\ disk.bad # 0 => exe # disk.bad

\* An update is settled: confirmed or rolled back, unless nothing starts.
Settles == []<>(~Unconfirmed \/ ~Startable(exe))

=============================================================================
