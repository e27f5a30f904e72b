--------------------------- MODULE SelfUpdateProof ---------------------------
(***************************************************************************)
(* What the module SelfUpdate promises, for any number of crashes, faults  *)
(* and releases (SelfUpdateAssumption), while no command runs beside an    *)
(* update (~Overlap):                                                      *)
(*                                                                         *)
(*   StartableKept     a binary that can be started is in place            *)
(*   UncheckedNoticed  a binary nobody checked is recorded as pending      *)
(*   BadRemembered     a release that was rolled back is not fetched again *)
(*   BadNotBack        nor in force again                                  *)
(*                                                                         *)
(* The last two are about one daemon (OneDaemon).                          *)
(*                                                                         *)
(* The invariant grows with the theorems.  Orderly: which places a process *)
(* may be at in which role, and that one process works while the others    *)
(* rest.  Files: which files are missing halfway through a swap.  Verified: *)
(* who answers for a binary that is not checked yet.  BadInv: what each    *)
(* process knows of update.json.  NamedInv: serve.json names the daemon.   *)
(* Forward: nobody plans an update by a version that is older than what    *)
(* is installed.  Each has a lemma for each group of actions.              *)
(***************************************************************************)
EXTENDS SelfUpdate, SequenceTheorems, TLAPS

----------------------------------------------------------------------------
(* Who may be where.                                                       *)

BootPlaces == {"recover", "restore", "restored", "load", "bootcheck", "bootsave", "bootconfirm"}
RbPlaces   == {"rbstat", "rbout", "rbin", "mark", "rbstop", "rbstart", "rbwait", "rbsave"}
UpPlaces   == {"plan", "download", "planswap", "swap", "record", "inline"}
CmdOnly    == {"none", "status", "on", "off", "stop", "start", "wait", "confirm"}
ServeOnly  == {"none", "bind", "serving"}
Places     == BootPlaces \cup RbPlaces \cup UpPlaces \cup CmdOnly \cup ServeOnly

\* Where a process may wait while another one works.
CmdParked   == {"none", "status", "on", "off", "plan", "rbstat", "rbwait", "wait"}
ServeParked == {"none", "bind", "serving", "rbwait", "rbsave"}
Parked(p)   == proc[p].pc \in IF p = "cmd" THEN CmdParked ELSE ServeParked

\* The operations an update has left to do.
Plans == {<<>>, <<"in">>, <<"out", "in">>, <<"remove", "in">>, <<"remove", "out", "in">>}

StateType == [pending : Nat, confirmed : BOOLEAN, attempts : Nat, bad : Nat, was : BOOLEAN]
ProcType  == [role : Roles \cup {"none", "serve"}, ver : Nat, pc : Places,
              job : {"none", "boot", "apply", "manual"}, up : BOOLEAN, leaving : BOOLEAN,
              st : StateType, want : Nat, was : BOOLEAN, ops : Plans]

FileTypes ==
    /\ exe \in Nat /\ old \in Nat /\ bad \in Nat /\ staged \in Nat
    /\ disk \in StateType /\ latest \in Nat
    /\ sj \in Serves \cup {None} /\ faults \subseteq FaultKinds
Types == FileTypes /\ proc \in [Procs -> ProcType]

\* What a process p may be.
Fits(p, r) ==
    /\ r \in ProcType
    /\ r.role = "none" <=> r.pc = "none"
    /\ r.pc \in UpPlaces => r.job = "apply"
    /\ r.pc \in BootPlaces => r.job = "boot"
    /\ r.pc = "swap" => r.ops # <<>>
    /\ p = "cmd" => r.pc \notin {"bind", "serving"} /\ r.role # "serve" /\ ~r.leaving
    /\ p # "cmd" =>
          /\ r.pc \notin CmdOnly \ {"none"} /\ r.role \in {"none", "serve"} /\ r.job # "manual"
          /\ r.leaving => r.pc \in {"rbstart", "rbwait", "rbsave", "bind", "serving"}

\* One process works at a time: ...
OneWorks ==
    /\ \A s \in Serves : ~Rests(s) => Parked("cmd")
    /\ \A s, t \in Serves : s # t /\ ~Parked(s) => Parked(t)
    /\ \A s \in Serves, q \in Procs : s # q /\ proc[s].pc \in UpPlaces => Rests(q)
    /\ shell \in {"start", "dead", "spawn"} => Quiet

Orderly == Types /\ (\A p \in Procs : Fits(p, proc[p])) /\ OneWorks

\* What a step of p does to the other processes.
Kept(p)      == \A q \in Procs \ {p} :
                    proc'[q] = proc[q] \/ (q \in Serves /\ Parked(q) /\ proc'[q] = Gone)
Joined(p, n) == /\ n \in Serves \ {p} /\ proc[n].pc = "none" /\ Startable(exe)
                /\ proc'[n] = Started("serve")
                /\ \A q \in Procs \ {p, n} : proc'[q] = proc[q]
Beside(p)    == Kept(p) \/ \E n \in Serves : Joined(p, n)

LEMMA PairIs ==
    ASSUME NEW S, NEW a \in S, NEW b \in S
    PROVE  <<a>> \o <<b>> = <<a, b>>
<1>1. <<a>> \in Seq(S) /\ <<b>> \in Seq(S) /\ <<a, b>> \in Seq(S) OBVIOUS
<1>2. Len(<<a>> \o <<b>>) = 2 /\ <<a>> \o <<b>> \in Seq(S) BY <1>1, ConcatProperties
<1>3. (<<a>> \o <<b>>)[1] = a /\ (<<a>> \o <<b>>)[2] = b BY <1>1, ConcatProperties
<1>4. \A i \in 1..2 : (<<a>> \o <<b>>)[i] = <<a, b>>[i] BY <1>3
<1> QED BY <1>1, <1>2, <1>4, SeqEqual

LEMMA TripleIs ==
    ASSUME NEW S, NEW a \in S, NEW b \in S, NEW c \in S
    PROVE  <<a, b>> \o <<c>> = <<a, b, c>>
<1>1. <<a, b>> \in Seq(S) /\ <<c>> \in Seq(S) /\ <<a, b, c>> \in Seq(S) OBVIOUS
<1>2. Len(<<a, b>> \o <<c>>) = 3 /\ <<a, b>> \o <<c>> \in Seq(S) BY <1>1, ConcatProperties
<1>3. /\ (<<a, b>> \o <<c>>)[1] = a /\ (<<a, b>> \o <<c>>)[2] = b
      /\ (<<a, b>> \o <<c>>)[3] = c
  BY <1>1, ConcatProperties
<1>4. \A i \in 1..3 : (<<a, b>> \o <<c>>)[i] = <<a, b, c>>[i] BY <1>3
<1> QED BY <1>1, <1>2, <1>4, SeqEqual

\* PlanSwap's operations, case by case.
LEMMA SwapOpsAre ==
    SwapOps = IF old # 0 THEN IF exe # 0 THEN <<"remove", "out", "in">> ELSE <<"remove", "in">>
              ELSE IF exe # 0 THEN <<"out", "in">> ELSE <<"in">>
<1> DEFINE S == {"remove", "out", "in"}
<1>1. <<"out">> \o <<"in">> = <<"out", "in">> BY PairIs, "out" \in S, "in" \in S
<1>2. <<"remove">> \o <<"in">> = <<"remove", "in">> BY PairIs, "remove" \in S, "in" \in S
<1>3. <<"remove">> \o <<"out">> = <<"remove", "out">> BY PairIs, "remove" \in S, "out" \in S
<1>4. <<"remove", "out">> \o <<"in">> = <<"remove", "out", "in">>
  BY TripleIs, "remove" \in S, "out" \in S, "in" \in S
<1>5. <<>> \o <<"in">> = <<"in">> /\ <<>> \o <<"out">> = <<"out">> /\ <<>> \o <<>> = <<>>
      /\ <<"remove">> \o <<>> = <<"remove">>
  OBVIOUS
<1>6. CASE old # 0 /\ exe # 0 BY <1>6, <1>3, <1>4 DEF SwapOps
<1>7. CASE old # 0 /\ exe = 0 BY <1>7, <1>2, <1>5 DEF SwapOps
<1>8. CASE old = 0 /\ exe # 0 BY <1>8, <1>1, <1>5 DEF SwapOps
<1>9. CASE old = 0 /\ exe = 0 BY <1>9, <1>5 DEF SwapOps
<1> QED BY <1>6, <1>7, <1>8, <1>9

\* An operation done leaves a shorter plan.
LEMMA PlanTails ==
    /\ Head(<<"in">>) = "in" /\ Tail(<<"in">>) = <<>>
    /\ Head(<<"out", "in">>) = "out" /\ Tail(<<"out", "in">>) = <<"in">>
    /\ Head(<<"remove", "in">>) = "remove" /\ Tail(<<"remove", "in">>) = <<"in">>
    /\ Head(<<"remove", "out", "in">>) = "remove" /\ Tail(<<"remove", "out", "in">>) = <<"out", "in">>
    /\ <<"in">> # <<>> /\ <<"out", "in">> # <<>> /\ <<"remove", "in">> # <<>> /\ <<"remove", "out", "in">> # <<>>
OBVIOUS

LEMMA EditType ==
    ASSUME NEW r \in ProcType, NEW l \in Places, NEW st \in StateType, NEW w \in Nat, NEW was \in BOOLEAN
    PROVE  [r EXCEPT !.pc = l, !.st = st, !.want = w, !.was = was] \in ProcType
BY DEF ProcType

LEMMA GoneFits == ASSUME NEW p \in Procs PROVE Fits(p, Gone)
  BY SelfUpdateAssumption
    DEF Plans, Gone, Fits, ProcType, StateType, NoState, Places, CmdOnly, ServeOnly, BootPlaces, RbPlaces, UpPlaces, Procs

LEMMA StartedFits ==
    ASSUME Types, NEW p \in Procs, NEW r \in Roles \cup {"serve"}, p = "cmd" <=> r # "serve"
    PROVE  Fits(p, Started(r)) /\ Started(r).pc = "recover" /\ Started(r).ver = exe /\ Started(r).role = r
<1>1. Gone \in ProcType BY GoneFits DEF Fits
<1> QED BY <1>1, SelfUpdateAssumption
    DEF Started, Gone, Types, FileTypes, Fits, ProcType, Places, CmdOnly, ServeOnly, BootPlaces, RbPlaces, UpPlaces, Procs, Roles

\* The others of a process that is not parked are.
LEMMA Alone ==
    ASSUME Orderly, NEW p \in Procs, ~Parked(p), Turn(p), ~Overlap,
           NEW q \in Procs \ {p}
    PROVE  Parked(q) /\ (p = "cmd" \/ proc[p].pc \in UpPlaces => Rests(q))
<1>1. CASE p = "cmd"
  <2>1. q \in Serves /\ Rests(q) BY <1>1, SelfUpdateAssumption DEF Turn, Procs
  <2> QED BY <2>1, <1>1, SelfUpdateAssumption DEF Rests, Parked, ServeParked
<1>2. CASE p \in Serves /\ q = "cmd"
  <2>1. ~Rests(p) BY <1>2, SelfUpdateAssumption DEF Parked, Rests, ServeParked
  <2> QED BY <2>1, <1>2, SelfUpdateAssumption DEF Orderly, OneWorks
<1>3. CASE p \in Serves /\ q \in Serves
  BY <1>3, SelfUpdateAssumption DEF Orderly, OneWorks
<1> QED BY <1>1, <1>2, <1>3 DEF Procs

----------------------------------------------------------------------------
(* How the processes may move.                                             *)

\* p goes on, others stay or are killed.
LEMMA MoveKeeps ==
    ASSUME Orderly, ~Overlap, NEW p \in Procs, Turn(p), Types', Kept(p), Fits(p, proc'[p]),
           shell' = shell, Rests(p) => Rests(p)',
           p \in Serves => /\ Parked(p) => Parked(p)'
                           /\ proc'[p].pc \in UpPlaces => proc[p].pc \in UpPlaces
    PROVE  Orderly'
<1>1. \A q \in Procs : Fits(q, proc'[q]) BY GoneFits DEF Kept, Orderly
<1>2. \A q \in Procs \ {p} : /\ Parked(q) => Parked(q)'
                             /\ Rests(q) => Rests(q)'
                             /\ proc'[q].pc \in UpPlaces => proc[q].pc \in UpPlaces
  BY DEF Kept, Gone, Parked, Rests, CmdParked, ServeParked, UpPlaces
<1>3. CASE p = "cmd"
  <2>1. \A s \in Serves : Rests(s) BY <1>3, SelfUpdateAssumption DEF Turn
  <2>2. \A s \in Serves : Rests(s)' /\ Parked(s)' /\ proc'[s].pc \notin UpPlaces
    BY <2>1, <1>2, <1>3, SelfUpdateAssumption DEF Procs, Rests, Parked, ServeParked, UpPlaces
  <2>3. shell' \in {"start", "dead", "spawn"} => Quiet' BY <1>2 DEF Orderly, OneWorks, Quiet
  <2> QED BY <1>1, <2>2, <2>3 DEF Orderly, OneWorks
<1>4. CASE p \in Serves
  <2>1. "cmd" \in Procs \ {p} /\ Serves \subseteq Procs BY <1>4, SelfUpdateAssumption DEF Procs
  <2>2. ASSUME NEW s \in Serves, ~Rests(s)' PROVE Parked("cmd")'
    BY <2>1, <2>2, <1>2 DEF Orderly, OneWorks
  <2>3. ASSUME NEW s \in Serves, NEW t \in Serves, s # t, ~Parked(s)' PROVE Parked(t)'
    BY <2>1, <2>3, <1>2, <1>4 DEF Orderly, OneWorks
  <2>4. ASSUME NEW s \in Serves, NEW q \in Procs, s # q, proc'[s].pc \in UpPlaces PROVE Rests(q)'
    BY <2>1, <2>4, <1>2, <1>4 DEF Orderly, OneWorks
  <2>5. shell' \in {"start", "dead", "spawn"} => Quiet' BY <1>2 DEF Orderly, OneWorks, Quiet
  <2> QED BY <1>1, <2>2, <2>3, <2>4, <2>5 DEF Orderly, OneWorks
<1> QED BY <1>3, <1>4 DEF Procs

\* A daemon joins processes that are parked.
LEMMA JoinKeeps ==
    ASSUME Orderly, NEW p, NEW n \in Serves, Types', Joined(p, n),
           p \in Procs => Fits(p, proc'[p]) /\ Parked(p)',
           \A q \in Procs \ {p} : Parked(q),
           shell' \notin {"start", "dead", "spawn"}
    PROVE  Orderly'
<1>1. n # "cmd" /\ n \in Procs /\ Serves \subseteq Procs /\ "cmd" \in Procs BY SelfUpdateAssumption DEF Procs
<1>2. \A q \in Procs \ {n} : Parked(q)' /\ Fits(q, proc'[q])
  BY DEF Joined, Orderly, Parked
<1>3. Fits(n, proc'[n]) /\ proc'[n].pc = "recover" BY <1>1, StartedFits DEF Joined, Orderly
<1>4. \A s \in Serves : proc'[s].pc \notin UpPlaces
  BY <1>1, <1>2, <1>3, SelfUpdateAssumption DEF Parked, ServeParked, UpPlaces
<1> QED BY <1>1, <1>2, <1>3, <1>4 DEF Orderly, OneWorks

LEMMA MoveIs ==
    ASSUME Orderly, NEW p \in Procs, NEW r, Fits(p, r), proc' = [proc EXCEPT ![p] = r]
    PROVE  proc' \in [Procs -> ProcType] /\ proc'[p] = r /\ Kept(p)
BY DEF Orderly, Types, Fits, Kept

LEMMA SpawnedIs ==
    ASSUME NEW f
    PROVE  \/ Spawned(f) = f
           \/ \E n \in Serves : /\ proc[n].role = "none" /\ Startable(exe)
                                /\ Spawned(f) = [f EXCEPT ![n] = Started("serve")]
BY DEF Spawned, FreeServes

\* What p becomes in a step that may add a daemon.
LEMMA SpawnKeeps ==
    ASSUME Orderly, ~Overlap, NEW p \in Procs, Turn(p), ~Rests(p), NEW r, Fits(p, r), r.pc # "none",
           IF p = "cmd" THEN r.pc \in CmdParked
           ELSE ~Parked(p) /\ r.pc \in ServeParked,
           proc' = Spawned([proc EXCEPT ![p] = r]),
           UNCHANGED shell,
           FileTypes'
    PROVE  Orderly' /\ proc'[p] = r /\ Beside(p)
<1> DEFINE f == [proc EXCEPT ![p] = r]
<1>0. f \in [Procs -> ProcType] /\ f[p] = r /\ \A q \in Procs \ {p} : f[q] = proc[q]
  BY DEF Orderly, Types, Fits
<1>1. CASE proc' = f
  <2>1. proc' \in [Procs -> ProcType] /\ proc'[p] = r /\ Kept(p) BY <1>1, MoveIs
  <2>2. p \in Serves => Parked(p)' /\ proc'[p].pc \notin UpPlaces
    BY <2>1, SelfUpdateAssumption DEF Parked, ServeParked, UpPlaces
  <2>3. Orderly' BY <2>1, <2>2, MoveKeeps DEF Types
  <2> QED BY <2>1, <2>3 DEF Beside
<1>2. CASE \E n \in Serves : /\ proc[n].role = "none" /\ Startable(exe)
                             /\ proc' = [f EXCEPT ![n] = Started("serve")]
  <2>1. PICK n \in Serves : /\ proc[n].role = "none" /\ Startable(exe)
                            /\ proc' = [f EXCEPT ![n] = Started("serve")]
    BY <1>2
  <2>2. n \in Procs /\ n # "cmd" BY SelfUpdateAssumption DEF Procs
  <2>3. proc[n].pc = "none" BY <2>1, <2>2 DEF Orderly, Fits
  <2>4. n # p BY <2>3 DEF Rests
  <2> HIDE DEF f
  <2>5. proc' \in [Procs -> ProcType] /\ proc'[p] = r /\ Joined(p, n)
    <3>1. Started("serve") \in ProcType BY <2>2, StartedFits DEF Fits, Orderly
    <3>2. \A q \in Procs : proc'[q] = IF q = n THEN Started("serve") ELSE f[q] BY <2>1, <1>0
    <3> QED BY <2>1, <2>2, <2>3, <2>4, <1>0, <3>1, <3>2 DEF Joined
  <2>6. Parked(p)' BY <2>5 DEF Parked
  <2>7. \A q \in Procs \ {p} : Parked(q)
    <3>1. CASE p = "cmd"
      BY <3>1, SelfUpdateAssumption DEF Turn, Procs, Rests, Parked, ServeParked
    <3>2. CASE p # "cmd" BY <3>2, Alone
    <3> QED BY <3>1, <3>2
  <2>8. shell' \notin {"start", "dead", "spawn"} BY DEF Orderly, OneWorks, Quiet
  <2>9. Orderly' BY <2>5, <2>6, <2>7, <2>8, JoinKeeps DEF Types
  <2> QED BY <2>5, <2>9 DEF Beside
<1> QED BY <1>1, <1>2, SpawnedIs

LEMMA AfterBootFits ==
    ASSUME Orderly, NEW p \in Procs, proc[p].pc # "none"
    PROVE  /\ Fits(p, AfterBoot(p)) /\ AfterBoot(p).pc # "none"
           /\ AfterBoot(p).pc \in IF p = "cmd" THEN {"status", "on", "off", "plan", "rbstat"} ELSE {"bind"}
<1>1. Fits(p, proc[p]) /\ proc[p].role # "none" BY DEF Orderly, Fits
<1>2. proc[p] \in ProcType BY <1>1 DEF Fits
<1> QED BY <1>1, <1>2
    DEF AfterBoot, Fits, ProcType, Places, Roles, CmdOnly, ServeOnly, BootPlaces, RbPlaces, UpPlaces

LEMMA AfterJobFits ==
    ASSUME Orderly, NEW p \in Procs, proc[p].pc # "none"
    PROVE  /\ Fits(p, AfterJob(p)) /\ AfterJob(p).pc # "none"
           /\ AfterJob(p).pc \in IF p = "cmd" THEN {"status", "on", "off", "plan", "rbstat"} ELSE {"bind", "serving"}
<1>1. Fits(p, proc[p]) /\ proc[p].role # "none" BY DEF Orderly, Fits
<1>2. proc[p] \in ProcType BY <1>1 DEF Fits
<1>3. CASE proc[p].job = "boot"
  <2>1. AfterJob(p) = AfterBoot(p) BY <1>3 DEF AfterJob
  <2> QED BY <2>1, AfterBootFits
<1>4. CASE proc[p].job # "boot" BY <1>4, <1>1, <1>2
    DEF AfterJob, Fits, ProcType, Places, Roles, CmdOnly, ServeOnly, BootPlaces, RbPlaces, UpPlaces
<1> QED BY <1>3, <1>4

LEMMA SaveTypes ==
    ASSUME Types, NEW st \in StateType, Save(st)
    PROVE  disk' \in StateType /\ faults' \subseteq FaultKinds
BY SelfUpdateAssumption DEF Types, FileTypes, Save, Merged, StateType, Fault

----------------------------------------------------------------------------
(* Every step leaves the processes in order.                               *)

\* p with another place, state, version wanted and daemon seen.
Edited(r, l, st, w, was) == [r EXCEPT !.pc = l, !.st = st, !.want = w, !.was = was]

LEMMA EditedPc ==
    ASSUME NEW p \in Procs, proc \in [Procs -> ProcType], NEW l
    PROVE  [proc EXCEPT ![p].pc = l]
             = [proc EXCEPT ![p] = Edited(proc[p], l, proc[p].st, proc[p].want, proc[p].was)]
BY DEF ProcType, Edited

LEMMA EditedSt ==
    ASSUME NEW p \in Procs, proc \in [Procs -> ProcType], NEW l, NEW st
    PROVE  [proc EXCEPT ![p].pc = l, ![p].st = st]
             = [proc EXCEPT ![p] = Edited(proc[p], l, st, proc[p].want, proc[p].was)]
BY DEF ProcType, Edited

LEMMA EditedWant ==
    ASSUME NEW p \in Procs, proc \in [Procs -> ProcType], NEW l, NEW w
    PROVE  [proc EXCEPT ![p].pc = l, ![p].want = w]
             = [proc EXCEPT ![p] = Edited(proc[p], l, proc[p].st, w, proc[p].was)]
BY DEF ProcType, Edited

LEMMA FailedType ==
    ASSUME NEW st \in StateType
    PROVE  /\ Failed(st) \in StateType
           /\ Failed(st).pending = st.pending /\ Failed(st).confirmed = st.confirmed
           /\ st.pending \in Nat /\ st.was \in BOOLEAN /\ st.bad \in Nat
<1>1. st.attempts + 1 \in Nat BY DEF StateType
<1> QED BY <1>1 DEF StateType, Failed

LEMMA EditFits ==
    ASSUME Orderly, NEW p \in Procs, proc[p].pc # "none",
           NEW l \in Places \ {"none", "swap"}, NEW st \in StateType, NEW w \in Nat, NEW was \in BOOLEAN,
           l \in UpPlaces => proc[p].job = "apply",
           l \in BootPlaces => proc[p].job = "boot",
           p = "cmd" => l \notin {"bind", "serving"},
           p # "cmd" => /\ l \notin CmdOnly
                        /\ proc[p].leaving => l \in {"rbstart", "rbwait", "rbsave", "bind", "serving"}
    PROVE  /\ Fits(p, Edited(proc[p], l, st, w, was))
           /\ LET x == Edited(proc[p], l, st, w, was)
              IN  /\ x.pc = l /\ x.st = st /\ x.want = w /\ x.was = was /\ x.ver = proc[p].ver
                  /\ x.role = proc[p].role /\ x.job = proc[p].job /\ x.leaving = proc[p].leaving
<1> DEFINE x == Edited(proc[p], l, st, w, was)
<1>1. Fits(p, proc[p]) BY DEF Orderly
<1>2. x \in ProcType BY <1>1, EditType DEF Fits, Edited
<1>3. /\ x.pc = l /\ x.st = st /\ x.want = w /\ x.was = was /\ x.ver = proc[p].ver
      /\ x.role = proc[p].role /\ x.job = proc[p].job /\ x.leaving = proc[p].leaving
  BY <1>1 DEF Fits, ProcType, Edited
<1> HIDE DEF x
<1>4. Fits(p, x) BY <1>1, <1>2, <1>3 DEF Fits
<1> QED BY <1>3, <1>4 DEF x

\* A process at work goes on to r.
LEMMA GoesOn ==
    ASSUME Orderly, ~Overlap, NEW p \in Procs, Turn(p), ~Rests(p),
           NEW r, Fits(p, r), proc' = [proc EXCEPT ![p] = r],
           p \in Serves => /\ Parked(p) => r.pc \in ServeParked
                           /\ r.pc \in UpPlaces => proc[p].pc \in UpPlaces,
           UNCHANGED shell, FileTypes'
    PROVE  Orderly' /\ Kept(p) /\ Beside(p) /\ proc'[p] = r
<1>1. proc' \in [Procs -> ProcType] /\ proc'[p] = r /\ Kept(p) BY MoveIs
<1>2. p \in Serves => (Parked(p) => Parked(p)') BY <1>1, SelfUpdateAssumption DEF Parked
<1>3. Orderly' BY <1>1, <1>2, MoveKeeps DEF Types
<1> QED BY <1>1, <1>3 DEF Beside

LEMMA BootOrderly ==
    ASSUME Orderly, ~Overlap, NEW p \in Procs, Turn(p), BootHook(p)
    PROVE  Orderly' /\ Beside(p)
<1>1. /\ proc[p].pc \in BootPlaces /\ Types /\ Fits(p, proc[p])
      /\ proc \in [Procs -> ProcType] /\ proc[p] \in ProcType
  BY DEF Orderly, Types, Fits, BootHook, Recover, Restore, Load, BootCheck, BootSave, BootConfirm, At, BootPlaces
<1>2. /\ proc[p].job = "boot" /\ ~proc[p].leaving /\ proc[p].pc # "none" /\ ~Rests(p)
      /\ p \in Serves => ~Parked(p)
  BY <1>1, SelfUpdateAssumption DEF Fits, BootPlaces, Rests, Parked, ServeParked
<1>3. /\ proc[p].st \in StateType /\ proc[p].want \in Nat /\ proc[p].was \in BOOLEAN
  BY <1>1 DEF ProcType
<1>4. ASSUME NEW l \in BootPlaces \cup {"rbstat"}, NEW st \in StateType, NEW w \in Nat, NEW was \in BOOLEAN,
             proc' = [proc EXCEPT ![p] = Edited(proc[p], l, st, w, was)],
             UNCHANGED shell, FileTypes'
      PROVE  Orderly' /\ Beside(p)
  <2>1. l \in Places \ {"none", "swap"} /\ l \notin UpPlaces /\ l \notin {"bind", "serving"} /\ l \notin CmdOnly
    BY <1>4 DEF Places, BootPlaces, RbPlaces, UpPlaces, CmdOnly
  <2>2. Fits(p, Edited(proc[p], l, st, w, was)) /\ Edited(proc[p], l, st, w, was).pc = l
    BY <2>1, <1>2, <1>4, EditFits
  <2> QED BY <2>1, <2>2, <1>2, <1>4, GoesOn
<1>5. ASSUME proc' = GotoAfterBoot(p), UNCHANGED shell, FileTypes'
      PROVE  Orderly' /\ Beside(p)
  BY <1>2, <1>5, AfterBootFits, GoesOn, SelfUpdateAssumption DEF GotoAfterBoot, UpPlaces
<1>6. ASSUME proc' = Spawned(GotoAfterBoot(p)), UNCHANGED shell, FileTypes'
      PROVE  Orderly' /\ Beside(p)
  <2>1. proc' = Spawned([proc EXCEPT ![p] = AfterBoot(p)]) BY <1>6 DEF GotoAfterBoot
  <2>2. Fits(p, AfterBoot(p)) /\ AfterBoot(p).pc # "none" BY <1>2, AfterBootFits
  <2>3. AfterBoot(p).pc \in IF p = "cmd" THEN CmdParked ELSE ServeParked
    BY <1>2, AfterBootFits DEF CmdParked, ServeParked
  <2>4. p # "cmd" => ~Parked(p) BY <1>2 DEF Procs
  <2> QED BY <2>1, <2>2, <2>3, <2>4, <1>2, <1>6, SpawnKeeps
<1>7. ASSUME NEW l \in BootPlaces \cup {"rbstat"}, proc' = [proc EXCEPT ![p].pc = l], UNCHANGED shell, FileTypes'
      PROVE  Orderly' /\ Beside(p)
  <2>1. proc' = [proc EXCEPT ![p] = Edited(proc[p], l, proc[p].st, proc[p].want, proc[p].was)]
    BY <1>1, EditedPc, <1>7
  <2> QED BY <2>1, <1>3, <1>4, <1>7
<1>8. ASSUME NEW l \in BootPlaces \cup {"rbstat"}, NEW st \in StateType,
             proc' = [proc EXCEPT ![p].pc = l, ![p].st = st], UNCHANGED shell, FileTypes'
      PROVE  Orderly' /\ Beside(p)
  <2>1. proc' = [proc EXCEPT ![p] = Edited(proc[p], l, st, proc[p].want, proc[p].was)]
    BY <1>1, EditedSt, <1>8
  <2> QED BY <2>1, <1>3, <1>4, <1>8
<1>9. CASE Recover(p)
  <2>1. FileTypes' /\ UNCHANGED shell BY <1>1, <1>9 DEF Types, FileTypes, Recover, hist
  <2>2. PICK l \in {"restore", "load"} : proc' = [proc EXCEPT ![p].pc = l] BY <1>9 DEF Recover, Goto
  <2> QED BY <2>1, <2>2, <1>7 DEF BootPlaces
<1>10. CASE Restore(p)
  <2>1. FileTypes' /\ UNCHANGED shell BY <1>1, <1>10 DEF Types, FileTypes, Restore, hist
  <2>2. proc' = [proc EXCEPT ![p].pc = "restored"] \/ proc' = GotoAfterBoot(p) BY <1>10 DEF Restore, Goto
  <2> QED BY <2>1, <2>2, <1>5, <1>7 DEF BootPlaces
<1>13. CASE Load(p)
  <2>1. FileTypes' /\ UNCHANGED shell BY <1>1, <1>13 DEF Types, FileTypes, Load, hist, files
  <2>2. disk \in StateType /\ [disk EXCEPT !.pending = 0, !.bad = disk.pending] \in StateType
    BY <1>1 DEF Types, FileTypes, StateType
  <2>3. \/ \E st \in StateType : proc' = [proc EXCEPT ![p].pc = "bootsave", ![p].st = st]
        \/ \E st \in StateType : proc' = [proc EXCEPT ![p].pc = "bootcheck", ![p].st = st]
        \/ proc' = GotoAfterBoot(p) \/ proc' = Spawned(GotoAfterBoot(p))
    BY <2>2, <1>13 DEF Load
  <2> QED BY <2>1, <2>3, <1>5, <1>6, <1>8 DEF BootPlaces
<1>14. CASE BootCheck(p)
  <2>1. FileTypes' /\ UNCHANGED shell BY <1>1, <1>14 DEF Types, FileTypes, BootCheck, files
  <2>2. /\ Failed(proc[p].st) \in StateType
        /\ proc[p].st.pending \in Nat /\ proc[p].st.was \in BOOLEAN
    BY <1>3, FailedType
  <2>3. CASE proc' = [proc EXCEPT ![p].pc = "bootconfirm", ![p].st.confirmed = TRUE]
    <3>1. [proc[p].st EXCEPT !.confirmed = TRUE] \in StateType BY <1>3 DEF StateType
    <3>2. proc' = [proc EXCEPT ![p].pc = "bootconfirm", ![p].st = [proc[p].st EXCEPT !.confirmed = TRUE]]
      BY <2>3, <1>1
    <3> QED BY <3>1, <3>2, <2>1, <1>8 DEF BootPlaces
  <2>4. CASE proc' = [proc EXCEPT ![p].pc = "rbstat", ![p].st = Failed(proc[p].st),
                                  ![p].want = proc[p].st.pending, ![p].was = proc[p].st.was]
    <3>1. proc' = [proc EXCEPT ![p] = Edited(proc[p], "rbstat", Failed(proc[p].st),
                                             proc[p].st.pending, proc[p].st.was)]
      BY <2>4, <1>1 DEF Edited, ProcType
    <3> QED BY <3>1, <2>1, <2>2, <1>4
  <2>5. CASE proc' = [proc EXCEPT ![p].pc = "bootsave", ![p].st = Failed(proc[p].st)]
    BY <2>5, <2>1, <2>2, <1>8 DEF BootPlaces
  <2> QED BY <2>3, <2>4, <2>5, <1>14 DEF BootCheck
<1>11. CASE BootSave(p)
  <2>1. FileTypes' BY <1>1, <1>3, <1>11, SaveTypes DEF Types, FileTypes, BootSave, files
  <2> QED BY <2>1, <1>5, <1>11 DEF BootSave
<1>12. CASE BootConfirm(p)
  <2>1. FileTypes' BY <1>1, <1>3, <1>12, SaveTypes DEF Types, FileTypes, BootConfirm, files
  <2> QED BY <2>1, <1>5, <1>6, <1>12 DEF BootConfirm
<1> QED BY <1>9, <1>10, <1>11, <1>12, <1>13, <1>14 DEF BootHook

LEMMA StopOrderly ==
    ASSUME Orderly, ~Overlap, NEW p \in Procs, Turn(p), NEW next, Stop(p, next),
           \/ proc[p].pc = "rbstop" /\ next = "rbstart"
           \/ proc[p].pc = "stop" /\ next = "start"
    PROVE  Orderly' /\ Kept(p) /\ proc'[p].pc = next /\ proc'[p].st = proc[p].st
           /\ proc'[p].want = proc[p].want
<1>1. /\ Types /\ FileTypes /\ FileTypes' /\ Fits(p, proc[p]) /\ proc \in [Procs -> ProcType]
      /\ proc[p] \in ProcType /\ shell' = shell
  BY DEF Orderly, Types, FileTypes, Fits, Stop, files
<1>2. ~Rests(p) /\ ~Parked(p) /\ next \in Places /\ next # "none"
  BY DEF Rests, Parked, CmdParked, ServeParked, Places, RbPlaces, CmdOnly
<1>3. p \in Serves => proc[p].pc = "rbstop" BY <1>1, SelfUpdateAssumption DEF Fits, CmdOnly
<1>4. PICK r : /\ r = [proc[p] EXCEPT !.pc = next] \/ (sj = p /\ r = [proc[p] EXCEPT !.pc = next, !.up = FALSE, !.leaving = TRUE])
               /\ proc' \in [Procs -> ProcType]
               /\ proc'[p] = r
               /\ \A q \in Procs \ {p} : proc'[q] = proc[q] \/ (q \in Serves /\ proc'[q] = Gone)
  <2>1. \A q \in Procs : Gone \in ProcType BY GoneFits DEF Fits
  <2>2. CASE sj = p
    <3>1. [proc[p] EXCEPT !.pc = next, !.up = FALSE, !.leaving = TRUE] \in ProcType
      BY <1>1, <1>2 DEF ProcType
    <3> QED BY <2>2, <3>1, <1>1 DEF Stop
  <2>3. CASE sj # p
    <3>1. [proc[p] EXCEPT !.pc = next] \in ProcType BY <1>1, <1>2 DEF ProcType
    <3>2. /\ Stopped(proc) \in [Procs -> ProcType] /\ Stopped(proc)[p] = proc[p]
          /\ \A q \in Procs \ {p} : Stopped(proc)[q] = proc[q] \/ (q \in Serves /\ Stopped(proc)[q] = Gone)
      BY <2>1, <2>3, <1>1 DEF Stopped, FileTypes
    <3>3. proc' = [Stopped(proc) EXCEPT ![p].pc = next] BY <2>3 DEF Stop
    <3> QED BY <3>1, <3>2, <3>3
  <2> QED BY <2>2, <2>3
<1>5. /\ r \in ProcType /\ r.pc = next /\ r.role = proc[p].role /\ r.job = proc[p].job
      /\ r.st = proc[p].st /\ r.want = proc[p].want
      /\ r.leaving => sj = p \/ proc[p].leaving
  BY <1>1, <1>4 DEF ProcType
<1>6. sj = p => p # "cmd" BY <1>1, SelfUpdateAssumption DEF FileTypes
<1>7. Fits(p, r)
  BY <1>1, <1>3, <1>5, <1>6, SelfUpdateAssumption DEF Fits, UpPlaces, BootPlaces, CmdOnly, Procs
<1>8. Kept(p) BY <1>2, <1>4, Alone DEF Kept
<1>9. p \in Serves => proc'[p].pc \notin UpPlaces BY <1>4, <1>5 DEF UpPlaces
<1>10. Orderly' BY <1>1, <1>2, <1>4, <1>7, <1>8, <1>9, MoveKeeps DEF Types
<1> QED BY <1>4, <1>5, <1>8, <1>10

LEMMA RollbackOrderly ==
    ASSUME Orderly, ~Overlap, NEW p \in Procs, Turn(p), Rollback(p)
    PROVE  Orderly' /\ Beside(p)
<1>1. /\ proc[p].pc \in RbPlaces /\ Types /\ Fits(p, proc[p])
      /\ proc \in [Procs -> ProcType] /\ proc[p] \in ProcType
  BY DEF Orderly, Types, Fits, Rollback, RbStat, RbOut, RbIn, Mark, RbStop, RbStart, RbWait, RbSave, At, RbPlaces
<1>2. /\ proc[p].pc # "none" /\ ~Rests(p)
      /\ p \in Serves => (Parked(p) => proc[p].pc \in {"rbwait", "rbsave"})
      /\ proc[p].leaving => proc[p].pc \in {"rbstart", "rbwait", "rbsave"} /\ p # "cmd"
  BY <1>1, SelfUpdateAssumption DEF Fits, RbPlaces, Rests, Parked, ServeParked
<1>3. /\ proc[p].st \in StateType /\ proc[p].want \in Nat /\ proc[p].was \in BOOLEAN
  BY <1>1 DEF ProcType
<1>4. ASSUME NEW l \in RbPlaces, NEW st \in StateType,
             proc' = [proc EXCEPT ![p].pc = l, ![p].st = st],
             ~proc[p].leaving \/ l \in {"rbstart", "rbwait", "rbsave"},
             proc[p].pc \in {"rbwait", "rbsave"} => l = "rbsave",
             UNCHANGED shell, FileTypes'
      PROVE  Orderly' /\ Beside(p)
  <2>1. l \in Places \ {"none", "swap"} /\ l \notin UpPlaces /\ l \notin BootPlaces
        /\ l \notin {"bind", "serving"} /\ l \notin CmdOnly
    BY <1>4 DEF Places, BootPlaces, RbPlaces, UpPlaces, CmdOnly
  <2>2. proc' = [proc EXCEPT ![p] = Edited(proc[p], l, st, proc[p].want, proc[p].was)]
    BY <1>1, EditedSt, <1>4
  <2>3. /\ Fits(p, Edited(proc[p], l, st, proc[p].want, proc[p].was))
        /\ Edited(proc[p], l, st, proc[p].want, proc[p].was).pc = l
    BY <2>1, <1>2, <1>3, <1>4, EditFits
  <2>4. p \in Serves => (Parked(p) => l \in ServeParked) BY <1>2, <1>4 DEF ServeParked
  <2> QED BY <2>1, <2>2, <2>3, <2>4, <1>2, <1>4, GoesOn
<1>5. ASSUME NEW l \in RbPlaces, proc' = [proc EXCEPT ![p].pc = l],
             ~proc[p].leaving \/ l \in {"rbstart", "rbwait", "rbsave"},
             proc[p].pc \in {"rbwait", "rbsave"} => l = "rbsave",
             UNCHANGED shell, FileTypes'
      PROVE  Orderly' /\ Beside(p)
  <2>1. proc' = [proc EXCEPT ![p].pc = l, ![p].st = proc[p].st] BY <1>1, <1>5 DEF ProcType
  <2> QED BY <2>1, <1>3, <1>4, <1>5
<1>6. ASSUME proc' = GotoAfterJob(p), UNCHANGED shell, FileTypes'
      PROVE  Orderly' /\ Beside(p)
  <2>1. Fits(p, AfterJob(p)) /\ (p # "cmd" => AfterJob(p).pc \in {"bind", "serving"})
    BY <1>2, AfterJobFits
  <2>2. p \in Serves => AfterJob(p).pc \in ServeParked /\ AfterJob(p).pc \notin UpPlaces
    BY <2>1, SelfUpdateAssumption DEF ServeParked, UpPlaces
  <2> QED BY <2>1, <2>2, <1>2, <1>6, GoesOn DEF GotoAfterJob
<1>7. ASSUME RollbackFailed(p), ~proc[p].leaving, proc[p].pc \notin {"rbwait", "rbsave"}, UNCHANGED shell, FileTypes'
      PROVE  Orderly' /\ Beside(p)
  BY <1>5, <1>6, <1>7 DEF RollbackFailed, Goto, RbPlaces
<1>8. CASE RbStat(p)
  <2>1. FileTypes' /\ UNCHANGED shell BY <1>1, <1>8 DEF Types, FileTypes, RbStat, hist, files
  <2>2. ~proc[p].leaving BY <1>2, <1>8 DEF RbStat, At
  <2> QED BY <2>1, <2>2, <1>5, <1>7, <1>8 DEF RbStat, Goto, RbPlaces, At
<1>9. CASE RbOut(p)
  <2>1. FileTypes' /\ UNCHANGED shell
    BY <1>1, <1>9, SelfUpdateAssumption DEF Types, FileTypes, RbOut, hist, files, Fault
  <2>2. ~proc[p].leaving BY <1>2, <1>9 DEF RbOut, At
  <2>3. RollbackFailed(p) \/ proc' = [proc EXCEPT ![p].pc = "rbin"] BY <1>9 DEF RbOut, Goto
  <2> QED BY <2>1, <2>2, <2>3, <1>5, <1>7, <1>9 DEF RbOut, RbPlaces, At
<1>10. CASE RbIn(p)
  <2>1. FileTypes' /\ UNCHANGED shell
    BY <1>1, <1>10, SelfUpdateAssumption DEF Types, FileTypes, RbIn, hist, files, Fault
  <2>2. ~proc[p].leaving BY <1>2, <1>10 DEF RbIn, At
  <2>3. RollbackFailed(p) \/ proc' = [proc EXCEPT ![p].pc = "mark"] BY <1>10 DEF RbIn, Goto
  <2> QED BY <2>1, <2>2, <2>3, <1>5, <1>7, <1>10 DEF RbIn, RbPlaces, At
<1>11. CASE Mark(p)
  <2>1. FileTypes' /\ UNCHANGED shell BY <1>1, <1>11 DEF Types, FileTypes, Mark, hist, files
  <2>2. ~proc[p].leaving BY <1>2, <1>11 DEF Mark, At
  <2>3. disk \in StateType /\ disk.pending \in Nat BY <1>1 DEF Types, FileTypes, StateType
  <2>4. \A v \in Nat : [disk EXCEPT !.pending = 0, !.bad = v] \in StateType BY <2>3 DEF StateType
  <2>5. \E l \in {"rbstop", "rbsave"}, st \in StateType : proc' = [proc EXCEPT ![p].pc = l, ![p].st = st]
    BY <2>3, <2>4, <1>3, <1>11 DEF Mark
  <2> QED BY <2>1, <2>2, <2>5, <1>4, <1>11 DEF Mark, RbPlaces, At
<1>12. CASE RbStop(p)
  BY <1>12, StopOrderly DEF RbStop, At, Beside
<1>13. CASE RbStart(p)
  <2>1. FileTypes' /\ UNCHANGED shell BY <1>1, <1>13 DEF Types, FileTypes, RbStart, hist, files
  <2>2. proc' = Spawned([proc EXCEPT ![p] = Edited(proc[p], "rbwait", proc[p].st, proc[p].want, proc[p].was)])
    BY <1>1, EditedPc, <1>13 DEF RbStart, Goto
  <2>3. /\ Fits(p, Edited(proc[p], "rbwait", proc[p].st, proc[p].want, proc[p].was))
        /\ Edited(proc[p], "rbwait", proc[p].st, proc[p].want, proc[p].was).pc = "rbwait"
    BY <1>2, <1>3, EditFits DEF Places, UpPlaces, BootPlaces, CmdOnly, RbPlaces
  <2>4. p # "cmd" => ~Parked(p) BY <1>13 DEF RbStart, At, Parked, ServeParked
  <2> QED BY <2>1, <2>2, <2>3, <2>4, <1>2, SpawnKeeps DEF CmdParked, ServeParked
<1>14. CASE RbWait(p)
  <2>1. FileTypes' /\ UNCHANGED shell BY <1>1, <1>14 DEF Types, FileTypes, RbWait, hist, files
  <2> QED BY <2>1, <1>5, <1>14 DEF RbWait, Goto, RbPlaces, At
<1>15. CASE RbSave(p)
  <2>1. FileTypes' /\ UNCHANGED shell BY <1>1, <1>3, <1>15, SaveTypes DEF Types, FileTypes, RbSave, files
  <2> QED BY <2>1, <1>6, <1>15 DEF RbSave
<1> QED BY <1>8, <1>9, <1>10, <1>11, <1>12, <1>13, <1>14, <1>15 DEF Rollback

LEMMA ApplyOrderly ==
    ASSUME Orderly, ~Overlap, NEW p \in Procs, Turn(p), ApplyPlan(p)
    PROVE  Orderly' /\ Beside(p)
<1> DEFINE Own == {"stop", "start", "wait", "confirm"}
<1>1. /\ proc[p].pc \in UpPlaces \cup Own /\ Types /\ Fits(p, proc[p])
      /\ proc \in [Procs -> ProcType] /\ proc[p] \in ProcType
  BY DEF Orderly, Types, Fits, ApplyPlan, Plan, Download, PlanSwap, SwapOp, Record, Inline, StopOld, StartNew,
         WaitVersion, Confirm, At, UpPlaces
<1>2. /\ proc[p].pc # "none" /\ ~Rests(p) /\ ~proc[p].leaving
      /\ p \in Serves => ~Parked(p)
      /\ proc[p].pc \in Own => p = "cmd"
      /\ proc[p].pc \in UpPlaces => proc[p].job = "apply"
  BY <1>1, SelfUpdateAssumption DEF Fits, UpPlaces, Rests, Parked, ServeParked, CmdOnly
<1>3. /\ proc[p].st \in StateType /\ proc[p].want \in Nat /\ proc[p].was \in BOOLEAN
  BY <1>1 DEF ProcType
<1>4. ASSUME NEW l \in (UpPlaces \ {"plan", "swap"}) \cup Own \cup {"rbstat"}, NEW st \in StateType, NEW w \in Nat,
             proc' = [proc EXCEPT ![p] = Edited(proc[p], l, st, w, proc[p].was)],
             l \in UpPlaces => proc[p].pc \in UpPlaces,
             l \in Own => p = "cmd",
             UNCHANGED shell, FileTypes'
      PROVE  Orderly' /\ Beside(p)
  <2>1. l \in Places \ {"none", "swap"} /\ l \notin BootPlaces /\ l \notin {"bind", "serving"}
        /\ (l \in CmdOnly => p = "cmd") /\ (l \in UpPlaces => proc[p].job = "apply")
    BY <1>2, <1>4 DEF Places, BootPlaces, RbPlaces, UpPlaces, CmdOnly
  <2>2. /\ Fits(p, Edited(proc[p], l, st, w, proc[p].was))
        /\ Edited(proc[p], l, st, w, proc[p].was).pc = l
    BY <2>1, <1>2, <1>3, <1>4, EditFits
  <2> QED BY <2>1, <2>2, <1>2, <1>4, GoesOn
<1>5. ASSUME NEW l \in (UpPlaces \ {"plan", "swap"}) \cup Own \cup {"rbstat"}, proc' = [proc EXCEPT ![p].pc = l],
             l \in UpPlaces => proc[p].pc \in UpPlaces,
             l \in Own => p = "cmd",
             UNCHANGED shell, FileTypes'
      PROVE  Orderly' /\ Beside(p)
  <2>1. proc' = [proc EXCEPT ![p] = Edited(proc[p], l, proc[p].st, proc[p].want, proc[p].was)]
    BY <1>1, EditedPc, <1>5
  <2> QED BY <2>1, <1>3, <1>4, <1>5
<1>6. ASSUME proc' = GotoAfterJob(p), UNCHANGED shell, FileTypes'
      PROVE  Orderly' /\ Beside(p)
  <2>1. Fits(p, AfterJob(p)) /\ (p # "cmd" => AfterJob(p).pc \in {"bind", "serving"})
    BY <1>2, AfterJobFits
  <2>2. p \in Serves => AfterJob(p).pc \notin UpPlaces
    BY <2>1, SelfUpdateAssumption DEF UpPlaces
  <2> QED BY <2>1, <2>2, <1>2, <1>6, GoesOn DEF GotoAfterJob
\* The record of a swap: other fields of p change with it.
<1>7. ASSUME NEW r \in ProcType, r.pc \in UpPlaces, proc[p].pc \in UpPlaces,
             r.role = proc[p].role, r.job = proc[p].job, ~r.leaving, r.pc = "swap" => r.ops # <<>>,
             proc' = [proc EXCEPT ![p] = r], UNCHANGED shell, FileTypes'
      PROVE  Orderly' /\ Beside(p)
  <2>1. Fits(p, r) BY <1>1, <1>2, <1>7 DEF Fits, UpPlaces, BootPlaces, CmdOnly
  <2> QED BY <2>1, <1>2, <1>7, GoesOn
<1>8. CASE Plan(p)
  <2>1. FileTypes' /\ UNCHANGED shell /\ latest \in Nat BY <1>1, <1>8 DEF Types, FileTypes, Plan, hist, files
  <2>2. CASE proc' = [proc EXCEPT ![p].pc = "download", ![p].want = latest]
    <3>1. proc' = [proc EXCEPT ![p] = Edited(proc[p], "download", proc[p].st, latest, proc[p].was)]
      BY <1>1, EditedWant, <2>2
    <3>2. "download" \in UpPlaces \ {"plan", "swap"} /\ "download" \notin Own /\ proc[p].pc \in UpPlaces
      BY <1>8 DEF UpPlaces, Plan, At
    <3> QED BY <3>1, <3>2, <2>1, <1>3, <1>4
  <2> QED BY <2>1, <2>2, <1>6, <1>8 DEF Plan
<1>9. CASE Download(p)
  <2>1. FileTypes' /\ UNCHANGED shell BY <1>1, <1>3, <1>9 DEF Types, FileTypes, Download, EndApply, hist
  <2> QED BY <2>1, <1>5, <1>6, <1>9 DEF Download, EndApply, Goto, At, UpPlaces
<1>10. CASE PlanSwap(p)
  <2>1. FileTypes' /\ UNCHANGED shell BY <1>1, <1>10 DEF Types, FileTypes, PlanSwap, EndApply
  <2>2. CASE staged = proc[p].want
    <3> DEFINE r == [proc[p] EXCEPT !.pc = "swap", !.was = Alive, !.ops = SwapOps]
    <3>1. SwapOps \in Plans \ {<<>>} BY SwapOpsAre, PlanTails DEF Plans
    <3>2. Alive \in BOOLEAN
      BY <1>1, SelfUpdateAssumption DEF Alive, Types, FileTypes, ProcType, Procs
    <3>3. /\ r \in ProcType /\ r.pc = "swap" /\ r.role = proc[p].role /\ r.job = proc[p].job
          /\ ~r.leaving /\ r.ops = SwapOps
      BY <3>1, <3>2, <1>1, <1>2 DEF ProcType, Places, UpPlaces
    <3>4. proc' = [proc EXCEPT ![p] = r] BY <2>2, <1>1, <1>10 DEF PlanSwap
    <3> HIDE DEF r
    <3> QED BY <3>1, <3>3, <3>4, <2>1, <1>7, <1>10 DEF PlanSwap, At, UpPlaces
  <2> QED BY <2>1, <2>2, <1>6, <1>10 DEF PlanSwap, EndApply
<1>11. CASE SwapOp(p)
  <2>1. FileTypes' /\ UNCHANGED shell
    BY <1>1, <1>11, SelfUpdateAssumption DEF Types, FileTypes, SwapOp, EndApply, hist, Fault
  <2>2. ASSUME proc' = [proc EXCEPT ![p].ops = Tail(proc[p].ops),
                                    ![p].pc = IF Tail(proc[p].ops) = <<>> THEN "record" ELSE "swap"]
        PROVE  Orderly' /\ Beside(p)
    <3> DEFINE r == [proc[p] EXCEPT !.ops = Tail(proc[p].ops),
                                    !.pc = IF Tail(proc[p].ops) = <<>> THEN "record" ELSE "swap"]
    <3>1. proc[p].ops \in Plans \ {<<>>} BY <1>1, <1>11 DEF Fits, ProcType, SwapOp, At
    <3>2. Tail(proc[p].ops) \in Plans BY <3>1, PlanTails DEF Plans
    <3>3. /\ r \in ProcType /\ r.pc \in {"record", "swap"} /\ r.role = proc[p].role /\ r.job = proc[p].job
          /\ ~r.leaving /\ r.ops = Tail(proc[p].ops) /\ (r.pc = "swap" => r.ops # <<>>)
      BY <3>2, <1>1, <1>2 DEF ProcType, Places, UpPlaces
    <3>4. proc' = [proc EXCEPT ![p] = r] BY <2>2, <1>1
    <3> HIDE DEF r
    <3> QED BY <3>3, <3>4, <2>1, <1>7, <1>11 DEF SwapOp, At, UpPlaces
  <2> QED BY <2>1, <2>2, <1>6, <1>11 DEF SwapOp, EndApply
<1>12. CASE Record(p)
  <2> DEFINE st == [NoState EXCEPT !.pending = proc[p].want, !.was = proc[p].was]
  <2>0. st \in StateType BY <1>3 DEF NoState, StateType
  <2>1. FileTypes' /\ UNCHANGED shell
    BY <2>0, <1>1, <1>12, SaveTypes DEF Types, FileTypes, Record, files
  <2>2. CASE proc' = [proc EXCEPT ![p].pc = "inline", ![p].st = st]
    <3>1. proc' = [proc EXCEPT ![p] = Edited(proc[p], "inline", st, proc[p].want, proc[p].was)]
      BY <1>1, EditedSt, <2>2
    <3>2. "inline" \in UpPlaces \ {"plan", "swap"} /\ "inline" \notin Own /\ proc[p].pc \in UpPlaces
      BY <1>12 DEF UpPlaces, Record, At
    <3> HIDE DEF st
    <3> QED BY <3>1, <3>2, <2>0, <2>1, <1>3, <1>4
  <2> QED BY <2>1, <2>2, <1>6, <1>12 DEF Record
<1>13. CASE Inline(p)
  <2>1. FileTypes' /\ UNCHANGED shell BY <1>1, <1>13 DEF Types, FileTypes, Inline, files
  <2>2. CASE proc[p].role = "serve" /\ proc' = [GotoAfterJob(p) EXCEPT ![p].leaving = TRUE]
    <3> DEFINE r == [proc[p] EXCEPT !.pc = "serving", !.job = "none", !.leaving = TRUE]
    <3>1. proc[p].job = "apply" BY <1>2, <1>13 DEF Inline, At, UpPlaces
    <3>2. proc' = [proc EXCEPT ![p] = r] BY <3>1, <2>2, <1>1 DEF GotoAfterJob, AfterJob
    <3>3. /\ r \in ProcType /\ r.pc = "serving" /\ r.role = "serve" /\ r.job = "none"
      BY <2>2, <1>1 DEF ProcType, Places, ServeOnly
    <3>4. p # "cmd" BY <2>2, <1>1 DEF Fits
    <3> HIDE DEF r
    <3>5. Fits(p, r) BY <3>3, <3>4 DEF Fits, UpPlaces, BootPlaces, CmdOnly
    <3> QED BY <3>2, <3>3, <3>5, <2>1, <1>2, GoesOn DEF UpPlaces
  <2>3. CASE proc[p].role # "serve" /\ proc' = Goto(p, IF proc[p].was THEN "stop" ELSE "confirm")
    <3>1. p = "cmd" BY <2>3, <1>1, <1>2 DEF Fits, Procs
    <3> QED BY <3>1, <2>1, <2>3, <1>5 DEF Goto, UpPlaces
  <2> QED BY <2>1, <2>2, <2>3, <1>5, <1>13 DEF Inline, Goto, UpPlaces
<1>14. CASE StopOld(p)
  BY <1>14, StopOrderly DEF StopOld, At, Beside
<1>15. CASE StartNew(p)
  <2>1. FileTypes' /\ UNCHANGED shell BY <1>1, <1>15 DEF Types, FileTypes, StartNew, hist, files
  <2>2. proc' = Spawned([proc EXCEPT ![p] = Edited(proc[p], "wait", proc[p].st, proc[p].want, proc[p].was)])
    BY <1>1, EditedPc, <1>15 DEF StartNew, Goto
  <2>3. p = "cmd" BY <1>2, <1>15 DEF StartNew, At
  <2>4. /\ Fits(p, Edited(proc[p], "wait", proc[p].st, proc[p].want, proc[p].was))
        /\ Edited(proc[p], "wait", proc[p].st, proc[p].want, proc[p].was).pc = "wait"
    <3>1. "wait" \in Places \ {"none", "swap"} /\ "wait" \notin UpPlaces /\ "wait" \notin BootPlaces
      BY DEF Places, UpPlaces, BootPlaces, CmdOnly
    <3> QED BY <3>1, <2>3, <1>2, <1>3, EditFits
  <2> QED BY <2>1, <2>2, <2>3, <2>4, <1>2, SpawnKeeps DEF CmdParked
<1>16. CASE WaitVersion(p)
  <2>1. FileTypes' /\ UNCHANGED shell BY <1>1, <1>16 DEF Types, FileTypes, WaitVersion, hist, files
  <2>2. p = "cmd" BY <1>2, <1>16 DEF WaitVersion, At
  <2> QED BY <2>1, <2>2, <1>5, <1>16 DEF WaitVersion, Goto, UpPlaces
<1>17. CASE Confirm(p)
  <2>1. [proc[p].st EXCEPT !.confirmed = TRUE] \in StateType BY <1>3 DEF StateType
  <2>2. FileTypes' /\ UNCHANGED shell BY <2>1, <1>1, <1>17, SaveTypes DEF Types, FileTypes, Confirm, files
  <2> QED BY <2>2, <1>6, <1>17 DEF Confirm
<1> QED BY <1>8, <1>9, <1>10, <1>11, <1>12, <1>13, <1>14, <1>15, <1>16, <1>17 DEF ApplyPlan

\* A process that ends is a command that is done or a daemon that is leaving.
LEMMA EndsOrderly ==
    ASSUME Orderly, ~Overlap, NEW p \in Procs, Turn(p), Exit(p)
    PROVE  Orderly' /\ Beside(p) /\ proc'[p] = Gone
           /\ proc[p].pc \in {"status", "rbstart", "rbwait", "rbsave", "bind", "serving"}
<1>1. /\ Types /\ Fits(p, proc[p]) /\ proc' = [proc EXCEPT ![p] = Gone]
      /\ FileTypes' /\ UNCHANGED shell
  BY DEF Orderly, Types, FileTypes, Exit, Ends, files
<1>2. proc' \in [Procs -> ProcType] /\ proc'[p] = Gone /\ Kept(p) BY <1>1, GoneFits, MoveIs
<1>3. Rests(p)' /\ Parked(p)' /\ proc'[p].pc \notin UpPlaces
  BY <1>2 DEF Gone, Rests, Parked, CmdParked, ServeParked, UpPlaces
<1>4. Orderly' BY <1>1, <1>2, <1>3, GoneFits, MoveKeeps DEF Types
<1>5. proc[p].pc \in {"status", "rbstart", "rbwait", "rbsave", "bind", "serving"}
  BY <1>1 DEF Exit, At, Fits
<1> QED BY <1>2, <1>4, <1>5 DEF Beside

\* A process begins while all the others rest.
LEMMA BeginOrderly ==
    ASSUME Orderly, ~Overlap, NEW p \in Procs, Calm(p), NEW r, Fits(p, r),
           proc' = [proc EXCEPT ![p] = r], UNCHANGED shell, FileTypes'
    PROVE  Orderly' /\ Kept(p) /\ proc'[p] = r
<1>1. proc' \in [Procs -> ProcType] /\ proc'[p] = r /\ Kept(p) BY MoveIs
<1>2. \A q \in Procs : Fits(q, proc'[q]) BY <1>1, GoneFits DEF Kept, Orderly
<1>3. \A q \in Procs \ {p} : Rests(q)' /\ Parked(q)' /\ proc'[q].pc \notin UpPlaces
  <2> SUFFICES ASSUME NEW q \in Procs \ {p} PROVE Rests(q)' /\ Parked(q)' /\ proc'[q].pc \notin UpPlaces
    OBVIOUS
  <2>1. proc[q].pc \in {"none", "serving"} /\ (q = "cmd" => proc[q].pc # "serving")
    BY DEF Calm, Rests, Orderly, Fits
  <2>2. proc'[q].pc \in {"none", proc[q].pc} BY <1>1 DEF Kept, Gone
  <2> QED BY <2>1, <2>2 DEF Rests, Parked, CmdParked, ServeParked, UpPlaces
<1>4. shell' \notin {"start", "dead", "spawn"} BY DEF Calm
<1>5. Serves \subseteq Procs /\ "cmd" \in Procs /\ "cmd" \notin Serves BY SelfUpdateAssumption DEF Procs
<1>6. \A s \in Serves : ~Rests(s)' => Parked("cmd")' BY <1>3, <1>5
<1>7. \A s, t \in Serves : s # t /\ ~Parked(s)' => Parked(t)' BY <1>3, <1>5
<1>8. \A s \in Serves, q \in Procs : s # q /\ proc'[s].pc \in UpPlaces => Rests(q)' BY <1>3, <1>5
<1> QED BY <1>1, <1>2, <1>4, <1>6, <1>7, <1>8 DEF Orderly, OneWorks, Types

LEMMA BindOrderly ==
    ASSUME Orderly, ~Overlap, NEW s \in Serves, Bind(s)
    PROVE  Orderly' /\ Beside(s) /\ proc'[s].pc = "serving"
<1> DEFINE r == [proc[s] EXCEPT !.pc = "serving", !.up = TRUE]
<1>1. /\ Types /\ Fits(s, proc[s]) /\ proc[s] \in ProcType /\ s \in Procs /\ s # "cmd"
      /\ FileTypes' /\ UNCHANGED shell
  BY SelfUpdateAssumption DEF Orderly, Types, FileTypes, Fits, Bind, files, Procs
<1>2. proc' = [proc EXCEPT ![s] = r] BY <1>1 DEF Bind, Types
<1>3. /\ r \in ProcType /\ r.pc = "serving" /\ r.role = proc[s].role /\ r.job = proc[s].job
      /\ r.leaving = proc[s].leaving
  BY <1>1 DEF ProcType, Places, ServeOnly
<1>4. proc[s].pc = "bind" BY DEF Bind, At
<1> HIDE DEF r
<1>5. Fits(s, r) BY <1>1, <1>3, <1>4 DEF Fits, UpPlaces, BootPlaces, CmdOnly
<1>6. ~Rests(s) /\ Turn(s) BY <1>4 DEF Rests, Turn
<1>7. r.pc \in ServeParked /\ r.pc \notin UpPlaces BY <1>3 DEF ServeParked, UpPlaces
<1> QED BY <1>1, <1>2, <1>3, <1>5, <1>6, <1>7, GoesOn

LEMMA ApplyBegins ==
    ASSUME Orderly, ~Overlap, NEW s \in Serves, Apply(s)
    PROVE  Orderly' /\ Beside(s) /\ proc'[s].pc = "plan" /\ Rests(s)
<1> DEFINE r == [proc[s] EXCEPT !.pc = "plan", !.job = "apply"]
<1>1. /\ Types /\ Fits(s, proc[s]) /\ proc[s] \in ProcType /\ s \in Procs /\ s # "cmd"
      /\ FileTypes' /\ UNCHANGED shell
  BY SelfUpdateAssumption DEF Orderly, Types, FileTypes, Fits, Apply, files, Procs, hist
<1>2. proc' = [proc EXCEPT ![s] = r] BY <1>1 DEF Apply, Types
<1>3. /\ r \in ProcType /\ r.pc = "plan" /\ r.role = proc[s].role /\ r.job = "apply"
      /\ r.leaving = proc[s].leaving
  BY <1>1 DEF ProcType, Places, UpPlaces
<1>4. proc[s].pc = "serving" /\ ~proc[s].leaving BY <1>1 DEF Apply, At, Calm
<1> HIDE DEF r
<1>5. Fits(s, r) BY <1>1, <1>3, <1>4 DEF Fits, UpPlaces, BootPlaces, CmdOnly
<1>6. Calm(s) BY DEF Apply
<1> QED BY <1>1, <1>2, <1>3, <1>4, <1>5, <1>6, BeginOrderly DEF Beside, Rests

LEMMA CommandBegins ==
    ASSUME Orderly, ~Overlap, NEW role \in Roles, Command(role)
    PROVE  Orderly' /\ Beside("cmd") /\ proc'["cmd"] = Started(role) /\ Started(role).pc = "recover"
<1>1. /\ Types /\ "cmd" \in Procs /\ role # "serve"
      /\ FileTypes' /\ UNCHANGED shell
  BY DEF Orderly, Types, FileTypes, Command, files, Procs, Roles
<1>2. Fits("cmd", Started(role)) /\ Started(role).pc = "recover" BY <1>1, StartedFits
<1> QED BY <1>1, <1>2, BeginOrderly DEF Beside, Command

LEMMA OnOrderly ==
    ASSUME Orderly, ~Overlap, On
    PROVE  Orderly' /\ Beside("cmd") /\ proc'["cmd"].pc = "status"
<1>1. /\ Types /\ "cmd" \in Procs /\ "cmd" \notin Serves /\ FileTypes' /\ UNCHANGED shell
      /\ proc["cmd"].pc = "on" /\ ~Rests("cmd") /\ Turn("cmd") /\ proc["cmd"] \in ProcType
  BY SelfUpdateAssumption DEF Orderly, Types, FileTypes, On, files, hist, Procs, At, Rests
<1> DEFINE r == Edited(proc["cmd"], "status", proc["cmd"].st, proc["cmd"].want, proc["cmd"].was)
<1>2. Goto("cmd", "status") = [proc EXCEPT !["cmd"] = r] BY <1>1, EditedPc DEF Goto, Types
<1>3. "status" \in Places \ {"none", "swap"} /\ "status" \notin UpPlaces /\ "status" \notin BootPlaces
  BY DEF Places, UpPlaces, BootPlaces, CmdOnly
<1>4. proc["cmd"].st \in StateType /\ proc["cmd"].want \in Nat /\ proc["cmd"].was \in BOOLEAN
  BY <1>1 DEF ProcType
<1>5. Fits("cmd", r) /\ r.pc = "status" BY <1>1, <1>3, <1>4, EditFits
<1> HIDE DEF r
<1>6. CASE proc' = Goto("cmd", "status") BY <1>1, <1>2, <1>5, <1>6, GoesOn
<1>7. CASE proc' = Spawned(Goto("cmd", "status"))
  <2>1. proc' = Spawned([proc EXCEPT !["cmd"] = r]) BY <1>2, <1>7
  <2>2. r.pc \in CmdParked BY <1>5 DEF CmdParked
  <2> QED BY <2>1, <2>2, <1>1, <1>5, SpawnKeeps
<1> QED BY <1>6, <1>7 DEF On

\* Off and Restart stop the daemon while every daemon rests.
LEMMA StoppedIs ==
    ASSUME Orderly, \A s \in Serves : Rests(s)
    PROVE  /\ Stopped(proc) \in [Procs -> ProcType] /\ Stopped(proc)["cmd"] = proc["cmd"]
           /\ \A q \in Procs \ {"cmd"} : Stopped(proc)[q] = proc[q] \/ (q \in Serves /\ Parked(q) /\ Stopped(proc)[q] = Gone)
<1>1. Types /\ Serves \subseteq Procs /\ "cmd" \notin Serves /\ "cmd" \in Procs
  BY SelfUpdateAssumption DEF Orderly, Procs
<1>2. \A q \in Procs : Gone \in ProcType BY GoneFits DEF Fits
<1>3. \A s \in Serves : Parked(s) BY <1>1 DEF Rests, Parked, ServeParked
<1> QED BY <1>1, <1>2, <1>3 DEF Stopped, Types, FileTypes, Procs

LEMMA OffOrderly ==
    ASSUME Orderly, ~Overlap, Off
    PROVE  Orderly' /\ Beside("cmd") /\ proc'["cmd"].pc = "status"
<1>1. /\ Types /\ "cmd" \in Procs /\ "cmd" \notin Serves /\ FileTypes' /\ UNCHANGED shell
      /\ proc["cmd"].pc = "off" /\ ~Rests("cmd") /\ Turn("cmd") /\ proc["cmd"] \in ProcType
      /\ proc \in [Procs -> ProcType]
  BY SelfUpdateAssumption DEF Orderly, Types, FileTypes, Off, files, hist, Procs, At, Rests
<1>2. \A s \in Serves : Rests(s) BY <1>1 DEF Turn
<1> DEFINE r == Edited(proc["cmd"], "status", proc["cmd"].st, proc["cmd"].want, proc["cmd"].was)
<1>3. [proc["cmd"] EXCEPT !.pc = "status"] = r BY <1>1 DEF Edited, ProcType
<1>4. "status" \in Places \ {"none", "swap"} /\ "status" \notin UpPlaces /\ "status" \notin BootPlaces
  BY DEF Places, UpPlaces, BootPlaces, CmdOnly
<1>5. proc["cmd"].st \in StateType /\ proc["cmd"].want \in Nat /\ proc["cmd"].was \in BOOLEAN
  BY <1>1 DEF ProcType
<1>6. Fits("cmd", r) /\ r.pc = "status" BY <1>1, <1>4, <1>5, EditFits
<1>7. /\ Stopped(proc) \in [Procs -> ProcType] /\ Stopped(proc)["cmd"] = proc["cmd"]
      /\ \A q \in Procs \ {"cmd"} : Stopped(proc)[q] = proc[q] \/ (q \in Serves /\ Parked(q) /\ Stopped(proc)[q] = Gone)
  BY <1>2, StoppedIs
<1>8. proc' = [Stopped(proc) EXCEPT !["cmd"] = r] BY <1>1, <1>3, <1>7 DEF Off
<1> HIDE DEF r
<1>9. proc' \in [Procs -> ProcType] /\ proc'["cmd"] = r /\ Kept("cmd")
  BY <1>1, <1>6, <1>7, <1>8 DEF Kept, Fits
<1> QED BY <1>1, <1>6, <1>9, MoveKeeps DEF Beside, Types

LEMMA RestartOrderly ==
    ASSUME Orderly, ~Overlap, Restart
    PROVE  Orderly' /\ Beside("cmd") /\ proc'["cmd"] = proc["cmd"]
<1>1. /\ Types /\ "cmd" \in Procs /\ "cmd" \notin Serves /\ FileTypes' /\ UNCHANGED shell
      /\ Serves \subseteq Procs /\ Fits("cmd", proc["cmd"]) /\ Calm("cmd")
  BY SelfUpdateAssumption DEF Orderly, Types, FileTypes, Restart, files, hist, Procs
<1>2. Rests("cmd") BY <1>1 DEF Restart, Fits, Rests
<1>3. \A s \in Serves : Rests(s) BY <1>1 DEF Calm
<1>4. proc' \in [Procs -> ProcType] /\ proc'["cmd"] = proc["cmd"] /\ Kept("cmd")
  BY <1>3, StoppedIs DEF Restart, Kept
<1>5. Turn("cmd") /\ (Rests("cmd") => Rests("cmd")') BY <1>3, <1>4 DEF Turn, Rests
<1> QED BY <1>1, <1>4, <1>5, MoveKeeps DEF Beside, Types

\* The supervisor looks while everything rests, and its spawn adds a daemon.
LEMMA SupervisorOrderly ==
    ASSUME Orderly, ~Overlap, Supervisor
    PROVE  Orderly' /\ (proc' = proc \/ \E n \in Serves : Joined(None, n))
<1>1. Types /\ FileTypes' /\ None \notin Procs
  BY SelfUpdateAssumption DEF Orderly, Types, FileTypes, Supervisor, Probe, Decide, ShellSpawn, ShellWait, files, hist, Procs
<1>2. ASSUME proc' = proc, shell' \in {"start", "dead", "spawn"} => Quiet PROVE Orderly'
  BY <1>1, <1>2 DEF Orderly, OneWorks, Types, Quiet, Rests, Parked
<1>3. CASE Probe
  <2>1. Quiet BY <1>1, <1>3 DEF Probe, Calm, Quiet
  <2> QED BY <2>1, <1>2, <1>3 DEF Probe
<1>4. CASE Decide
  <2>1. Quiet BY <1>4 DEF Decide, Orderly, OneWorks
  <2> QED BY <2>1, <1>2, <1>4 DEF Decide
<1>5. CASE ShellSpawn
  <2>1. Quiet /\ shell' = "wait" BY <1>5 DEF ShellSpawn, Orderly, OneWorks
  <2>2. \A q \in Procs : Parked(q)
    <3>1. \A q \in Procs : proc[q].pc \in {"none", "serving"} /\ (q = "cmd" => proc[q].pc # "serving")
      BY <2>1 DEF Quiet, Rests, Orderly, Fits
    <3> QED BY <3>1 DEF Parked, CmdParked, ServeParked
  <2>3. CASE proc' = proc BY <2>1, <2>3, <1>2
  <2>4. CASE \E n \in Serves : /\ proc[n].role = "none" /\ Startable(exe)
                               /\ proc' = [proc EXCEPT ![n] = Started("serve")]
    <3>1. PICK n \in Serves : /\ proc[n].role = "none" /\ Startable(exe)
                              /\ proc' = [proc EXCEPT ![n] = Started("serve")]
      BY <2>4
    <3>2. n \in Procs /\ n # "cmd" BY SelfUpdateAssumption DEF Procs
    <3>3. proc[n].pc = "none" BY <3>1, <3>2 DEF Orderly, Fits
    <3>4. Started("serve") \in ProcType BY <1>1, <3>2, StartedFits DEF Fits
    <3>5. Joined(None, n) /\ proc' \in [Procs -> ProcType]
      BY <1>1, <3>1, <3>2, <3>3, <3>4 DEF Joined, Types, Procs
    <3> QED BY <3>5, <2>1, <2>2, <1>1, JoinKeeps DEF Types
  <2> QED BY <2>3, <2>4, <1>5, SpawnedIs DEF ShellSpawn
<1>6. CASE ShellWait BY <1>2, <1>6 DEF ShellWait
<1> QED BY <1>3, <1>4, <1>5, <1>6 DEF Supervisor, Probe, Decide, ShellWait

LEMMA CrashOrderly ==
    ASSUME Orderly, Crash
    PROVE  Orderly' /\ \A q \in Procs : proc'[q] = Gone
<1>1. /\ FileTypes' /\ \A q \in Procs : proc'[q] = Gone
      /\ proc' \in [Procs -> ProcType] /\ "cmd" \in Procs /\ Serves \subseteq Procs /\ "cmd" \notin Serves
  BY SelfUpdateAssumption, GoneFits DEF Orderly, Types, FileTypes, Crash, Fault, files, Fits, Procs
<1>2. \A q \in Procs : Fits(q, proc'[q]) BY <1>1, GoneFits
<1>3. \A q \in Procs : Rests(q)' /\ Parked(q)' /\ proc'[q].pc \notin UpPlaces
  BY <1>1 DEF Gone, Rests, Parked, CmdParked, ServeParked, UpPlaces
<1>4. \A s \in Serves : Rests(s)' /\ Parked(s)' /\ proc'[s].pc \notin UpPlaces BY <1>1, <1>3
<1>5. Quiet' BY <1>3 DEF Quiet
<1> QED BY <1>1, <1>2, <1>4, <1>5 DEF Orderly, OneWorks, Types

LEMMA InitOrderly == Init => Orderly
<1> SUFFICES ASSUME Init PROVE Orderly OBVIOUS
<1>1. /\ FileTypes /\ \A q \in Procs : proc[q] = Gone
      /\ proc \in [Procs -> ProcType] /\ "cmd" \in Procs /\ Serves \subseteq Procs /\ "cmd" \notin Serves
  BY SelfUpdateAssumption, GoneFits DEF FileTypes, Init, Fits, Procs, NoState, StateType
<1>2. \A q \in Procs : Fits(q, proc[q]) BY <1>1, GoneFits
<1>3. \A q \in Procs : Rests(q) /\ Parked(q) /\ proc[q].pc \notin UpPlaces
  BY <1>1 DEF Gone, Rests, Parked, CmdParked, ServeParked, UpPlaces
<1>4. \A s \in Serves : Rests(s) /\ Parked(s) /\ proc[s].pc \notin UpPlaces BY <1>1, <1>3
<1>5. Quiet BY <1>3 DEF Quiet
<1> QED BY <1>1, <1>2, <1>4, <1>5 DEF Orderly, OneWorks, Types

----------------------------------------------------------------------------
(* The files.                                                              *)

Dirty   == {"swap", "record", "inline", "rbstat", "rbout", "rbin"}
Halfway == {"swap", "rbin"}
Idle    == \A p \in Procs : proc[p].pc = "none"

\* What is left of a plan fits what is on disk.
PlanFits(ops) ==
    \/ ops = <<"remove", "out", "in">> /\ Startable(exe)
    \/ ops = <<"out", "in">> /\ Startable(exe) /\ old = 0
    \/ ops = <<"in">> /\ exe = 0 /\ old # 0

\* What a process relies on.
FileOK(r) ==
    /\ r.pc \notin {"restore", "restored"}
    /\ r.pc \in {"rbout", "rbin"} => old # 0
    /\ r.pc = "rbin" => exe = 0
    /\ r.pc \in {"mark", "rbstop", "rbstart", "rbwait", "rbsave"} => old = 0
    /\ r.pc = "swap" => PlanFits(r.ops) /\ staged = r.want
    /\ r.pc \in {"record", "inline"} => exe = r.want /\ old # 0
    /\ r.pc \in {"download", "planswap", "swap", "record", "inline"} => r.want # 0

\* A binary that does not start has ghydra.old beside it, and someone at work
\* on it unless everything died; ghydra is absent only halfway.
Files ==
    /\ old # 0 => Startable(old)
    /\ Startable(exe) \/ (old # 0 /\ (Idle \/ \E p \in Procs : proc[p].pc \in Dirty))
    /\ exe = 0 => Idle \/ \E p \in Procs : proc[p].pc \in Halfway
    /\ \A p \in Procs : FileOK(proc[p])

FilesInv == Undisturbed => Files

LEMMA SpawnedAt ==
    ASSUME NEW p \in Procs, proc[p].role # "none", NEW f, f \in [Procs -> ProcType]
    PROVE  Spawned(f)[p] = f[p]
BY SpawnedIs

\* A step that leaves the files alone.
LEMMA FilesKept ==
    ASSUME Orderly, Files, UNCHANGED <<exe, old, staged>>, NEW p \in Procs, Beside(p),
           proc[p].pc # "none" \/ Startable(exe),
           FileOK(proc[p])',
           proc[p].pc \in Dirty => proc'[p].pc \in Dirty \/ Startable(exe),
           proc[p].pc \in Halfway => proc'[p].pc \in Halfway \/ exe # 0
    PROVE  Files'
<1>1. ASSUME NEW q \in Procs \ {p}
      PROVE  /\ FileOK(proc[q])'
             /\ proc[q].pc \in Dirty => proc'[q].pc = proc[q].pc
             /\ proc'[q].pc = "none" \/ proc[q].pc # "none" \/ Startable(exe)
  <2>1. FileOK(proc[q]) BY DEF Files
  <2>2. CASE proc'[q] = proc[q] BY <2>1, <2>2 DEF FileOK, PlanFits, Startable
  <2>3. CASE q \in Serves /\ Parked(q) /\ proc'[q] = Gone
    BY <2>3, SelfUpdateAssumption DEF Gone, FileOK, Parked, ServeParked, Dirty
  <2>4. CASE proc[q].pc = "none" /\ Startable(exe) /\ proc'[q] = Started("serve")
    BY <2>4 DEF Started, Gone, FileOK, Dirty
  <2> QED BY <2>2, <2>3, <2>4 DEF Beside, Kept, Joined
<1>2. \A q \in Procs : FileOK(proc[q])' BY <1>1
<1>3. Idle => Idle' \/ Startable(exe) BY <1>1 DEF Idle
<1>4. (\E q \in Procs : proc[q].pc \in Dirty) => (\E q \in Procs : proc'[q].pc \in Dirty) \/ Startable(exe)
  BY <1>1
<1>5. (\E q \in Procs : proc[q].pc \in Halfway) => (\E q \in Procs : proc'[q].pc \in Halfway) \/ exe # 0
  BY <1>1 DEF Halfway, Dirty
<1>6. Startable(exe) => exe # 0 BY DEF Startable
<1> QED BY <1>2, <1>3, <1>4, <1>5, <1>6 DEF Files, Startable

\* A step of the one process at work on the files.
LEMMA FilesMoved ==
    ASSUME Orderly, ~Overlap, Files, NEW p \in Procs, Turn(p), ~Parked(p),
           \A q \in Procs \ {p} : proc'[q] = proc[q],
           proc[p].pc \in UpPlaces \/ old' = old \/ old' = 0,
           old' # 0 => Startable(old'),
           Startable(exe') \/ (old' # 0 /\ proc'[p].pc \in Dirty),
           exe' = 0 => proc'[p].pc \in Halfway,
           FileOK(proc[p])'
    PROVE  Files'
<1>1. ASSUME NEW q \in Procs \ {p} PROVE FileOK(proc[q])'
  <2>1. FileOK(proc[q]) /\ proc'[q] = proc[q] BY DEF Files
  <2>2. proc[q].pc \in CmdParked \cup ServeParked BY Alone DEF Parked
  <2>3. proc[q].pc \in {"rbwait", "rbsave"} => old' = 0
    BY <2>1, Alone DEF FileOK, Rests
  <2> QED BY <2>1, <2>2, <2>3 DEF FileOK, CmdParked, ServeParked
<1> QED BY <1>1 DEF Files, Startable

\* Nothing else works while a process moves files, and ghydra is there unless
\* the process itself has moved it.
LEMMA Undivided ==
    ASSUME Orderly, ~Overlap, Files, NEW p \in Procs, Turn(p), ~Parked(p)
    PROVE  /\ proc[p].pc \notin Halfway => exe # 0
           /\ proc[p].pc \notin Dirty => Startable(exe) \/ (proc["cmd"].pc = "rbstat" /\ p # "cmd")
<1>1. proc[p].pc # "none" BY DEF Parked, CmdParked, ServeParked
<1>2. ASSUME NEW q \in Procs \ {p}, proc[q].pc \in Dirty PROVE q = "cmd" /\ proc[q].pc = "rbstat"
  BY <1>2, Alone DEF Parked, CmdParked, ServeParked, Dirty
<1> QED BY <1>1, <1>2 DEF Files, Idle, Halfway, Dirty

LEMMA NoFault ==
    ASSUME Undisturbed', NEW k, Fault(k)
    PROVE  k = "crash"
BY DEF Undisturbed, Fault

LEMMA SaveDone ==
    ASSUME Undisturbed', NEW st, Save(st)
    PROVE  faults' = faults /\ disk' = Merged(st)
BY NoFault DEF Save

LEMMA BootFiles ==
    ASSUME Orderly, ~Overlap, Files, Undisturbed', NEW p \in Procs, Turn(p), BootHook(p)
    PROVE  Files'
<1>1. /\ proc[p].pc \in BootPlaces /\ proc[p].pc \notin Dirty /\ Beside(p) /\ Orderly'
      /\ proc \in [Procs -> ProcType] /\ proc[p].pc # "none" /\ ~Parked(p) /\ proc[p].role # "none"
  BY BootOrderly DEF Orderly, Types, Fits, BootHook, Recover, Restore, Load, BootCheck, BootSave, BootConfirm, At,
                     BootPlaces, Parked, CmdParked, ServeParked, Dirty
<1>2. ASSUME UNCHANGED <<exe, old, staged>>,
             proc'[p].pc \in {"load", "bootcheck", "bootsave", "bootconfirm", "status", "on", "off", "plan", "rbstat", "bind"}
      PROVE  Files'
  <2>1. FileOK(proc[p])' BY <1>2 DEF FileOK
  <2> QED BY <2>1, <1>1, <1>2, FilesKept DEF Halfway, Dirty
<1>3. AfterBoot(p).pc \in {"status", "on", "off", "plan", "rbstat", "bind"} BY <1>1, AfterBootFits
<1>4. ASSUME proc' = GotoAfterBoot(p) \/ proc' = Spawned(GotoAfterBoot(p)) PROVE proc'[p] = AfterBoot(p)
  <2>1. GotoAfterBoot(p) \in [Procs -> ProcType] /\ GotoAfterBoot(p)[p] = AfterBoot(p)
    BY <1>1, AfterBootFits DEF GotoAfterBoot, Fits
  <2> QED BY <2>1, <1>1, <1>4, SpawnedAt
<1>5. CASE Recover(p)
  <2>1. proc' = [proc EXCEPT ![p].pc = "load"] /\ exe' = exe /\ old' = old
    BY <1>1, <1>5, Undivided DEF Recover, Goto, Halfway, Dirty
  <2>2. proc'[p].pc = "load" /\ \A q \in Procs \ {p} : proc'[q] = proc[q] BY <2>1, <1>1
  <2>3. FileOK(proc[p])' BY <2>2 DEF FileOK
  <2>4. \A q \in Procs : proc[q].pc # "swap"
    BY <1>1, Alone DEF Parked, CmdParked, ServeParked, Dirty
  <2>5. \A q \in Procs : FileOK(proc[q])'
    BY <2>1, <2>2, <2>3, <2>4 DEF Files, FileOK
  <2>6. Idle => Idle' BY <1>1 DEF Idle
  <2> QED BY <2>1, <2>2, <2>5, <1>1 DEF Files, Startable, Idle, Dirty, Halfway
<1>6. CASE Restore(p) BY <1>6 DEF Restore, At, Files, FileOK
<1>7. CASE Load(p)
  <2>1. proc'[p].pc \in {"bootcheck", "bootsave", "status", "on", "off", "plan", "rbstat", "bind"}
    <3>1. \/ \E st : \E l \in {"bootsave", "bootcheck"} : proc' = [proc EXCEPT ![p].pc = l, ![p].st = st]
          \/ proc' = GotoAfterBoot(p) \/ proc' = Spawned(GotoAfterBoot(p))
      BY <1>7 DEF Load
    <3>2. ASSUME NEW l, NEW st, proc' = [proc EXCEPT ![p].pc = l, ![p].st = st] PROVE proc'[p].pc = l
      BY <1>1, <3>2 DEF ProcType
    <3> QED BY <3>1, <3>2, <1>3, <1>4
  <2> QED BY <2>1, <1>2, <1>7 DEF Load, files
<1>8. CASE BootCheck(p)
  <2>1. proc'[p].pc \in {"bootconfirm", "bootsave", "rbstat"}
    <3>1. \/ proc' = [proc EXCEPT ![p].pc = "bootconfirm", ![p].st.confirmed = TRUE]
          \/ proc' = [proc EXCEPT ![p].pc = "rbstat", ![p].st = Failed(proc[p].st),
                                  ![p].want = proc[p].st.pending, ![p].was = proc[p].st.was]
          \/ proc' = [proc EXCEPT ![p].pc = "bootsave", ![p].st = Failed(proc[p].st)]
      BY <1>8 DEF BootCheck
    <3> QED BY <3>1, <1>1 DEF ProcType
  <2> QED BY <2>1, <1>2, <1>8 DEF BootCheck, files
<1>9. CASE BootSave(p) BY <1>2, <1>3, <1>4, <1>9 DEF BootSave, files
<1>10. CASE BootConfirm(p) BY <1>2, <1>3, <1>4, <1>10 DEF BootConfirm, files
<1> QED BY <1>5, <1>6, <1>7, <1>8, <1>9, <1>10 DEF BootHook

LEMMA RollbackFiles ==
    ASSUME Orderly, ~Overlap, Files, Undisturbed', NEW p \in Procs, Turn(p), Rollback(p)
    PROVE  Files'
<1>1. /\ proc[p].pc \in RbPlaces /\ Beside(p) /\ Orderly'
      /\ proc \in [Procs -> ProcType] /\ proc[p].pc # "none" /\ proc[p].role # "none"
      /\ proc[p].pc \in {"rbstat", "rbout", "rbin"} /\ p # "cmd" => ~Parked(p)
      /\ FileOK(proc[p])
  BY RollbackOrderly DEF Orderly, Types, Fits, Rollback, RbStat, RbOut, RbIn, Mark, RbStop, RbStart, RbWait, RbSave,
                         At, RbPlaces, Parked, ServeParked, Files
<1>2. ASSUME UNCHANGED <<exe, old, staged>>,
             \/ proc'[p].pc = "rbout" /\ old # 0
             \/ /\ proc'[p].pc \in {"status", "on", "off", "plan", "rbstat", "bind", "serving"}
                /\ proc[p].pc \in Dirty => Startable(exe)
             \/ proc'[p].pc \in {"mark", "rbstop", "rbstart", "rbwait", "rbsave"} /\ old = 0,
             proc[p].pc # "rbin"
      PROVE  Files'
  <2>1. FileOK(proc[p])' BY <1>2 DEF FileOK
  <2>2. proc[p].pc \in Dirty => proc'[p].pc \in Dirty \/ Startable(exe) BY <1>2 DEF Files, Dirty
  <2>3. proc[p].pc \notin Halfway BY <1>1, <1>2 DEF RbPlaces, Halfway
  <2> QED BY <2>1, <2>2, <2>3, <1>1, <1>2, FilesKept
<1>3. AfterJob(p).pc \in {"status", "on", "off", "plan", "rbstat", "bind", "serving"} BY <1>1, AfterJobFits
<1>4. ASSUME proc' = GotoAfterJob(p) PROVE proc'[p] = AfterJob(p) BY <1>1, <1>4 DEF GotoAfterJob
<1>5. ASSUME old = 0, UNCHANGED <<exe, old, staged>>, RollbackFailed(p), proc[p].pc # "rbin" PROVE Files'
  <2>1. Startable(exe) BY <1>5 DEF Files
  <2>2. proc'[p].pc = "mark" \/ proc'[p].pc \in {"status", "on", "off", "plan", "rbstat", "bind", "serving"}
    BY <1>1, <1>3, <1>4, <1>5 DEF RollbackFailed, Goto
  <2> QED BY <2>1, <2>2, <1>2, <1>5
<1>6. CASE RbStat(p)
  <2>1. UNCHANGED <<exe, old, staged>> /\ proc[p].pc # "rbin" BY <1>6 DEF RbStat, At, files
  <2>2. CASE old # 0
    <3>0. proc' = [proc EXCEPT ![p].pc = "rbout"] BY <2>2, <1>6 DEF RbStat, Goto
    <3>1. proc'[p].pc = "rbout" BY <3>0, <1>1
    <3> QED BY <3>1, <2>1, <2>2, <1>2
  <2>3. CASE old = 0 BY <2>1, <2>3, <1>5, <1>6 DEF RbStat
  <2> QED BY <2>2, <2>3
<1>7. CASE RbOut(p)
  <2>1. proc[p].pc = "rbout" /\ ~Parked(p) BY <1>7 DEF RbOut, At, Parked, CmdParked, ServeParked
  <2>2. exe # 0 BY <2>1, Undivided DEF Halfway
  <2>3. exe' = 0 /\ old' = old /\ staged' = staged /\ proc' = Goto(p, "rbin") BY <2>2, <1>7, NoFault DEF RbOut
  <2>4. proc'[p].pc = "rbin" /\ \A q \in Procs \ {p} : proc'[q] = proc[q] BY <2>3, <1>1 DEF Goto
  <2>5. old # 0 /\ Startable(old) BY <2>1, <1>1 DEF FileOK, Files
  <2>6. FileOK(proc[p])' BY <2>3, <2>4, <2>5 DEF FileOK
  <2> QED BY <2>1, <2>3, <2>4, <2>5, <2>6, FilesMoved DEF Dirty, Halfway
<1>8. CASE RbIn(p)
  <2>1. proc[p].pc = "rbin" /\ ~Parked(p) BY <1>8 DEF RbIn, At, Parked, CmdParked, ServeParked
  <2>2. old # 0 /\ Startable(old) BY <2>1, <1>1 DEF FileOK, Files
  <2>3. exe' = old /\ old' = 0 /\ proc' = Goto(p, "mark") BY <2>2, <1>8, NoFault DEF RbIn
  <2>4. proc'[p].pc = "mark" /\ \A q \in Procs \ {p} : proc'[q] = proc[q] BY <2>3, <1>1 DEF Goto
  <2>5. FileOK(proc[p])' BY <2>3, <2>4 DEF FileOK
  <2> QED BY <2>1, <2>2, <2>3, <2>4, <2>5, FilesMoved DEF Startable
<1>9. CASE Mark(p)
  <2>1. UNCHANGED <<exe, old, staged>> /\ proc[p].pc = "mark" BY <1>9 DEF Mark, At, files
  <2>2. \E st : \E l \in {"rbstop", "rbsave"} : proc' = [proc EXCEPT ![p].pc = l, ![p].st = st] BY <1>9 DEF Mark
  <2>3. proc'[p].pc \in {"rbstop", "rbsave"} BY <2>2, <1>1 DEF ProcType
  <2>4. old = 0 BY <2>1, <1>1 DEF FileOK
  <2> QED BY <2>1, <2>3, <2>4, <1>2
<1>10. CASE RbStop(p)
  <2>1. UNCHANGED <<exe, old, staged>> /\ proc[p].pc = "rbstop" BY <1>10 DEF RbStop, Stop, At, files
  <2>2. proc'[p].pc = "rbstart" BY <1>10, StopOrderly DEF RbStop, At
  <2>3. old = 0 BY <2>1, <1>1 DEF FileOK
  <2> QED BY <2>1, <2>2, <2>3, <1>2
<1>11. CASE RbStart(p)
  <2>1. UNCHANGED <<exe, old, staged>> /\ proc[p].pc = "rbstart" BY <1>11 DEF RbStart, At, files
  <2>2. Goto(p, "rbwait") \in [Procs -> ProcType] /\ Goto(p, "rbwait")[p].pc = "rbwait"
    BY <1>1 DEF Goto, ProcType, Places, RbPlaces
  <2>3. proc'[p].pc = "rbwait" BY <2>2, <1>1, <1>11, SpawnedAt DEF RbStart
  <2>4. old = 0 BY <2>1, <1>1 DEF FileOK
  <2> QED BY <2>1, <2>3, <2>4, <1>2
<1>12. CASE RbWait(p)
  <2>1. UNCHANGED <<exe, old, staged>> /\ proc[p].pc = "rbwait" BY <1>12 DEF RbWait, At, files
  <2>2. proc'[p].pc = "rbsave" BY <1>1, <1>12 DEF RbWait, Goto
  <2>3. old = 0 BY <2>1, <1>1 DEF FileOK
  <2> QED BY <2>1, <2>2, <2>3, <1>2
<1>13. CASE RbSave(p)
  <2>1. UNCHANGED <<exe, old, staged>> /\ proc[p].pc = "rbsave" BY <1>13 DEF RbSave, At, files
  <2>2. proc'[p] = AfterJob(p) BY <1>4, <1>13 DEF RbSave
  <2> QED BY <2>1, <2>2, <1>2, <1>3 DEF Dirty
<1> QED BY <1>6, <1>7, <1>8, <1>9, <1>10, <1>11, <1>12, <1>13 DEF Rollback

LEMMA ApplyFiles ==
    ASSUME Orderly, ~Overlap, Files, Undisturbed', NEW p \in Procs, Turn(p), ApplyPlan(p)
    PROVE  Files'
<1> DEFINE Own == {"stop", "start", "wait", "confirm"}
<1>1. /\ proc[p].pc \in UpPlaces \cup Own /\ Beside(p) /\ Orderly' /\ proc[p] \in ProcType
      /\ proc \in [Procs -> ProcType] /\ proc[p].pc # "none" /\ proc[p].role # "none"
      /\ FileOK(proc[p]) /\ exe \in Nat /\ old \in Nat
  BY ApplyOrderly DEF Orderly, Types, FileTypes, Fits, ApplyPlan, Plan, Download, PlanSwap, SwapOp, Record, Inline,
                      StopOld, StartNew, WaitVersion, Confirm, At, UpPlaces, Files
<1>2. ASSUME UNCHANGED <<exe, old>>,
             \/ UNCHANGED staged
             \/ \A q \in Procs \ {p} : proc'[q] = proc[q] /\ proc[q].pc # "swap",
             proc'[p].pc \in {"status", "on", "off", "plan", "rbstat", "bind", "serving", "stop", "start", "wait", "confirm"},
             proc[p].pc \in Dirty => Startable(exe) \/ proc'[p].pc = "rbstat",
             proc[p].pc # "swap"
      PROVE  Files'
  <2>1. FileOK(proc[p])' BY <1>2 DEF FileOK
  <2>2. proc[p].pc \in Dirty => proc'[p].pc \in Dirty \/ Startable(exe) BY <1>2 DEF Dirty
  <2>3. proc[p].pc \notin Halfway BY <1>1, <1>2 DEF UpPlaces, Halfway
  <2>4. CASE UNCHANGED staged BY <2>1, <2>2, <2>3, <2>4, <1>1, <1>2, FilesKept
  <2>5. CASE \A q \in Procs \ {p} : proc'[q] = proc[q] /\ proc[q].pc # "swap"
    <3>1. \A q \in Procs : FileOK(proc[q])' BY <2>1, <2>5, <1>2 DEF Files, FileOK
    <3>2. Idle => Idle' BY <1>1 DEF Idle
    <3>3. Startable(exe)' = Startable(exe) BY <1>2 DEF Startable
    <3> QED BY <3>1, <3>2, <3>3, <2>2, <2>3, <2>5, <1>1, <1>2 DEF Files, Startable, Idle
  <2> QED BY <2>4, <2>5, <1>2
<1>3. AfterJob(p).pc \in {"status", "on", "off", "plan", "rbstat", "bind", "serving"} BY <1>1, AfterJobFits
<1>4. ASSUME proc' = GotoAfterJob(p)
      PROVE  proc'[p] = AfterJob(p) /\ \A q \in Procs \ {p} : proc'[q] = proc[q]
  BY <1>1, <1>4 DEF GotoAfterJob
<1>5. ASSUME NEW q \in Procs \ {p}, ~Parked(p) PROVE proc[q].pc # "swap"
  BY <1>5, Alone DEF Parked, CmdParked, ServeParked
<1>6. CASE Plan(p)
  <2>1. UNCHANGED <<exe, old, staged>> /\ proc[p].pc = "plan" BY <1>6 DEF Plan, At, files
  <2>2. CASE Offered(p)
    <3>1. proc' = [proc EXCEPT ![p].pc = "download", ![p].want = latest] BY <2>2, <1>6 DEF Plan
    <3>2. proc'[p].pc = "download" /\ proc'[p].want = latest BY <3>1, <1>1 DEF ProcType
    <3>3. latest # 0
      <4>1. latest \in Nat /\ proc[p].ver \in Nat /\ latest > proc[p].ver
        BY <2>2, <1>1 DEF Offered, Orderly, Types, FileTypes, ProcType
      <4> QED BY <4>1
    <3>4. FileOK(proc[p])' BY <1>6, <3>2, <3>3 DEF FileOK, Plan
    <3> QED BY <3>4, <2>1, <1>1, FilesKept DEF Dirty, Halfway
  <2>3. CASE ~Offered(p) BY <2>1, <2>3, <1>2, <1>3, <1>4, <1>6 DEF Plan, Dirty
  <2> QED BY <2>2, <2>3
<1>7. CASE Download(p)
  <2>1. UNCHANGED <<exe, old>> /\ proc[p].pc = "download" /\ ~Parked(p)
    BY <1>7 DEF Download, At, Parked, CmdParked, ServeParked
  <2>2. CASE EndApply(p) BY <2>1, <2>2, <1>2, <1>3, <1>4, <1>5 DEF EndApply, Dirty
  <2>3. CASE proc' = Goto(p, "planswap")
    <3>1. proc'[p] = [proc[p] EXCEPT !.pc = "planswap"] /\ \A q \in Procs \ {p} : proc'[q] = proc[q]
      BY <2>3, <1>1 DEF Goto
    <3>2. proc'[p].pc = "planswap" /\ proc'[p].want = proc[p].want BY <3>1, <1>1 DEF ProcType
    <3>3. FileOK(proc[p])' BY <3>2, <2>1, <1>1 DEF FileOK
    <3>4. ASSUME NEW q \in Procs \ {p} PROVE FileOK(proc[q])'
      <4>1. FileOK(proc[q]) /\ proc'[q] = proc[q] /\ proc[q].pc # "swap" BY <3>1, <2>1, <1>5 DEF Files
      <4> QED BY <4>1, <2>1 DEF FileOK
    <3>5. Startable(exe)' = Startable(exe) /\ (Idle => Idle') BY <2>1 DEF Startable, Idle
    <3> QED BY <3>1, <3>2, <3>3, <3>4, <3>5, <2>1, <1>1 DEF Files, Startable, Dirty, Halfway
  <2> QED BY <2>2, <2>3, <1>7 DEF Download
<1>8. CASE PlanSwap(p)
  <2>1. UNCHANGED <<exe, old>> /\ proc[p].pc = "planswap" /\ ~Parked(p)
    BY <1>8 DEF PlanSwap, At, Parked, CmdParked, ServeParked
  <2>2. CASE staged # proc[p].want BY <2>1, <2>2, <1>2, <1>3, <1>4, <1>5, <1>8 DEF PlanSwap, EndApply, Dirty
  <2>3. CASE staged = proc[p].want
    <3>1. proc' = [proc EXCEPT ![p].pc = "swap", ![p].was = Alive, ![p].ops = SwapOps] /\ staged' = staged
      BY <2>3, <1>8 DEF PlanSwap
    <3>2. proc'[p].pc = "swap" /\ proc'[p].ops = SwapOps /\ proc'[p].want = proc[p].want
      BY <3>1, <1>1 DEF ProcType
    <3>3. Startable(exe) /\ exe # 0
      <4>1. \A q \in Procs \ {p} : Rests(q) BY <2>1, Alone DEF UpPlaces
      <4>2. p # "cmd" /\ "cmd" \in Procs => proc["cmd"].pc # "rbstat" BY <4>1 DEF Rests
      <4> QED BY <4>2, <2>1, Undivided DEF Dirty, Halfway, Procs
    <3>4. PlanFits(SwapOps) BY <3>3, SwapOpsAre DEF PlanFits
    <3>5. FileOK(proc[p])' BY <3>1, <3>2, <3>4, <2>1, <2>3, <1>1 DEF FileOK, PlanFits, Startable
    <3> QED BY <3>1, <3>2, <3>5, <2>1, <1>1, FilesKept DEF Dirty, Halfway
  <2> QED BY <2>2, <2>3
<1>9. CASE SwapOp(p)
  <2>1. /\ proc[p].pc = "swap" /\ ~Parked(p) /\ PlanFits(proc[p].ops) /\ staged = proc[p].want
        /\ proc[p].want # 0 /\ proc[p].pc \in UpPlaces
    BY <1>1, <1>9 DEF SwapOp, At, Parked, CmdParked, ServeParked, FileOK, UpPlaces
  <2> DEFINE ops == proc[p].ops
             next == [proc EXCEPT ![p].ops = Tail(ops), ![p].pc = IF Tail(ops) = <<>> THEN "record" ELSE "swap"]
  <2>2. ASSUME proc' = next
        PROVE  /\ proc'[p].ops = Tail(ops) /\ proc'[p].pc = (IF Tail(ops) = <<>> THEN "record" ELSE "swap")
               /\ proc'[p].want = proc[p].want /\ \A q \in Procs \ {p} : proc'[q] = proc[q]
    BY <2>2, <1>1 DEF ProcType
  <2>3. CASE ops = <<"remove", "out", "in">> /\ Startable(exe)
    <3>1. old' = 0 /\ proc' = next /\ UNCHANGED <<exe, staged>>
      BY <2>3, <1>9, PlanTails, NoFault DEF SwapOp
    <3>2. proc'[p].ops = <<"out", "in">> /\ proc'[p].pc = "swap" BY <3>1, <2>2, <2>3, PlanTails
    <3>3. FileOK(proc[p])' BY <3>1, <3>2, <2>1, <2>2, <2>3 DEF FileOK, PlanFits, Startable
    <3> QED BY <3>1, <3>2, <3>3, <2>1, <2>2, <2>3, FilesMoved DEF Startable, Halfway
  <2>4. CASE ops = <<"out", "in">> /\ Startable(exe) /\ old = 0
    <3>1. old' = exe /\ exe' = 0 /\ proc' = next /\ UNCHANGED staged
      BY <2>4, <1>9, PlanTails, NoFault DEF SwapOp, Startable
    <3>2. proc'[p].ops = <<"in">> /\ proc'[p].pc = "swap" BY <3>1, <2>2, <2>4, PlanTails
    <3>3. FileOK(proc[p])' BY <3>1, <3>2, <2>1, <2>2, <2>4 DEF FileOK, PlanFits, Startable
    <3> QED BY <3>1, <3>2, <3>3, <2>1, <2>2, <2>4, FilesMoved DEF Startable, Halfway, Dirty
  <2>5. CASE ops = <<"in">> /\ exe = 0 /\ old # 0
    <3>1. exe' = staged /\ old' = old /\ proc' = next
      BY <2>1, <2>5, <1>9, PlanTails, NoFault DEF SwapOp
    <3>2. proc'[p].pc = "record" BY <3>1, <2>2, <2>5, PlanTails
    <3>3. FileOK(proc[p])' BY <3>1, <3>2, <2>1, <2>2, <2>5 DEF FileOK
    <3>4. Startable(old) BY <2>5 DEF Files
    <3> QED BY <3>1, <3>2, <3>3, <3>4, <2>1, <2>2, <2>5, FilesMoved DEF Startable, Dirty
  <2> QED BY <2>1, <2>3, <2>4, <2>5 DEF PlanFits
<1>10. CASE Record(p)
  <2> DEFINE st == [NoState EXCEPT !.pending = proc[p].want, !.was = proc[p].was]
  <2>1. UNCHANGED <<exe, old, staged>> /\ proc[p].pc = "record" /\ Save(st) BY <1>10 DEF Record, At, files
  <2>2. proc' = [proc EXCEPT ![p].pc = "inline", ![p].st = st] BY <2>1, <1>10, SaveDone DEF Record
  <2> HIDE DEF st
  <2>3. proc'[p].pc = "inline" /\ proc'[p].want = proc[p].want BY <2>2, <1>1 DEF ProcType
  <2>4. FileOK(proc[p])' BY <2>1, <2>3, <1>1 DEF FileOK
  <2> QED BY <2>1, <2>3, <2>4, <1>1, FilesKept DEF Dirty, Halfway
<1>11. CASE Inline(p)
  <2>1. UNCHANGED <<exe, old, staged>> /\ proc[p].pc = "inline" BY <1>11 DEF Inline, At, files
  <2>2. CASE SelfCheck(proc[p].want, TRUE)
             /\ proc' = IF proc[p].role = "serve" THEN [GotoAfterJob(p) EXCEPT ![p].leaving = TRUE]
                        ELSE Goto(p, IF proc[p].was THEN "stop" ELSE "confirm")
    <3>1. Startable(exe) BY <2>2 DEF SelfCheck
    <3>2. GotoAfterJob(p)[p] = AfterJob(p) /\ AfterJob(p) \in ProcType /\ DOMAIN GotoAfterJob(p) = Procs
      BY <1>1, AfterJobFits DEF GotoAfterJob, Fits
    <3>3. proc'[p].pc \in {"status", "on", "off", "plan", "rbstat", "bind", "serving", "stop", "confirm"}
      <4>1. CASE proc[p].role = "serve"
        <5>1. proc'[p] = [AfterJob(p) EXCEPT !.leaving = TRUE] BY <4>1, <3>2, <2>2
        <5> QED BY <5>1, <3>2, <1>3 DEF ProcType
      <4>2. CASE proc[p].role # "serve" BY <4>2, <2>2, <1>1 DEF Goto
      <4> QED BY <4>1, <4>2
    <3> QED BY <3>1, <3>3, <2>1, <1>2
  <2>3. CASE proc' = Goto(p, "rbstat")
    <3>1. proc'[p].pc = "rbstat" BY <2>3, <1>1 DEF Goto
    <3> QED BY <3>1, <2>1, <1>2
  <2> QED BY <2>2, <2>3, <1>11 DEF Inline
<1>12. CASE StopOld(p)
  <2>1. UNCHANGED <<exe, old, staged>> /\ proc[p].pc = "stop" BY <1>12 DEF StopOld, Stop, At, files
  <2>2. proc'[p].pc = "start" BY <1>12, StopOrderly DEF StopOld, At
  <2> QED BY <2>1, <2>2, <1>2 DEF Dirty
<1>13. CASE StartNew(p)
  <2>1. UNCHANGED <<exe, old, staged>> /\ proc[p].pc = "start" BY <1>13 DEF StartNew, At, files
  <2>2. Goto(p, "wait") \in [Procs -> ProcType] /\ Goto(p, "wait")[p].pc = "wait"
    BY <1>1 DEF Goto, ProcType, Places, CmdOnly
  <2>3. proc'[p].pc = "wait" BY <2>2, <1>1, <1>13, SpawnedAt DEF StartNew
  <2> QED BY <2>1, <2>3, <1>2 DEF Dirty
<1>14. CASE WaitVersion(p)
  <2>1. UNCHANGED <<exe, old, staged>> /\ proc[p].pc = "wait" BY <1>14 DEF WaitVersion, At, files
  <2>2. \E l \in {"confirm", "rbstat"} : proc' = [proc EXCEPT ![p].pc = l] BY <1>14 DEF WaitVersion, Goto
  <2>3. proc'[p].pc \in {"confirm", "rbstat"} BY <2>2, <1>1
  <2> QED BY <2>1, <2>3, <1>2 DEF Dirty
<1>15. CASE Confirm(p)
  <2>1. UNCHANGED <<exe, old, staged>> /\ proc[p].pc = "confirm" BY <1>15 DEF Confirm, At, files
  <2> QED BY <2>1, <1>2, <1>3, <1>4, <1>15 DEF Confirm, Dirty
<1> QED BY <1>6, <1>7, <1>8, <1>9, <1>10, <1>11, <1>12, <1>13, <1>14, <1>15 DEF ApplyPlan

\* What else a step may be: it leaves the files alone, and what it starts
\* comes from a binary that starts.
LEMMA OtherFiles ==
    ASSUME Orderly, ~Overlap, Files,
           \/ \E p \in Procs : Turn(p) /\ Exit(p)
           \/ \E s \in Serves : Bind(s) \/ Apply(s)
           \/ \E r \in Roles : Command(r)
           \/ On \/ Off \/ Restart
    PROVE  Files'
<1>1. Serves \subseteq Procs /\ "cmd" \in Procs BY DEF Procs
<1>2. ASSUME NEW p \in Procs, UNCHANGED <<exe, old, staged>>, Beside(p), proc[p].pc # "none" \/ Startable(exe),
             proc'[p].pc \in {"none", "recover", "serving", "plan", "status"}, proc[p].pc \notin Dirty
      PROVE  Files'
  <2>1. FileOK(proc[p])' BY <1>2 DEF FileOK
  <2> QED BY <2>1, <1>2, FilesKept DEF Dirty, Halfway
<1>3. ASSUME NEW p \in Procs, Turn(p), Exit(p) PROVE Files'
  <2>1. UNCHANGED <<exe, old, staged>> BY <1>3 DEF Exit, files
  <2>2. proc'[p].pc = "none" BY <1>3, EndsOrderly DEF Gone
  <2>3. proc[p].pc \in {"status", "rbstart", "rbwait", "rbsave", "bind", "serving"} /\ Beside(p)
    BY <1>3, EndsOrderly
  <2> QED BY <2>1, <2>2, <2>3, <1>2 DEF Dirty
<1>4. ASSUME NEW s \in Serves, Bind(s) PROVE Files'
  <2>1. UNCHANGED <<exe, old, staged>> /\ proc[s].pc = "bind" BY <1>4 DEF Bind, At, files
  <2> QED BY <2>1, <1>1, <1>2, <1>4, BindOrderly DEF Dirty
<1>5. ASSUME NEW s \in Serves, Apply(s) PROVE Files'
  <2>1. UNCHANGED <<exe, old, staged>> /\ proc[s].pc = "serving" BY <1>5 DEF Apply, At, files
  <2> QED BY <2>1, <1>1, <1>2, <1>5, ApplyBegins DEF Dirty
<1>6. ASSUME NEW r \in Roles, Command(r) PROVE Files'
  <2>1. UNCHANGED <<exe, old, staged>> /\ proc["cmd"].role = "none" /\ Startable(exe) BY <1>6 DEF Command, files
  <2>2. proc["cmd"].pc = "none" BY <2>1, <1>1 DEF Orderly, Fits
  <2>3. proc'["cmd"].pc = "recover" /\ Beside("cmd") BY <1>6, CommandBegins
  <2> QED BY <2>1, <2>2, <2>3, <1>1, <1>2 DEF Dirty
<1>7. ASSUME On PROVE Files'
  <2>1. UNCHANGED <<exe, old, staged>> /\ proc["cmd"].pc = "on" BY <1>7 DEF On, At, files
  <2> QED BY <2>1, <1>1, <1>2, <1>7, OnOrderly DEF Dirty
<1>8. ASSUME Off PROVE Files'
  <2>1. UNCHANGED <<exe, old, staged>> /\ proc["cmd"].pc = "off" BY <1>8 DEF Off, At, files
  <2> QED BY <2>1, <1>1, <1>2, <1>8, OffOrderly DEF Dirty
<1>9. ASSUME Restart PROVE Files'
  <2>1. UNCHANGED <<exe, old, staged>> /\ proc["cmd"].role = "none" BY <1>9 DEF Restart, files
  <2>2. proc["cmd"].pc = "none" BY <2>1, <1>1 DEF Orderly, Fits
  <2>3. Beside("cmd") /\ proc'["cmd"] = proc["cmd"] BY <1>9, RestartOrderly
  <2>4. FileOK(proc["cmd"])' BY <2>2, <2>3 DEF FileOK
  <2>5. ASSUME NEW q \in Procs PROVE /\ FileOK(proc[q])'
                                     /\ proc[q].pc \in Dirty => proc'[q] = proc[q]
                                     /\ proc[q].pc = "none" => proc'[q].pc = "none"
    <3>1. proc'[q] = proc[q] \/ (sj \in Serves /\ q = sj /\ proc'[q] = Gone)
      BY <2>1, <1>9 DEF Restart, Stopped, Orderly, Types, FileTypes
    <3>2. sj \in Serves => Rests(sj)
      BY <1>9, <1>1, SelfUpdateAssumption DEF Restart, Calm
    <3> QED BY <3>1, <3>2, <2>1 DEF Files, FileOK, PlanFits, Startable, Gone, Rests, Dirty
  <2>6. Idle => Idle' BY <2>5 DEF Idle
  <2> QED BY <2>1, <2>5, <2>6 DEF Files, Startable, Halfway, Dirty
<1> QED BY <1>3, <1>4, <1>5, <1>6, <1>7, <1>8, <1>9

LEMMA SupervisorFiles ==
    ASSUME Orderly, ~Overlap, Files, Supervisor
    PROVE  Files'
<1>1. UNCHANGED <<exe, old, staged>> BY DEF Supervisor, Probe, Decide, ShellSpawn, ShellWait, files
<1>2. CASE proc' = proc BY <1>1, <1>2 DEF Files, FileOK, PlanFits, Startable, Idle
<1>3. CASE \E n \in Serves : Joined(None, n)
  <2>1. PICK n \in Serves : Joined(None, n) BY <1>3
  <2>2. None \notin Procs BY SelfUpdateAssumption DEF Procs
  <2>3. Startable(exe) /\ exe # 0 BY <2>1 DEF Joined, Startable
  <2>4. ASSUME NEW q \in Procs PROVE FileOK(proc[q])'
    <3>1. FileOK(proc[q]) BY DEF Files
    <3>2. proc'[q] = proc[q] \/ proc'[q].pc = "recover" BY <2>1, <2>2 DEF Joined, Started, Gone
    <3> QED BY <3>1, <3>2, <1>1 DEF FileOK, PlanFits, Startable
  <2> QED BY <2>3, <2>4, <1>1 DEF Files, Startable
<1> QED BY <1>2, <1>3, SupervisorOrderly

LEMMA CrashFiles ==
    ASSUME Orderly, Files, Crash
    PROVE  Files'
<1>1. UNCHANGED <<exe, old, staged>> BY DEF Crash, files
<1>2. \A q \in Procs : proc'[q] = Gone BY CrashOrderly
<1>3. Idle' BY <1>2 DEF Idle, Gone
<1>4. \A q \in Procs : FileOK(proc[q])' BY <1>2 DEF FileOK, Gone
<1> QED BY <1>1, <1>3, <1>4 DEF Files, Startable

LEMMA OrderlyStep == ASSUME Orderly, ~Overlap, [Next]_vars PROVE Orderly'
<1>1. ASSUME NEW p \in Procs, ProcessStep(p) PROVE Orderly'
  BY <1>1, BootOrderly, RollbackOrderly, ApplyOrderly, EndsOrderly DEF ProcessStep
<1>2. ASSUME NEW s \in Serves, Bind(s) \/ Apply(s) PROVE Orderly' BY <1>2, BindOrderly, ApplyBegins
<1>3. ASSUME NEW r \in Roles, Command(r) PROVE Orderly' BY <1>3, CommandBegins
<1>4. CASE Release
  BY <1>4 DEF Release, Orderly, Types, FileTypes, OneWorks, Parked, Rests, Quiet, files, hist
<1>5. CASE UNCHANGED vars
  BY <1>5 DEF vars, Orderly, Types, FileTypes, OneWorks, Parked, Rests, Quiet, files, hist
<1> QED BY <1>1, <1>2, <1>3, <1>4, <1>5, OnOrderly, OffOrderly, SupervisorOrderly, RestartOrderly, CrashOrderly DEF Next

LEMMA FaultsGrow == ASSUME [Next]_vars, Undisturbed' PROVE Undisturbed
<1>1. faults \subseteq faults'
  BY DEF Next, ProcessStep, BootHook, Rollback, ApplyPlan, Supervisor, Recover, Restore, Load, BootCheck, BootSave,
         BootConfirm, RbStat, RbOut, RbIn, Mark, RbStop, RbStart, RbWait, RbSave, Plan, Download, PlanSwap, SwapOp,
         Record, Inline, StopOld, StartNew, WaitVersion, Confirm, Stop, Save, Fault, Exit, Bind, Apply, Command, On, Off,
         Release, Probe, Decide, ShellSpawn, ShellWait, Restart, Crash, vars
<1> QED BY <1>1 DEF Undisturbed

LEMMA FilesStep == ASSUME Orderly, ~Overlap, FilesInv, [Next]_vars PROVE FilesInv'
<1> SUFFICES ASSUME Undisturbed' PROVE Files' BY DEF FilesInv
<1>0. Files BY FaultsGrow DEF FilesInv
<1>1. ASSUME NEW p \in Procs, ProcessStep(p) PROVE Files'
  BY <1>0, <1>1, BootFiles, RollbackFiles, ApplyFiles, OtherFiles DEF ProcessStep
<1>2. ASSUME \/ \E s \in Serves : Bind(s) \/ Apply(s)
             \/ \E r \in Roles : Command(r)
             \/ On \/ Off \/ Restart
      PROVE  Files'
  BY <1>0, <1>2, OtherFiles
<1>3. CASE Release
  BY <1>0, <1>3 DEF Release, Files, FileOK, PlanFits, Startable, Idle, files
<1>4. CASE UNCHANGED vars
  BY <1>0, <1>4 DEF vars, Files, FileOK, PlanFits, Startable, Idle, files
<1> QED BY <1>0, <1>1, <1>2, <1>3, <1>4, SupervisorFiles, CrashFiles DEF Next

\* Whatever dies between two renames of applySwap or of the rollback, the next process that
\* starts finds a binary: the one in place, or the .old that Recover puts back
\* (selfupdate/swap.go), as long as no file operation fails.
THEOREM StartableKept == ASSUME ~Overlap PROVE Spec => []StartableStays
<1>1. Init => Orderly /\ FilesInv
  <2> SUFFICES ASSUME Init PROVE FilesInv BY InitOrderly
  <2>1. \A p \in Procs : proc[p].pc = "none" BY DEF Init, Gone
  <2>2. Startable(exe) /\ exe # 0 /\ old = 0 BY SelfUpdateAssumption DEF Init, Startable
  <2> QED BY <2>1, <2>2 DEF FilesInv, Files, FileOK
<1>2. Orderly /\ FilesInv /\ [Next]_vars => (Orderly /\ FilesInv)' BY OrderlyStep, FilesStep
<1>3. FilesInv => StartableStays BY DEF FilesInv, Files, StartableStays
<1> QED BY <1>1, <1>2, <1>3, PTL DEF Spec

----------------------------------------------------------------------------
(* Checks.                                                                 *)

\* The first release, and what has passed a check.
Strong(v) == v <= 1 \/ v \in passed

\* What a process relies on.
CheckedOK(r) ==
    /\ r.pc \in {"bootcheck", "bootsave"} => Strong(exe) \/ (r.st.pending = exe /\ ~r.st.confirmed)
    /\ r.pc \in {"swap", "bootconfirm", "stop", "start", "wait", "confirm"} => Strong(exe)

\* A release in place that was never checked is recorded as pending, with
\* ghydra.old to go back to, or is about to be recorded.
Accounted == Strong(exe) \/ (Unconfirmed /\ disk.pending = exe /\ old # 0) \/ \E p \in Procs : At(p, "record")

Verified == Strong(old) /\ Accounted /\ \A p \in Procs : CheckedOK(proc[p])

VerifiedInv == Undisturbed /\ ~lapse => Verified

LEMMA VerifiedMoved ==
    ASSUME Verified, NEW p \in Procs, Beside(p), passed \subseteq passed',
           exe' = exe \/ Strong(exe)' \/ (\A q \in Procs \ {p} : Rests(q)),
           Strong(old)', Accounted', CheckedOK(proc[p])'
    PROVE  Verified'
<1>1. ASSUME NEW q \in Procs \ {p} PROVE CheckedOK(proc[q])'
  <2>1. CheckedOK(proc[q]) BY DEF Verified
  <2>2. CASE proc'[q] = proc[q] BY <2>1, <2>2 DEF CheckedOK, Strong, Rests
  <2>3. CASE proc'[q] = Gone BY <2>3 DEF Gone, CheckedOK
  <2>4. CASE proc'[q] = Started("serve") BY <2>4 DEF Started, Gone, CheckedOK
  <2> QED BY <2>2, <2>3, <2>4 DEF Beside, Kept, Joined
<1> QED BY <1>1 DEF Verified

\* A step that leaves the files and the record alone.
LEMMA VerifiedKept ==
    ASSUME Verified, UNCHANGED <<exe, old, disk>>, NEW p \in Procs, Beside(p), passed \subseteq passed',
           proc[p].pc # "record", CheckedOK(proc[p])'
    PROVE  Verified'
<1>1. \A q \in Procs : proc[q].pc = "record" => proc'[q].pc = "record"
  BY SelfUpdateAssumption DEF Beside, Kept, Joined, Parked, ServeParked
<1>2. Strong(old)' /\ (Strong(exe) => Strong(exe)') BY DEF Verified, Strong
<1>3. Accounted' BY <1>1, <1>2 DEF Verified, Accounted, Unconfirmed, At
<1> QED BY <1>2, <1>3, VerifiedMoved

\* Nobody is about to record while p works.
LEMMA NotRecording ==
    ASSUME Orderly, ~Overlap, NEW p \in Procs, Turn(p), ~Parked(p), proc[p].pc # "record", Accounted
    PROVE  Strong(exe) \/ (Unconfirmed /\ disk.pending = exe /\ old # 0)
<1>1. \A q \in Procs : ~At(q, "record")
  BY Alone DEF At, Parked, CmdParked, ServeParked
<1> QED BY <1>1 DEF Accounted

LEMMA BootVerified ==
    ASSUME Orderly, ~Overlap, Files, Verified, Undisturbed', NEW p \in Procs, Turn(p), BootHook(p)
    PROVE  Verified'
<1>1. /\ proc[p].pc \in BootPlaces /\ proc[p].pc # "record" /\ Beside(p) /\ proc[p] \in ProcType
      /\ proc \in [Procs -> ProcType] /\ proc[p].pc # "none" /\ ~Parked(p) /\ proc[p].role # "none"
      /\ CheckedOK(proc[p]) /\ exe \in Nat
  BY BootOrderly DEF Orderly, Types, FileTypes, Fits, BootHook, Recover, Restore, Load, BootCheck, BootSave, BootConfirm,
                     At, BootPlaces, Parked, CmdParked, ServeParked, Verified
<1>2. Strong(exe) \/ (Unconfirmed /\ disk.pending = exe /\ old # 0) BY <1>1, NotRecording DEF Verified
<1>3. AfterBoot(p).pc \in {"status", "on", "off", "plan", "rbstat", "bind"} BY <1>1, AfterBootFits
<1>4. ASSUME proc' = GotoAfterBoot(p) \/ proc' = Spawned(GotoAfterBoot(p))
      PROVE  proc'[p].pc \in {"status", "on", "off", "plan", "rbstat", "bind"}
  <2>1. GotoAfterBoot(p) \in [Procs -> ProcType] /\ GotoAfterBoot(p)[p] = AfterBoot(p)
    BY <1>1, AfterBootFits DEF GotoAfterBoot, Fits
  <2> QED BY <2>1, <1>1, <1>3, <1>4, SpawnedAt
<1>5. ASSUME proc'[p].pc \in {"load", "restore", "status", "on", "off", "plan", "rbstat", "bind"} PROVE CheckedOK(proc[p])'
  BY <1>5 DEF CheckedOK
<1>6. CASE Recover(p)
  <2>1. proc'[p].pc \in {"load", "restore"} BY <1>1, <1>6 DEF Recover, Goto
  <2> QED BY <2>1, <1>1, <1>5, <1>6, VerifiedKept DEF Recover, hist
<1>7. CASE Restore(p) BY <1>7 DEF Restore, At, Files, FileOK
<1>8. CASE Load(p)
  <2>1. UNCHANGED <<exe, old, disk, passed>> BY <1>8 DEF Load, files, hist
  <2>2. CASE proc' = [proc EXCEPT ![p].pc = "bootcheck", ![p].st = disk]
    <3>1. proc'[p].pc = "bootcheck" /\ proc'[p].st = disk BY <2>2, <1>1 DEF ProcType
    <3>2. CheckedOK(proc[p])' BY <3>1, <2>1, <1>2 DEF CheckedOK, Strong, Unconfirmed
    <3> QED BY <3>2, <2>1, <1>1, VerifiedKept
  <2>3. CASE proc' = GotoAfterBoot(p) \/ proc' = Spawned(GotoAfterBoot(p))
    BY <2>1, <2>3, <1>1, <1>4, <1>5, VerifiedKept
  <2>4. ~At(p, "restored") BY DEF Files, FileOK, At
  <2> QED BY <2>2, <2>3, <2>4, <1>8 DEF Load
<1>9. CASE BootCheck(p)
  <2>1. UNCHANGED <<exe, old, disk>> /\ passed \subseteq passed' /\ proc[p].pc = "bootcheck"
    BY <1>9 DEF BootCheck, files, SelfCheck, At
  <2>2. CASE SelfCheck(proc[p].st.pending, TRUE)
             /\ proc' = [proc EXCEPT ![p].pc = "bootconfirm", ![p].st.confirmed = TRUE]
    <3>1. proc'[p].pc = "bootconfirm" BY <2>2, <1>1 DEF ProcType
    <3>2. exe' \in passed' BY <2>1, <2>2 DEF SelfCheck
    <3>3. CheckedOK(proc[p])' BY <3>1, <3>2 DEF CheckedOK, Strong
    <3> QED BY <3>3, <2>1, <1>1, VerifiedKept
  <2>3. CASE proc' = [proc EXCEPT ![p].pc = "rbstat", ![p].st = Failed(proc[p].st),
                                  ![p].want = proc[p].st.pending, ![p].was = proc[p].st.was]
    <3>1. proc'[p].pc = "rbstat" BY <2>3, <1>1 DEF ProcType
    <3> QED BY <3>1, <2>1, <1>1, <1>5, VerifiedKept
  <2>4. CASE proc' = [proc EXCEPT ![p].pc = "bootsave", ![p].st = Failed(proc[p].st)]
    <3>1. proc'[p].pc = "bootsave" /\ proc'[p].st = Failed(proc[p].st) BY <2>4, <1>1 DEF ProcType
    <3>2. /\ Failed(proc[p].st).pending = proc[p].st.pending
          /\ Failed(proc[p].st).confirmed = proc[p].st.confirmed
      BY <1>1, FailedType DEF ProcType
    <3>3. CheckedOK(proc[p])' BY <3>1, <3>2, <2>1, <1>1 DEF CheckedOK, Strong
    <3> QED BY <3>3, <2>1, <1>1, VerifiedKept
  <2> QED BY <2>2, <2>3, <2>4, <1>9 DEF BootCheck
<1>10. CASE BootSave(p)
  <2>1. /\ UNCHANGED <<exe, old, passed>> /\ proc[p].pc = "bootsave" /\ disk' = Merged(proc[p].st)
        /\ proc' = GotoAfterBoot(p)
    BY <1>10, SaveDone DEF BootSave, files, At
  <2>2. disk'.pending = proc[p].st.pending /\ disk'.confirmed = proc[p].st.confirmed
    BY <2>1, <1>1 DEF Merged, ProcType, StateType
  <2>3. Strong(exe) \/ (Unconfirmed' /\ disk'.pending = exe /\ old # 0)
    BY <2>1, <2>2, <1>1, <1>2 DEF CheckedOK, Strong, Unconfirmed
  <2>4. Accounted' BY <2>1, <2>3 DEF Accounted, Strong
  <2> QED BY <2>1, <2>4, <1>1, <1>4, <1>5, VerifiedMoved DEF Verified, Strong
<1>11. CASE BootConfirm(p)
  <2>1. UNCHANGED <<exe, old, passed>> /\ proc[p].pc = "bootconfirm" BY <1>11 DEF BootConfirm, files, At
  <2>2. proc' = GotoAfterBoot(p) \/ proc' = Spawned(GotoAfterBoot(p)) BY <1>11 DEF BootConfirm
  <2>3. Strong(exe)' BY <2>1, <1>1 DEF CheckedOK, Strong
  <2> QED BY <2>1, <2>2, <2>3, <1>1, <1>4, <1>5, VerifiedMoved DEF Verified, Strong, Accounted
<1> QED BY <1>6, <1>7, <1>8, <1>9, <1>10, <1>11 DEF BootHook

LEMMA RollbackVerified ==
    ASSUME Orderly, ~Overlap, Files, Verified, Undisturbed', NEW p \in Procs, Turn(p), Rollback(p)
    PROVE  Verified'
<1>1. /\ proc[p].pc \in RbPlaces /\ proc[p].pc # "record" /\ Beside(p) /\ proc[p] \in ProcType
      /\ proc \in [Procs -> ProcType] /\ proc[p].pc # "none" /\ proc[p].role # "none" /\ FileOK(proc[p])
  BY RollbackOrderly DEF Orderly, Types, Fits, Rollback, RbStat, RbOut, RbIn, Mark, RbStop, RbStart, RbWait, RbSave,
                         At, RbPlaces, Files
<1>2. AfterJob(p).pc \in {"status", "on", "off", "plan", "rbstat", "bind", "serving"} BY <1>1, AfterJobFits
<1>3. ASSUME proc' = GotoAfterJob(p) PROVE proc'[p].pc \in {"status", "on", "off", "plan", "rbstat", "bind", "serving"}
  BY <1>1, <1>2, <1>3 DEF GotoAfterJob
<1>4. ASSUME RollbackFailed(p)
      PROVE  proc'[p].pc \in RbPlaces \cup {"status", "on", "off", "plan", "bind", "serving"}
  BY <1>1, <1>3, <1>4 DEF RollbackFailed, Goto, RbPlaces
<1>5. ASSUME proc'[p].pc \in RbPlaces \cup {"status", "on", "off", "plan", "bind", "serving"} PROVE CheckedOK(proc[p])'
  BY <1>5 DEF CheckedOK, RbPlaces
<1>6. ASSUME UNCHANGED <<exe, old, disk, passed>>,
             proc'[p].pc \in RbPlaces \cup {"status", "on", "off", "plan", "bind", "serving"}
      PROVE  Verified'
  BY <1>1, <1>5, <1>6, VerifiedKept
<1>7. CASE RbStat(p)
  <2>0. proc' = [proc EXCEPT ![p].pc = "rbout"] => proc'[p].pc = "rbout" BY <1>1
  <2>1. RollbackFailed(p) \/ proc' = [proc EXCEPT ![p].pc = "rbout"] BY <1>7 DEF RbStat, Goto
  <2>2. proc'[p].pc \in RbPlaces \cup {"status", "on", "off", "plan", "bind", "serving"}
    BY <2>0, <2>1, <1>4 DEF RbPlaces
  <2> QED BY <2>2, <1>6, <1>7 DEF RbStat, files, hist
<1>8. CASE RbOut(p)
  <2>0. proc' = [proc EXCEPT ![p].pc = "rbin"] => proc'[p].pc = "rbin" BY <1>1
  <2>1. RollbackFailed(p) \/ proc' = [proc EXCEPT ![p].pc = "rbin"] BY <1>8 DEF RbOut, Goto
  <2>2. proc'[p].pc \in RbPlaces \cup {"status", "on", "off", "plan", "bind", "serving"}
    BY <2>0, <2>1, <1>4 DEF RbPlaces
  <2>3. UNCHANGED <<old, disk, passed>> /\ (exe' = 0 \/ exe' = exe) BY <1>8 DEF RbOut, hist
  <2>4. CASE exe' = exe BY <2>2, <2>3, <2>4, <1>6
  <2>5. CASE exe' = 0
    <3>1. Strong(exe)' /\ Strong(old)' BY <2>3, <2>5 DEF Strong, Verified
    <3> QED BY <3>1, <2>2, <1>1, <1>5, <2>3, VerifiedMoved DEF Accounted
  <2> QED BY <2>3, <2>4, <2>5
<1>9. CASE RbIn(p)
  <2>1. proc[p].pc = "rbin" /\ old # 0 BY <1>1, <1>9 DEF RbIn, At, FileOK
  <2>2. exe' = old /\ old' = 0 /\ UNCHANGED <<disk, passed>> /\ proc' = Goto(p, "mark")
    BY <2>1, <1>9, NoFault DEF RbIn, hist
  <2>3. proc'[p].pc = "mark" BY <2>2, <1>1 DEF Goto
  <2>4. Strong(exe)' /\ Strong(old)' BY <2>2 DEF Strong, Verified
  <2> QED BY <2>2, <2>3, <2>4, <1>1, <1>5, VerifiedMoved DEF Accounted, RbPlaces
<1>10. CASE Mark(p)
  <2>1. \E st : \E l \in {"rbstop", "rbsave"} : proc' = [proc EXCEPT ![p].pc = l, ![p].st = st] BY <1>10 DEF Mark
  <2>2. proc'[p].pc \in {"rbstop", "rbsave"} BY <2>1, <1>1 DEF ProcType
  <2> QED BY <2>2, <1>6, <1>10 DEF Mark, files, hist, RbPlaces
<1>11. CASE RbStop(p)
  <2>1. proc'[p].pc = "rbstart" BY <1>11, StopOrderly DEF RbStop, At
  <2> QED BY <2>1, <1>6, <1>11 DEF RbStop, Stop, files, hist, RbPlaces
<1>12. CASE RbStart(p)
  <2>1. Goto(p, "rbwait") \in [Procs -> ProcType] /\ Goto(p, "rbwait")[p].pc = "rbwait"
    BY <1>1 DEF Goto, ProcType, Places, RbPlaces
  <2>2. proc'[p].pc = "rbwait" BY <2>1, <1>1, <1>12, SpawnedAt DEF RbStart
  <2> QED BY <2>2, <1>6, <1>12 DEF RbStart, files, hist, RbPlaces
<1>13. CASE RbWait(p)
  <2>1. proc'[p].pc = "rbsave" BY <1>1, <1>13 DEF RbWait, Goto
  <2> QED BY <2>1, <1>6, <1>13 DEF RbWait, files, hist, RbPlaces
<1>14. CASE RbSave(p)
  <2>1. UNCHANGED <<exe, old, passed>> /\ proc[p].pc = "rbsave" /\ proc' = GotoAfterJob(p)
    BY <1>14 DEF RbSave, files, At
  <2>2. old = 0 BY <2>1, <1>1 DEF FileOK
  <2>3. \A q \in Procs : ~At(q, "record") BY <2>2 DEF Files, FileOK, At
  <2>4. Strong(exe)' /\ Strong(old)' BY <2>1, <2>2, <2>3 DEF Verified, Accounted, Strong
  <2>5. CheckedOK(proc[p])' BY <2>1, <1>3, <1>5 DEF RbPlaces
  <2> QED BY <2>1, <2>4, <2>5, <1>1, VerifiedMoved DEF Accounted
<1> QED BY <1>7, <1>8, <1>9, <1>10, <1>11, <1>12, <1>13, <1>14 DEF Rollback

LEMMA ApplyVerified ==
    ASSUME Orderly, ~Overlap, Files, Verified, Undisturbed', ~lapse', NEW p \in Procs, Turn(p), ApplyPlan(p)
    PROVE  Verified'
<1> DEFINE Own == {"stop", "start", "wait", "confirm"}
<1>1. /\ proc[p].pc \in UpPlaces \cup Own /\ Beside(p) /\ proc[p] \in ProcType
      /\ proc \in [Procs -> ProcType] /\ proc[p].pc # "none" /\ proc[p].role # "none"
      /\ FileOK(proc[p]) /\ CheckedOK(proc[p]) /\ exe \in Nat /\ proc[p].want \in Nat
  BY ApplyOrderly DEF Orderly, Types, FileTypes, Fits, ApplyPlan, Plan, Download, PlanSwap, SwapOp, Record, Inline,
                      StopOld, StartNew, WaitVersion, Confirm, At, UpPlaces, Files, Verified, ProcType
<1>2. AfterJob(p).pc \in {"status", "on", "off", "plan", "rbstat", "bind", "serving"} BY <1>1, AfterJobFits
<1>3. ASSUME proc' = GotoAfterJob(p) PROVE proc'[p].pc \in {"status", "on", "off", "plan", "rbstat", "bind", "serving"}
  BY <1>1, <1>2, <1>3 DEF GotoAfterJob
<1> DEFINE Onward == {"download", "planswap", "inline", "status", "on", "off", "plan", "rbstat", "bind", "serving"}
<1>4. ASSUME UNCHANGED <<exe, old, disk, passed>>, proc[p].pc # "record",
             \/ proc'[p].pc \in Onward
             \/ proc'[p].pc \in Own \cup {"swap"} /\ Strong(exe)
      PROVE  Verified'
  <2>1. CheckedOK(proc[p])' BY <1>4 DEF CheckedOK, Strong
  <2> QED BY <2>1, <1>1, <1>4, VerifiedKept
<1>5. CASE Plan(p)
  <2>1. proc'[p].pc \in Onward
    <3>1. CASE proc' = [proc EXCEPT ![p].pc = "download", ![p].want = latest] BY <3>1, <1>1 DEF ProcType
    <3>2. CASE proc' = GotoAfterJob(p) BY <3>2, <1>3
    <3> QED BY <3>1, <3>2, <1>5 DEF Plan
  <2> QED BY <2>1, <1>4, <1>5 DEF Plan, files, hist, At
<1>6. CASE Download(p)
  <2>1. proc'[p].pc \in Onward
    <3>1. CASE proc' = Goto(p, "planswap") BY <3>1, <1>1 DEF Goto
    <3>2. CASE proc' = GotoAfterJob(p) BY <3>2, <1>3
    <3> QED BY <3>1, <3>2, <1>6 DEF Download, EndApply
  <2> QED BY <2>1, <1>4, <1>6 DEF Download, hist, At
<1>7. CASE PlanSwap(p)
  <2>1. UNCHANGED <<exe, old, disk, passed>> /\ proc[p].pc = "planswap" /\ ~Parked(p)
    BY <1>7 DEF PlanSwap, At, Parked, CmdParked, ServeParked
  <2>2. CASE staged # proc[p].want
    <3>1. proc'[p].pc \in Onward BY <2>2, <1>3, <1>7 DEF PlanSwap, EndApply
    <3> QED BY <3>1, <2>1, <1>4
  <2>3. CASE staged = proc[p].want
    <3>1. ~Unconfirmed BY <2>3, <1>7 DEF PlanSwap
    <3>2. Strong(exe) BY <2>1, <3>1, NotRecording DEF Verified
    <3>3. proc' = [proc EXCEPT ![p].pc = "swap", ![p].was = Alive, ![p].ops = SwapOps]
      BY <2>3, <1>7 DEF PlanSwap
    <3>4. proc'[p].pc = "swap" BY <3>3, <1>1 DEF ProcType
    <3> QED BY <3>2, <3>4, <2>1, <1>4
  <2> QED BY <2>2, <2>3
<1>8. CASE SwapOp(p)
  <2>1. /\ proc[p].pc = "swap" /\ ~Parked(p) /\ PlanFits(proc[p].ops) /\ staged = proc[p].want
        /\ Strong(exe) /\ Strong(old) /\ UNCHANGED <<disk, passed>>
    BY <1>1, <1>8 DEF SwapOp, At, Parked, CmdParked, ServeParked, FileOK, CheckedOK, Verified, hist
  <2>2. \A q \in Procs \ {p} : Rests(q) BY <2>1, Alone DEF UpPlaces
  <2> DEFINE ops == proc[p].ops
             next == [proc EXCEPT ![p].ops = Tail(ops), ![p].pc = IF Tail(ops) = <<>> THEN "record" ELSE "swap"]
  <2>3. ASSUME proc' = next PROVE proc'[p].pc = (IF Tail(ops) = <<>> THEN "record" ELSE "swap")
    BY <2>3, <1>1 DEF ProcType
  <2>4. CASE ops = <<"remove", "out", "in">> /\ Startable(exe)
    <3>1. old' = 0 /\ proc' = next /\ exe' = exe
      BY <2>4, <1>8, PlanTails, NoFault DEF SwapOp
    <3>2. proc'[p].pc = "swap" BY <3>1, <2>3, <2>4, PlanTails
    <3>3. Strong(exe)' /\ Strong(old)' BY <3>1, <2>1 DEF Strong
    <3> QED BY <3>2, <3>3, <2>1, <1>1, VerifiedMoved DEF Accounted, CheckedOK
  <2>5. CASE ops = <<"out", "in">> /\ Startable(exe) /\ old = 0
    <3>1. old' = exe /\ exe' = 0 /\ proc' = next
      BY <2>5, <1>8, PlanTails, NoFault DEF SwapOp, Startable
    <3>2. proc'[p].pc = "swap" BY <3>1, <2>3, <2>5, PlanTails
    <3>3. Strong(exe)' /\ Strong(old)' BY <3>1, <2>1 DEF Strong
    <3> QED BY <3>2, <3>3, <2>1, <1>1, VerifiedMoved DEF Accounted, CheckedOK
  <2>6. CASE ops = <<"in">> /\ exe = 0 /\ old # 0
    <3>1. old' = old /\ proc' = next
      BY <2>1, <2>6, <1>8, PlanTails, NoFault DEF SwapOp
    <3>2. proc'[p].pc = "record" BY <3>1, <2>3, <2>6, PlanTails
    <3>3. Strong(old)' BY <3>1, <2>1 DEF Strong
    <3> QED BY <3>2, <3>3, <2>1, <2>2, <1>1, VerifiedMoved DEF Accounted, CheckedOK, At
  <2> QED BY <2>1, <2>4, <2>5, <2>6 DEF PlanFits
<1>9. CASE Record(p)
  <2> DEFINE st == [NoState EXCEPT !.pending = proc[p].want, !.was = proc[p].was]
  <2>1. UNCHANGED <<exe, old, passed>> /\ proc[p].pc = "record" /\ Save(st) BY <1>9 DEF Record, At, files
  <2>2. proc' = [proc EXCEPT ![p].pc = "inline", ![p].st = st] /\ disk' = Merged(st)
    BY <2>1, <1>9, SaveDone DEF Record
  <2>3. disk'.pending = proc[p].want /\ disk'.confirmed = FALSE BY <2>2 DEF Merged, NoState
  <2> HIDE DEF st
  <2>4. proc'[p].pc = "inline" BY <2>2, <1>1 DEF ProcType
  <2>5. exe = proc[p].want /\ old # 0 /\ proc[p].want # 0 BY <2>1, <1>1 DEF FileOK
  <2>6. Accounted' BY <2>1, <2>3, <2>5 DEF Accounted, Unconfirmed
  <2> QED BY <2>1, <2>4, <2>6, <1>1, VerifiedMoved DEF Verified, Strong, CheckedOK
<1>10. CASE Inline(p)
  <2>1. UNCHANGED <<exe, old, disk>> /\ proc[p].pc = "inline" /\ passed \subseteq passed'
    BY <1>10 DEF Inline, At, files, SelfCheck
  <2>2. CASE SelfCheck(proc[p].want, TRUE)
    <3>1. Strong(exe)' BY <2>1, <2>2 DEF SelfCheck, Strong
    <3> QED BY <3>1, <2>1, <1>1, VerifiedKept DEF CheckedOK
  <2>3. CASE proc' = Goto(p, "rbstat")
    <3>1. proc'[p].pc = "rbstat" BY <2>3, <1>1 DEF Goto
    <3> QED BY <3>1, <2>1, <1>1, VerifiedKept DEF CheckedOK
  <2> QED BY <2>2, <2>3, <1>10 DEF Inline
<1>11. CASE StopOld(p)
  <2>1. UNCHANGED <<exe, old, disk, passed>> /\ proc[p].pc = "stop" BY <1>11 DEF StopOld, Stop, At, files, hist
  <2>2. proc'[p].pc = "start" BY <1>11, StopOrderly DEF StopOld, At
  <2> QED BY <2>1, <2>2, <1>1, <1>4 DEF CheckedOK
<1>12. CASE StartNew(p)
  <2>1. UNCHANGED <<exe, old, disk, passed>> /\ proc[p].pc = "start" BY <1>12 DEF StartNew, At, files, hist
  <2>2. Goto(p, "wait") \in [Procs -> ProcType] /\ Goto(p, "wait")[p].pc = "wait"
    BY <1>1 DEF Goto, ProcType, Places, CmdOnly
  <2>3. proc'[p].pc = "wait" BY <2>2, <1>1, <1>12, SpawnedAt DEF StartNew
  <2> QED BY <2>1, <2>3, <1>1, <1>4 DEF CheckedOK
<1>13. CASE WaitVersion(p)
  <2>1. UNCHANGED <<exe, old, disk, passed>> /\ proc[p].pc = "wait" BY <1>13 DEF WaitVersion, At, files, hist
  <2>2. \E l \in {"confirm", "rbstat"} : proc' = [proc EXCEPT ![p].pc = l] BY <1>13 DEF WaitVersion, Goto
  <2>3. proc'[p].pc \in {"confirm", "rbstat"} BY <2>2, <1>1
  <2> QED BY <2>1, <2>3, <1>1, <1>4 DEF CheckedOK
<1>14. CASE Confirm(p)
  <2>1. UNCHANGED <<exe, old, passed>> /\ proc[p].pc = "confirm" /\ proc' = GotoAfterJob(p)
    BY <1>14 DEF Confirm, At, files
  <2>2. Strong(exe)' /\ Strong(old)' BY <2>1, <1>1 DEF CheckedOK, Verified, Strong
  <2> QED BY <2>1, <2>2, <1>1, <1>3, VerifiedMoved DEF Accounted, CheckedOK
<1> QED BY <1>5, <1>6, <1>7, <1>8, <1>9, <1>10, <1>11, <1>12, <1>13, <1>14 DEF ApplyPlan

LEMMA OtherVerified ==
    ASSUME Orderly, ~Overlap, Verified,
           \/ \E p \in Procs : Turn(p) /\ Exit(p)
           \/ \E s \in Serves : Bind(s) \/ Apply(s)
           \/ \E r \in Roles : Command(r)
           \/ On \/ Off \/ Restart
    PROVE  Verified'
<1>1. Serves \subseteq Procs /\ "cmd" \in Procs BY DEF Procs
<1>2. ASSUME NEW p \in Procs, UNCHANGED <<exe, old, disk, passed>>, Beside(p),
             proc'[p].pc \in {"none", "recover", "serving", "plan", "status"}, proc[p].pc # "record"
      PROVE  Verified'
  <2>1. CheckedOK(proc[p])' BY <1>2 DEF CheckedOK
  <2> QED BY <2>1, <1>2, VerifiedKept
<1>3. ASSUME NEW p \in Procs, Turn(p), Exit(p) PROVE Verified'
  <2>1. UNCHANGED <<exe, old, disk, passed>> BY <1>3 DEF Exit, files
  <2>2. proc'[p].pc = "none" BY <1>3, EndsOrderly DEF Gone
  <2>3. proc[p].pc # "record" /\ Beside(p) BY <1>3, EndsOrderly
  <2> QED BY <2>1, <2>2, <2>3, <1>2
<1>4. ASSUME NEW s \in Serves, Bind(s) PROVE Verified'
  <2>1. UNCHANGED <<exe, old, disk, passed>> /\ proc[s].pc = "bind" BY <1>4 DEF Bind, At, files, hist
  <2> QED BY <2>1, <1>1, <1>2, <1>4, BindOrderly
<1>5. ASSUME NEW s \in Serves, Apply(s) PROVE Verified'
  <2>1. UNCHANGED <<exe, old, disk, passed>> /\ proc[s].pc = "serving" BY <1>5 DEF Apply, At, files, hist
  <2> QED BY <2>1, <1>1, <1>2, <1>5, ApplyBegins
<1>6. ASSUME NEW r \in Roles, Command(r) PROVE Verified'
  <2>1. UNCHANGED <<exe, old, disk, passed>> /\ proc["cmd"].role = "none" BY <1>6 DEF Command, files
  <2>2. proc["cmd"].pc = "none" BY <2>1, <1>1 DEF Orderly, Fits
  <2>3. proc'["cmd"].pc = "recover" /\ Beside("cmd") BY <1>6, CommandBegins
  <2> QED BY <2>1, <2>2, <2>3, <1>1, <1>2
<1>7. ASSUME On PROVE Verified'
  <2>1. UNCHANGED <<exe, old, disk, passed>> /\ proc["cmd"].pc = "on" BY <1>7 DEF On, At, files, hist
  <2> QED BY <2>1, <1>1, <1>2, <1>7, OnOrderly
<1>8. ASSUME Off PROVE Verified'
  <2>1. UNCHANGED <<exe, old, disk, passed>> /\ proc["cmd"].pc = "off" BY <1>8 DEF Off, At, files
  <2> QED BY <2>1, <1>1, <1>2, <1>8, OffOrderly
<1>9. ASSUME Restart PROVE Verified'
  <2>1. UNCHANGED <<exe, old, disk, passed>> /\ proc["cmd"].role = "none" BY <1>9 DEF Restart, files
  <2>2. proc["cmd"].pc = "none" BY <2>1, <1>1 DEF Orderly, Fits
  <2>3. Beside("cmd") /\ proc'["cmd"] = proc["cmd"] BY <1>9, RestartOrderly
  <2> QED BY <2>1, <2>2, <2>3, <1>1, <1>2
<1> QED BY <1>3, <1>4, <1>5, <1>6, <1>7, <1>8, <1>9

LEMMA SupervisorVerified ==
    ASSUME Orderly, ~Overlap, Verified, Supervisor
    PROVE  Verified'
<1>1. UNCHANGED <<exe, old, disk, passed>>
  BY DEF Supervisor, Probe, Decide, ShellSpawn, ShellWait, files, hist
<1>2. ASSUME NEW q \in Procs
      PROVE  \/ proc'[q] = proc[q]
             \/ proc[q].pc = "none" /\ proc'[q].pc = "recover"
  BY SupervisorOrderly, SelfUpdateAssumption DEF Joined, Started, Gone, Procs
<1>3. \A q \in Procs : CheckedOK(proc[q])' BY <1>1, <1>2 DEF Verified, CheckedOK, Strong
<1>4. Accounted' BY <1>1, <1>2 DEF Verified, Accounted, Strong, Unconfirmed, At
<1> QED BY <1>1, <1>3, <1>4 DEF Verified, Strong

LEMMA LapseGrows == ASSUME [Next]_vars, ~lapse' PROVE ~lapse
<1>1. ASSUME NEW p \in Procs, BootHook(p) PROVE ~lapse
  BY <1>1 DEF BootHook, Recover, Restore, Load, BootCheck, BootSave, BootConfirm, hist
<1>2. ASSUME NEW p \in Procs, Rollback(p) PROVE ~lapse
  BY <1>2 DEF Rollback, RbStat, RbOut, RbIn, Mark, RbStop, RbStart, RbWait, RbSave, Stop, hist
<1>3. ASSUME NEW p \in Procs, ApplyPlan(p) PROVE ~lapse
  <2>1. CASE PlanSwap(p) BY <2>1 DEF PlanSwap
  <2>2. CASE Record(p) BY <2>2 DEF Record
  <2> QED BY <1>3, <2>1, <2>2 DEF ApplyPlan, Plan, Download, SwapOp, Inline, StopOld, StartNew, WaitVersion, Confirm, Stop, hist
<1>4. ASSUME NEW p \in Procs, Exit(p) PROVE ~lapse BY <1>4 DEF Exit, Ends
<1>5. ASSUME NEW s \in Serves, Bind(s) \/ Apply(s) PROVE ~lapse BY <1>5 DEF Bind, Apply, hist
<1>6. ASSUME NEW r \in Roles, Command(r) PROVE ~lapse BY <1>6 DEF Command
<1>7. CASE On \/ Off \/ Release \/ Restart \/ Crash BY <1>7 DEF On, Off, Release, Restart, Crash, hist
<1>8. CASE Supervisor BY <1>8 DEF Supervisor, Probe, Decide, ShellSpawn, ShellWait, hist
<1>9. CASE UNCHANGED vars BY <1>9 DEF vars, hist
<1> QED BY <1>1, <1>2, <1>3, <1>4, <1>5, <1>6, <1>7, <1>8, <1>9 DEF Next, ProcessStep

LEMMA VerifiedStep == ASSUME Orderly, ~Overlap, FilesInv, VerifiedInv, [Next]_vars PROVE VerifiedInv'
<1> SUFFICES ASSUME Undisturbed', ~lapse' PROVE Verified' BY DEF VerifiedInv
<1>0. Files /\ Verified BY FaultsGrow, LapseGrows DEF FilesInv, VerifiedInv
<1>1. ASSUME NEW p \in Procs, ProcessStep(p) PROVE Verified'
  BY <1>0, <1>1, BootVerified, RollbackVerified, ApplyVerified, OtherVerified DEF ProcessStep
<1>2. ASSUME \/ \E s \in Serves : Bind(s) \/ Apply(s)
             \/ \E r \in Roles : Command(r)
             \/ On \/ Off \/ Restart
      PROVE  Verified'
  BY <1>0, <1>2, OtherVerified
<1>3. CASE Release
  BY <1>0, <1>3 DEF Release, Verified, Accounted, CheckedOK, Strong, Unconfirmed, At, files, hist
<1>4. CASE Crash
  <2>1. UNCHANGED <<exe, old, disk, passed>> /\ \A p \in Procs : ~At(p, "record") BY <1>4 DEF Crash, files
  <2>2. \A q \in Procs : CheckedOK(proc[q])' BY <1>4, CrashOrderly DEF CheckedOK, Gone
  <2> QED BY <1>0, <2>1, <2>2 DEF Verified, Accounted, Strong, Unconfirmed
<1>5. CASE UNCHANGED vars
  BY <1>0, <1>5 DEF vars, Verified, Accounted, CheckedOK, Strong, Unconfirmed, At, files, hist
<1> QED BY <1>0, <1>1, <1>2, <1>3, <1>4, <1>5, SupervisorVerified DEF Next

\* A release that was never confirmed by a boot or by the version check is not in place without
\* update.json saying so, and .old is always one that was: the next boot counts its attempts
\* and can go back (selfupdateglue.go, selfupdate/state.go), unless a process died
\* between the swap and the save.
THEOREM UncheckedNoticed == ASSUME ~Overlap PROVE Spec => []UncheckedIsPending
<1>1. Init => Orderly /\ FilesInv /\ VerifiedInv
  <2> SUFFICES ASSUME Init PROVE FilesInv /\ VerifiedInv BY InitOrderly
  <2>1. \A p \in Procs : proc[p].pc = "none" BY DEF Init, Gone
  <2>2. Startable(exe) /\ exe = 1 /\ old = 0 BY SelfUpdateAssumption DEF Init, Startable
  <2> QED BY <2>1, <2>2 DEF FilesInv, Files, FileOK, VerifiedInv, Verified, Accounted, CheckedOK, Strong
<1>2. Orderly /\ FilesInv /\ VerifiedInv /\ [Next]_vars => (Orderly /\ FilesInv /\ VerifiedInv)'
  BY OrderlyStep, FilesStep, VerifiedStep
<1>3. Orderly /\ VerifiedInv => UncheckedIsPending
  <2> SUFFICES ASSUME Orderly, Verified, Quiet, exe > 1 PROVE exe \in passed \/ (Unconfirmed /\ disk.pending = exe)
    BY DEF VerifiedInv, UncheckedIsPending
  <2>1. \A p \in Procs : ~At(p, "record") BY DEF Quiet, Rests, At
  <2>2. exe \in Nat BY DEF Orderly, Types, FileTypes
  <2> QED BY <2>1, <2>2 DEF Verified, Accounted, Strong
<1> QED BY <1>1, <1>2, <1>3, PTL DEF Spec

----------------------------------------------------------------------------
(* What is recorded as bad is not fetched again.                           *)

\* There is at most one daemon beside the command.
OneDaemon == \A s, t \in Serves : s = t

\* v is what update.json is about: pending, or rolled back last.
Concerns(v) == disk.pending = v \/ (disk.pending = 0 /\ disk.bad = v)

\* What a process knows of update.json.
BadOK(r) ==
    /\ r.pc = "bootcheck" => r.st = disk /\ Unconfirmed
    /\ r.pc = "bootconfirm" => r.st.pending = disk.pending /\ r.st.bad = disk.bad
    /\ r.pc = "bootsave" =>
          \/ r.st.pending = disk.pending /\ r.st.bad = disk.bad /\ r.st.confirmed = disk.confirmed
          \/ r.st.pending = 0 /\ r.st.bad = disk.pending
    /\ r.pc \in {"download", "planswap", "swap", "record"} => disk.bad < r.want /\ r.want <= latest
    /\ r.pc = "inline" =>
          r.want # 0 /\ disk.pending = r.want /\ r.want <= latest /\ r.st.bad = 0 /\ r.st.pending = r.want
    /\ r.pc \in {"stop", "start", "wait", "confirm"} =>
          r.want # 0 /\ Concerns(r.want) /\ r.st.pending = r.want /\ r.st.bad = 0
    /\ r.pc \in {"rbstat", "rbout", "rbin", "mark"} /\ r.job # "manual" => r.want # 0 /\ Concerns(r.want)
    /\ r.pc \in {"rbstop", "rbstart", "rbwait", "rbsave"} => r.st.pending = 0 /\ Concerns(r.st.bad)

\* A daemon at work is the only one that writes update.json.
Exact(r) ==
    /\ r.pc \in {"rbstat", "rbout", "rbin", "mark"} => disk.pending = r.want /\ disk.pending # 0
    /\ r.pc \in {"rbstop", "rbstart", "rbwait", "rbsave"} => disk.pending = r.st.bad /\ disk.pending # 0

\* Only the newest release recorded as bad counts: every later update is newer.
Recorded ==
    /\ marked \subseteq Nat /\ \A v \in marked : v <= disk.bad
    /\ disk.bad <= latest /\ disk.pending <= latest
    /\ disk.pending # 0 => disk.bad <= disk.pending

BadInv ==
    /\ Recorded
    /\ \A p \in Procs : BadOK(proc[p])
    /\ \A s \in Serves : Exact(proc[s])

\* What a save that ends well changes of it.
Settling == \/ disk'.pending = disk.pending /\ disk'.bad = disk.bad
            \/ disk.pending # 0 /\ disk'.pending = 0 /\ disk'.bad = disk.pending

LEMMA IdleBadOK ==
    ASSUME NEW r, r.pc \in {"none", "recover", "restore", "restored", "load", "status", "on", "off", "plan", "bind", "serving"}
    PROVE  BadOK(r) /\ Exact(r) /\ BadOK(r)' /\ Exact(r)'
BY DEF BadOK, Exact

LEMMA BesideIs ==
    ASSUME NEW p, Beside(p), NEW q \in Procs \ {p}
    PROVE  proc'[q] = proc[q] \/ proc'[q].pc \in {"none", "recover"}
<1>1. Gone.pc = "none" /\ Started("serve").pc = "recover" BY DEF Gone, Started
<1>2. CASE Kept(p) BY <1>1, <1>2 DEF Kept
<1>3. CASE \E n \in Serves : Joined(p, n) BY <1>1, <1>3 DEF Joined
<1> QED BY <1>2, <1>3 DEF Beside

LEMMA BadKept ==
    ASSUME Orderly, BadInv, UNCHANGED <<disk, marked, latest>>, NEW p, Beside(p),
           p \in Procs => BadOK(proc[p])' /\ (p \in Serves => Exact(proc[p])')
    PROVE  BadInv'
<1>1. ASSUME NEW q \in Procs \ {p} PROVE BadOK(proc[q])' /\ (q \in Serves => Exact(proc[q])')
  <2>1. BadOK(proc[q]) /\ (q \in Serves => Exact(proc[q])) BY DEF BadInv
  <2>2. CASE proc'[q] = proc[q] BY <2>1, <2>2 DEF BadOK, Exact, Concerns, Unconfirmed
  <2>3. CASE proc'[q].pc \in {"none", "recover"}
    BY <2>3 DEF BadOK, Exact
  <2> QED BY <2>2, <2>3, BesideIs
<1>2. Serves \subseteq Procs BY DEF Procs
<1>3. Recorded' BY DEF BadInv, Recorded
<1> QED BY <1>1, <1>2, <1>3 DEF BadInv

LEMMA BadSaved ==
    ASSUME Orderly, ~Overlap, OneDaemon, BadInv, UNCHANGED latest, NEW p \in Procs, Turn(p), ~Rests(p), Beside(p),
           Recorded', Settling \/ \A q \in Procs \ {p} : Rests(q),
           BadOK(proc[p])', p \in Serves => Exact(proc[p])'
    PROVE  BadInv'
<1>1. ASSUME NEW q \in Procs \ {p} PROVE BadOK(proc[q])' /\ (q \in Serves => Exact(proc[q])')
  <2>1. BadOK(proc[q]) BY DEF BadInv
  <2>2. CASE proc'[q] = proc[q] /\ Rests(q) BY <2>2 DEF BadOK, Exact, Rests
  <2>3. CASE proc'[q] = proc[q] /\ ~Rests(q)
    <3>1. p \in Serves /\ q = "cmd" /\ q \notin Serves
      BY <2>3, SelfUpdateAssumption DEF Turn, OneDaemon, Procs
    <3>2. Parked(q) BY <3>1 DEF Orderly, OneWorks
    <3>3. proc[q].pc \in CmdParked BY <3>1, <3>2 DEF Parked
    <3>4. Settling BY <2>3
    <3>5. \A v : v # 0 /\ Concerns(v) => Concerns(v)' BY <3>4 DEF Settling, Concerns
    <3>6. disk.pending = 0 => disk'.pending = 0 /\ disk'.bad = disk.bad BY <3>4 DEF Settling
    <3>7. Concerns(0) => Concerns(0)' BY <3>6 DEF Concerns
    <3>8. BadOK(proc[q])' BY <2>1, <2>3, <3>3, <3>5, <3>7 DEF BadOK, CmdParked
    <3> QED BY <3>1, <3>8
  <2>4. CASE proc'[q].pc \in {"none", "recover"} BY <2>4 DEF BadOK, Exact
  <2> QED BY <2>2, <2>3, <2>4, BesideIs
<1>2. Serves \subseteq Procs BY DEF Procs
<1> QED BY <1>1, <1>2 DEF BadInv

\* What a write of update.json leaves there.
LEMMA SaveIs ==
    ASSUME Types, NEW st \in StateType, Save(st)
    PROVE  \/ disk' = disk /\ marked' = marked
           \/ /\ disk' \in StateType /\ marked' \subseteq marked \cup {disk'.bad} /\ disk' = Merged(st)
              /\ disk'.pending = st.pending /\ disk'.confirmed = st.confirmed
              /\ disk'.bad = IF st.bad = 0 THEN disk.bad ELSE st.bad
<1>1. CASE disk' = Merged(st) /\ marked' = IF Merged(st).bad = 0 THEN marked ELSE marked \union {Merged(st).bad}
  <2>1. Merged(st) \in StateType BY DEF Merged, StateType, Types, FileTypes
  <2>2. /\ Merged(st).pending = st.pending /\ Merged(st).confirmed = st.confirmed
        /\ Merged(st).bad = IF st.bad = 0 THEN disk.bad ELSE st.bad
    BY DEF Merged, StateType
  <2> QED BY <1>1, <2>1, <2>2
<1> QED BY <1>1 DEF Save

LEMMA RecordedSaved ==
    ASSUME Types, Types', Recorded, UNCHANGED latest, marked' \subseteq marked \cup {disk'.bad},
           disk.bad <= disk'.bad, disk'.bad <= latest, disk'.pending <= latest,
           disk'.pending # 0 => disk'.bad <= disk'.pending
    PROVE  Recorded'
<1>1. disk.bad \in Nat /\ disk'.bad \in Nat /\ latest \in Nat BY DEF Types, FileTypes, StateType
<1>2. marked' \subseteq Nat BY <1>1 DEF Recorded
<1>3. ASSUME NEW v \in marked' PROVE v <= disk'.bad BY <1>1, <1>2, <1>3 DEF Recorded
<1> QED BY <1>2, <1>3 DEF Recorded

LEMMA RecordedSettling ==
    ASSUME Types, Types', Recorded, UNCHANGED latest, marked' \subseteq marked \cup {disk'.bad}, Settling
    PROVE  Recorded'
<1>1. disk.bad \in Nat /\ disk'.bad \in Nat /\ latest \in Nat /\ disk.pending \in Nat /\ disk'.pending \in Nat
  BY DEF Types, FileTypes, StateType
<1> QED BY <1>1, RecordedSaved DEF Recorded, Settling

LEMMA AfterBootBad ==
    ASSUME Orderly, NEW p \in Procs, proc[p].pc # "none",
           proc' = GotoAfterBoot(p) \/ proc' = Spawned(GotoAfterBoot(p))
    PROVE  /\ proc'[p] = AfterBoot(p)
           /\ BadOK(proc[p])' /\ (p \in Serves => Exact(proc[p])')
<1>1. proc[p].role # "none" /\ proc[p] \in ProcType /\ proc \in [Procs -> ProcType] BY DEF Orderly, Fits, Types
<1>2. GotoAfterBoot(p) \in [Procs -> ProcType] /\ GotoAfterBoot(p)[p] = AfterBoot(p)
  BY <1>1, AfterBootFits DEF GotoAfterBoot, Fits
<1>3. proc'[p] = AfterBoot(p) BY <1>1, <1>2, SpawnedAt
<1>4. AfterBoot(p).pc \in IF p = "cmd" THEN {"status", "on", "off", "plan", "rbstat"} ELSE {"bind"}
  BY AfterBootFits
<1>5. AfterBoot(p).pc = "rbstat" => AfterBoot(p).job = "manual"
  BY <1>1 DEF AfterBoot, ProcType, Roles
<1> QED BY <1>3, <1>4, <1>5, SelfUpdateAssumption DEF BadOK, Exact

LEMMA AfterJobBad ==
    ASSUME Orderly, NEW p \in Procs, proc[p].pc # "none", proc' = GotoAfterJob(p)
    PROVE  /\ proc'[p] = AfterJob(p)
           /\ BadOK(proc[p])' /\ (p \in Serves => Exact(proc[p])')
<1>1. proc[p].role # "none" /\ proc[p] \in ProcType /\ proc \in [Procs -> ProcType] BY DEF Orderly, Fits, Types
<1>2. proc'[p] = AfterJob(p) BY <1>1 DEF GotoAfterJob
<1>3. AfterJob(p).pc \in IF p = "cmd" THEN {"status", "on", "off", "plan", "rbstat"} ELSE {"bind", "serving"}
  BY AfterJobFits
<1>4. AfterJob(p).pc = "rbstat" => AfterJob(p).job = "manual"
  BY <1>1 DEF AfterJob, AfterBoot, ProcType, Roles
<1> QED BY <1>2, <1>3, <1>4, SelfUpdateAssumption DEF BadOK, Exact

LEMMA BootBad ==
    ASSUME Orderly, ~Overlap, OneDaemon, BadInv, NEW p \in Procs, Turn(p), BootHook(p)
    PROVE  BadInv'
<1>1. /\ proc[p].pc \in BootPlaces /\ Beside(p) /\ Orderly' /\ proc[p] \in ProcType /\ ~Rests(p)
      /\ proc \in [Procs -> ProcType] /\ proc[p].pc # "none" /\ BadOK(proc[p]) /\ Types /\ Types'
      /\ proc[p].st \in StateType /\ disk \in StateType
  BY BootOrderly DEF Orderly, Types, FileTypes, BootHook, Recover, Restore, Load, BootCheck, BootSave, BootConfirm, At,
                     BootPlaces, Rests, BadInv, ProcType
<1>2. CASE Recover(p)
  <2>1. proc'[p].pc \in {"load", "restore"} BY <1>1, <1>2 DEF Recover, Goto
  <2> QED BY <2>1, <1>1, <1>2, IdleBadOK, BadKept DEF Recover, hist
<1>3. CASE Restore(p)
  <2>1. UNCHANGED <<disk, marked, latest>> BY <1>3 DEF Restore, hist
  <2>2. CASE proc' = Goto(p, "restored")
    <3>1. proc'[p].pc = "restored" BY <2>2, <1>1 DEF Goto
    <3> QED BY <3>1, <2>1, <1>1, IdleBadOK, BadKept
  <2>3. CASE proc' = GotoAfterBoot(p) BY <2>1, <2>3, <1>1, AfterBootBad, BadKept
  <2> QED BY <2>2, <2>3, <1>3 DEF Restore
<1>4. CASE Load(p)
  <2>1. UNCHANGED <<disk, marked, latest>> BY <1>4 DEF Load, files, hist
  <2>2. CASE proc' = [proc EXCEPT ![p].pc = "bootsave", ![p].st = [disk EXCEPT !.pending = 0, !.bad = disk.pending]]
    <3>1. proc'[p].pc = "bootsave" /\ proc'[p].st = [disk EXCEPT !.pending = 0, !.bad = disk.pending]
      BY <2>2, <1>1 DEF ProcType
    <3>2. proc'[p].st.pending = 0 /\ proc'[p].st.bad = disk.pending BY <3>1, <1>1 DEF StateType
    <3>3. BadOK(proc[p])' /\ Exact(proc[p])' BY <3>1, <3>2, <2>1 DEF BadOK, Exact
    <3> QED BY <3>3, <2>1, <1>1, BadKept
  <2>3. CASE Unconfirmed /\ proc' = [proc EXCEPT ![p].pc = "bootcheck", ![p].st = disk]
    <3>1. proc'[p].pc = "bootcheck" /\ proc'[p].st = disk BY <2>3, <1>1 DEF ProcType
    <3>2. BadOK(proc[p])' /\ Exact(proc[p])' BY <3>1, <2>1, <2>3 DEF BadOK, Exact, Unconfirmed
    <3> QED BY <3>2, <2>1, <1>1, BadKept
  <2>4. CASE proc' = GotoAfterBoot(p) \/ proc' = Spawned(GotoAfterBoot(p))
    BY <2>1, <2>4, <1>1, AfterBootBad, BadKept
  <2> QED BY <2>2, <2>3, <2>4, <1>4 DEF Load
<1>5. CASE BootCheck(p)
  <2>1. UNCHANGED <<disk, marked, latest>> /\ proc[p].pc = "bootcheck" BY <1>5 DEF BootCheck, files, At
  <2>2. proc[p].st = disk /\ Unconfirmed BY <2>1, <1>1 DEF BadOK
  <2>3. CASE proc' = [proc EXCEPT ![p].pc = "bootconfirm", ![p].st.confirmed = TRUE]
    <3>1. proc'[p].pc = "bootconfirm" /\ proc'[p].st = [proc[p].st EXCEPT !.confirmed = TRUE]
      BY <2>3, <1>1 DEF ProcType
    <3>2. proc'[p].st.pending = disk.pending /\ proc'[p].st.bad = disk.bad BY <3>1, <2>2, <1>1 DEF StateType
    <3>3. BadOK(proc[p])' /\ Exact(proc[p])' BY <3>1, <3>2, <2>1 DEF BadOK, Exact
    <3> QED BY <3>3, <2>1, <1>1, BadKept
  <2>4. CASE proc' = [proc EXCEPT ![p].pc = "rbstat", ![p].st = Failed(proc[p].st),
                                  ![p].want = proc[p].st.pending, ![p].was = proc[p].st.was]
    <3>1. proc'[p].pc = "rbstat" /\ proc'[p].want = proc[p].st.pending BY <2>4, <1>1 DEF ProcType
    <3>2. BadOK(proc[p])' /\ Exact(proc[p])' BY <3>1, <2>1, <2>2 DEF BadOK, Exact, Concerns, Unconfirmed
    <3> QED BY <3>2, <2>1, <1>1, BadKept
  <2>5. CASE proc' = [proc EXCEPT ![p].pc = "bootsave", ![p].st = Failed(proc[p].st)]
    <3>1. proc'[p].pc = "bootsave" /\ proc'[p].st = Failed(proc[p].st) BY <2>5, <1>1 DEF ProcType
    <3>2. Failed(disk).pending = disk.pending /\ Failed(disk).bad = disk.bad /\ Failed(disk).confirmed = disk.confirmed
      BY <1>1 DEF Failed, StateType
    <3>3. BadOK(proc[p])' /\ Exact(proc[p])' BY <3>1, <3>2, <2>1, <2>2 DEF BadOK, Exact
    <3> QED BY <3>3, <2>1, <1>1, BadKept
  <2> QED BY <2>3, <2>4, <2>5, <1>5 DEF BootCheck
<1>6. CASE BootSave(p) \/ BootConfirm(p)
  <2>1. /\ UNCHANGED latest /\ Save(proc[p].st) /\ proc[p].pc \in {"bootsave", "bootconfirm"}
        /\ proc' = GotoAfterBoot(p) \/ proc' = Spawned(GotoAfterBoot(p))
    BY <1>6 DEF BootSave, BootConfirm, files, At
  <2>2. BadOK(proc[p])' /\ (p \in Serves => Exact(proc[p])') BY <2>1, <1>1, AfterBootBad
  <2>3. CASE disk' = disk /\ marked' = marked BY <2>1, <2>2, <2>3, <1>1, BadKept
  <2>4. CASE /\ marked' \subseteq marked \cup {disk'.bad} /\ disk'.pending = proc[p].st.pending
             /\ disk'.bad = IF proc[p].st.bad = 0 THEN disk.bad ELSE proc[p].st.bad
    <3>1. Settling BY <2>1, <2>4, <1>1 DEF BadOK, Settling
    <3>2. Recorded' BY <3>1, <2>1, <2>4, <1>1, RecordedSettling DEF BadInv
    <3> QED BY <3>1, <3>2, <2>1, <2>2, <1>1, BadSaved
  <2> QED BY <2>1, <2>3, <2>4, <1>1, SaveIs
<1> QED BY <1>2, <1>3, <1>4, <1>5, <1>6 DEF BootHook

LEMMA RollbackBad ==
    ASSUME Orderly, ~Overlap, OneDaemon, BadInv, NEW p \in Procs, Turn(p), Rollback(p)
    PROVE  BadInv'
<1>1. /\ proc[p].pc \in RbPlaces /\ Beside(p) /\ Orderly' /\ proc[p] \in ProcType /\ ~Rests(p) /\ Fits(p, proc[p])
      /\ proc \in [Procs -> ProcType] /\ proc[p].pc # "none" /\ BadOK(proc[p]) /\ Types /\ Types'
      /\ proc[p].st \in StateType /\ disk \in StateType /\ (p \in Serves => Exact(proc[p])) /\ proc[p].role # "none"
  BY RollbackOrderly DEF Orderly, Types, FileTypes, Fits, Rollback, RbStat, RbOut, RbIn, Mark, RbStop, RbStart, RbWait,
                         RbSave, At, RbPlaces, Rests, BadInv, ProcType
<1>2. ASSUME NEW l \in {"rbout", "rbin", "mark"}, proc[p].pc \in {"rbstat", "rbout", "rbin"},
             proc' = [proc EXCEPT ![p].pc = l], UNCHANGED <<disk, marked, latest>>
      PROVE  BadInv'
  <2>1. proc'[p].pc = l /\ proc'[p].job = proc[p].job /\ proc'[p].want = proc[p].want BY <1>1, <1>2 DEF ProcType
  <2>2. BadOK(proc[p])' /\ (p \in Serves => Exact(proc[p])')
    BY <2>1, <1>1, <1>2 DEF BadOK, Exact, Concerns
  <2> QED BY <2>2, <1>1, <1>2, BadKept
<1>3. ASSUME RollbackFailed(p), proc[p].pc \in {"rbstat", "rbout", "rbin"}, UNCHANGED <<disk, marked, latest>>
      PROVE  BadInv'
  <2>1. CASE proc' = GotoAfterJob(p) BY <2>1, <1>1, <1>3, AfterJobBad, BadKept
  <2>2. CASE proc' = [proc EXCEPT ![p].pc = "mark"] BY <2>2, <1>2, <1>3
  <2> QED BY <2>1, <2>2, <1>3 DEF RollbackFailed, Goto
<1>4. CASE RbStat(p) BY <1>2, <1>3, <1>4 DEF RbStat, Goto, At, hist
<1>5. CASE RbOut(p) BY <1>2, <1>3, <1>5 DEF RbOut, Goto, At, hist
<1>6. CASE RbIn(p) BY <1>2, <1>3, <1>6 DEF RbIn, Goto, At, hist
<1>7. CASE Mark(p)
  <2> DEFINE v == IF proc[p].job = "manual" THEN disk.pending ELSE proc[p].want
             st == IF v = 0 THEN disk ELSE [disk EXCEPT !.pending = 0, !.bad = v]
  <2>1. UNCHANGED <<disk, marked, latest>> /\ proc[p].pc = "mark" BY <1>7 DEF Mark, files, hist, At
  <2>2. PICK l \in {"rbstop", "rbsave"} : proc' = [proc EXCEPT ![p].pc = l, ![p].st = st] BY <1>7 DEF Mark
  <2>3. st.pending = 0 /\ st.bad = (IF v = 0 THEN disk.bad ELSE v)
    <3>1. v = 0 => disk.pending = 0 BY <2>1, <1>1 DEF BadOK
    <3> QED BY <3>1, <1>1 DEF StateType
  <2>4. Concerns(st.bad)
    <3>1. CASE v = 0
      <4>1. disk.pending = 0 BY <3>1, <2>1, <1>1 DEF BadOK
      <4> QED BY <4>1, <3>1, <2>3 DEF Concerns
    <3>2. CASE v # 0 /\ proc[p].job = "manual" BY <3>2, <2>3 DEF Concerns
    <3>3. CASE v # 0 /\ proc[p].job # "manual"
      <4>1. v = proc[p].want /\ Concerns(v) BY <3>3, <2>1, <1>1 DEF BadOK
      <4>2. st.bad = v BY <3>3, <2>3
      <4> QED BY <4>1, <4>2
    <3> QED BY <3>1, <3>2, <3>3
  <2>5. p \in Serves => st.bad = disk.pending /\ disk.pending # 0
    BY <2>1, <2>3, <1>1, SelfUpdateAssumption DEF Exact, Fits
  <2> HIDE DEF st, v
  <2>6. proc'[p].pc = l /\ proc'[p].st = st BY <2>2, <1>1 DEF ProcType
  <2>7. BadOK(proc[p])' BY <2>1, <2>3, <2>4, <2>6 DEF BadOK, Concerns
  <2>8. p \in Serves => Exact(proc[p])' BY <2>1, <2>5, <2>6 DEF Exact
  <2> QED BY <2>1, <2>7, <2>8, <1>1, BadKept
<1>8. ASSUME UNCHANGED <<disk, marked, latest>>, proc[p].pc \in {"rbstop", "rbstart", "rbwait"},
             proc'[p].pc \in {"rbstart", "rbwait", "rbsave"}, proc'[p].st = proc[p].st
      PROVE  BadInv'
  <2>1. BadOK(proc[p])' BY <1>1, <1>8 DEF BadOK, Concerns
  <2>2. p \in Serves => Exact(proc[p])' BY <1>1, <1>8 DEF Exact
  <2> QED BY <2>1, <2>2, <1>1, <1>8, BadKept
<1>9. CASE RbStop(p)
  <2>1. proc'[p].pc = "rbstart" /\ proc'[p].st = proc[p].st BY <1>9, StopOrderly DEF RbStop, At
  <2> QED BY <2>1, <1>8, <1>9 DEF RbStop, Stop, At, hist
<1>10. CASE RbStart(p)
  <2>1. Goto(p, "rbwait") \in [Procs -> ProcType] /\ Goto(p, "rbwait")[p].pc = "rbwait" /\ Goto(p, "rbwait")[p].st = proc[p].st
    BY <1>1 DEF Goto, ProcType, Places, RbPlaces
  <2>2. proc'[p].pc = "rbwait" /\ proc'[p].st = proc[p].st BY <2>1, <1>1, <1>10, SpawnedAt DEF RbStart
  <2> QED BY <2>2, <1>8, <1>10 DEF RbStart, At, hist
<1>11. CASE RbWait(p)
  <2>1. proc' = [proc EXCEPT ![p].pc = "rbsave"] BY <1>11 DEF RbWait, Goto
  <2>2. proc'[p].pc = "rbsave" /\ proc'[p].st = proc[p].st BY <2>1, <1>1 DEF ProcType
  <2> QED BY <2>2, <1>8, <1>11 DEF RbWait, At, hist
<1>12. CASE RbSave(p)
  <2>1. UNCHANGED latest /\ Save(proc[p].st) /\ proc[p].pc = "rbsave" /\ proc' = GotoAfterJob(p)
    BY <1>12 DEF RbSave, files, At
  <2>2. BadOK(proc[p])' /\ (p \in Serves => Exact(proc[p])') BY <2>1, <1>1, AfterJobBad
  <2>3. CASE disk' = disk /\ marked' = marked BY <2>1, <2>2, <2>3, <1>1, BadKept
  <2>4. CASE /\ marked' \subseteq marked \cup {disk'.bad} /\ disk'.pending = proc[p].st.pending
             /\ disk'.bad = IF proc[p].st.bad = 0 THEN disk.bad ELSE proc[p].st.bad
    <3>1. Settling BY <2>1, <2>4, <1>1 DEF BadOK, Settling, Concerns
    <3>2. Recorded' BY <3>1, <2>1, <2>4, <1>1, RecordedSettling DEF BadInv
    <3> QED BY <3>1, <3>2, <2>1, <2>2, <1>1, BadSaved
  <2> QED BY <2>1, <2>3, <2>4, <1>1, SaveIs
<1> QED BY <1>4, <1>5, <1>6, <1>7, <1>9, <1>10, <1>11, <1>12 DEF Rollback

LEMMA ApplyBad ==
    ASSUME Orderly, ~Overlap, OneDaemon, BadInv, NEW p \in Procs, Turn(p), ApplyPlan(p)
    PROVE  BadInv'
<1> DEFINE Own == {"stop", "start", "wait", "confirm"}
<1>1. /\ proc[p].pc \in UpPlaces \cup Own /\ Beside(p) /\ Orderly' /\ proc[p] \in ProcType /\ ~Rests(p)
      /\ proc \in [Procs -> ProcType] /\ proc[p].pc # "none" /\ BadOK(proc[p]) /\ Types /\ Types'
      /\ proc[p].st \in StateType /\ proc[p].want \in Nat /\ disk \in StateType /\ proc[p].role # "none"
      /\ latest \in Nat /\ disk.bad \in Nat /\ Recorded /\ Fits(p, proc[p])
  BY ApplyOrderly DEF Orderly, Types, FileTypes, Fits, ApplyPlan, Plan, Download, PlanSwap, SwapOp, Record, Inline,
                      StopOld, StartNew, WaitVersion, Confirm, At, UpPlaces, Rests, BadInv, ProcType, StateType
<1>2. /\ proc[p].pc \in Own => p = "cmd" /\ p \notin Serves
      /\ proc[p].pc \in UpPlaces => proc[p].job = "apply"
  BY <1>1, SelfUpdateAssumption DEF Fits, CmdOnly
<1>3. \A q \in Procs \ {p} : Rests(q)
  <2>1. CASE proc[p].pc \in UpPlaces
    <3>1. ~Parked(p) \/ p = "cmd" BY <2>1 DEF Parked, ServeParked, UpPlaces
    <3>2. p = "cmd" => \A q \in Procs \ {p} : Rests(q)
      BY SelfUpdateAssumption DEF Turn, Procs
    <3> QED BY <3>1, <3>2, <2>1, Alone
  <2>2. CASE proc[p].pc \in Own
    BY <2>2, <1>2, SelfUpdateAssumption DEF Turn, Procs
  <2> QED BY <2>1, <2>2, <1>1
<1>4. ASSUME proc' = GotoAfterJob(p), UNCHANGED <<disk, marked, latest>> PROVE BadInv'
  BY <1>1, <1>4, AfterJobBad, BadKept
\* The version wanted stays newer than what was recorded as bad.
<1>5. ASSUME proc'[p].pc \in {"download", "planswap", "swap", "record"}, UNCHANGED <<disk, marked, latest>>,
             disk.bad < proc'[p].want, proc'[p].want <= latest
      PROVE  BadInv'
  <2>1. BadOK(proc[p])' /\ Exact(proc[p])' BY <1>5 DEF BadOK, Exact
  <2> QED BY <2>1, <1>1, <1>5, BadKept
<1>6. CASE Plan(p)
  <2>1. UNCHANGED <<disk, marked, latest>> BY <1>6 DEF Plan, hist, files
  <2>2. CASE Offered(p) /\ proc' = [proc EXCEPT ![p].pc = "download", ![p].want = latest]
    <3>1. proc'[p].pc = "download" /\ proc'[p].want = latest BY <2>2, <1>1 DEF ProcType
    <3>2. disk.bad < latest BY <2>2, <1>1 DEF Offered, Recorded
    <3> QED BY <3>1, <3>2, <2>1, <1>1, <1>5
  <2>3. CASE proc' = GotoAfterJob(p) BY <2>1, <2>3, <1>4
  <2> QED BY <2>2, <2>3, <1>6 DEF Plan
<1>7. CASE Download(p)
  <2>1. UNCHANGED <<disk, marked, latest>> /\ proc[p].pc = "download" BY <1>7 DEF Download, hist, At
  <2>2. CASE proc' = Goto(p, "planswap")
    <3>1. proc'[p] = [proc[p] EXCEPT !.pc = "planswap"] BY <2>2, <1>1 DEF Goto
    <3>2. proc'[p].pc = "planswap" /\ proc'[p].want = proc[p].want BY <3>1, <1>1 DEF ProcType
    <3> QED BY <3>2, <2>1, <1>1, <1>5 DEF BadOK
  <2> QED BY <2>1, <2>2, <1>4, <1>7 DEF Download, EndApply
<1>8. CASE PlanSwap(p)
  <2>1. UNCHANGED <<disk, marked, latest>> /\ proc[p].pc = "planswap" BY <1>8 DEF PlanSwap, At
  <2>2. CASE proc' = [proc EXCEPT ![p].pc = "swap", ![p].was = Alive, ![p].ops = SwapOps]
    <3>1. proc'[p].pc = "swap" /\ proc'[p].want = proc[p].want BY <2>2, <1>1 DEF ProcType
    <3> QED BY <3>1, <2>1, <1>1, <1>5 DEF BadOK
  <2> QED BY <2>1, <2>2, <1>4, <1>8 DEF PlanSwap, EndApply
<1>9. CASE SwapOp(p)
  <2> DEFINE l == IF Tail(proc[p].ops) = <<>> THEN "record" ELSE "swap"
  <2>1. UNCHANGED <<disk, marked, latest>> /\ proc[p].pc = "swap" BY <1>9 DEF SwapOp, At, hist
  <2>2. CASE proc' = [proc EXCEPT ![p].ops = Tail(proc[p].ops), ![p].pc = l]
    <3>0. l \in {"record", "swap"} OBVIOUS
    <3> HIDE DEF l
    <3>1. proc'[p].pc = l /\ proc'[p].want = proc[p].want BY <2>2, <1>1 DEF ProcType
    <3> QED BY <3>0, <3>1, <2>1, <1>1, <1>5 DEF BadOK
  <2> QED BY <2>1, <2>2, <1>4, <1>9 DEF SwapOp, EndApply
<1>10. CASE Record(p)
  <2> DEFINE st == [NoState EXCEPT !.pending = proc[p].want, !.was = proc[p].was]
  <2>1. UNCHANGED latest /\ proc[p].pc = "record" /\ Save(st) BY <1>10 DEF Record, At
  <2>2. st \in StateType /\ st.pending = proc[p].want /\ st.bad = 0
    BY <1>1 DEF ProcType, StateType, NoState
  <2>3. disk.bad < proc[p].want /\ proc[p].want <= latest BY <2>1, <1>1 DEF BadOK
  <2>4. proc' = GotoAfterJob(p) \/ proc' = [proc EXCEPT ![p].pc = "inline", ![p].st = st]
    BY <1>10 DEF Record
  <2> HIDE DEF st
  <2>5. proc' = GotoAfterJob(p) => BadOK(proc[p])' /\ (p \in Serves => Exact(proc[p])')
    BY <1>1, AfterJobBad
  <2>6. CASE disk' = disk /\ marked' = marked
    <3>1. CASE faults' # faults BY <3>1, <2>1, <2>6, <1>4, <1>10 DEF Record
    <3>2. CASE faults' = faults
      <4>1. disk' = Merged(st) BY <3>2, <2>1 DEF Save, Fault
      <4>2. disk'.pending = proc[p].want /\ disk'.bad = disk.bad
        BY <4>1, <2>2, <2>6, <1>1 DEF Merged, StateType
      <4>3. proc' = [proc EXCEPT ![p].pc = "inline", ![p].st = st] BY <3>2, <1>10 DEF Record, st
      <4>4. proc'[p].pc = "inline" /\ proc'[p].st = st /\ proc'[p].want = proc[p].want BY <4>3, <1>1 DEF ProcType
      <4>5. BadOK(proc[p])' /\ Exact(proc[p])' BY <4>2, <4>4, <2>1, <2>2, <2>3, <1>1 DEF BadOK, Exact
      <4> QED BY <4>5, <2>1, <2>6, <1>1, BadKept
    <3> QED BY <3>1, <3>2
  <2>7. CASE /\ marked' \subseteq marked \cup {disk'.bad} /\ disk'.pending = st.pending
             /\ disk'.bad = IF st.bad = 0 THEN disk.bad ELSE st.bad
    <3>1. disk'.pending = proc[p].want /\ disk'.bad = disk.bad BY <2>2, <2>7
    <3>2. Recorded' BY <3>1, <2>1, <2>3, <2>7, <1>1, RecordedSaved DEF Recorded
    <3>3. BadOK(proc[p])' /\ (p \in Serves => Exact(proc[p])')
      <4>1. CASE proc' = [proc EXCEPT ![p].pc = "inline", ![p].st = st]
        <5>1. proc'[p].pc = "inline" /\ proc'[p].st = st /\ proc'[p].want = proc[p].want BY <4>1, <1>1 DEF ProcType
        <5> QED BY <5>1, <3>1, <2>1, <2>2, <2>3, <1>1 DEF BadOK, Exact
      <4> QED BY <4>1, <2>4, <2>5
    <3> QED BY <3>2, <3>3, <2>1, <1>1, <1>3, BadSaved
  <2> QED BY <2>1, <2>2, <2>6, <2>7, <1>1, SaveIs
<1>11. CASE Inline(p)
  <2>1. UNCHANGED <<disk, marked, latest>> /\ proc[p].pc = "inline" BY <1>11 DEF Inline, At, files
  <2>2. proc[p].want # 0 /\ disk.pending = proc[p].want /\ proc[p].st.bad = 0 /\ proc[p].st.pending = proc[p].want
    BY <2>1, <1>1 DEF BadOK
  <2>3. CASE proc[p].role = "serve" /\ proc' = [GotoAfterJob(p) EXCEPT ![p].leaving = TRUE]
    <3>1. GotoAfterJob(p)[p] = AfterJob(p) /\ AfterJob(p) \in ProcType /\ DOMAIN GotoAfterJob(p) = Procs
      BY <1>1, AfterJobFits DEF GotoAfterJob, Fits
    <3>2. proc'[p] = [AfterJob(p) EXCEPT !.leaving = TRUE] BY <3>1, <2>3
    <3>3. proc'[p].pc = AfterJob(p).pc BY <3>1, <3>2 DEF ProcType
    <3>4. p # "cmd" BY <2>3, <1>1 DEF Fits
    <3>5. AfterJob(p).pc \in {"bind", "serving"} BY <3>4, <1>1, AfterJobFits
    <3> QED BY <3>3, <3>5, <2>1, <1>1, IdleBadOK, BadKept
  <2>4. CASE \E l \in {"stop", "confirm", "rbstat"} :
                proc' = [proc EXCEPT ![p].pc = l] /\ (l # "rbstat" => proc[p].role # "serve")
    <3>1. PICK l \in {"stop", "confirm", "rbstat"} :
                  proc' = [proc EXCEPT ![p].pc = l] /\ (l # "rbstat" => proc[p].role # "serve")
      BY <2>4
    <3>2. proc'[p].pc = l /\ proc'[p].want = proc[p].want /\ proc'[p].st = proc[p].st BY <3>1, <1>1 DEF ProcType
    <3>3. BadOK(proc[p])' BY <3>2, <2>1, <2>2 DEF BadOK, Concerns
    <3>4. Exact(proc[p])' BY <3>2, <2>1, <2>2 DEF Exact
    <3> QED BY <3>3, <3>4, <2>1, <1>1, BadKept
  <2> QED BY <2>3, <2>4, <1>11 DEF Inline, Goto
<1>12. ASSUME UNCHANGED <<disk, marked, latest>>, proc[p].pc \in {"stop", "start", "wait"},
              proc'[p].pc \in {"start", "wait", "confirm", "rbstat"},
              proc'[p].want = proc[p].want, proc'[p].st = proc[p].st
       PROVE  BadInv'
  <2>1. BadOK(proc[p])' BY <1>1, <1>12 DEF BadOK, Concerns
  <2> QED BY <2>1, <1>1, <1>2, <1>12, BadKept
<1>13. CASE StopOld(p)
  <2>1. proc'[p].pc = "start" /\ proc'[p].st = proc[p].st /\ proc'[p].want = proc[p].want
    BY <1>13, StopOrderly DEF StopOld, At
  <2> QED BY <2>1, <1>12, <1>13 DEF StopOld, Stop, At, hist
<1>14. CASE StartNew(p)
  <2>1. /\ Goto(p, "wait") \in [Procs -> ProcType] /\ Goto(p, "wait")[p].pc = "wait"
        /\ Goto(p, "wait")[p].st = proc[p].st /\ Goto(p, "wait")[p].want = proc[p].want
    BY <1>1 DEF Goto, ProcType, Places, CmdOnly
  <2>2. proc'[p] = Goto(p, "wait")[p] BY <2>1, <1>1, <1>14, SpawnedAt DEF StartNew
  <2> QED BY <2>1, <2>2, <1>12, <1>14 DEF StartNew, At, hist
<1>15. CASE WaitVersion(p)
  <2>1. PICK l \in {"confirm", "rbstat"} : proc' = [proc EXCEPT ![p].pc = l] BY <1>15 DEF WaitVersion, Goto
  <2>2. proc'[p].pc = l /\ proc'[p].want = proc[p].want /\ proc'[p].st = proc[p].st BY <2>1, <1>1 DEF ProcType
  <2> QED BY <2>2, <1>12, <1>15 DEF WaitVersion, At, hist
<1>16. CASE Confirm(p)
  <2> DEFINE st == [proc[p].st EXCEPT !.confirmed = TRUE]
  <2>1. UNCHANGED latest /\ proc[p].pc = "confirm" /\ proc' = GotoAfterJob(p) /\ Save(st)
    BY <1>16 DEF Confirm, At, files
  <2>2. st \in StateType /\ st.pending = proc[p].st.pending /\ st.bad = proc[p].st.bad BY <1>1 DEF StateType
  <2> HIDE DEF st
  <2>3. BadOK(proc[p])' /\ (p \in Serves => Exact(proc[p])') BY <2>1, <1>1, AfterJobBad
  <2>4. CASE disk' = disk /\ marked' = marked BY <2>1, <2>3, <2>4, <1>1, BadKept
  <2>5. CASE /\ marked' \subseteq marked \cup {disk'.bad} /\ disk'.pending = st.pending
             /\ disk'.bad = IF st.bad = 0 THEN disk.bad ELSE st.bad
    <3>1. disk'.pending = proc[p].want /\ disk'.bad = disk.bad /\ Concerns(proc[p].want) /\ proc[p].want # 0
      BY <2>1, <2>2, <2>5, <1>1 DEF BadOK
    <3>2. Recorded' BY <3>1, <2>1, <2>5, <1>1, RecordedSaved DEF Recorded, Concerns
    <3> QED BY <3>2, <2>1, <2>3, <1>1, <1>3, BadSaved
  <2> QED BY <2>1, <2>2, <2>4, <2>5, <1>1, SaveIs
<1> QED BY <1>6, <1>7, <1>8, <1>9, <1>10, <1>11, <1>13, <1>14, <1>15, <1>16 DEF ApplyPlan

LEMMA BadStep == ASSUME Orderly, ~Overlap, OneDaemon, BadInv, [Next]_vars PROVE BadInv'
<1>1. Serves \subseteq Procs /\ "cmd" \in Procs /\ None \notin Procs BY SelfUpdateAssumption DEF Procs
<1>2. ASSUME NEW p \in Procs, UNCHANGED <<disk, marked, latest>>, Beside(p),
             proc'[p].pc \in {"none", "recover", "serving", "plan", "status"}
      PROVE  BadInv'
  BY <1>2, IdleBadOK, BadKept
<1>3. ASSUME NEW p \in Procs, Turn(p), Exit(p) PROVE BadInv'
  <2>1. proc'[p].pc = "none" /\ Beside(p) BY <1>3, EndsOrderly DEF Gone
  <2> QED BY <2>1, <1>2, <1>3 DEF Exit
<1>4. ASSUME NEW p \in Procs, ProcessStep(p) PROVE BadInv'
  BY <1>3, <1>4, BootBad, RollbackBad, ApplyBad DEF ProcessStep
<1>5. ASSUME NEW s \in Serves, Bind(s) \/ Apply(s) PROVE BadInv'
  BY <1>1, <1>2, <1>5, BindOrderly, ApplyBegins DEF Bind, Apply, hist
<1>6. ASSUME NEW r \in Roles, Command(r) PROVE BadInv'
  <2>1. proc'["cmd"].pc = "recover" /\ Beside("cmd") BY <1>6, CommandBegins
  <2> QED BY <2>1, <1>1, <1>2, <1>6 DEF Command
<1>7. CASE On BY <1>1, <1>2, <1>7, OnOrderly DEF On, hist
<1>8. CASE Off BY <1>1, <1>2, <1>8, OffOrderly DEF Off
<1>9. CASE Restart
  <2>1. proc["cmd"].pc = "none" BY <1>1, <1>9 DEF Restart, Orderly, Fits
  <2> QED BY <2>1, <1>1, <1>2, <1>9, RestartOrderly DEF Restart
<1>10. CASE Supervisor
  <2>1. UNCHANGED <<disk, marked, latest>> BY <1>10 DEF Supervisor, Probe, Decide, ShellSpawn, ShellWait, hist
  <2>2. Beside(None) BY <1>10, SupervisorOrderly DEF Beside, Kept
  <2> QED BY <2>1, <2>2, <1>1, BadKept
<1>11. CASE Crash
  <2>1. \A q \in Procs : proc'[q].pc = "none" BY <1>11, CrashOrderly DEF Gone
  <2>2. UNCHANGED <<disk, marked, latest>> BY <1>11 DEF Crash
  <2> QED BY <2>1, <2>2, <1>1, IdleBadOK DEF BadInv, Recorded
<1>12. CASE Release
  <2>1. latest \in Nat /\ disk \in StateType /\ \A q \in Procs : proc[q].want \in Nat
    BY DEF Orderly, Types, FileTypes, ProcType
  <2>2. UNCHANGED <<disk, marked, proc>> /\ latest' = latest + 1 BY <1>12 DEF Release, hist
  <2>3. Recorded' BY <2>1, <2>2 DEF BadInv, Recorded, StateType
  <2>4. \A q \in Procs : BadOK(proc[q])'
    BY <2>1, <2>2 DEF BadInv, BadOK, Concerns, Unconfirmed
  <2>5. \A s \in Serves : Exact(proc[s])' BY <2>2 DEF BadInv, Exact
  <2> QED BY <2>3, <2>4, <2>5 DEF BadInv
<1>13. CASE UNCHANGED vars
  <2>1. UNCHANGED <<disk, marked, proc, latest>> BY <1>13 DEF vars, hist
  <2> QED BY <2>1 DEF BadInv, BadOK, Exact, Concerns, Unconfirmed, Recorded
<1> QED BY <1>4, <1>5, <1>6, <1>7, <1>8, <1>9, <1>10, <1>11, <1>12, <1>13 DEF Next

\* Once update.json was saved with a release as bad, no update downloads it again, whoever crashes
\* and however many newer releases come and go (selfupdate/update.go skips only the last bad one,
\* and bad, pending and what is offered only grow).
THEOREM BadRemembered == ASSUME ~Overlap, OneDaemon PROVE Spec => BadStaysOut
<1>1. Init => Orderly /\ BadInv
  <2> SUFFICES ASSUME Init PROVE BadInv BY InitOrderly
  <2>1. \A p \in Procs : proc[p].pc = "none" BY DEF Init, Gone
  <2>2. Serves \subseteq Procs BY DEF Procs
  <2> QED BY <2>1, <2>2, IdleBadOK DEF Init, BadInv, Recorded, NoState
<1>2. Orderly /\ BadInv /\ [Next]_vars => (Orderly /\ BadInv)' BY OrderlyStep, BadStep
<1>3. Orderly /\ BadInv => [\A p \in Procs : Record(p) => proc[p].want \notin marked]_vars
  <2> SUFFICES ASSUME Orderly, BadInv, NEW p \in Procs, Record(p) PROVE proc[p].want \notin marked
    OBVIOUS
  <2>1. disk.bad < proc[p].want BY DEF BadInv, BadOK, Record, At
  <2>2. disk.bad \in Nat /\ proc[p].want \in Nat BY DEF Orderly, Types, FileTypes, StateType, ProcType
  <2>3. proc[p].want \in marked => proc[p].want <= disk.bad BY DEF BadInv, Recorded
  <2> QED BY <2>1, <2>2, <2>3
<1> QED BY <1>1, <1>2, <1>3, PTL DEF Spec, BadStaysOut

----------------------------------------------------------------------------
(* serve.json names the daemon.                                            *)

\* What a step never changes of a process that goes on.
Itself(p) == /\ proc'[p].ver = proc[p].ver /\ proc'[p].role = proc[p].role
             /\ proc'[p].leaving = proc[p].leaving /\ proc'[p].up = proc[p].up

LEMMA AfterBootShape ==
    ASSUME Orderly, NEW p \in Procs, proc[p].pc # "none", proc'[p] = AfterBoot(p)
    PROVE  /\ Itself(p) /\ proc'[p].want = proc[p].want /\ proc'[p].was = proc[p].was
           /\ p # "cmd" => proc'[p].pc = "bind" /\ proc'[p].job = "none"
           /\ p = "cmd" => \/ proc'[p].pc \in {"status", "on", "off"}
                           \/ proc'[p].pc = "plan" /\ proc'[p].job = "apply"
                           \/ proc'[p].pc = "rbstat" /\ proc'[p].job = "manual"
<1>1. proc[p].role # "none" /\ proc[p] \in ProcType /\ Fits(p, proc[p]) BY DEF Orderly, Fits
<1>2. CASE p # "cmd"
  <2>1. proc[p].role = "serve" BY <1>1, <1>2 DEF Fits
  <2>2. proc'[p] = [proc[p] EXCEPT !.pc = "bind", !.job = "none"] BY <2>1 DEF AfterBoot
  <2> QED BY <2>2, <1>1, <1>2 DEF ProcType, Itself
<1>3. CASE p = "cmd"
  <2>1. proc[p].role \in Roles BY <1>1, <1>3 DEF Fits, ProcType
  <2>2. CASE proc[p].role = "update"
    <3>1. proc'[p] = [proc[p] EXCEPT !.pc = "plan", !.job = "apply"] BY <2>2 DEF AfterBoot
    <3> QED BY <3>1, <1>1, <1>3 DEF ProcType, Itself
  <2>3. CASE proc[p].role = "rollback"
    <3>1. proc'[p] = [proc[p] EXCEPT !.pc = "rbstat", !.job = "manual"] BY <2>3 DEF AfterBoot
    <3> QED BY <3>1, <1>1, <1>3 DEF ProcType, Itself
  <2>4. CASE proc[p].role \in {"status", "on", "off"}
    <3>1. proc'[p] = [proc[p] EXCEPT !.pc = proc[p].role] BY <2>4 DEF AfterBoot
    <3> QED BY <3>1, <2>4, <1>1, <1>3 DEF ProcType, Itself
  <2> QED BY <2>1, <2>2, <2>3, <2>4 DEF Roles
<1> QED BY <1>2, <1>3

LEMMA AfterJobShape ==
    ASSUME Orderly, NEW p \in Procs, proc[p].pc # "none", proc'[p] = AfterJob(p)
    PROVE  /\ Itself(p) /\ proc'[p].want = proc[p].want /\ proc'[p].was = proc[p].was
           /\ p # "cmd" => /\ proc'[p].job = "none"
                           /\ proc'[p].pc = IF proc[p].job = "boot" THEN "bind" ELSE "serving"
           /\ p = "cmd" => \/ proc'[p].pc \in {"status", "on", "off"}
                           \/ proc[p].job = "boot" /\ proc'[p].pc = "plan" /\ proc'[p].job = "apply"
                           \/ proc[p].job = "boot" /\ proc'[p].pc = "rbstat" /\ proc'[p].job = "manual"
<1>1. proc[p].role # "none" /\ proc[p] \in ProcType /\ Fits(p, proc[p]) BY DEF Orderly, Fits
<1>2. CASE proc[p].job = "boot"
  <2>1. proc'[p] = AfterBoot(p) BY <1>2 DEF AfterJob
  <2> QED BY <2>1, <1>2, AfterBootShape
<1>3. CASE proc[p].job # "boot" /\ p # "cmd"
  <2>1. proc[p].role = "serve" BY <1>1, <1>3 DEF Fits
  <2>2. proc'[p] = [proc[p] EXCEPT !.pc = "serving", !.job = "none"] BY <2>1, <1>3 DEF AfterJob
  <2> QED BY <2>2, <1>1, <1>3 DEF ProcType, Itself
<1>4. CASE proc[p].job # "boot" /\ p = "cmd"
  <2>1. proc[p].role # "serve" BY <1>1, <1>4 DEF Fits
  <2>2. proc'[p] = [proc[p] EXCEPT !.pc = "status"] BY <2>1, <1>4 DEF AfterJob
  <2> QED BY <2>2, <1>1, <1>4 DEF ProcType, Itself
<1> QED BY <1>2, <1>3, <1>4

LEMMA EditShape ==
    ASSUME NEW p \in Procs, proc \in [Procs -> ProcType], NEW l, NEW st, NEW w, NEW was,
           proc'[p] = Edited(proc[p], l, st, w, was)
    PROVE  /\ Itself(p) /\ proc'[p].job = proc[p].job /\ proc'[p].pc = l /\ proc'[p].st = st
           /\ proc'[p].want = w /\ proc'[p].was = was
<1>1. proc[p] \in ProcType OBVIOUS
<1> QED BY <1>1 DEF Edited, ProcType, Itself

LEMMA GotoShape ==
    ASSUME NEW p \in Procs, proc \in [Procs -> ProcType], NEW l,
           proc' = Goto(p, l)
    PROVE  /\ Itself(p) /\ proc'[p].job = proc[p].job /\ proc'[p].pc = l /\ proc'[p].st = proc[p].st
           /\ proc'[p].want = proc[p].want /\ proc'[p].was = proc[p].was
<1>1. proc'[p] = [proc[p] EXCEPT !.pc = l] /\ proc[p] \in ProcType BY DEF Goto
<1> QED BY <1>1 DEF ProcType, Itself

LEMMA PlaceShape ==
    ASSUME NEW p \in Procs, proc \in [Procs -> ProcType], NEW l, NEW st,
           proc' = [proc EXCEPT ![p].pc = l, ![p].st = st]
    PROVE  /\ Itself(p) /\ proc'[p].job = proc[p].job /\ proc'[p].pc = l /\ proc'[p].st = st
           /\ proc'[p].want = proc[p].want /\ proc'[p].was = proc[p].was
<1>1. proc' = [proc EXCEPT ![p] = Edited(proc[p], l, st, proc[p].want, proc[p].was)] BY EditedSt
<1>2. proc'[p] = Edited(proc[p], l, st, proc[p].want, proc[p].was) BY <1>1
<1> QED BY <1>2, EditShape

\* What a process becomes in the boot hook ...
LEMMA BootShape ==
    ASSUME Orderly, NEW p \in Procs, BootHook(p)
    PROVE  /\ sj' = sj /\ Itself(p) /\ proc[p].job = "boot" /\ ~Rests(p)
           /\ \/ proc'[p].job = "boot" /\ proc'[p].pc \in BootPlaces \cup {"rbstat"}
              \/ proc'[p] = AfterBoot(p)
<1>1. /\ proc[p].pc \in BootPlaces /\ proc \in [Procs -> ProcType] /\ proc[p] \in ProcType /\ proc[p].pc # "none"
      /\ Fits(p, proc[p]) /\ proc[p].role # "none" /\ ~Rests(p) /\ proc[p].job = "boot"
  BY DEF Orderly, Types, Fits, BootHook, Recover, Restore, Load, BootCheck, BootSave, BootConfirm, At, BootPlaces, Rests
<1>2. sj' = sj BY DEF BootHook, Recover, Restore, Load, BootCheck, BootSave, BootConfirm
<1>3. ASSUME proc' = GotoAfterBoot(p) \/ proc' = Spawned(GotoAfterBoot(p))
      PROVE  Itself(p) /\ proc'[p] = AfterBoot(p)
  <2>1. proc'[p] = AfterBoot(p) BY <1>1, <1>3, AfterBootBad
  <2> QED BY <2>1, <1>1, AfterBootShape
<1>4. ASSUME NEW l \in BootPlaces \cup {"rbstat"}, NEW st, NEW w, NEW was,
             proc'[p] = Edited(proc[p], l, st, w, was)
      PROVE  Itself(p) /\ proc'[p].job = "boot" /\ proc'[p].pc \in BootPlaces \cup {"rbstat"}
  BY <1>1, <1>4, EditShape
<1>5. CASE Recover(p)
  <2>1. PICK l \in {"restore", "load"} : proc' = Goto(p, l) BY <1>5 DEF Recover
  <2> QED BY <2>1, <1>1, <1>2, GotoShape DEF BootPlaces
<1>6. CASE Restore(p)
  <2>1. CASE proc' = Goto(p, "restored") BY <2>1, <1>1, <1>2, GotoShape DEF BootPlaces
  <2> QED BY <2>1, <1>1, <1>2, <1>3, <1>6 DEF Restore
<1>7. CASE Load(p)
  <2>1. ASSUME NEW l \in {"bootsave", "bootcheck"}, NEW st, proc' = [proc EXCEPT ![p].pc = l, ![p].st = st]
        PROVE  Itself(p) /\ proc'[p].job = "boot" /\ proc'[p].pc \in BootPlaces
    BY <2>1, <1>1, PlaceShape DEF BootPlaces
  <2> QED BY <2>1, <1>1, <1>2, <1>3, <1>7 DEF Load
<1>8. CASE BootCheck(p)
  <2>1. CASE proc' = [proc EXCEPT ![p].pc = "bootconfirm", ![p].st.confirmed = TRUE]
    <3>1. proc' = [proc EXCEPT ![p].pc = "bootconfirm", ![p].st = [proc[p].st EXCEPT !.confirmed = TRUE]]
      BY <2>1, <1>1
    <3> QED BY <3>1, <1>1, <1>2, PlaceShape DEF BootPlaces
  <2>2. CASE proc' = [proc EXCEPT ![p].pc = "rbstat", ![p].st = Failed(proc[p].st),
                                  ![p].want = proc[p].st.pending, ![p].was = proc[p].st.was]
    <3>1. proc'[p] = Edited(proc[p], "rbstat", Failed(proc[p].st), proc[p].st.pending, proc[p].st.was)
      BY <2>2, <1>1 DEF Edited, ProcType
    <3> QED BY <3>1, <1>1, <1>2, EditShape
  <2>3. CASE proc' = [proc EXCEPT ![p].pc = "bootsave", ![p].st = Failed(proc[p].st)]
    BY <2>3, <1>1, <1>2, PlaceShape DEF BootPlaces
  <2> QED BY <2>1, <2>2, <2>3, <1>8 DEF BootCheck
<1>9. CASE BootSave(p) BY <1>1, <1>2, <1>3, <1>9 DEF BootSave
<1>10. CASE BootConfirm(p) BY <1>1, <1>2, <1>3, <1>10 DEF BootConfirm
<1> QED BY <1>5, <1>6, <1>7, <1>8, <1>9, <1>10 DEF BootHook

\* ... and in a rollback, unless it stops the daemon.
LEMMA RollbackShape ==
    ASSUME Orderly, NEW p \in Procs, Rollback(p), proc[p].pc # "rbstop"
    PROVE  /\ sj' = sj /\ Itself(p) /\ proc'[p].want = proc[p].want /\ proc[p].pc \in RbPlaces
           /\ \/ proc'[p].job = proc[p].job /\ proc'[p].pc \in RbPlaces
              \/ proc'[p] = AfterJob(p)
<1>1. /\ proc[p].pc \in RbPlaces /\ proc \in [Procs -> ProcType] /\ proc[p] \in ProcType /\ proc[p].pc # "none"
      /\ Fits(p, proc[p]) /\ proc[p].role # "none" /\ ~RbStop(p)
  BY DEF Orderly, Types, Fits, Rollback, RbStat, RbOut, RbIn, Mark, RbStop, RbStart, RbWait, RbSave, At, RbPlaces
<1>2. sj' = sj BY <1>1 DEF Rollback, RbStat, RbOut, RbIn, Mark, RbStart, RbWait, RbSave
<1>3. ASSUME proc' = GotoAfterJob(p) PROVE Itself(p) /\ proc'[p].want = proc[p].want /\ proc'[p] = AfterJob(p)
  <2>1. proc'[p] = AfterJob(p) BY <1>1, <1>3, AfterJobBad
  <2> QED BY <2>1, <1>1, AfterJobShape
<1>4. ASSUME NEW l \in RbPlaces, proc' = Goto(p, l)
      PROVE  Itself(p) /\ proc'[p].job = proc[p].job /\ proc'[p].pc \in RbPlaces /\ proc'[p].want = proc[p].want
  BY <1>1, <1>4, GotoShape
<1>5. CASE RbStat(p) BY <1>1, <1>2, <1>3, <1>4, <1>5 DEF RbStat, RollbackFailed, RbPlaces
<1>6. CASE RbOut(p) BY <1>1, <1>2, <1>3, <1>4, <1>6 DEF RbOut, RollbackFailed, RbPlaces
<1>7. CASE RbIn(p) BY <1>1, <1>2, <1>3, <1>4, <1>7 DEF RbIn, RollbackFailed, RbPlaces
<1>8. CASE Mark(p)
  <2>1. PICK st : \E l \in {"rbstop", "rbsave"} : proc' = [proc EXCEPT ![p].pc = l, ![p].st = st] BY <1>8 DEF Mark
  <2>2. PICK l \in {"rbstop", "rbsave"} : proc' = [proc EXCEPT ![p].pc = l, ![p].st = st] BY <2>1
  <2> QED BY <2>2, <1>1, <1>2, PlaceShape DEF RbPlaces
<1>9. CASE RbStart(p)
  <2>1. Goto(p, "rbwait") \in [Procs -> ProcType]
    BY <1>1 DEF Goto, ProcType, Places, RbPlaces
  <2>2. proc'[p] = Goto(p, "rbwait")[p] BY <2>1, <1>1, <1>9, SpawnedAt DEF RbStart
  <2>3. proc'[p] = Edited(proc[p], "rbwait", proc[p].st, proc[p].want, proc[p].was)
    BY <2>2, <1>1 DEF Goto, Edited, ProcType
  <2> QED BY <2>3, <1>1, <1>2, EditShape DEF RbPlaces
<1>10. CASE RbWait(p) BY <1>1, <1>2, <1>4, <1>10 DEF RbWait, RbPlaces
<1>11. CASE RbSave(p) BY <1>1, <1>2, <1>3, <1>11 DEF RbSave
<1> QED BY <1>1, <1>5, <1>6, <1>7, <1>8, <1>9, <1>10, <1>11 DEF Rollback

\* An update, unless it stops the daemon.
LEMMA ApplyShape ==
    ASSUME Orderly, NEW p \in Procs, ApplyPlan(p), proc[p].pc # "stop"
    PROVE  /\ sj' = sj
           /\ Itself(p) \/ (p # "cmd" /\ proc'[p].leaving /\ proc'[p].pc = "serving")
           /\ proc'[p].pc = "swap" => \/ proc[p].pc = "planswap" /\ proc'[p].was = Alive
                                      \/ proc[p].pc = "swap" /\ proc'[p].was = proc[p].was
           /\ \/ proc[p].pc = "planswap" /\ staged = proc[p].want /\ proc'[p].pc = "swap"
              \/ proc'[p].was = proc[p].was
<1>1. /\ proc \in [Procs -> ProcType] /\ proc[p] \in ProcType /\ proc[p].pc # "none"
      /\ Fits(p, proc[p]) /\ proc[p].role # "none" /\ ~StopOld(p)
  BY DEF Orderly, Types, Fits, ApplyPlan, Plan, Download, PlanSwap, SwapOp, Record, Inline, StopOld, StartNew,
         WaitVersion, Confirm, At
<1>2. sj' = sj
  BY <1>1 DEF ApplyPlan, Plan, Download, PlanSwap, SwapOp, Record, Inline, StartNew, WaitVersion, Confirm
<1>3. ASSUME proc' = GotoAfterJob(p)
      PROVE  Itself(p) /\ proc'[p].was = proc[p].was /\ proc'[p].pc # "swap"
  <2>1. proc'[p] = AfterJob(p) BY <1>1, <1>3, AfterJobBad
  <2>2. proc'[p].pc # "swap" BY <2>1, <1>1, AfterJobFits
  <2> QED BY <2>1, <2>2, <1>1, AfterJobShape
<1>4. CASE Plan(p)
  <2>1. CASE proc' = [proc EXCEPT ![p].pc = "download", ![p].want = latest]
    <3>1. proc' = [proc EXCEPT ![p] = Edited(proc[p], "download", proc[p].st, latest, proc[p].was)]
      BY <2>1, <1>1, EditedWant
    <3>2. proc'[p] = Edited(proc[p], "download", proc[p].st, latest, proc[p].was) BY <3>1, <1>1
    <3> QED BY <3>2, <1>1, <1>2, EditShape
  <2> QED BY <2>1, <1>2, <1>3, <1>4 DEF Plan
<1>5. CASE Download(p)
  <2>1. CASE proc' = Goto(p, "planswap") BY <2>1, <1>1, <1>2, GotoShape
  <2> QED BY <2>1, <1>2, <1>3, <1>5 DEF Download, EndApply
<1>6. CASE PlanSwap(p)
  <2>1. CASE staged = proc[p].want
    <3>1. proc'[p] = [proc[p] EXCEPT !.pc = "swap", !.was = Alive, !.ops = SwapOps]
      BY <2>1, <1>1, <1>6 DEF PlanSwap
    <3>2. Itself(p) /\ proc'[p].pc = "swap" /\ proc'[p].was = Alive BY <3>1, <1>1 DEF ProcType, Itself
    <3> QED BY <3>2, <2>1, <1>2, <1>6 DEF PlanSwap, At
  <2> QED BY <2>1, <1>2, <1>3, <1>6 DEF PlanSwap, EndApply
<1>7. CASE SwapOp(p)
  <2> DEFINE l == IF Tail(proc[p].ops) = <<>> THEN "record" ELSE "swap"
  <2>1. CASE proc' = [proc EXCEPT ![p].ops = Tail(proc[p].ops), ![p].pc = l]
    <3> HIDE DEF l
    <3>1. proc'[p] = [proc[p] EXCEPT !.ops = Tail(proc[p].ops), !.pc = l] BY <2>1, <1>1
    <3>2. Itself(p) /\ proc'[p].was = proc[p].was BY <3>1, <1>1 DEF ProcType, Itself
    <3> QED BY <3>2, <1>2, <1>7 DEF SwapOp, At
  <2> QED BY <2>1, <1>2, <1>3, <1>7 DEF SwapOp, EndApply
<1>8. CASE Record(p)
  <2>1. ASSUME NEW st, proc' = [proc EXCEPT ![p].pc = "inline", ![p].st = st]
        PROVE  Itself(p) /\ proc'[p].was = proc[p].was /\ proc'[p].pc # "swap"
    <3>1. Itself(p) /\ proc'[p].was = proc[p].was /\ proc'[p].pc = "inline" BY <2>1, <1>1, PlaceShape
    <3> QED BY <3>1
  <2> QED BY <2>1, <1>2, <1>3, <1>8 DEF Record
<1>9. CASE Inline(p)
  <2>1. CASE proc[p].role = "serve" /\ proc' = [GotoAfterJob(p) EXCEPT ![p].leaving = TRUE]
    <3>1. GotoAfterJob(p)[p] = AfterJob(p) /\ AfterJob(p) \in ProcType /\ DOMAIN GotoAfterJob(p) = Procs
      BY <1>1, AfterJobFits DEF GotoAfterJob, Fits
    <3>2. proc'[p] = [AfterJob(p) EXCEPT !.leaving = TRUE] BY <3>1, <2>1
    <3>3. p # "cmd" BY <2>1, <1>1 DEF Fits
    <3>4. AfterJob(p) = [proc[p] EXCEPT !.pc = "serving", !.job = "none"]
      <4>1. proc[p].job = "apply" BY <1>1, <1>9 DEF Inline, At, Fits, UpPlaces
      <4> QED BY <4>1, <2>1 DEF AfterJob
    <3>5. proc'[p] = [proc[p] EXCEPT !.pc = "serving", !.job = "none", !.leaving = TRUE] BY <3>2, <3>4
    <3>6. proc'[p].leaving /\ proc'[p].pc = "serving" /\ proc'[p].was = proc[p].was BY <3>5, <1>1 DEF ProcType
    <3> QED BY <3>3, <3>6, <1>2
  <2>2. CASE \E l \in {"stop", "confirm", "rbstat"} : proc' = Goto(p, l) BY <2>2, <1>1, <1>2, GotoShape
  <2> QED BY <2>1, <2>2, <1>9 DEF Inline
<1>10. CASE StartNew(p)
  <2>1. Goto(p, "wait") \in [Procs -> ProcType]
    BY <1>1 DEF Goto, ProcType, Places, CmdOnly
  <2>2. proc'[p] = Goto(p, "wait")[p] BY <2>1, <1>1, <1>10, SpawnedAt DEF StartNew
  <2>3. proc'[p] = Edited(proc[p], "wait", proc[p].st, proc[p].want, proc[p].was)
    BY <2>2, <1>1 DEF Goto, Edited, ProcType
  <2> QED BY <2>3, <1>1, <1>2, EditShape
<1>11. CASE WaitVersion(p)
  <2>1. PICK l \in {"confirm", "rbstat"} : proc' = Goto(p, l) BY <1>11 DEF WaitVersion
  <2> QED BY <2>1, <1>1, <1>2, GotoShape
<1>12. CASE Confirm(p) BY <1>2, <1>3, <1>12 DEF Confirm
<1> QED BY <1>1, <1>4, <1>5, <1>6, <1>7, <1>8, <1>9, <1>10, <1>11, <1>12 DEF ApplyPlan

\* A daemon that serves or updates is the one that serve.json names.
Named(s) ==
    ~proc[s].leaving /\ (proc[s].pc = "serving" \/ (proc[s].job # "boot" /\ proc[s].pc \in UpPlaces \cup RbPlaces))
        => sj = s /\ proc[s].up

\* A command that swaps knows of the daemon.
SwapWas == At("cmd", "swap") => \A s \in Serves : At(s, "serving") /\ ~proc[s].leaving => proc["cmd"].was

NamedInv == (\A s \in Serves : Named(s)) /\ SwapWas

LEMMA NamedKept ==
    ASSUME NamedInv, sj' = sj, NEW p, Beside(p), p \in Serves => Named(p)', SwapWas'
    PROVE  NamedInv'
<1>1. ASSUME NEW s \in Serves, s # p PROVE Named(s)'
  <2>1. Named(s) BY DEF NamedInv
  <2>2. s \in Procs \ {p} BY <1>1 DEF Procs
  <2>3. CASE proc'[s] = proc[s] BY <2>1, <2>3 DEF Named
  <2>4. CASE proc'[s].pc \in {"none", "recover"} BY <2>4 DEF Named, UpPlaces, RbPlaces
  <2> QED BY <2>2, <2>3, <2>4, BesideIs
<1> QED BY <1>1 DEF NamedInv

LEMMA SwapWasKept ==
    ASSUME Orderly, NEW p \in Serves, ~Rests(p), Beside(p)
    PROVE  SwapWas'
<1>1. "cmd" \in Procs \ {p} /\ "cmd" \notin Serves BY SelfUpdateAssumption DEF Procs
<1>2. Parked("cmd") BY DEF Orderly, OneWorks
<1>3. proc["cmd"].pc # "swap" BY <1>2 DEF Parked, CmdParked
<1>4. proc'["cmd"] = proc["cmd"] \/ proc'["cmd"].pc \in {"none", "recover"} BY <1>1, BesideIs
<1> QED BY <1>3, <1>4 DEF SwapWas, At

\* Stopping the daemon that serve.json names leaves no other one that serves.
LEMMA StoppedNamed ==
    ASSUME NamedInv, sj' = None, \A s \in Serves : Rests(s),
           \A s \in Serves : proc'[s] = IF s = sj THEN Gone ELSE proc[s]
    PROVE  \A s \in Serves : Named(s)' /\ (proc'[s].pc = "none" \/ proc'[s].leaving)
<1> SUFFICES ASSUME NEW s \in Serves PROVE Named(s)' /\ (proc'[s].pc = "none" \/ proc'[s].leaving)
  OBVIOUS
<1>1. Named(s) /\ proc[s].pc \in {"none", "serving"} BY DEF NamedInv, Rests
<1>2. CASE s = sj
  <2>1. proc'[s].pc = "none" BY <1>2 DEF Gone
  <2> QED BY <2>1 DEF Named, UpPlaces, RbPlaces
<1>3. CASE s # sj BY <1>1, <1>3 DEF Named, UpPlaces, RbPlaces
<1> QED BY <1>2, <1>3

LEMMA NamedStep == ASSUME Orderly, ~Overlap, OneDaemon, NamedInv, [Next]_vars PROVE NamedInv'
<1>1. /\ Serves \subseteq Procs /\ "cmd" \in Procs /\ None \notin Procs /\ "cmd" \notin Serves
      /\ proc \in [Procs -> ProcType] /\ sj \in Serves \cup {None}
  BY SelfUpdateAssumption DEF Procs, Orderly, Types, FileTypes
<1>2. ASSUME NEW p \in Procs, Beside(p), sj' = sj, p \in Serves => Named(p)' /\ ~Rests(p),
             p = "cmd" => proc'[p].pc # "swap"
      PROVE  NamedInv'
  <2>1. SwapWas' BY <1>2, SwapWasKept DEF SwapWas, At, Procs
  <2> QED BY <2>1, <1>2, NamedKept
<1>3. ASSUME NEW p \in Procs, Turn(p), BootHook(p) PROVE NamedInv'
  <2>1. /\ sj' = sj /\ ~Rests(p)
        /\ \/ proc'[p].job = "boot" /\ proc'[p].pc \in BootPlaces \cup {"rbstat"}
           \/ proc'[p] = AfterBoot(p)
    BY <1>3, BootShape
  <2>2. Beside(p) BY <1>3, BootOrderly
  <2>3. proc[p].pc # "none" BY <2>1 DEF Rests
  <2>4. proc'[p] = AfterBoot(p) => /\ p # "cmd" => proc'[p].pc = "bind" /\ proc'[p].job = "none"
                                   /\ p = "cmd" => proc'[p].pc \in {"status", "on", "off", "plan", "rbstat"}
    BY <2>3, AfterBootShape
  <2>5. p \in Serves => Named(p)' BY <2>1, <2>4, <1>1 DEF Named, UpPlaces, RbPlaces, BootPlaces
  <2>6. p = "cmd" => proc'[p].pc # "swap" BY <2>1, <2>4 DEF BootPlaces
  <2> QED BY <2>1, <2>2, <2>5, <2>6, <1>2
\* A process that stops the daemon.
<1>4. ASSUME NEW p \in Procs, Turn(p), NEW next, Stop(p, next),
             \/ proc[p].pc = "rbstop" /\ next = "rbstart"
             \/ proc[p].pc = "stop" /\ next = "start"
      PROVE  NamedInv'
  <2>1. Kept(p) /\ proc'[p].pc = next BY <1>4, StopOrderly
  <2>2. Fits(p, proc[p]) /\ proc[p] \in ProcType BY DEF Orderly, Fits
  <2>3. CASE p = "cmd"
    <3>1. \A s \in Serves : Rests(s) BY <2>3, <1>4, <1>1 DEF Turn
    <3>2. \A s \in Serves : proc'[s] = IF s = sj THEN Gone ELSE proc[s]
      BY <2>3, <1>1, <1>4 DEF Stop, Stopped
    <3>3. \A s \in Serves : Named(s)' BY <3>1, <3>2, <1>4, StoppedNamed DEF Stop
    <3>4. SwapWas' BY <2>1, <2>3, <1>4 DEF SwapWas, At
    <3> QED BY <3>3, <3>4 DEF NamedInv
  <2>4. CASE p \in Serves
    <3>1. proc[p].pc = "rbstop" /\ ~Rests(p) BY <2>2, <2>4, <1>1, <1>4 DEF Fits, CmdOnly, Rests
    <3>2. SwapWas' BY <3>1, <2>1, <2>4, SwapWasKept DEF Beside
    <3>3. ~proc[p].leaving BY <3>1, <2>2, <2>4, <1>1 DEF Fits
    <3>4. CASE sj = p
      <4>1. proc'[p] = [proc[p] EXCEPT !.pc = next, !.up = FALSE, !.leaving = TRUE] BY <3>4, <1>1, <1>4 DEF Stop
      <4>2. proc'[p].leaving BY <4>1, <2>2 DEF ProcType
      <4>3. \A s \in Serves : Named(s)' BY <4>2, <2>4 DEF OneDaemon, Named
      <4> QED BY <4>3, <3>2 DEF NamedInv
    <3>5. CASE sj # p
      <4>1. proc[p].job = "boot" BY <3>1, <3>3, <3>5, <2>4 DEF NamedInv, Named, RbPlaces
      <4>2. proc'[p] = [proc[p] EXCEPT !.pc = next] BY <3>5, <1>1, <1>4 DEF Stop, Stopped
      <4>3. proc'[p].job = "boot" /\ proc'[p].pc = next BY <4>1, <4>2, <2>2 DEF ProcType
      <4>4. \A s \in Serves : Named(s)' BY <4>3, <3>1, <2>4, <1>4 DEF OneDaemon, Named
      <4> QED BY <4>4, <3>2 DEF NamedInv
    <3> QED BY <3>4, <3>5
  <2> QED BY <2>3, <2>4 DEF Procs
<1>5. ASSUME NEW p \in Procs, Turn(p), Rollback(p) PROVE NamedInv'
  <2>1. CASE proc[p].pc = "rbstop"
    <3>1. RbStop(p)
      BY <2>1, <1>5 DEF Rollback, RbStat, RbOut, RbIn, Mark, RbStop, RbStart, RbWait, RbSave, At
    <3> QED BY <3>1, <2>1, <1>4, <1>5 DEF RbStop
  <2>2. CASE proc[p].pc # "rbstop"
    <3>1. /\ sj' = sj /\ Itself(p) /\ proc[p].pc \in RbPlaces
          /\ \/ proc'[p].job = proc[p].job /\ proc'[p].pc \in RbPlaces
             \/ proc'[p] = AfterJob(p)
      BY <2>2, <1>5, RollbackShape
    <3>2. Beside(p) /\ ~Rests(p) /\ proc[p].pc # "none" BY <3>1, <1>5, RollbackOrderly DEF Rests, RbPlaces
    <3>3. proc'[p] = AfterJob(p) => /\ p # "cmd" => proc'[p].pc = IF proc[p].job = "boot" THEN "bind" ELSE "serving"
                                    /\ p = "cmd" => proc'[p].pc # "swap"
      BY <3>2, AfterJobShape
    <3>4. p \in Serves => Named(p)'
      <4> SUFFICES ASSUME p \in Serves PROVE Named(p)' OBVIOUS
      <4>1. Named(p) /\ p # "cmd" BY <1>1 DEF NamedInv
      <4>2. CASE proc'[p].job = proc[p].job /\ proc'[p].pc \in RbPlaces
        BY <4>1, <4>2, <3>1 DEF Named, Itself, RbPlaces
      <4>3. CASE proc[p].job = "boot" /\ proc'[p].pc = "bind" BY <4>3 DEF Named, UpPlaces, RbPlaces
      <4>4. CASE proc[p].job # "boot" BY <4>1, <4>4, <3>1 DEF Named, Itself
      <4> QED BY <4>1, <4>2, <4>3, <4>4, <3>1, <3>3
    <3>5. p = "cmd" => proc'[p].pc # "swap" BY <3>1, <3>3 DEF RbPlaces
    <3> QED BY <3>1, <3>2, <3>4, <3>5, <1>2
  <2> QED BY <2>1, <2>2
<1>6. ASSUME NEW p \in Procs, Turn(p), ApplyPlan(p) PROVE NamedInv'
  <2>1. CASE proc[p].pc = "stop"
    <3>1. StopOld(p)
      BY <2>1, <1>6 DEF ApplyPlan, Plan, Download, PlanSwap, SwapOp, Record, Inline, StopOld, StartNew, WaitVersion,
                        Confirm, At
    <3> QED BY <3>1, <2>1, <1>4, <1>6 DEF StopOld
  <2>2. CASE proc[p].pc # "stop"
    <3>1. /\ sj' = sj
          /\ Itself(p) \/ (p # "cmd" /\ proc'[p].leaving /\ proc'[p].pc = "serving")
          /\ proc'[p].pc = "swap" => \/ proc[p].pc = "planswap" /\ proc'[p].was = Alive
                                     \/ proc[p].pc = "swap" /\ proc'[p].was = proc[p].was
      BY <2>2, <1>6, ApplyShape
    <3>2. Beside(p) /\ Fits(p, proc[p]) BY <1>6, ApplyOrderly DEF Orderly
    <3>3. proc[p].pc \in UpPlaces \cup {"start", "wait", "confirm"}
      BY <2>2, <1>6 DEF ApplyPlan, Plan, Download, PlanSwap, SwapOp, Record, Inline, StopOld, StartNew, WaitVersion,
                        Confirm, At, UpPlaces
    <3>4. CASE p \in Serves
      <4>1. /\ proc[p].pc \in UpPlaces /\ proc[p].job = "apply" /\ ~proc[p].leaving /\ ~Rests(p) /\ Named(p)
        BY <3>2, <3>3, <3>4, <1>1 DEF Fits, CmdOnly, UpPlaces, Rests, NamedInv
      <4>2. sj = p /\ proc[p].up BY <4>1 DEF Named
      <4>3. Named(p)' BY <4>2, <3>1 DEF Named, Itself
      <4>4. p # "cmd" /\ ~Rests(p) BY <4>1, <3>4, <1>1
      <4>5. sj' = sj /\ Beside(p) BY <3>1, <3>2
      <4>6. p = "cmd" => proc'[p].pc # "swap" BY <4>4
      <4>7. p \in Serves => Named(p)' /\ ~Rests(p) BY <4>3, <4>4
      <4> QED BY <4>5, <4>6, <4>7, <1>2
    <3>5. CASE p = "cmd"
      <4>1. \A s \in Serves : Rests(s) BY <3>5, <1>1, <1>6 DEF Turn
      <4>2. CASE proc'[p].pc # "swap" BY <4>2, <3>1, <3>2, <3>5, <1>1, <1>2
      <4>3. CASE proc'[p].pc = "swap"
        <5>1. proc[p].pc \in {"planswap", "swap"} BY <4>3, <3>1
        <5>2. PlanSwap(p) \/ SwapOp(p)
          BY <5>1, <1>6 DEF ApplyPlan, Plan, Download, PlanSwap, SwapOp, Record, Inline, StopOld, StartNew, WaitVersion,
                            Confirm, At
        <5>3. \A s \in Serves : proc'[s] = proc[s]
          BY <5>2, <3>5, <1>1 DEF PlanSwap, SwapOp, EndApply, GotoAfterJob
        <5>4. SwapWas'
          <6> SUFFICES ASSUME NEW s \in Serves, At(s, "serving"), ~proc[s].leaving PROVE proc'["cmd"].was
            BY <5>3 DEF SwapWas, At
          <6>1. sj = s /\ proc[s].up /\ s # None BY <1>1 DEF NamedInv, Named, At
          <6>2. Alive BY <6>1 DEF Alive
          <6> QED BY <6>2, <4>3, <3>1, <3>5 DEF NamedInv, SwapWas, At
        <5> QED BY <5>4, <3>1, <3>2, <3>5, <1>1, NamedKept
      <4> QED BY <4>2, <4>3
    <3> QED BY <3>4, <3>5 DEF Procs
  <2> QED BY <2>1, <2>2
<1>7. ASSUME NEW p \in Procs, Turn(p), Exit(p) PROVE NamedInv'
  <2>0. proc'[p] = Gone /\ Beside(p) BY <1>7, EndsOrderly
  <2>1. Beside(p) /\ proc'[p].pc = "none" BY <2>0 DEF Gone
  <2>2. p = "cmd" => sj' = sj BY <1>1, <1>7 DEF Exit, Ends
  <2>3. CASE p = "cmd"
    <3>1. SwapWas' BY <2>1, <2>3 DEF SwapWas, At
    <3> QED BY <3>1, <2>1, <2>2, <2>3, <1>1, NamedKept
  <2>4. CASE p \in Serves
    <3>1. \A s \in Serves : Named(s)' BY <2>1, <2>4 DEF OneDaemon, Named, UpPlaces, RbPlaces
    <3>2. \A s \in Serves : proc'[s].pc = "none" BY <2>1, <2>4 DEF OneDaemon
    <3> QED BY <3>1, <3>2 DEF NamedInv, SwapWas, At
  <2> QED BY <2>3, <2>4 DEF Procs
<1>8. ASSUME NEW s \in Serves, Bind(s) PROVE NamedInv'
  <2>1. Beside(s) /\ ~Rests(s) BY <1>8, BindOrderly DEF Bind, At, Rests
  <2>2. SwapWas' BY <2>1, SwapWasKept
  <2>3. proc'[s] = [proc[s] EXCEPT !.pc = "serving", !.up = TRUE] /\ proc[s] \in ProcType
    BY <1>1, <1>8 DEF Bind
  <2>4. proc'[s].up /\ sj' = s BY <2>3, <1>8 DEF ProcType, Bind
  <2>5. \A t \in Serves : Named(t)' BY <2>4 DEF OneDaemon, Named
  <2> QED BY <2>2, <2>5 DEF NamedInv
<1>9. ASSUME NEW s \in Serves, Apply(s) PROVE NamedInv'
  <2>1. /\ Beside(s) /\ sj' = sj /\ proc[s].pc = "serving" /\ ~proc[s].leaving /\ s \in Procs /\ Rests("cmd")
    BY <1>1, <1>9, ApplyBegins DEF Apply, At, Calm
  <2>2. sj = s /\ proc[s].up BY <2>1 DEF NamedInv, Named
  <2>3. proc'[s] = [proc[s] EXCEPT !.pc = "plan", !.job = "apply"] /\ proc[s] \in ProcType /\ proc'["cmd"] = proc["cmd"]
    BY <1>1, <1>9 DEF Apply
  <2>4. proc'[s].up BY <2>2, <2>3 DEF ProcType
  <2>5. Named(s)' /\ SwapWas' BY <2>1, <2>2, <2>3, <2>4 DEF Named, SwapWas, At, Rests
  <2> QED BY <2>1, <2>5, NamedKept
<1>10. ASSUME NEW r \in Roles, Command(r) PROVE NamedInv'
  <2>1. proc'["cmd"].pc = "recover" /\ Beside("cmd") BY <1>10, CommandBegins
  <2> QED BY <2>1, <1>1, <1>2, <1>10 DEF Command
<1>11. CASE On
  <2>1. proc'["cmd"].pc = "status" /\ Beside("cmd") BY <1>11, OnOrderly
  <2> QED BY <2>1, <1>1, <1>2, <1>11 DEF On
<1>12. CASE Off \/ Restart
  <2>1. \A s \in Serves : Rests(s) BY <1>1, <1>12 DEF Off, Restart, Turn, Calm
  <2>2. \A s \in Serves : proc'[s] = IF s = sj THEN Gone ELSE proc[s]
    BY <1>1, <1>12 DEF Off, Restart, Stopped
  <2>3. \A s \in Serves : Named(s)' /\ (proc'[s].pc = "none" \/ proc'[s].leaving)
    BY <2>1, <2>2, <1>12, StoppedNamed DEF Off, Restart
  <2> QED BY <2>3 DEF NamedInv, SwapWas, At
<1>13. CASE Supervisor
  <2>1. sj' = sj BY <1>13 DEF Supervisor, Probe, Decide, ShellSpawn, ShellWait
  <2>2. Beside(None) BY <1>13, SupervisorOrderly DEF Beside, Kept
  <2>3. SwapWas'
    <3>1. CASE proc' = proc BY <3>1 DEF NamedInv, SwapWas, At
    <3>2. CASE proc' # proc
      <4>1. Quiet BY <3>2, <1>13 DEF Supervisor, Probe, Decide, ShellSpawn, ShellWait, Orderly, OneWorks
      <4>2. proc["cmd"].pc # "swap" BY <4>1, <1>1 DEF Quiet, Rests
      <4>3. proc'["cmd"] = proc["cmd"] \/ proc'["cmd"].pc \in {"none", "recover"} BY <2>2, <1>1, BesideIs
      <4> QED BY <4>2, <4>3 DEF SwapWas, At
    <3> QED BY <3>1, <3>2
  <2> QED BY <2>1, <2>2, <2>3, <1>1, NamedKept
<1>14. CASE Crash
  <2>1. \A q \in Procs : proc'[q].pc = "none" BY <1>14, CrashOrderly DEF Gone
  <2> QED BY <2>1, <1>1 DEF NamedInv, Named, SwapWas, At, UpPlaces, RbPlaces
<1>15. CASE Release BY <1>15 DEF Release, NamedInv, Named, SwapWas, At
<1>16. CASE UNCHANGED vars BY <1>16 DEF vars, NamedInv, Named, SwapWas, At
<1> QED BY <1>3, <1>5, <1>6, <1>7, <1>8, <1>9, <1>10, <1>11, <1>12, <1>13, <1>14, <1>15, <1>16 DEF Next, ProcessStep

----------------------------------------------------------------------------
(* What is recorded as bad is not in force.                                *)

\* r has put its release in place and goes on to check it or to take it back.
Ahead(r) == /\ r.job = "apply" /\ exe = r.want
            /\ \/ r.pc \in {"record", "inline", "stop"} /\ (r.role = "serve" \/ r.was)
               \/ r.pc \in {"rbstat", "rbout"}

\* What a process relies on.
Settled(r) ==
    /\ r.pc = "bootsave" => disk.pending # 0 /\ r.st.pending = disk.pending
    /\ r.pc = "bootconfirm" => r.st.confirmed
    /\ r.pc \in {"stop", "start", "wait", "confirm"} => r.job = "apply"
    /\ r.pc \in {"swap", "record"} => ~Unconfirmed
    /\ r.pc \in {"download", "planswap", "swap"} => exe < r.want
    /\ r.pc \in {"download", "planswap", "swap", "record", "inline"} => old < r.want
    /\ r.pc \in {"stop", "start", "wait", "confirm"} \/ (r.pc = "rbstat" /\ r.job # "manual") =>
          old # r.want /\ (exe # 0 => (exe = r.want <=> old # 0))
    /\ r.pc \in {"rbout", "rbin"} => old # IF r.job = "manual" THEN disk.pending ELSE r.want
    /\ r.pc = "mark" => exe # IF r.job = "manual" THEN disk.pending ELSE r.want
    /\ r.pc \in {"rbstop", "rbstart", "rbwait", "rbsave"} => exe # r.st.bad

\* A process that may still plan an update by its own version.
Subject(p) ==
    /\ proc[p].pc # "none" /\ ~proc[p].leaving
    /\ p = "cmd" => \/ proc[p].pc \in BootPlaces \cup {"plan", "download", "planswap", "swap"}
                    \/ proc[p].job = "boot" /\ proc[p].pc \in RbPlaces

\* Nothing newer than its code is installed unless somebody is ahead with it.
UpToDate(p) == Subject(p) =>
    /\ old <= proc[p].ver
    /\ exe <= proc[p].ver \/ Ahead(proc[p]) \/ Ahead(proc["cmd"])

\* What is in force, what can be gone back to and what is recorded.
InForce ==
    /\ disk.bad # 0 => exe # disk.bad /\ old # disk.bad
    /\ old # 0 => old # disk.pending \/ exe = 0 \/ \E p \in Procs : At(p, "record")
    /\ Unconfirmed /\ exe # 0 => (exe = disk.pending <=> old # 0)
    /\ exe # 0 => old < exe

Forward == InForce /\ \A p \in Procs : Settled(proc[p]) /\ UpToDate(p)

ForwardInv == Undisturbed /\ ~lapse => Forward

\* The binary is there for a process that may move it.
LEMMA Present ==
    ASSUME Orderly, ~Overlap, Files, NEW p \in Procs, Turn(p), proc[p].pc # "none",
           p = "cmd" \/ ~Parked(p), proc[p].pc \notin Halfway
    PROVE  exe # 0
<1>1. ASSUME NEW q \in Procs PROVE proc[q].pc \notin Halfway
  <2>1. CASE q = p BY <2>1
  <2>2. CASE q # p /\ p = "cmd"
    BY <2>2, SelfUpdateAssumption DEF Turn, Procs, Rests, Halfway
  <2>3. CASE q # p /\ ~Parked(p) BY <2>3, Alone DEF Parked, CmdParked, ServeParked, Halfway
  <2> QED BY <2>1, <2>2, <2>3
<1> QED BY <1>1 DEF Files, Idle

LEMMA IdleSettled ==
    ASSUME NEW r, r.pc \in {"none", "recover", "restore", "restored", "load", "bootcheck", "status", "on", "off", "plan",
                            "bind", "serving"} \/ (r.pc = "rbstat" /\ r.job = "manual")
    PROVE  Settled(r) /\ Settled(r)'
BY DEF Settled

LEMMA OthersSubject ==
    ASSUME Orderly, Forward, UNCHANGED <<exe, old>>, NEW p, Beside(p), NEW q \in Procs \ {p},
           p = "cmd" /\ Ahead(proc[p]) => Ahead(proc[p])' \/ (\A s \in Serves : proc'[s].pc = "none" \/ proc'[s].leaving)
    PROVE  UpToDate(q)'
<1> SUFFICES ASSUME Subject(q)' PROVE UpToDate(q)' BY DEF UpToDate
<1>1. exe \in Nat /\ old \in Nat BY DEF Orderly, Types, FileTypes
<1>2. proc'[q].pc # "none" /\ ~proc'[q].leaving BY DEF Subject
<1>3. CASE proc'[q] = proc[q]
  <2>1. Subject(q) /\ UpToDate(q) BY <1>3 DEF Subject, Forward
  <2>2. Ahead(proc[q]) => Ahead(proc[q])' BY <1>3 DEF Ahead
  <2>3. Ahead(proc["cmd"]) => Ahead(proc["cmd"])'
    <3>1. CASE p = "cmd"
      <4>1. q \in Serves BY <3>1 DEF Procs
      <4> QED BY <4>1, <3>1, <1>2
    <3>2. CASE p # "cmd"
      <4>1. proc'["cmd"] = proc["cmd"]
        BY <3>2, SelfUpdateAssumption DEF Beside, Kept, Joined, Procs
      <4> QED BY <4>1 DEF Ahead
    <3> QED BY <3>1, <3>2
  <2> QED BY <2>1, <2>2, <2>3, <1>3 DEF UpToDate
<1>4. CASE Startable(exe) /\ proc'[q] = Started("serve")
  <2>1. proc'[q].ver = exe BY <1>4 DEF Started, Gone
  <2>2. old < exe BY <1>4 DEF Startable, Forward, InForce
  <2> QED BY <2>1, <2>2, <1>1 DEF UpToDate
<1>5. proc'[q] # Gone BY <1>2 DEF Gone
<1> QED BY <1>3, <1>4, <1>5 DEF Beside, Kept, Joined

LEMMA OthersSettled ==
    ASSUME Forward, UNCHANGED <<exe, old>>, NEW p, Beside(p), NEW q \in Procs \ {p}, disk' = disk \/ Parked(q)
    PROVE  Settled(proc[q])'
<1>1. CASE proc'[q] = proc[q]
  <2>1. Settled(proc[q]) BY DEF Forward
  <2>2. CASE disk' = disk BY <2>1, <2>2, <1>1 DEF Settled, Unconfirmed
  <2>3. CASE Parked(q) BY <2>1, <2>3, <1>1 DEF Settled, Parked, CmdParked, ServeParked
  <2> QED BY <2>2, <2>3
<1>2. CASE proc'[q].pc \in {"none", "recover"} BY <1>2 DEF Settled
<1> QED BY <1>1, <1>2, BesideIs

\* A step that leaves the files and the record alone.
LEMMA ForceKept ==
    ASSUME Orderly, Forward, UNCHANGED <<exe, old, disk>>, NEW p, Beside(p),
           p \in Procs => proc[p].pc # "record" /\ Settled(proc[p])' /\ UpToDate(p)',
           p = "cmd" /\ Ahead(proc[p]) => Ahead(proc[p])' \/ (\A s \in Serves : proc'[s].pc = "none" \/ proc'[s].leaving)
    PROVE  Forward'
<1>1. ASSUME NEW q \in Procs PROVE Settled(proc[q])' /\ UpToDate(q)'
  BY OthersSettled, OthersSubject
<1>2. ASSUME NEW q \in Procs, At(q, "record") PROVE At(q, "record")'
  <2>1. ~Parked(q) /\ q # p /\ proc[q].pc = "record" BY <1>2 DEF Parked, CmdParked, ServeParked, At
  <2>2. proc'[q] = proc[q] BY <2>1 DEF Beside, Kept, Joined
  <2> QED BY <2>1, <2>2 DEF At
<1>3. InForce' BY <1>2 DEF Forward, InForce, Unconfirmed
<1> QED BY <1>1, <1>3 DEF Forward

\* A step that writes update.json.
LEMMA ForceSaved ==
    ASSUME Orderly, ~Overlap, OneDaemon, Forward, UNCHANGED <<exe, old>>, NEW p \in Procs, Turn(p), ~Rests(p), Beside(p),
           InForce', Settled(proc[p])', UpToDate(p)',
           p = "cmd" /\ Ahead(proc[p]) => Ahead(proc[p])'
    PROVE  Forward'
<1>1. ASSUME NEW q \in Procs \ {p} PROVE Parked(q)
  <2>1. CASE p = "cmd"
    BY <2>1, SelfUpdateAssumption DEF Turn, Procs, Rests, Parked, ServeParked
  <2>2. CASE p \in Serves
    <3>1. q = "cmd" BY <2>2 DEF OneDaemon, Procs
    <3> QED BY <3>1, <2>2 DEF Orderly, OneWorks
  <2> QED BY <2>1, <2>2 DEF Procs
<1>2. ASSUME NEW q \in Procs PROVE Settled(proc[q])' /\ UpToDate(q)'
  BY <1>1, OthersSettled, OthersSubject
<1> QED BY <1>2 DEF Forward

\* p goes on by its own version.
LEMMA UpKept ==
    ASSUME Forward, UNCHANGED <<exe, old>>, NEW p \in Procs, Beside(p), Itself(p),
           Subject(p)' => Subject(p),
           Ahead(proc[p]) => Ahead(proc[p])' \/ ~Subject(p)'
    PROVE  UpToDate(p)'
<1>1. p # "cmd" => proc'["cmd"] = proc["cmd"]
  BY SelfUpdateAssumption DEF Beside, Kept, Joined, Procs
<1>2. p # "cmd" /\ Ahead(proc["cmd"]) => Ahead(proc["cmd"])' BY <1>1 DEF Ahead
<1>3. UpToDate(p) BY DEF Forward
<1> QED BY <1>2, <1>3 DEF UpToDate, Itself

LEMMA SavedAs ==
    ASSUME Types, Undisturbed', NEW st \in StateType, Save(st)
    PROVE  /\ disk'.pending = st.pending /\ disk'.confirmed = st.confirmed
           /\ disk'.bad = IF st.bad = 0 THEN disk.bad ELSE st.bad
<1>1. disk' = Merged(st) BY SaveDone
<1> QED BY <1>1 DEF Merged, StateType

\* Nobody records while another process works.
LEMMA NoRecord ==
    ASSUME Orderly, ~Overlap, NEW p \in Procs, Turn(p), p = "cmd" \/ ~Parked(p), proc[p].pc # "record"
    PROVE  \A q \in Procs : ~At(q, "record")
<1> SUFFICES ASSUME NEW q \in Procs \ {p} PROVE ~At(q, "record") BY DEF At
<1>1. CASE p = "cmd"
  <2>1. Rests(q) BY <1>1, SelfUpdateAssumption DEF Turn, Procs
  <2> QED BY <2>1 DEF Rests, At
<1>2. CASE ~Parked(p) BY <1>2, Alone DEF Parked, CmdParked, ServeParked, At
<1> QED BY <1>1, <1>2

LEMMA BootForce ==
    ASSUME Orderly, ~Overlap, OneDaemon, Files, BadInv, Forward, Undisturbed', NEW p \in Procs, Turn(p), BootHook(p)
    PROVE  Forward'
<1>1. /\ proc[p].pc \in BootPlaces /\ Beside(p) /\ proc[p] \in ProcType /\ ~Parked(p) /\ proc[p].job = "boot"
      /\ proc \in [Procs -> ProcType] /\ proc[p].pc # "none" /\ Types /\ proc[p].st \in StateType /\ disk \in StateType
      /\ FileOK(proc[p]) /\ BadOK(proc[p]) /\ Settled(proc[p]) /\ ~Rests(p) /\ proc[p].pc \notin {"record", "swap", "rbin"}
  BY BootOrderly DEF Orderly, Types, FileTypes, Fits, BootHook, Recover, Restore, Load, BootCheck, BootSave, BootConfirm,
                     At, BootPlaces, Parked, CmdParked, ServeParked, Files, BadInv, Forward, Rests, ProcType
<1>2. UNCHANGED <<exe, old>>
  BY <1>1 DEF BootHook, Recover, Restore, Load, BootCheck, BootSave, BootConfirm, files, At, FileOK
<1>3. ~Ahead(proc[p]) BY <1>1 DEF Ahead
<1>4. UpToDate(p)'
  <2>1. Itself(p) BY BootShape
  <2>2. Subject(p)' => Subject(p) BY <2>1, <1>1 DEF Subject, Itself
  <2> QED BY <2>1, <2>2, <1>1, <1>2, <1>3, UpKept
<1>5. ASSUME disk' = disk, Settled(proc[p])' PROVE Forward'
  BY <1>1, <1>2, <1>3, <1>4, <1>5, ForceKept
<1>6. \A q \in Procs : ~At(q, "record") BY <1>1, NoRecord
<1>7. exe # 0 BY <1>1, Present DEF Halfway
<1>8. ASSUME proc' = GotoAfterBoot(p) \/ proc' = Spawned(GotoAfterBoot(p)) PROVE Settled(proc[p])'
  <2>1. proc'[p] = AfterBoot(p) BY <1>1, <1>8, AfterBootBad
  <2>2. proc'[p].pc \in {"status", "on", "off", "plan", "bind"} \/ (proc'[p].pc = "rbstat" /\ proc'[p].job = "manual")
    BY <2>1, <1>1, AfterBootShape
  <2> QED BY <2>2, IdleSettled
<1>9. CASE Recover(p)
  <2>1. PICK l \in {"restore", "load"} : proc' = Goto(p, l) BY <1>9 DEF Recover
  <2>2. proc'[p].pc \in {"restore", "load"} BY <2>1, <1>1, GotoShape
  <2> QED BY <2>2, <1>5, <1>9, IdleSettled DEF Recover
<1>10. CASE Restore(p) BY <1>1, <1>10 DEF Restore, At, FileOK
<1>11. CASE Load(p)
  <2>1. disk' = disk /\ ~At(p, "restored") BY <1>1, <1>11 DEF Load, At, FileOK
  <2>2. CASE proc' = [proc EXCEPT ![p].pc = "bootcheck", ![p].st = disk]
    <3>1. proc'[p].pc = "bootcheck" BY <2>2, <1>1, PlaceShape
    <3> QED BY <3>1, <2>1, <1>5, IdleSettled
  <2>3. CASE proc' = GotoAfterBoot(p) \/ proc' = Spawned(GotoAfterBoot(p)) BY <2>1, <2>3, <1>5, <1>8
  <2> QED BY <2>1, <2>2, <2>3, <1>11 DEF Load
<1>12. CASE BootCheck(p)
  <2>1. disk' = disk /\ proc[p].pc = "bootcheck" BY <1>12 DEF BootCheck, At
  <2>2. proc[p].st = disk /\ Unconfirmed BY <2>1, <1>1 DEF BadOK
  <2>3. CASE proc' = [proc EXCEPT ![p].pc = "bootconfirm", ![p].st.confirmed = TRUE]
    <3>1. proc' = [proc EXCEPT ![p].pc = "bootconfirm", ![p].st = [proc[p].st EXCEPT !.confirmed = TRUE]]
      BY <2>3, <1>1
    <3>2. proc'[p].pc = "bootconfirm" /\ proc'[p].st = [proc[p].st EXCEPT !.confirmed = TRUE]
      BY <2>3, <1>1 DEF ProcType
    <3>3. proc'[p].st.confirmed BY <3>2, <1>1 DEF StateType
    <3>4. Settled(proc[p])' BY <3>2, <3>3 DEF Settled
    <3> QED BY <3>4, <2>1, <1>5
  <2>4. CASE proc' = [proc EXCEPT ![p].pc = "rbstat", ![p].st = Failed(proc[p].st),
                                  ![p].want = proc[p].st.pending, ![p].was = proc[p].st.was]
    <3>1. proc'[p] = Edited(proc[p], "rbstat", Failed(proc[p].st), proc[p].st.pending, proc[p].st.was)
      BY <2>4, <1>1 DEF Edited, ProcType
    <3>2. proc'[p].pc = "rbstat" /\ proc'[p].want = disk.pending BY <3>1, <2>2, <1>1, EditShape
    <3>3. old # disk.pending BY <2>2, <1>6, <1>7 DEF Forward, InForce, Unconfirmed
    <3>4. exe = disk.pending <=> old # 0 BY <2>2, <1>7 DEF Forward, InForce
    <3>5. Settled(proc[p])' BY <3>2, <3>3, <3>4, <1>2 DEF Settled
    <3> QED BY <3>5, <2>1, <1>5
  <2>5. CASE proc' = [proc EXCEPT ![p].pc = "bootsave", ![p].st = Failed(proc[p].st)]
    <3>1. proc'[p].pc = "bootsave" /\ proc'[p].st = Failed(proc[p].st) BY <2>5, <1>1 DEF ProcType
    <3>2. proc'[p].st.pending = disk.pending BY <3>1, <2>2, <1>1, FailedType
    <3>3. disk.pending # 0 BY <2>2 DEF Unconfirmed
    <3>4. Settled(proc[p])' BY <3>1, <3>2, <3>3, <2>1 DEF Settled
    <3> QED BY <3>4, <2>1, <1>5
  <2> QED BY <2>3, <2>4, <2>5, <1>12 DEF BootCheck
<1>13. CASE BootSave(p) \/ BootConfirm(p)
  <2>1. /\ Save(proc[p].st) /\ proc[p].pc \in {"bootsave", "bootconfirm"}
        /\ proc' = GotoAfterBoot(p) \/ proc' = Spawned(GotoAfterBoot(p))
    BY <1>13 DEF BootSave, BootConfirm, At
  <2>2. /\ disk'.pending = proc[p].st.pending /\ disk'.confirmed = proc[p].st.confirmed
        /\ disk'.bad = IF proc[p].st.bad = 0 THEN disk.bad ELSE proc[p].st.bad
    BY <2>1, <1>1, SavedAs
  <2>3. disk'.pending = disk.pending /\ disk'.bad = disk.bad /\ (disk'.confirmed \/ disk'.confirmed = disk.confirmed)
    <3>1. CASE proc[p].pc = "bootsave" BY <3>1, <2>2, <1>1 DEF Settled, BadOK
    <3>2. CASE proc[p].pc = "bootconfirm" BY <3>2, <2>2, <1>1 DEF Settled, BadOK
    <3> QED BY <3>1, <3>2, <2>1
  <2>4. InForce' BY <2>3, <1>2, <1>6, <1>7 DEF Forward, InForce, Unconfirmed
  <2>5. Settled(proc[p])' BY <2>1, <1>8
  <2> QED BY <2>4, <2>5, <1>1, <1>2, <1>3, <1>4, ForceSaved
<1> QED BY <1>9, <1>10, <1>11, <1>12, <1>13 DEF BootHook

\* Every other process rests, or p is the daemon and the command waits.
LEMMA OthersRest ==
    ASSUME Orderly, ~Overlap, OneDaemon, NEW p \in Procs, Turn(p), ~Rests(p), NEW q \in Procs \ {p}
    PROVE  Rests(q) \/ (p \in Serves /\ q = "cmd" /\ proc[q].pc \in CmdParked)
<1>1. CASE p = "cmd" BY <1>1, SelfUpdateAssumption DEF Turn, Procs
<1>2. CASE p \in Serves
  <2>1. q = "cmd" BY <1>2 DEF OneDaemon, Procs
  <2>2. Parked(q) BY <2>1, <1>2 DEF Orderly, OneWorks
  <2> QED BY <2>1, <2>2, <1>2 DEF Parked
<1> QED BY <1>1, <1>2 DEF Procs

\* The binaries move back while a process rolls back.
LEMMA OthersBack ==
    ASSUME Orderly, ~Overlap, OneDaemon, Files, BadInv, Forward, disk' = disk, NEW p \in Procs, Turn(p), ~Rests(p),
           old # 0, (exe' = 0 /\ old' = old) \/ (exe' = old /\ old' = 0),
           NEW q \in Procs \ {p}, proc'[q] = proc[q]
    PROVE  Settled(proc[q])' /\ UpToDate(q)'
<1>1. /\ exe \in Nat /\ old \in Nat /\ proc[q].ver \in Nat /\ Settled(proc[q]) /\ UpToDate(q) /\ FileOK(proc[q])
      /\ BadOK(proc[q])
  BY DEF Orderly, Types, FileTypes, ProcType, Forward, Files, BadInv
<1>2. UpToDate(q)'
  <2> SUFFICES ASSUME Subject(q)' PROVE UpToDate(q)' BY DEF UpToDate
  <2>1. Subject(q) BY DEF Subject
  <2>2. old <= proc[q].ver BY <2>1, <1>1 DEF UpToDate
  <2>3. old' <= proc'[q].ver /\ exe' <= proc'[q].ver BY <2>2, <1>1
  <2> QED BY <2>3 DEF UpToDate
<1>3. CASE Rests(q)
  <2>1. proc'[q].pc \in {"none", "serving"} BY <1>3 DEF Rests
  <2> QED BY <2>1, <1>2, IdleSettled
<1>4. CASE proc[q].pc \in CmdParked
  <2>1. CASE proc[q].pc = "rbwait" BY <2>1, <1>1 DEF FileOK
  <2>2. CASE proc[q].pc = "wait" \/ (proc[q].pc = "rbstat" /\ proc[q].job # "manual")
    <3>1. old # proc[q].want /\ proc[q].want # 0 BY <2>2, <1>1 DEF Settled, BadOK
    <3>2. proc[q].pc = "wait" => proc[q].job = "apply" BY <1>1 DEF Settled
    <3>3. Settled(proc[q])' BY <3>1, <3>2, <2>2 DEF Settled
    <3> QED BY <3>3, <1>2
  <2>3. CASE proc[q].pc \in {"none", "status", "on", "off", "plan"} \/ (proc[q].pc = "rbstat" /\ proc[q].job = "manual")
    <3>1. proc'[q].pc \in {"none", "status", "on", "off", "plan"} \/ (proc'[q].pc = "rbstat" /\ proc'[q].job = "manual")
      BY <2>3
    <3> QED BY <3>1, <1>2, IdleSettled
  <2> QED BY <2>1, <2>2, <2>3, <1>4 DEF CmdParked
<1> QED BY <1>3, <1>4, OthersRest

LEMMA RollbackForce ==
    ASSUME Orderly, ~Overlap, OneDaemon, Files, BadInv, Forward, Undisturbed', NEW p \in Procs, Turn(p), Rollback(p)
    PROVE  Forward'
<1>1. /\ proc[p].pc \in RbPlaces /\ Beside(p) /\ proc[p] \in ProcType /\ Fits(p, proc[p]) /\ proc[p].role # "none"
      /\ proc \in [Procs -> ProcType] /\ proc[p].pc # "none" /\ Types /\ proc[p].st \in StateType /\ disk \in StateType
      /\ FileOK(proc[p]) /\ BadOK(proc[p]) /\ Settled(proc[p]) /\ ~Rests(p) /\ proc[p].pc # "record" /\ InForce
      /\ exe \in Nat /\ old \in Nat /\ proc[p].ver \in Nat
  BY RollbackOrderly DEF Orderly, Types, FileTypes, Fits, Rollback, RbStat, RbOut, RbIn, Mark, RbStop, RbStart, RbWait,
                         RbSave, At, RbPlaces, Files, BadInv, Forward, Rests, ProcType
<1>2. /\ proc[p].pc \in {"rbstat", "rbout", "rbin", "mark"} => p = "cmd" \/ ~Parked(p)
      /\ proc[p].pc # "rbwait" /\ proc[p].pc # "rbsave" => p = "cmd" \/ ~Parked(p)
      /\ proc[p].job = "manual" => p = "cmd"
  BY <1>1 DEF Parked, ServeParked, RbPlaces, Fits
<1>3. proc[p].pc # "rbstop" => (Subject(p)' => Subject(p)) /\ Itself(p)
  <2> SUFFICES ASSUME proc[p].pc # "rbstop", Subject(p)' PROVE Subject(p) BY RollbackShape DEF Subject
  <2>1. /\ Itself(p)
        /\ \/ proc'[p].job = proc[p].job /\ proc'[p].pc \in RbPlaces
           \/ proc'[p] = AfterJob(p)
    BY RollbackShape
  <2>2. proc'[p] = AfterJob(p) /\ p = "cmd" =>
          \/ proc'[p].pc \in {"status", "on", "off"}
          \/ proc[p].job = "boot"
    BY <1>1, AfterJobShape
  <2>3. proc'[p] = AfterJob(p) /\ p = "cmd" => proc[p].job = "boot"
    BY <2>2 DEF Subject, BootPlaces, RbPlaces
  <2>4. p = "cmd" /\ proc'[p].pc \in RbPlaces /\ proc'[p].job = proc[p].job => proc[p].job = "boot"
    BY DEF Subject, BootPlaces, RbPlaces
  <2> QED BY <2>1, <2>3, <2>4, <1>1 DEF Subject, Itself
<1>4. ASSUME proc' = GotoAfterJob(p) PROVE Settled(proc[p])'
  <2>1. proc'[p] = AfterJob(p) BY <1>1, <1>4, AfterJobBad
  <2>2. \/ proc'[p].pc \in {"status", "on", "off", "plan", "bind", "serving"}
        \/ proc'[p].pc = "rbstat" /\ proc'[p].job = "manual"
    BY <2>1, <1>1, AfterJobShape
  <2> QED BY <2>2, IdleSettled
\* The files stay where they are.
<1>5. ASSUME UNCHANGED <<exe, old, disk>>, proc[p].pc # "rbstop", Settled(proc[p])',
             Ahead(proc[p]) => Ahead(proc[p])'
      PROVE  Forward'
  <2>1. UpToDate(p)' BY <1>1, <1>3, <1>5, UpKept
  <2> QED BY <2>1, <1>1, <1>5, ForceKept
\* One of them moves.
<1>6. ASSUME disk' = disk, old # 0, (exe' = 0 /\ old' = old) \/ (exe' = old /\ old' = 0), proc[p].pc # "rbstop",
             \A q \in Procs \ {p} : proc'[q] = proc[q], InForce', Settled(proc[p])'
      PROVE  Forward'
  <2>1. ASSUME NEW q \in Procs \ {p} PROVE Settled(proc[q])' /\ UpToDate(q)' BY <1>1, <1>6, OthersBack
  <2>2. UpToDate(p)'
    <3> SUFFICES ASSUME Subject(p)' PROVE UpToDate(p)' BY DEF UpToDate
    <3>1. Subject(p) /\ proc'[p].ver = proc[p].ver BY <1>3, <1>6 DEF Itself
    <3>2. old <= proc[p].ver BY <3>1 DEF Forward, UpToDate
    <3>3. old' <= proc'[p].ver /\ exe' <= proc'[p].ver BY <3>1, <3>2, <1>1, <1>6
    <3> QED BY <3>3 DEF UpToDate
  <2> QED BY <2>1, <2>2, <1>6 DEF Forward
<1>7. proc[p].pc \in {"rbstat", "rbout", "mark"} => exe # 0 BY <1>1, <1>2, Present DEF Halfway
<1>8. CASE RbStat(p)
  <2>1. UNCHANGED <<exe, old, disk>> /\ proc[p].pc = "rbstat" BY <1>8 DEF RbStat, At, files
  <2>2. CASE old = 0 /\ proc[p].job = "manual"
    <3>1. proc' = GotoAfterJob(p) BY <2>2, <1>8 DEF RbStat, RollbackFailed
    <3>2. ~Ahead(proc[p]) BY <2>2 DEF Ahead
    <3> QED BY <3>1, <3>2, <2>1, <1>4, <1>5
  <2>3. CASE old = 0 /\ proc[p].job # "manual"
    <3>1. proc' = Goto(p, "mark") BY <2>3, <1>8 DEF RbStat, RollbackFailed
    <3>2. proc'[p].pc = "mark" /\ proc'[p].job = proc[p].job /\ proc'[p].want = proc[p].want
      BY <3>1, <1>1, GotoShape
    <3>3. exe # proc[p].want BY <2>1, <2>3, <1>1, <1>7 DEF Settled
    <3>4. Settled(proc[p])' BY <3>2, <3>3, <2>1, <2>3 DEF Settled
    <3>5. ~Ahead(proc[p]) BY <3>3 DEF Ahead
    <3> QED BY <3>4, <3>5, <2>1, <1>5
  <2>4. CASE old # 0
    <3>1. proc' = Goto(p, "rbout") BY <2>4, <1>8 DEF RbStat
    <3>2. proc'[p].pc = "rbout" /\ proc'[p].job = proc[p].job /\ proc'[p].want = proc[p].want
      BY <3>1, <1>1, GotoShape
    <3>3. old # IF proc[p].job = "manual" THEN disk.pending ELSE proc[p].want
      <4>1. CASE proc[p].job = "manual"
        <5>1. \A q \in Procs : ~At(q, "record") BY <1>1, <1>2, <2>1, NoRecord
        <5> QED BY <5>1, <4>1, <2>1, <2>4, <1>1, <1>7 DEF InForce
      <4>2. CASE proc[p].job # "manual" BY <4>2, <2>1, <1>1 DEF Settled
      <4> QED BY <4>1, <4>2
    <3>4. Settled(proc[p])' BY <3>2, <3>3, <2>1 DEF Settled
    <3>5. Ahead(proc[p]) => Ahead(proc[p])' BY <3>2, <2>1 DEF Ahead
    <3> QED BY <3>4, <3>5, <2>1, <1>5
  <2> QED BY <2>2, <2>3, <2>4
<1>9. CASE RbOut(p)
  <2>1. proc[p].pc = "rbout" /\ old' = old /\ disk' = disk BY <1>9 DEF RbOut, At
  <2>2. exe' = 0 /\ proc' = Goto(p, "rbin") BY <2>1, <1>7, <1>9, NoFault DEF RbOut
  <2>3. proc'[p].pc = "rbin" /\ proc'[p].job = proc[p].job /\ proc'[p].want = proc[p].want BY <2>2, <1>1, GotoShape
  <2>4. \A q \in Procs \ {p} : proc'[q] = proc[q] BY <2>2, <1>1 DEF Goto
  <2>5. old # 0 BY <2>1, <1>1 DEF FileOK
  <2>6. InForce' BY <2>1, <2>2, <1>1 DEF InForce
  <2>7. Settled(proc[p])' BY <2>1, <2>3, <1>1 DEF Settled
  <2> QED BY <2>1, <2>2, <2>4, <2>5, <2>6, <2>7, <1>6
<1>10. CASE RbIn(p)
  <2>1. proc[p].pc = "rbin" /\ disk' = disk BY <1>10 DEF RbIn, At
  <2>2. old # 0 /\ exe = 0 BY <2>1, <1>1 DEF FileOK
  <2>3. exe' = old /\ old' = 0 /\ proc' = Goto(p, "mark") BY <2>2, <1>10, NoFault DEF RbIn
  <2>4. proc'[p].pc = "mark" /\ proc'[p].job = proc[p].job /\ proc'[p].want = proc[p].want BY <2>3, <1>1, GotoShape
  <2>5. \A q \in Procs \ {p} : proc'[q] = proc[q] BY <2>3, <1>1 DEF Goto
  <2>6. old # IF proc[p].job = "manual" THEN disk.pending ELSE proc[p].want BY <2>1, <1>1 DEF Settled
  <2>7. Unconfirmed => old # disk.pending
    <3>1. proc[p].job # "manual" => Concerns(proc[p].want) BY <2>1, <1>1 DEF BadOK
    <3> QED BY <3>1, <2>6 DEF Unconfirmed, Concerns
  <2>8. InForce' BY <2>1, <2>2, <2>3, <2>7, <1>1 DEF InForce, Unconfirmed
  <2>9. Settled(proc[p])' BY <2>1, <2>3, <2>4, <2>6 DEF Settled
  <2> QED BY <2>1, <2>2, <2>3, <2>5, <2>8, <2>9, <1>6
<1>11. CASE Mark(p)
  <2> DEFINE v == IF proc[p].job = "manual" THEN disk.pending ELSE proc[p].want
             st == IF v = 0 THEN disk ELSE [disk EXCEPT !.pending = 0, !.bad = v]
  <2>1. UNCHANGED <<exe, old, disk>> /\ proc[p].pc = "mark" BY <1>11 DEF Mark, At, files
  <2>2. PICK l \in {"rbstop", "rbsave"} : proc' = [proc EXCEPT ![p].pc = l, ![p].st = st] BY <1>11 DEF Mark
  <2>3. exe # st.bad
    <3>1. CASE v = 0 BY <3>1, <2>1, <1>1, <1>7 DEF InForce
    <3>2. CASE v # 0
      <4>1. exe # v BY <2>1, <1>1 DEF Settled
      <4>2. st.bad = v BY <3>2, <1>1 DEF StateType
      <4> QED BY <4>1, <4>2
    <3> QED BY <3>1, <3>2
  <2> HIDE DEF st
  <2>4. proc'[p].pc = l /\ proc'[p].st = st BY <2>2, <1>1 DEF ProcType
  <2>5. Settled(proc[p])' BY <2>1, <2>3, <2>4 DEF Settled
  <2>6. ~Ahead(proc[p]) BY <2>1 DEF Ahead
  <2> QED BY <2>1, <2>5, <2>6, <1>5
<1>12. CASE RbStop(p)
  <2>1. UNCHANGED <<exe, old, disk>> /\ proc[p].pc = "rbstop" BY <1>12 DEF RbStop, Stop, At, files
  <2>2. proc'[p].pc = "rbstart" /\ proc'[p].st = proc[p].st /\ Kept(p) BY <1>12, StopOrderly DEF RbStop, At
  <2>3. Settled(proc[p])' BY <2>1, <2>2, <1>1 DEF Settled
  <2>4. ~Ahead(proc[p]) BY <2>1 DEF Ahead
  <2>5. UpToDate(p)'
    <3>1. CASE sj = p
      <4>1. proc'[p] = [proc[p] EXCEPT !.pc = "rbstart", !.up = FALSE, !.leaving = TRUE]
        BY <3>1, <1>1, <1>12 DEF RbStop, Stop
      <4>2. proc'[p].leaving BY <4>1, <1>1 DEF ProcType
      <4> QED BY <4>2 DEF UpToDate, Subject
    <3>2. CASE sj # p
      <4>1. sj # None => sj \in Procs BY <1>1 DEF Types, FileTypes, Procs
      <4>2. Stopped(proc)[p] = proc[p] /\ DOMAIN Stopped(proc) = Procs BY <4>1, <3>2, <1>1 DEF Stopped
      <4>3. proc' = [Stopped(proc) EXCEPT ![p].pc = "rbstart"] BY <3>2, <1>12 DEF RbStop, Stop
      <4>4. proc'[p] = [proc[p] EXCEPT !.pc = "rbstart"] BY <4>2, <4>3
      <4>5. Itself(p) /\ proc'[p].job = proc[p].job BY <4>4, <1>1 DEF ProcType, Itself
      <4>6. Subject(p)' => Subject(p) BY <4>5, <2>1, <2>2 DEF Subject, Itself, RbPlaces, BootPlaces
      <4> QED BY <4>5, <4>6, <2>1, <2>4, <1>1, UpKept
    <3> QED BY <3>1, <3>2
  <2> QED BY <2>1, <2>3, <2>4, <2>5, <1>1, ForceKept
<1>13. ASSUME UNCHANGED <<exe, old, disk>>, proc[p].pc \in {"rbstart", "rbwait"},
              proc'[p].pc \in {"rbwait", "rbsave"}, proc'[p].st = proc[p].st
       PROVE  Forward'
  <2>1. Settled(proc[p])' BY <1>1, <1>13 DEF Settled
  <2>2. ~Ahead(proc[p]) BY <1>13 DEF Ahead
  <2> QED BY <2>1, <2>2, <1>5, <1>13
<1>14. CASE RbStart(p)
  <2>1. Goto(p, "rbwait") \in [Procs -> ProcType] /\ Goto(p, "rbwait")[p].pc = "rbwait" /\ Goto(p, "rbwait")[p].st = proc[p].st
    BY <1>1 DEF Goto, ProcType, Places, RbPlaces
  <2>2. proc'[p].pc = "rbwait" /\ proc'[p].st = proc[p].st BY <2>1, <1>1, <1>14, SpawnedAt DEF RbStart
  <2> QED BY <2>2, <1>13, <1>14 DEF RbStart, At, files
<1>15. CASE RbWait(p)
  <2>1. proc'[p].pc = "rbsave" /\ proc'[p].st = proc[p].st BY <1>1, <1>15, GotoShape DEF RbWait
  <2> QED BY <2>1, <1>13, <1>15 DEF RbWait, At, files
<1>16. CASE RbSave(p)
  <2>1. UNCHANGED <<exe, old>> /\ Save(proc[p].st) /\ proc[p].pc = "rbsave" /\ proc' = GotoAfterJob(p)
    BY <1>16 DEF RbSave, files, At
  <2>2. /\ disk'.pending = 0
        /\ disk'.bad = IF proc[p].st.bad = 0 THEN disk.bad ELSE proc[p].st.bad
    BY <2>1, <1>1, SavedAs DEF BadOK
  <2>3. old = 0 /\ exe # proc[p].st.bad BY <2>1, <1>1 DEF FileOK, Settled
  <2>4. InForce' BY <2>1, <2>2, <2>3, <1>1 DEF InForce, Unconfirmed
  <2>5. Settled(proc[p])' /\ ~Ahead(proc[p]) BY <2>1, <1>4 DEF Ahead
  <2>6. UpToDate(p)' BY <2>1, <2>5, <1>1, <1>3, UpKept
  <2> QED BY <2>1, <2>4, <2>5, <2>6, <1>1, ForceSaved
<1> QED BY <1>8, <1>9, <1>10, <1>11, <1>12, <1>14, <1>15, <1>16 DEF Rollback

LEMMA ApplyForce ==
    ASSUME Orderly, ~Overlap, OneDaemon, Files, BadInv, NamedInv, Forward, Undisturbed', ~lapse',
           NEW p \in Procs, Turn(p), ApplyPlan(p)
    PROVE  Forward'
<1> DEFINE Own == {"stop", "start", "wait", "confirm"}
<1>1. /\ proc[p].pc \in UpPlaces \cup Own /\ Beside(p) /\ proc[p] \in ProcType /\ ~Rests(p) /\ Fits(p, proc[p])
      /\ proc \in [Procs -> ProcType] /\ proc[p].pc # "none" /\ BadOK(proc[p]) /\ FileOK(proc[p]) /\ Settled(proc[p])
      /\ proc[p].st \in StateType /\ proc[p].want \in Nat /\ disk \in StateType /\ proc[p].role # "none" /\ Types
      /\ exe \in Nat /\ old \in Nat /\ latest \in Nat /\ InForce /\ proc[p].ver \in Nat /\ UpToDate(p)
  BY ApplyOrderly DEF Orderly, Types, FileTypes, Fits, ApplyPlan, Plan, Download, PlanSwap, SwapOp, Record, Inline,
                      StopOld, StartNew, WaitVersion, Confirm, At, UpPlaces, Rests, BadInv, Files, Forward, ProcType
<1>2. /\ proc[p].pc \in Own => p = "cmd" /\ p \notin Serves
      /\ proc[p].job = "apply"
      /\ proc[p].pc \in UpPlaces => ~proc[p].leaving
  BY <1>1, SelfUpdateAssumption DEF Fits, CmdOnly, Settled, Procs, UpPlaces
<1>3. \A q \in Procs \ {p} : Rests(q)
  <2>1. CASE p = "cmd" BY <2>1, SelfUpdateAssumption DEF Turn, Procs
  <2>2. CASE p # "cmd"
    <3>1. proc[p].pc \in UpPlaces BY <2>2, <1>1, <1>2
    <3>2. ~Parked(p) BY <2>2, <3>1 DEF Parked, ServeParked, UpPlaces
    <3> QED BY <3>1, <3>2, Alone
  <2> QED BY <2>1, <2>2
<1>4. \A q \in Procs \ {p} : ~Ahead(proc[q]) BY <1>3 DEF Rests, Ahead
<1>5. proc[p].pc \in {"plan", "download", "planswap", "swap", "start", "wait", "confirm"} => ~Ahead(proc[p])
  BY DEF Ahead
<1>6. "cmd" \in Procs /\ Serves \subseteq Procs /\ "cmd" \notin Serves BY SelfUpdateAssumption DEF Procs
\* The update ends.
<1>7. ASSUME proc' = GotoAfterJob(p)
      PROVE  Settled(proc[p])' /\ Itself(p) /\ (Subject(p)' => Subject(p)) /\ (p = "cmd" => ~Subject(p)')
  <2>1. proc'[p] = AfterJob(p) BY <1>1, <1>7, AfterJobBad
  <2>2. /\ Itself(p)
        /\ proc'[p].pc \in IF p = "cmd" THEN {"status", "on", "off"} ELSE {"serving"}
    BY <2>1, <1>1, <1>2, AfterJobShape
  <2>3. Settled(proc[p])' BY <2>2, IdleSettled
  <2>4. p = "cmd" => ~Subject(p)' BY <2>2 DEF Subject, BootPlaces, RbPlaces
  <2>5. p # "cmd" => (Subject(p)' => Subject(p)) BY <2>2, <1>1 DEF Subject, Itself
  <2> QED BY <2>2, <2>3, <2>4, <2>5
\* The files and the record stay as they are.
<1>8. ASSUME UNCHANGED <<exe, old, disk>>, proc[p].pc # "record", Settled(proc[p])', Itself(p),
             Subject(p)' => Subject(p), Ahead(proc[p]) => Ahead(proc[p])'
      PROVE  Forward'
  <2>1. UpToDate(p)' BY <1>1, <1>8, UpKept
  <2> QED BY <2>1, <1>1, <1>8, ForceKept
<1>9. ASSUME UNCHANGED <<exe, old, disk>>, proc' = GotoAfterJob(p), proc[p].pc \in {"plan", "download", "planswap"}
      PROVE  Forward'
  BY <1>5, <1>7, <1>8, <1>9
<1>10. CASE Plan(p)
  <2>1. UNCHANGED <<exe, old, disk>> /\ proc[p].pc = "plan" BY <1>10 DEF Plan, At, files
  <2>2. CASE Offered(p) /\ proc' = [proc EXCEPT ![p].pc = "download", ![p].want = latest]
    <3>1. proc'[p] = [proc[p] EXCEPT !.pc = "download", !.want = latest] BY <2>2, <1>1
    <3>2. proc'[p].pc = "download" /\ proc'[p].want = latest /\ Itself(p) BY <3>1, <1>1 DEF ProcType, Itself
    <3>3. Subject(p) BY <2>1, <1>1, <1>2 DEF Subject, UpPlaces
    <3>4. old <= proc[p].ver /\ exe <= proc[p].ver
      BY <3>3, <2>1, <1>1, <1>4, <1>5, <1>6 DEF UpToDate
    <3>5. old < latest /\ exe < latest BY <3>4, <2>2, <1>1 DEF Offered
    <3>6. Settled(proc[p])' BY <3>2, <3>5, <2>1 DEF Settled
    <3> QED BY <3>2, <3>3, <3>6, <2>1, <1>5, <1>8
  <2>3. CASE proc' = GotoAfterJob(p) BY <2>1, <2>3, <1>9
  <2> QED BY <2>2, <2>3, <1>10 DEF Plan
<1>11. CASE Download(p)
  <2>1. UNCHANGED <<exe, old, disk>> /\ proc[p].pc = "download" BY <1>11 DEF Download, At
  <2>2. CASE proc' = Goto(p, "planswap")
    <3>1. proc'[p].pc = "planswap" /\ proc'[p].want = proc[p].want /\ Itself(p) BY <2>2, <1>1, GotoShape
    <3>2. Settled(proc[p])' BY <3>1, <2>1, <1>1 DEF Settled
    <3>3. Subject(p) BY <2>1, <1>1, <1>2 DEF Subject, UpPlaces
    <3> QED BY <3>1, <3>2, <3>3, <2>1, <1>5, <1>8
  <2> QED BY <2>1, <2>2, <1>9, <1>11 DEF Download, EndApply
<1>12. CASE PlanSwap(p)
  <2>1. UNCHANGED <<exe, old, disk>> /\ proc[p].pc = "planswap" BY <1>12 DEF PlanSwap, At
  <2>2. CASE staged = proc[p].want
    <3>1. ~Unconfirmed BY <2>2, <1>12 DEF PlanSwap
    <3>2. proc'[p] = [proc[p] EXCEPT !.pc = "swap", !.was = Alive, !.ops = SwapOps]
      BY <2>2, <1>1, <1>12 DEF PlanSwap
    <3>3. proc'[p].pc = "swap" /\ proc'[p].want = proc[p].want /\ Itself(p) BY <3>2, <1>1 DEF ProcType, Itself
    <3>4. Settled(proc[p])' BY <3>1, <3>3, <2>1, <1>1 DEF Settled, Unconfirmed
    <3>5. Subject(p) BY <2>1, <1>1, <1>2 DEF Subject, UpPlaces
    <3> QED BY <3>3, <3>4, <3>5, <2>1, <1>5, <1>8
  <2> QED BY <2>1, <2>2, <1>9, <1>12 DEF PlanSwap, EndApply
<1>13. CASE SwapOp(p)
  <2>1. /\ proc[p].pc = "swap" /\ PlanFits(proc[p].ops) /\ staged = proc[p].want /\ proc[p].want # 0 /\ disk' = disk
        /\ ~Unconfirmed /\ exe < proc[p].want /\ old < proc[p].want /\ disk.bad < proc[p].want
    BY <1>1, <1>13 DEF SwapOp, At, FileOK, Settled, BadOK, hist
  <2> DEFINE ops == proc[p].ops
             l == IF Tail(ops) = <<>> THEN "record" ELSE "swap"
             next == [proc EXCEPT ![p].ops = Tail(ops), ![p].pc = l]
  <2>2. l \in {"record", "swap"} OBVIOUS
  <2>3. ASSUME proc' = next
        PROVE  /\ Itself(p) /\ proc'[p].want = proc[p].want /\ proc'[p].pc = l /\ proc'[p].job = "apply"
               /\ proc'[p].was = proc[p].was /\ \A q \in Procs \ {p} : proc'[q] = proc[q]
    <3> HIDE DEF l
    <3>1. proc'[p] = [proc[p] EXCEPT !.ops = Tail(ops), !.pc = l] /\ \A q \in Procs \ {p} : proc'[q] = proc[q]
      BY <2>3, <1>1
    <3> QED BY <3>1, <1>1, <1>2 DEF ProcType, Itself
  <2>4. ASSUME NEW q \in Procs \ {p}, proc' = next PROVE Settled(proc[q])'
    <3>1. proc'[q].pc \in {"none", "serving"} BY <2>3, <2>4, <1>3 DEF Rests
    <3> QED BY <3>1, IdleSettled
  \* Nobody is ahead before the new binary is in place.
  <2>5. ASSUME NEW q \in Procs, proc' = next, exe' = exe \/ exe' = 0, old' = exe \/ old' = 0, l = "swap"
        PROVE  UpToDate(q)'
    <3> SUFFICES ASSUME Subject(q)' PROVE UpToDate(q)' BY DEF UpToDate
    <3>1. proc'[q].ver = proc[q].ver BY <2>3, <2>5 DEF Itself
    <3>2. Subject(q)
      <4>1. CASE q = p BY <4>1, <2>1, <1>1, <1>2 DEF Subject, UpPlaces
      <4>2. CASE q # p BY <4>2, <2>3, <2>5 DEF Subject
      <4> QED BY <4>1, <4>2
    <3>3. exe <= proc[q].ver BY <3>2, <2>1, <1>4, <1>5, <1>6 DEF Forward, UpToDate
    <3>4. proc[q].ver \in Nat BY <1>1 DEF ProcType
    <3>5. exe' <= proc'[q].ver /\ old' <= proc'[q].ver BY <3>1, <3>3, <3>4, <2>5, <1>1
    <3> QED BY <3>5 DEF UpToDate
  <2>6. CASE ops = <<"remove", "out", "in">> /\ Startable(exe)
    <3>1. old' = 0 /\ exe' = exe /\ proc' = next BY <2>6, <1>13, PlanTails, NoFault DEF SwapOp
    <3>2. l = "swap" BY <2>6, PlanTails
    <3> HIDE DEF l, next
    <3>3. InForce' BY <3>1, <2>1, <1>1 DEF InForce, Unconfirmed
    <3>4. exe' < proc'[p].want /\ old' < proc'[p].want /\ ~Unconfirmed'
      BY <3>1, <2>1, <2>3, <1>1 DEF Unconfirmed
    <3>5. Settled(proc[p])' BY <3>1, <3>2, <3>4, <2>1, <2>3, <1>1 DEF Settled
    <3> QED BY <3>1, <3>2, <3>3, <3>5, <2>4, <2>5 DEF Forward
  <2>7. CASE ops = <<"out", "in">> /\ Startable(exe) /\ old = 0
    <3>1. old' = exe /\ exe' = 0 /\ proc' = next BY <2>7, <1>13, PlanTails, NoFault DEF SwapOp, Startable
    <3>2. l = "swap" BY <2>7, PlanTails
    <3> HIDE DEF l, next
    <3>3. InForce' BY <3>1, <2>1, <2>7, <1>1 DEF InForce, Unconfirmed, Startable
    <3>4. Settled(proc[p])' BY <3>1, <3>2, <2>1, <2>3, <1>1 DEF Settled, Unconfirmed
    <3> QED BY <3>1, <3>2, <3>3, <3>4, <2>4, <2>5 DEF Forward
  <2>8. CASE ops = <<"in">> /\ exe = 0 /\ old # 0
    <3>1. exe' = proc[p].want /\ old' = old /\ proc' = next
      BY <2>1, <2>8, <1>13, PlanTails, NoFault DEF SwapOp
    <3>2. l = "record" BY <2>8, PlanTails
    <3> HIDE DEF l, next
    <3>3. At(p, "record")' BY <3>1, <3>2, <2>3 DEF At
    <3>4. disk.bad \in Nat BY <1>1 DEF StateType
    <3>5. InForce' BY <3>1, <3>3, <3>4, <2>1, <2>8, <1>1 DEF InForce, Unconfirmed
    <3>6. Settled(proc[p])' BY <3>1, <3>2, <2>1, <2>3, <1>1 DEF Settled, Unconfirmed
    <3>7. proc[p].role = "serve" \/ proc[p].was => Ahead(proc[p])'
      BY <3>1, <3>2, <2>3 DEF Ahead, Itself
    <3>8. ASSUME NEW q \in Procs, Subject(q)' PROVE UpToDate(q)'
      <4>1. proc'[q].ver = proc[q].ver BY <3>1, <2>3 DEF Itself
      <4>2. Subject(q)
        <5>1. CASE q = p BY <5>1, <2>1, <1>1, <1>2 DEF Subject, UpPlaces
        <5>2. CASE q # p BY <5>2, <3>1, <3>8, <2>3 DEF Subject
        <5> QED BY <5>1, <5>2
      <4>3. old <= proc[q].ver BY <4>2 DEF Forward, UpToDate
      <4>4. Ahead(proc[q])' \/ Ahead(proc["cmd"])'
        <5>1. CASE p \in Serves /\ q = p
          <6>1. proc[p].role = "serve" BY <5>1, <1>1, <1>6 DEF Fits
          <6> QED BY <6>1, <5>1, <3>7
        <5>2. CASE p \in Serves /\ q # p
          <6>1. q = "cmd" BY <5>2 DEF OneDaemon, Procs
          <6>2. proc[q].pc \in {"none", "serving"} BY <5>2, <1>3 DEF Rests
          <6>3. proc'[q].pc \in {"none", "serving"} BY <6>2, <5>2, <3>1, <2>3
          <6> QED BY <6>1, <6>3, <3>8 DEF Subject, BootPlaces, RbPlaces
        <5>3. CASE p = "cmd" /\ q = p
          <6>1. proc'[q].pc = "record" BY <5>3, <3>1, <3>2, <2>3
          <6> QED BY <6>1, <5>3, <3>8 DEF Subject, BootPlaces, RbPlaces
        <5>4. CASE p = "cmd" /\ q # p
          <6>1. q \in Serves /\ proc'[q] = proc[q] BY <5>4, <3>1, <2>3 DEF Procs
          <6>2. At(q, "serving") /\ ~proc[q].leaving BY <6>1, <5>4, <3>8, <1>3 DEF Subject, Rests, At
          <6>3. proc["cmd"].was BY <6>1, <6>2, <5>4, <2>1 DEF NamedInv, SwapWas, At
          <6> QED BY <6>3, <5>4, <3>7
        <5> QED BY <5>1, <5>2, <5>3, <5>4 DEF Procs
      <4>5. old' <= proc'[q].ver BY <4>1, <4>3, <3>1
      <4> QED BY <4>4, <4>5 DEF UpToDate
    <3>9. \A q \in Procs : UpToDate(q)' BY <3>8 DEF UpToDate
    <3> QED BY <3>1, <3>5, <3>6, <3>9, <2>4 DEF Forward
  <2> QED BY <2>1, <2>6, <2>7, <2>8 DEF PlanFits
<1>14. CASE Record(p)
  <2> DEFINE st == [NoState EXCEPT !.pending = proc[p].want, !.was = proc[p].was]
  <2>1. UNCHANGED <<exe, old>> /\ proc[p].pc = "record" /\ Save(st) BY <1>14 DEF Record, At, files
  <2>2. proc' = [proc EXCEPT ![p].pc = "inline", ![p].st = st] BY <2>1, <1>14, SaveDone DEF Record
  <2>3. st \in StateType /\ st.pending = proc[p].want /\ st.bad = 0
    BY <1>1 DEF ProcType, StateType, NoState
  <2> HIDE DEF st
  <2>4. disk'.pending = proc[p].want /\ disk'.bad = disk.bad BY <2>1, <2>3, <1>1, SavedAs
  <2>5. proc'[p] = [proc[p] EXCEPT !.pc = "inline", !.st = st] BY <2>2, <1>1
  <2>6. /\ proc'[p].pc = "inline" /\ proc'[p].want = proc[p].want /\ proc'[p].was = proc[p].was
        /\ proc'[p].job = proc[p].job /\ Itself(p)
    BY <2>5, <1>1 DEF ProcType, Itself
  <2>7. exe = proc[p].want /\ old # 0 /\ old < proc[p].want /\ proc[p].want # 0
    BY <2>1, <1>1 DEF FileOK, Settled
  <2>8. InForce' BY <2>1, <2>4, <2>7, <1>1 DEF InForce, Unconfirmed
  <2>9. Settled(proc[p])' BY <2>1, <2>6, <2>7 DEF Settled
  <2>10. Ahead(proc[p]) => Ahead(proc[p])' BY <2>1, <2>6 DEF Ahead, Itself
  <2>11. Subject(p)' => Subject(p) BY <2>1, <2>6, <1>1 DEF Subject, Itself, BootPlaces, RbPlaces
  <2>12. UpToDate(p)' BY <2>1, <2>6, <2>10, <2>11, <1>1, UpKept
  <2> QED BY <2>1, <2>8, <2>9, <2>10, <2>12, <1>1, ForceSaved
\* What a checked release, or one that is taken back, is settled by.
<1>15. ASSUME UNCHANGED <<exe, old, disk>>, proc[p].pc \in {"inline", "stop", "start", "wait"},
              proc'[p].pc \in Own \cup {"rbstat"}, proc'[p].want = proc[p].want, proc'[p].job = proc[p].job
       PROVE  Settled(proc[p])'
  <2>1. old # proc[p].want /\ (exe # 0 => (exe = proc[p].want <=> old # 0))
    <3>1. CASE proc[p].pc = "inline"
      <4>1. exe = proc[p].want /\ old # 0 /\ old < proc[p].want BY <3>1, <1>1 DEF FileOK, Settled
      <4> QED BY <4>1, <1>1
    <3>2. CASE proc[p].pc \in {"stop", "start", "wait"} BY <3>2, <1>1 DEF Settled
    <3> QED BY <3>1, <3>2, <1>15
  <2>2. proc'[p].job = "apply" BY <1>2, <1>15
  <2> QED BY <2>1, <2>2, <1>15 DEF Settled
<1>16. CASE Inline(p)
  <2>1. UNCHANGED <<exe, old, disk>> /\ proc[p].pc = "inline" BY <1>16 DEF Inline, At, files
  <2>2. exe = proc[p].want BY <2>1, <1>1 DEF FileOK
  <2>3. CASE proc[p].role = "serve" /\ proc' = [GotoAfterJob(p) EXCEPT ![p].leaving = TRUE]
    <3>1. AfterJob(p) = [proc[p] EXCEPT !.pc = "serving", !.job = "none"] BY <2>3, <1>2 DEF AfterJob
    <3>2. GotoAfterJob(p)[p] = AfterJob(p) /\ DOMAIN GotoAfterJob(p) = Procs BY <1>1 DEF GotoAfterJob
    <3>3. proc'[p] = [AfterJob(p) EXCEPT !.leaving = TRUE] BY <3>2, <2>3
    <3>4. proc'[p] = [proc[p] EXCEPT !.pc = "serving", !.job = "none", !.leaving = TRUE] BY <3>1, <3>3
    <3>5. proc'[p].pc = "serving" /\ proc'[p].leaving BY <3>4, <1>1 DEF ProcType
    <3>6. p # "cmd" BY <2>3, <1>1 DEF Fits
    <3>7. Settled(proc[p])' BY <3>5, IdleSettled
    <3>8. UpToDate(p)' BY <3>5 DEF UpToDate, Subject
    <3> QED BY <3>6, <3>7, <3>8, <2>1, <1>1, ForceKept
  <2>4. ASSUME NEW l \in {"stop", "confirm", "rbstat"}, proc' = Goto(p, l),
               l # "rbstat" => proc[p].role # "serve" /\ (l = "stop" <=> proc[p].was)
        PROVE  Forward'
    <3>1. /\ proc'[p].pc = l /\ proc'[p].want = proc[p].want /\ proc'[p].was = proc[p].was
          /\ proc'[p].job = proc[p].job /\ Itself(p)
      BY <2>4, <1>1, GotoShape
    <3>2. Settled(proc[p])' BY <3>1, <2>1, <1>15
    <3>3. Ahead(proc[p]) => Ahead(proc[p])' BY <3>1, <2>1, <2>4 DEF Ahead, Itself
    <3>4. Subject(p)' => Subject(p) BY <3>1, <2>1, <1>1, <1>2 DEF Subject, Itself, BootPlaces, RbPlaces
    <3> QED BY <3>1, <3>2, <3>3, <3>4, <2>1, <1>8
  <2>5. CASE proc[p].role # "serve" /\ proc' = Goto(p, IF proc[p].was THEN "stop" ELSE "confirm")
    <3>1. CASE proc[p].was BY <3>1, <2>4, <2>5
    <3>2. CASE ~proc[p].was BY <3>2, <2>4, <2>5
    <3> QED BY <3>1, <3>2
  <2>6. CASE proc' = Goto(p, "rbstat") BY <2>4, <2>6
  <2> QED BY <2>3, <2>5, <2>6, <1>16 DEF Inline
\* A command that goes on is no longer concerned with its own version.
<1>17. ASSUME UNCHANGED <<exe, old, disk>>, proc[p].pc \in {"stop", "start", "wait"},
              proc'[p].pc \in {"start", "wait", "confirm", "rbstat"},
              proc'[p].want = proc[p].want, proc'[p].job = proc[p].job,
              proc[p].pc = "stop" => \A s \in Serves : proc'[s].pc = "none" \/ proc'[s].leaving
       PROVE  Forward'
  <2>1. Settled(proc[p])' BY <1>15, <1>17
  <2>2. UpToDate(p)' BY <1>2, <1>17 DEF UpToDate, Subject, BootPlaces, RbPlaces
  <2>3. proc[p].pc = "stop" \/ ~Ahead(proc[p]) BY <1>5, <1>17
  <2> QED BY <2>1, <2>2, <2>3, <1>1, <1>17, ForceKept
<1>18. CASE StopOld(p)
  <2>1. UNCHANGED <<exe, old, disk>> /\ proc[p].pc = "stop" /\ p = "cmd" /\ sj' = None
    BY <1>2, <1>18 DEF StopOld, Stop, At, files
  <2>2. \A s \in Serves : Rests(s) BY <2>1, <1>3, <1>6
  <2>3. sj # p /\ sj \in Serves \cup {None} BY <2>1, <1>1, SelfUpdateAssumption DEF Types, FileTypes
  <2>4. proc' = [Stopped(proc) EXCEPT ![p].pc = "start"] BY <2>3, <1>18 DEF StopOld, Stop
  <2>5. /\ \A s \in Serves : proc'[s] = IF s = sj THEN Gone ELSE proc[s]
        /\ proc'[p] = [proc[p] EXCEPT !.pc = "start"]
    BY <2>1, <2>3, <2>4, <1>1, <1>6, SelfUpdateAssumption DEF Stopped
  <2>6. proc'[p].pc = "start" /\ proc'[p].want = proc[p].want /\ proc'[p].job = proc[p].job
    BY <2>5, <1>1 DEF ProcType
  <2>7. \A s \in Serves : proc'[s].pc = "none" \/ proc'[s].leaving BY <2>1, <2>2, <2>5, StoppedNamed
  <2> QED BY <2>1, <2>6, <2>7, <1>17
<1>19. CASE StartNew(p)
  <2>1. UNCHANGED <<exe, old, disk>> /\ proc[p].pc = "start" BY <1>19 DEF StartNew, At, files
  <2>2. Goto(p, "wait") \in [Procs -> ProcType] BY <1>1 DEF Goto, ProcType, Places, CmdOnly
  <2>3. proc'[p] = Goto(p, "wait")[p] BY <2>2, <1>1, <1>19, SpawnedAt DEF StartNew
  <2>4. proc'[p] = [proc[p] EXCEPT !.pc = "wait"] BY <2>3, <1>1 DEF Goto
  <2>5. proc'[p].pc = "wait" /\ proc'[p].want = proc[p].want /\ proc'[p].job = proc[p].job
    BY <2>4, <1>1 DEF ProcType
  <2> QED BY <2>1, <2>5, <1>17
<1>20. CASE WaitVersion(p)
  <2>1. UNCHANGED <<exe, old, disk>> /\ proc[p].pc = "wait" BY <1>20 DEF WaitVersion, At, files
  <2>2. PICK l \in {"confirm", "rbstat"} : proc' = Goto(p, l) BY <1>20 DEF WaitVersion
  <2>3. proc'[p].pc = l /\ proc'[p].want = proc[p].want /\ proc'[p].job = proc[p].job BY <2>2, <1>1, GotoShape
  <2> QED BY <2>1, <2>3, <1>17
<1>21. CASE Confirm(p)
  <2> DEFINE st == [proc[p].st EXCEPT !.confirmed = TRUE]
  <2>1. UNCHANGED <<exe, old>> /\ proc[p].pc = "confirm" /\ proc' = GotoAfterJob(p) /\ Save(st)
    BY <1>21 DEF Confirm, At, files
  <2>2. st \in StateType /\ st.pending = proc[p].st.pending /\ st.bad = proc[p].st.bad /\ st.confirmed
    BY <1>1 DEF StateType
  <2> HIDE DEF st
  <2>3. disk'.pending = proc[p].want /\ disk'.bad = disk.bad /\ disk'.confirmed
    BY <2>1, <2>2, <1>1, SavedAs DEF BadOK
  <2>4. old # proc[p].want BY <2>1, <1>1 DEF Settled
  <2>5. InForce' BY <2>1, <2>3, <2>4, <1>1 DEF InForce, Unconfirmed
  <2>6. Settled(proc[p])' /\ ~Ahead(proc[p]) /\ UpToDate(p)' BY <2>1, <1>2, <1>5, <1>7 DEF UpToDate
  <2> QED BY <2>1, <2>5, <2>6, <1>1, ForceSaved
<1> QED BY <1>10, <1>11, <1>12, <1>13, <1>14, <1>16, <1>18, <1>19, <1>20, <1>21 DEF ApplyPlan

LEMMA OtherForce ==
    ASSUME Orderly, ~Overlap, Forward,
           \/ \E p \in Procs : Turn(p) /\ Exit(p)
           \/ \E s \in Serves : Bind(s) \/ Apply(s)
           \/ \E r \in Roles : Command(r)
           \/ On \/ Off \/ Restart
    PROVE  Forward'
<1>1. /\ Serves \subseteq Procs /\ "cmd" \in Procs /\ "cmd" \notin Serves /\ proc \in [Procs -> ProcType]
      /\ exe \in Nat /\ old \in Nat
  BY SelfUpdateAssumption DEF Procs, Orderly, Types, FileTypes
<1>2. ASSUME NEW p \in Procs, UNCHANGED <<exe, old, disk>>, Beside(p), proc[p].pc # "record", ~Ahead(proc[p]),
             proc'[p].pc \in {"none", "recover", "serving", "plan", "status"}, UpToDate(p)'
      PROVE  Forward'
  BY <1>2, IdleSettled, ForceKept
<1>3. ASSUME NEW p \in Procs, Turn(p), Exit(p) PROVE Forward'
  <2>1. UNCHANGED <<exe, old, disk>> BY <1>3 DEF Exit, files
  <2>2. proc'[p].pc = "none" BY <1>3, EndsOrderly DEF Gone
  <2>3. proc[p].pc # "record" /\ Beside(p) /\ ~Ahead(proc[p]) BY <1>3, EndsOrderly DEF Ahead
  <2>4. UpToDate(p)' BY <2>2 DEF UpToDate, Subject
  <2> QED BY <2>1, <2>2, <2>3, <2>4, <1>2
\* A daemon that rested goes on by its own version.
<1>4. ASSUME NEW s \in Serves, UNCHANGED <<exe, old, disk>>, Beside(s), proc[s].pc \in {"bind", "serving"},
             proc'[s].pc \in {"serving", "plan"}, proc'[s].ver = proc[s].ver, proc'[s].leaving = proc[s].leaving
      PROVE  Forward'
  <2>1. s # "cmd" /\ ~Ahead(proc[s]) /\ UpToDate(s) BY <1>1, <1>4 DEF Ahead, Forward
  <2>2. proc'["cmd"] = proc["cmd"] BY <1>1, <1>4 DEF Beside, Kept, Joined
  <2>3. Ahead(proc["cmd"]) => Ahead(proc["cmd"])' BY <2>2, <1>4 DEF Ahead
  <2>4. Subject(s)' => Subject(s) BY <2>1, <1>4 DEF Subject
  <2>5. UpToDate(s)' BY <2>1, <2>3, <2>4, <1>4 DEF UpToDate
  <2> QED BY <2>1, <2>5, <1>1, <1>2, <1>4
<1>5. ASSUME NEW s \in Serves, Bind(s) PROVE Forward'
  <2>1. UNCHANGED <<exe, old, disk>> /\ proc[s].pc = "bind" BY <1>5 DEF Bind, At, files
  <2>2. proc'[s] = [proc[s] EXCEPT !.pc = "serving", !.up = TRUE] BY <1>1, <1>5 DEF Bind
  <2>3. proc'[s].ver = proc[s].ver /\ proc'[s].leaving = proc[s].leaving BY <2>2, <1>1 DEF ProcType
  <2> QED BY <2>1, <2>3, <1>4, <1>5, BindOrderly
<1>6. ASSUME NEW s \in Serves, Apply(s) PROVE Forward'
  <2>1. UNCHANGED <<exe, old, disk>> /\ proc[s].pc = "serving" BY <1>6 DEF Apply, At, files
  <2>2. proc'[s] = [proc[s] EXCEPT !.pc = "plan", !.job = "apply"] BY <1>1, <1>6 DEF Apply
  <2>3. proc'[s].ver = proc[s].ver /\ proc'[s].leaving = proc[s].leaving BY <2>2, <1>1 DEF ProcType
  <2> QED BY <2>1, <2>3, <1>4, <1>6, ApplyBegins
<1>7. ASSUME NEW r \in Roles, Command(r) PROVE Forward'
  <2>1. UNCHANGED <<exe, old, disk>> /\ proc["cmd"].role = "none" /\ Startable(exe) BY <1>7 DEF Command, files
  <2>2. proc["cmd"].pc = "none" BY <2>1, <1>1 DEF Orderly, Fits
  <2>3. proc'["cmd"] = Started(r) /\ proc'["cmd"].pc = "recover" /\ Beside("cmd") BY <1>7, CommandBegins
  <2>4. proc'["cmd"].ver = exe BY <2>3 DEF Started, Gone
  <2>5. old < exe BY <2>1 DEF Startable, Forward, InForce
  <2>6. UpToDate("cmd")' BY <2>1, <2>4, <2>5, <1>1 DEF UpToDate
  <2>7. ~Ahead(proc["cmd"]) BY <2>2 DEF Ahead
  <2> QED BY <2>1, <2>2, <2>3, <2>6, <2>7, <1>1, <1>2
<1>8. ASSUME On \/ Off PROVE Forward'
  <2>1. UNCHANGED <<exe, old, disk>> /\ proc["cmd"].pc \in {"on", "off"} BY <1>8 DEF On, Off, At, files
  <2>2. Beside("cmd") /\ proc'["cmd"].pc = "status" BY <1>8, OnOrderly, OffOrderly
  <2>3. UpToDate("cmd")' BY <2>2 DEF UpToDate, Subject, BootPlaces, RbPlaces
  <2>4. ~Ahead(proc["cmd"]) BY <2>1 DEF Ahead
  <2> QED BY <2>1, <2>2, <2>3, <2>4, <1>1, <1>2
<1>9. ASSUME Restart PROVE Forward'
  <2>1. UNCHANGED <<exe, old, disk>> /\ proc["cmd"].role = "none" BY <1>9 DEF Restart, files
  <2>2. proc["cmd"].pc = "none" BY <2>1, <1>1 DEF Orderly, Fits
  <2>3. Beside("cmd") /\ proc'["cmd"].pc = "none" BY <2>2, <1>9, RestartOrderly
  <2>4. UpToDate("cmd")' BY <2>3 DEF UpToDate, Subject
  <2>5. ~Ahead(proc["cmd"]) BY <2>2 DEF Ahead
  <2> QED BY <2>1, <2>2, <2>3, <2>4, <2>5, <1>1, <1>2
<1> QED BY <1>3, <1>5, <1>6, <1>7, <1>8, <1>9

LEMMA SupervisorForce == ASSUME Orderly, ~Overlap, Forward, Supervisor PROVE Forward'
<1>1. UNCHANGED <<exe, old, disk>> BY DEF Supervisor, Probe, Decide, ShellSpawn, ShellWait, files, hist
<1>2. None \notin Procs /\ None # "cmd" BY SelfUpdateAssumption DEF Procs
<1>3. Beside(None) BY SupervisorOrderly DEF Beside, Kept
<1> QED BY <1>1, <1>2, <1>3, ForceKept

LEMMA CrashForce == ASSUME Orderly, Forward, Crash, ~lapse' PROVE Forward'
<1>1. UNCHANGED <<exe, old, disk>> /\ \A q \in Procs : ~At(q, "record") BY DEF Crash, files
<1>2. \A q \in Procs : proc'[q].pc = "none" BY CrashOrderly DEF Gone
<1>3. InForce' BY <1>1 DEF Forward, InForce, Unconfirmed
<1>4. ASSUME NEW q \in Procs PROVE Settled(proc[q])' /\ UpToDate(q)'
  BY <1>2, IdleSettled DEF UpToDate, Subject
<1> QED BY <1>3, <1>4 DEF Forward

LEMMA ForceStep ==
    ASSUME Orderly, ~Overlap, OneDaemon, FilesInv, BadInv, NamedInv, ForwardInv, [Next]_vars
    PROVE  ForwardInv'
<1> SUFFICES ASSUME Undisturbed', ~lapse' PROVE Forward' BY DEF ForwardInv
<1>0. Files /\ Forward BY FaultsGrow, LapseGrows DEF FilesInv, ForwardInv
<1>1. ASSUME NEW p \in Procs, ProcessStep(p) PROVE Forward'
  BY <1>0, <1>1, BootForce, RollbackForce, ApplyForce, OtherForce DEF ProcessStep
<1>2. ASSUME \/ \E s \in Serves : Bind(s) \/ Apply(s)
             \/ \E r \in Roles : Command(r)
             \/ On \/ Off \/ Restart
      PROVE  Forward'
  BY <1>0, <1>2, OtherForce
<1>3. CASE Release \/ UNCHANGED vars
  <2>1. UNCHANGED <<exe, old, disk, proc>> BY <1>3 DEF Release, vars, files, hist
  <2> QED BY <2>1, <1>0 DEF Forward, InForce, Settled, UpToDate, Subject, Ahead, Unconfirmed, At
<1> QED BY <1>0, <1>1, <1>2, <1>3, SupervisorForce, CrashForce DEF Next

\* The release that is recorded as bad is neither the binary in place nor the one to go back to:
\* a rollback moves it away before it is recorded, and no process plans an update by a version
\* of its own that is older than what is installed (selfupdateglue.go, update.go).
THEOREM BadNotBack == ASSUME ~Overlap, OneDaemon PROVE Spec => []BadNotInForce
<1> DEFINE Inv == Orderly /\ FilesInv /\ BadInv /\ NamedInv /\ ForwardInv
<1>1. Init => Inv
  <2> SUFFICES ASSUME Init PROVE FilesInv /\ BadInv /\ NamedInv /\ ForwardInv BY InitOrderly
  <2>1. Serves \subseteq Procs /\ "cmd" \in Procs BY DEF Procs
  <2>2. \A p \in Procs : proc[p].pc = "none" BY DEF Init, Gone
  <2>3. Startable(exe) /\ exe = 1 /\ old = 0 /\ disk = NoState BY SelfUpdateAssumption DEF Init, Startable
  <2>4. FilesInv BY <2>2, <2>3 DEF FilesInv, Files, FileOK
  <2>5. BadInv BY <2>1, <2>2, IdleBadOK DEF Init, BadInv, Recorded, NoState
  <2>6. NamedInv BY <2>1, <2>2 DEF NamedInv, Named, SwapWas, At, UpPlaces, RbPlaces
  <2>7. InForce BY <2>3 DEF InForce, NoState, Unconfirmed
  <2>8. \A p \in Procs : Settled(proc[p]) /\ UpToDate(p) BY <2>2, IdleSettled DEF UpToDate, Subject
  <2> QED BY <2>4, <2>5, <2>6, <2>7, <2>8 DEF ForwardInv, Forward
<1>2. Inv /\ [Next]_vars => Inv' BY OrderlyStep, FilesStep, BadStep, NamedStep, ForceStep
<1>3. Inv => BadNotInForce BY DEF ForwardInv, Forward, InForce, BadNotInForce
<1> QED BY <1>1, <1>2, <1>3, PTL DEF Spec

=============================================================================
