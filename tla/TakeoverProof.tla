---------------------------- MODULE TakeoverProof ----------------------------
(***************************************************************************)
(* Proof that a takeover does not lose the user's setting, for any number  *)
(* of serves and kills, when Apply stops halfway and the store fails       *)
(* wherever they like, as long as every takeover can make its snapshot and *)
(* an "on" runs alone (Faults \subseteq {"partial", "store"}).  Restorers  *)
(* may overlap at will: all of them write the user's.  What makes this     *)
(* inductive is that whoever is about to write GHydra's setting has the    *)
(* user's in the store and nobody beside it who could delete it (OnAlone), *)
(* and what each agent knows at its place (AgentOf).  Once the one hole is *)
(* met (lost) nothing is claimed.                                          *)
(***************************************************************************)
EXTENDS Takeover, TLAPS

\* Places of an "on" between its reconciliation and its rollback.
Taking == {"check", "waitup", "snapcheck", "current", "savesnap", "take", "undo", "failed"}
Places == Taking \cup {"idle", "load", "alive", "apply", "delete", "rmjson",
                       "stop", "wait", "shutdown", "close", "exit"}
Phases == {"none", "reconcile", "release", "take", "rollback", "stop", "hook1", "hook2"}
Jobs   == {"none", "on", "off", "status", "exit", "shutdown"}

Errs   == {"no", "told", "silent"}

AgentType == [pc : Places, phase : Phases, job : Jobs, got : {None} \cup Settings,
              fresh : BOOLEAN, err : Errs, serve : Serves \cup {None}]

\* The proxy p and the snapshot n.
FilesOK(p, n) ==
    /\ p \in Settings /\ n \in {None} \cup Users
    /\ p \notin Users => n \in Users

\* What an agent may rely on where it is.
AgentOf(r, p, n) ==
    /\ r.pc \in {"alive", "apply"} => r.got \in Users
    /\ r.pc = "alive" => r.phase = "reconcile"
    /\ r.pc = "delete" => p \in Users
    /\ r.pc = "rmjson" =>
          r.phase # "release" /\ (r.phase \notin {"rollback", "stop"} => p \in Users)
    /\ r.pc \in {"stop", "exit"} /\ r.err = "no" => p \in Users
    /\ r.pc = "stop" \/ r.phase = "release" => r.job # "on"
    /\ r.pc = "wait" => r.phase = "stop"
    /\ r.pc \in Taking => r.job = "on"
    /\ r.phase = "rollback" => r.pc = "rmjson"
    /\ r.pc \in {"current", "savesnap"} => r.fresh /\ n = None
    /\ r.pc = "savesnap" => r.got \in Users
    /\ r.pc = "take" => n \in Users
    /\ r.pc = "undo" => r.fresh

\* Beside an "on" everybody rests; beside its rollback there are exit hooks.
OnAlone(A) ==
    \A a, b \in Agents : a # b /\ A[a].job = "on" =>
        A[b] = Idle \/ (A[a].phase = "rollback" /\ A[b].job = "exit")

AgentsOf(A, p, n) ==
    /\ A \in [Agents -> AgentType]
    /\ \A a \in Agents : AgentOf(A[a], p, n)
    /\ OnAlone(A)

Kept == FilesOK(proxy, snap) /\ json \in Serves \cup {None} /\ AgentsOf(ag, proxy, snap)

Inv == lost \/ Kept

\* Every takeover can make its snapshot, and an "on" runs alone.
Sound == Faults \subseteq {"partial", "store"}

LEMMA NoHole == Sound => Faults \cap {"nosnap", "unread", "overlap"} = {}
  BY DEF Sound

-----------------------------------------------------------------------------
(* Agents and how they change                                              *)

LEMMA IdleOf ==
    ASSUME NEW p, NEW n
    PROVE  Idle \in AgentType /\ AgentOf(Idle, p, n) /\ Idle.job # "on" /\ Idle.pc = "idle"
  BY DEF Idle, AgentType, AgentOf, Places, Taking, Phases, Jobs, Errs

LEMMA HookOf ==
    ASSUME NEW s \in Serves, NEW p, NEW n
    PROVE  ExitHook(s) \in AgentType /\ AgentOf(ExitHook(s), p, n) /\ ExitHook(s).job = "exit"
  BY DEF ExitHook, Begin, Idle, AgentType, AgentOf, Places, Taking, Phases, Jobs, Errs

LEMMA BeginOf ==
    ASSUME NEW pc \in {"load", "snapcheck"}, NEW phase \in {"reconcile", "take", "release"},
           NEW job \in Jobs, NEW s \in Serves \cup {None}, NEW p, NEW n,
           pc = "snapcheck" => job = "on", phase = "release" => job # "on"
    PROVE  /\ Begin(pc, phase, job, s) \in AgentType /\ AgentOf(Begin(pc, phase, job, s), p, n)
           /\ Begin(pc, phase, job, s).job = job
  BY DEF Begin, Idle, AgentType, AgentOf, Places, Taking, Phases, Jobs, Errs

\* How the proxy and the snapshot may change beside an agent: the user's
\* setting is not overwritten, or the snapshot deleted while nobody counts on
\* it.
Harmless(r, p, n, p2, n2) ==
    \/ r = Idle
    \/ (p \in Users => p2 \in Users) /\ n2 = n
    \/ p2 = p /\ n2 = None /\ r.pc # "take"

LEMMA BesideOf ==
    ASSUME NEW r, NEW p, NEW n, NEW p2, NEW n2, AgentOf(r, p, n), Harmless(r, p, n, p2, n2)
    PROVE  AgentOf(r, p2, n2)
  <1>1. CASE r = Idle BY <1>1, IdleOf
  <1>2. CASE r # Idle BY <1>2 DEF AgentOf, Harmless
  <1> QED BY <1>1, <1>2

\* An agent at work takes a step of its job, or ends it.
LEMMA OneAgent ==
    ASSUME NEW A, NEW p, NEW n, NEW p2, NEW n2, AgentsOf(A, p, n),
           NEW a \in Agents, NEW r \in AgentType, AgentOf(r, p2, n2),
           r = Idle \/ (r.job = A[a].job /\ A[a] # Idle),
           A[a].phase = "rollback" => r = Idle \/ r.phase = "rollback",
           \A b \in Agents \ {a} : Harmless(A[b], p, n, p2, n2)
    PROVE  AgentsOf([A EXCEPT ![a] = r], p2, n2)
  <1> DEFINE B == [A EXCEPT ![a] = r]
  <1>1. B \in [Agents -> AgentType] /\ B[a] = r /\ \A b \in Agents \ {a} : B[b] = A[b]
    BY DEF AgentsOf
  <1> HIDE DEF B
  <1>2. \A b \in Agents : AgentOf(B[b], p2, n2)
    <2>1. ASSUME NEW b \in Agents \ {a} PROVE AgentOf(A[b], p2, n2)
      <3>1. AgentOf(A[b], p, n) BY DEF AgentsOf
      <3> QED BY <3>1, BesideOf
    <2> QED BY <2>1, <1>1
  <1>3. OnAlone(B)
    <2> SUFFICES ASSUME NEW x \in Agents, NEW y \in Agents, x # y, B[x].job = "on"
                 PROVE  B[y] = Idle \/ (B[x].phase = "rollback" /\ B[y].job = "exit")
      BY DEF OnAlone
    <2>1. A[x].job = "on" BY <1>1, IdleOf
    <2>2. A[y] = Idle \/ (A[x].phase = "rollback" /\ A[y].job = "exit")
      BY <2>1 DEF AgentsOf, OnAlone
    <2>3. CASE x = a BY <1>1, <2>2, <2>3, IdleOf
    <2>4. CASE y = a BY <1>1, <2>2, <2>4
    <2> QED BY <1>1, <2>2, <2>3, <2>4
  <1>4. AgentsOf(B, p2, n2) BY <1>1, <1>2, <1>3 DEF AgentsOf
  <1> QED BY <1>4 DEF B

\* An agent begins a job: an "on" while all the others rest, any other one
\* beside no "on", an exit hook beside one that rolls back.
LEMMA OneBegins ==
    ASSUME NEW A, NEW p, NEW n, AgentsOf(A, p, n),
           NEW a \in Agents, NEW r \in AgentType, AgentOf(r, p, n),
           r.job = "on" => \A b \in Agents \ {a} : A[b] = Idle,
           \A b \in Agents \ {a} : A[b].job = "on" => A[b].phase = "rollback" /\ r.job = "exit"
    PROVE  AgentsOf([A EXCEPT ![a] = r], p, n)
  <1> DEFINE B == [A EXCEPT ![a] = r]
  <1>1. B \in [Agents -> AgentType] /\ B[a] = r /\ \A b \in Agents \ {a} : B[b] = A[b]
    BY DEF AgentsOf
  <1> HIDE DEF B
  <1>2. \A b \in Agents : AgentOf(B[b], p, n) BY <1>1 DEF AgentsOf
  <1>3. OnAlone(B)
    <2> SUFFICES ASSUME NEW x \in Agents, NEW y \in Agents, x # y, B[x].job = "on"
                 PROVE  B[y] = Idle \/ (B[x].phase = "rollback" /\ B[y].job = "exit")
      BY DEF OnAlone
    <2>1. CASE x = a BY <1>1, <2>1
    <2>2. CASE y = a BY <1>1, <2>2
    <2>3. CASE x # a /\ y # a BY <1>1, <2>3 DEF AgentsOf, OnAlone
    <2> QED BY <2>1, <2>2, <2>3
  <1>4. AgentsOf(B, p, n) BY <1>1, <1>2, <1>3 DEF AgentsOf
  <1> QED BY <1>4 DEF B

LEMMA DeathKeeps ==
    ASSUME NEW A, NEW p, NEW n, AgentsOf(A, p, n), NEW s
    PROVE  AgentsOf(WithoutServe(A, s), p, n)
  <1> DEFINE B == WithoutServe(A, s)
  <1>1. \A b \in Agents : B[b] = Idle \/ B[b] = A[b] BY DEF WithoutServe
  <1>2. B \in [Agents -> AgentType] BY IdleOf DEF WithoutServe, AgentsOf
  <1> HIDE DEF B
  <1>3. \A b \in Agents : AgentOf(B[b], p, n) BY <1>1, IdleOf DEF AgentsOf
  <1>4. OnAlone(B) BY <1>1, IdleOf DEF AgentsOf, OnAlone
  <1>5. AgentsOf(B, p, n) BY <1>2, <1>3, <1>4 DEF AgentsOf
  <1> QED BY <1>5 DEF B

\* Stopping a serve while no "on" is under way but one that rolls back.
LEMMA StopKeeps ==
    ASSUME NEW p, NEW n, NEW s \in Serves \cup {None}, NEW A, AgentsOf(A, p, n),
           \A b \in Agents : A[b].job = "on" => A[b].phase = "rollback",
           StopServe(s, A)
    PROVE  AgentsOf(ag', p, n)
  <1>1. CASE ag' = A BY <1>1
  <1>2. CASE ag' = WithoutServe(A, s) BY <1>2, DeathKeeps
  <1>3. CASE s # None /\ ag' = [A EXCEPT ![s] = ExitHook(s)]
    <2>1. s \in Serves /\ s \in Agents BY <1>3 DEF Agents
    <2>2. ExitHook(s) \in AgentType /\ AgentOf(ExitHook(s), p, n) /\ ExitHook(s).job = "exit"
      BY <2>1, HookOf
    <2> QED BY <1>3, <2>1, <2>2, OneBegins
  <1> QED BY <1>1, <1>2, <1>3 DEF StopServe

-----------------------------------------------------------------------------
(* Restoring                                                               *)

\* What an agent does after a restore: it goes on with its job, or is idle.
LEMMA AfterOf ==
    ASSUME Kept, NEW a \in Agents, NEW e \in Errs, NEW p, NEW n,
           e # "no" \/ p \in Users \/ ag[a].phase \in {"reconcile", "rollback", "stop"}
    PROVE  /\ AfterRestore(a, e) \in AgentType /\ AgentOf(AfterRestore(a, e), p, n)
           /\ AfterRestore(a, e) = Idle \/ AfterRestore(a, e).job = ag[a].job
           /\ ag[a].phase = "rollback" => AfterRestore(a, e) = Idle
  <1> DEFINE r == [ag[a] EXCEPT !.err = e, !.got = None]
             m == [r EXCEPT !.err = "no"]
             R == AfterRestore(a, e)
  <1>1. ag[a] \in AgentType /\ (ag[a].phase = "release" => ag[a].job # "on")
    BY DEF Kept, AgentsOf, AgentOf
  <1>2. r \in AgentType /\ r.job = ag[a].job /\ r.phase = ag[a].phase /\ r.err = e
    BY <1>1 DEF AgentType, Errs
  <1>m. m \in AgentType /\ m.job = ag[a].job /\ m.phase = ag[a].phase
    BY <1>1 DEF AgentType, Errs
  <1>3. \/ R = Idle
        \/ /\ r.phase = "reconcile"
           /\ \/ r.job = "on" /\ R = [m EXCEPT !.pc = "check"]
              \/ r.job = "off" /\ R = [m EXCEPT !.pc = "load", !.phase = "release"]
        \/ r.phase = "release" /\ R = [r EXCEPT !.pc = "stop"]
        \/ r.phase = "release" /\ R = [m EXCEPT !.pc = "shutdown"]
        \/ r.phase = "hook1" /\ R = [m EXCEPT !.pc = "close"]
        \/ r.phase = "hook2" /\ R = [r EXCEPT !.pc = "exit"]
    BY <1>1 DEF AfterRestore
  <1> HIDE DEF r, m, R
  <1>4. CASE R = Idle BY <1>4, IdleOf DEF R
  <1>5. CASE r.phase = "reconcile" /\ r.job = "on" /\ R = [m EXCEPT !.pc = "check"]
    <2>1. R \in AgentType /\ R.pc = "check" /\ R.job = m.job /\ R.phase = m.phase
      BY <1>m, <1>5 DEF AgentType, Places, Taking
    <2>2. AgentOf(R, p, n) BY <2>1, <1>2, <1>m, <1>5 DEF AgentOf, Taking
    <2> QED BY <2>1, <2>2, <1>2, <1>m, <1>5 DEF R
  <1>6. CASE r.phase = "reconcile" /\ r.job = "off" /\ R = [m EXCEPT !.pc = "load", !.phase = "release"]
    <2>1. R \in AgentType /\ R.pc = "load" /\ R.job = m.job /\ R.phase = "release"
      BY <1>m, <1>6 DEF AgentType, Places, Phases
    <2>2. AgentOf(R, p, n) BY <2>1, <1>2, <1>m, <1>6 DEF AgentOf, Taking
    <2> QED BY <2>1, <2>2, <1>2, <1>m, <1>6 DEF R
  <1>7. ASSUME NEW l \in {"shutdown", "close"}, R = [m EXCEPT !.pc = l],
               r.phase \in {"release", "hook1"}
        PROVE  R \in AgentType /\ AgentOf(R, p, n) /\ R.job = ag[a].job /\ ag[a].phase # "rollback"
    <2>1. R \in AgentType /\ R.pc = l /\ R.job = m.job /\ R.phase = m.phase
      BY <1>m, <1>7 DEF AgentType, Places
    <2>2. AgentOf(R, p, n) BY <2>1, <1>1, <1>2, <1>m, <1>7 DEF AgentOf, Taking
    <2> QED BY <2>1, <2>2, <1>2, <1>m, <1>7
  <1>8. ASSUME NEW l \in {"stop", "exit"}, R = [r EXCEPT !.pc = l],
               r.phase \in {"release", "hook2"}, l = "stop" => r.phase = "release"
        PROVE  R \in AgentType /\ AgentOf(R, p, n) /\ R.job = ag[a].job /\ ag[a].phase # "rollback"
    <2>1. R \in AgentType /\ R.pc = l /\ R.job = r.job /\ R.phase = r.phase /\ R.err = e
      BY <1>2, <1>8 DEF AgentType, Places
    <2>2. AgentOf(R, p, n) BY <2>1, <1>1, <1>2, <1>8 DEF AgentOf, Taking
    <2> QED BY <2>1, <2>2, <1>2, <1>8
  <1> QED BY <1>3, <1>4, <1>5, <1>6, <1>7, <1>8 DEF R

\* Nobody but the agent itself counts on an unchanged proxy or snapshot.
LEMMA BesideSame ==
    ASSUME NEW A, NEW p, NEW n, NEW a, NEW p2, p \in Users => p2 \in Users
    PROVE  \A b \in Agents \ {a} : Harmless(A[b], p, n, p2, n)
  BY DEF Harmless

\* While an agent that is not rolling back is at work, no other one is taking.
LEMMA BesideDelete ==
    ASSUME Kept, NEW a \in Agents, ag[a] # Idle, NEW n2 \in {None, snap}
    PROVE  \A b \in Agents \ {a} : Harmless(ag[b], proxy, snap, proxy, n2)
  <1> SUFFICES ASSUME NEW b \in Agents \ {a}, ag[b].pc = "take" PROVE FALSE
    BY DEF Harmless
  <1>1. AgentOf(ag[b], proxy, snap) /\ OnAlone(ag) BY DEF Kept, AgentsOf
  <1>2. ag[b].job = "on" /\ ag[b].phase # "rollback" BY <1>1 DEF AgentOf, Taking
  <1> QED BY <1>1, <1>2 DEF OnAlone

\* An Apply that fails leaves a setting, and of the user's one over the
\* user's a user's.
LEMMA LeftOf ==
    ASSUME NEW v \in Settings, proxy \in Settings, NEW p \in LeftBy(v)
    PROVE  p \in Settings /\ (v \in Users /\ proxy \in Users => p \in Users)
  <1>1. Written(v) \in Settings /\ (v \in Users => Written(v) \in Users)
    BY TakeoverAssumption DEF Written, Settings
  <1> QED BY <1>1 DEF LeftBy, Settings

LEMMA StepRestore ==
    ASSUME Kept, Sound, NEW a \in Agents, Restore(a)
    PROVE  Kept'
  <1>0. /\ ag[a] \in AgentType /\ AgentOf(ag[a], proxy, snap) /\ AgentsOf(ag, proxy, snap)
        /\ FilesOK(proxy, snap) /\ json \in Serves \cup {None}
    BY DEF Kept, AgentsOf
  <1>a. ASSUME ag[a].pc # "idle" PROVE ag[a] # Idle BY <1>a, IdleOf
  <1>1. CASE LoadSnap(a)
    <2>1. ag[a].pc = "load" /\ ag[a].phase # "rollback" /\ ag[a] # Idle
      BY <1>0, <1>1, <1>a DEF LoadSnap, At, AgentOf
    <2>2. UNCHANGED <<proxy, snap, json>> BY <1>1 DEF LoadSnap, files
    <2>3. CASE snap = None
      <3>1. ag' = [ag EXCEPT ![a] = AfterRestore(a, "no")] BY <1>1, <2>3 DEF LoadSnap, Restored
      <3>2. proxy \in Users BY <1>0, <2>3, TakeoverAssumption DEF FilesOK, Settings
      <3>3. AfterRestore(a, "no") \in AgentType /\ AgentOf(AfterRestore(a, "no"), proxy, snap)
            /\ (AfterRestore(a, "no") = Idle \/ AfterRestore(a, "no").job = ag[a].job)
        BY <3>2, AfterOf DEF Errs
      <3>4. AgentsOf(ag', proxy, snap) BY <1>0, <2>1, <3>1, <3>3, OneAgent, BesideSame
      <3> QED BY <1>0, <2>2, <3>4 DEF Kept
    <2>4. CASE snap # None
      <3> DEFINE l == IF ag[a].phase = "reconcile" THEN "alive" ELSE "apply"
                 r == [ag[a] EXCEPT !.got = snap, !.pc = l]
      <3>1. ag' = [ag EXCEPT ![a] = r] BY <1>0, <1>1, <2>4 DEF LoadSnap, AgentsOf
      <3>2. snap \in Users BY <1>0, <2>4 DEF FilesOK
      <3>3. /\ r \in AgentType /\ r.job = ag[a].job /\ r.got \in Users /\ r.pc \in {"alive", "apply"}
            /\ r.phase = ag[a].phase /\ (r.pc = "alive" => r.phase = "reconcile")
        BY <1>0, <3>2 DEF AgentType, Places, Settings
      <3> HIDE DEF r
      <3>4. AgentOf(r, proxy, snap) BY <1>0, <2>1, <3>3 DEF AgentOf, Taking
      <3>5. AgentsOf(ag', proxy, snap) BY <1>0, <2>1, <3>1, <3>3, <3>4, OneAgent, BesideSame
      <3> QED BY <1>0, <2>2, <3>5 DEF Kept
    <2> QED BY <2>3, <2>4
  <1>s. CASE SkipRestore(a)
    <2>1. ag[a].pc = "load" /\ ag[a].phase # "rollback" /\ ag[a] # Idle
      BY <1>0, <1>s, <1>a DEF SkipRestore, At, AgentOf
    <2>2. UNCHANGED <<proxy, snap, json>> /\ ag' = [ag EXCEPT ![a] = AfterRestore(a, "silent")]
      BY <1>s DEF SkipRestore, files, Restored
    <2>3. AfterRestore(a, "silent") \in AgentType /\ AgentOf(AfterRestore(a, "silent"), proxy, snap)
          /\ (AfterRestore(a, "silent") = Idle \/ AfterRestore(a, "silent").job = ag[a].job)
      BY AfterOf DEF Errs
    <2>4. AgentsOf(ag', proxy, snap) BY <1>0, <2>1, <2>2, <2>3, OneAgent, BesideSame
    <2> QED BY <1>0, <2>2, <2>4 DEF Kept
  <1>2. CASE CheckAlive(a)
    <2>1. ag[a].pc = "alive" /\ ag[a].phase = "reconcile" /\ ag[a] # Idle
      BY <1>0, <1>2, <1>a DEF CheckAlive, At, AgentOf
    <2>2. UNCHANGED <<proxy, snap, json>> BY <1>2 DEF CheckAlive, files
    <2>3. CASE Alive(json)
      <3>1. ag' = [ag EXCEPT ![a] = AfterRestore(a, "no")] BY <1>2, <2>3 DEF CheckAlive, Restored
      <3>2. AfterRestore(a, "no") \in AgentType /\ AgentOf(AfterRestore(a, "no"), proxy, snap)
            /\ (AfterRestore(a, "no") = Idle \/ AfterRestore(a, "no").job = ag[a].job)
        BY <2>1, AfterOf DEF Errs
      <3>3. AgentsOf(ag', proxy, snap) BY <1>0, <2>1, <3>1, <3>2, OneAgent, BesideSame
      <3> QED BY <1>0, <2>2, <3>3 DEF Kept
    <2>4. CASE ~Alive(json)
      <3> DEFINE r == [ag[a] EXCEPT !.pc = "apply"]
      <3>1. ag' = [ag EXCEPT ![a] = r] BY <1>0, <1>2, <2>4 DEF CheckAlive, Goto, AgentsOf
      <3>2. /\ r \in AgentType /\ r.job = ag[a].job /\ r.got = ag[a].got /\ r.pc = "apply"
            /\ r.phase = ag[a].phase
        BY <1>0 DEF AgentType, Places
      <3> HIDE DEF r
      <3>3. AgentOf(r, proxy, snap) BY <1>0, <2>1, <3>2 DEF AgentOf, Taking
      <3>4. AgentsOf(ag', proxy, snap) BY <1>0, <2>1, <3>1, <3>2, <3>3, OneAgent, BesideSame
      <3> QED BY <1>0, <2>2, <3>4 DEF Kept
    <2> QED BY <2>3, <2>4
  <1>3. CASE ApplyOk(a)
    <2> DEFINE r == [ag[a] EXCEPT !.pc = "delete", !.got = None]
    <2>1. ag[a].pc = "apply" /\ ag[a].phase # "rollback" /\ ag[a].got \in Users /\ ag[a] # Idle
      BY <1>0, <1>3, <1>a DEF ApplyOk, At, AgentOf
    <2>2. proxy' \in Users /\ UNCHANGED <<snap, json>> /\ ag' = [ag EXCEPT ![a] = r]
      BY <1>0, <1>3, <2>1, TakeoverAssumption DEF ApplyOk, AgentsOf, Written
    <2>3. /\ r \in AgentType /\ r.job = ag[a].job /\ r.pc = "delete"
          /\ r.phase = ag[a].phase
      BY <1>0 DEF AgentType, Places
    <2> HIDE DEF r
    <2>4. AgentOf(r, proxy', snap) BY <1>0, <2>1, <2>2, <2>3 DEF AgentOf, Taking
    <2>5. AgentsOf(ag', proxy', snap)
      BY <1>0, <2>1, <2>2, <2>3, <2>4, OneAgent, BesideSame
    <2>6. FilesOK(proxy', snap) BY <1>0, <2>2 DEF FilesOK, Settings
    <2> QED BY <1>0, <2>2, <2>5, <2>6 DEF Kept
  <1>4. CASE ApplyFail(a)
    <2>1. ag[a].pc = "apply" /\ ag[a].phase # "rollback" /\ ag[a] # Idle /\ ag[a].got \in Users
      BY <1>0, <1>4, <1>a DEF ApplyFail, At, AgentOf
    <2>2. /\ proxy' \in LeftBy(ag[a].got) /\ UNCHANGED <<snap, json>>
          /\ ag' = [ag EXCEPT ![a] = AfterRestore(a, "told")]
      BY <1>4 DEF ApplyFail, Restored
    <2>3. proxy' \in Settings /\ (proxy \in Users => proxy' \in Users)
      BY <1>0, <2>1, <2>2, LeftOf DEF FilesOK, Settings
    <2>4. AfterRestore(a, "told") \in AgentType /\ AgentOf(AfterRestore(a, "told"), proxy', snap)
          /\ (AfterRestore(a, "told") = Idle \/ AfterRestore(a, "told").job = ag[a].job)
      BY AfterOf DEF Errs
    <2>5. \A b \in Agents \ {a} : Harmless(ag[b], proxy, snap, proxy', snap)
      BY <2>3 DEF Harmless
    <2>6. AgentsOf(ag', proxy', snap) BY <1>0, <2>1, <2>2, <2>4, <2>5, OneAgent
    <2>7. FilesOK(proxy', snap) BY <1>0, <2>3 DEF FilesOK
    <2> QED BY <1>0, <2>2, <2>6, <2>7 DEF Kept
  <1>5. CASE DeleteSnap(a)
    <2>1. ag[a].pc = "delete" /\ ag[a].phase # "rollback" /\ proxy \in Users /\ ag[a] # Idle
      BY <1>0, <1>5, <1>a DEF DeleteSnap, At, AgentOf
    <2>2. snap' \in {None, snap} /\ UNCHANGED <<proxy, json>> BY <1>5 DEF DeleteSnap, Deleted
    <2>3. \A b \in Agents \ {a} : Harmless(ag[b], proxy, snap, proxy, snap')
      BY <2>1, <2>2, BesideDelete
    <2>4. FilesOK(proxy, snap') BY <1>0, <2>1, <2>2 DEF FilesOK
    <2>5. CASE ag[a].phase = "release"
      <3>1. ag' = [ag EXCEPT ![a] = AfterRestore(a, "no")] BY <1>5, <2>5 DEF DeleteSnap, Restored
      <3>2. AfterRestore(a, "no") \in AgentType /\ AgentOf(AfterRestore(a, "no"), proxy, snap')
            /\ (AfterRestore(a, "no") = Idle \/ AfterRestore(a, "no").job = ag[a].job)
        BY <2>1, AfterOf DEF Errs
      <3>3. AgentsOf(ag', proxy, snap') BY <1>0, <2>1, <2>3, <3>1, <3>2, OneAgent
      <3> QED BY <1>0, <2>2, <2>4, <3>3 DEF Kept
    <2>6. CASE ag[a].phase # "release"
      <3> DEFINE r == [ag[a] EXCEPT !.pc = "rmjson"]
      <3>1. ag' = [ag EXCEPT ![a] = r] BY <1>0, <1>5, <2>6 DEF DeleteSnap, Goto, AgentsOf
      <3>2. r \in AgentType /\ r.job = ag[a].job /\ r.pc = "rmjson" /\ r.phase = ag[a].phase
        BY <1>0 DEF AgentType, Places
      <3> HIDE DEF r
      <3>3. AgentOf(r, proxy, snap') BY <1>0, <2>1, <2>6, <3>2 DEF AgentOf, Taking
      <3>4. AgentsOf(ag', proxy, snap') BY <1>0, <2>1, <2>3, <3>1, <3>2, <3>3, OneAgent
      <3> QED BY <1>0, <2>2, <2>4, <3>4 DEF Kept
    <2> QED BY <2>5, <2>6
  <1>6. CASE RemoveJson(a)
    <2> DEFINE R1 == AfterRestore(a, ag[a].err)
    <2>1. /\ ag[a].pc = "rmjson" /\ ag[a] # Idle
          /\ proxy \in Users \/ ag[a].phase \in {"rollback", "stop"}
      BY <1>0, <1>6, <1>a DEF RemoveJson, At, AgentOf
    <2>2. json' = None /\ UNCHANGED <<proxy, snap>> /\ ag' = [ag EXCEPT ![a] = R1]
      BY <1>6 DEF RemoveJson, Restored
    <2>3. ag[a].err \in Errs BY <1>0 DEF AgentType
    <2>4. R1 \in AgentType /\ AgentOf(R1, proxy, snap) /\ (R1 = Idle \/ R1.job = ag[a].job)
          /\ (ag[a].phase = "rollback" => R1 = Idle)
      BY <2>1, <2>3, AfterOf
    <2> HIDE DEF R1
    <2>5. AgentsOf(ag', proxy, snap) BY <1>0, <2>1, <2>2, <2>4, OneAgent, BesideSame
    <2> QED BY <1>0, <2>2, <2>5 DEF Kept
  <1> QED BY <1>1, <1>s, <1>2, <1>3, <1>4, <1>5, <1>6 DEF Restore

-----------------------------------------------------------------------------
(* Taking over                                                             *)

\* An agent of an "on" moves on to a place that asks for nothing more, or
\* ends, while the files keep what they hold.
LEMMA MoveOn ==
    ASSUME Kept, NEW a \in Agents, ag[a].pc \in Taking, NEW r,
           UNCHANGED <<proxy, snap>>, json' \in Serves \cup {None}, ag' = [ag EXCEPT ![a] = r],
           r = Idle \/ (r \in AgentType /\ AgentOf(r, proxy, snap) /\ r.job = "on")
    PROVE  Kept'
  <1>1. AgentOf(ag[a], proxy, snap) /\ AgentsOf(ag, proxy, snap) /\ FilesOK(proxy, snap)
    BY DEF Kept, AgentsOf
  <1>2. ag[a].job = "on" /\ ag[a].phase # "rollback" /\ ag[a] # Idle
    BY <1>1, IdleOf DEF AgentOf, Taking
  <1>3. r \in AgentType /\ AgentOf(r, proxy, snap) BY IdleOf
  <1>4. AgentsOf(ag', proxy, snap) BY <1>1, <1>2, <1>3, OneAgent, BesideSame
  <1> QED BY <1>1, <1>4 DEF Kept

\* Beside an agent that is taking everybody rests.
LEMMA TakerAlone ==
    ASSUME Kept, NEW a \in Agents, ag[a].pc \in Taking
    PROVE  \A b \in Agents \ {a} : ag[b] = Idle
  <1>1. AgentOf(ag[a], proxy, snap) /\ OnAlone(ag) BY DEF Kept, AgentsOf
  <1>2. ag[a].job = "on" /\ ag[a].phase # "rollback" BY <1>1 DEF AgentOf, Taking
  <1> QED BY <1>1, <1>2 DEF OnAlone

LEMMA StepTake ==
    ASSUME Kept, Sound, NEW a \in Agents, Take(a)
    PROVE  Inv'
  <1>0. /\ ag[a] \in AgentType /\ AgentOf(ag[a], proxy, snap) /\ AgentsOf(ag, proxy, snap)
        /\ FilesOK(proxy, snap) /\ json \in Serves \cup {None} /\ ag \in [Agents -> AgentType]
    BY DEF Kept, AgentsOf
  <1>t. ASSUME ag[a].pc \in Taking
        PROVE  ag[a].job = "on" /\ ag[a].phase \notin {"rollback", "release"} /\ ag[a] # Idle
    BY <1>0, <1>t, IdleOf DEF AgentOf, Taking
  <1>1. CASE SnapCheck(a)
    <2> DEFINE l == IF snap = None THEN "current" ELSE "take"
               r == [ag[a] EXCEPT !.fresh = (snap = None), !.pc = l]
    <2>1. ag[a].pc = "snapcheck" /\ ag[a].pc \in Taking BY <1>1 DEF SnapCheck, At, Taking
    <2>2. ag' = [ag EXCEPT ![a] = r] /\ UNCHANGED <<proxy, snap, json>>
      <3>1. PICK none \in BOOLEAN, k \in {"current", "take"} :
               /\ none = (snap = None) /\ k = IF none THEN "current" ELSE "take"
               /\ ag' = [ag EXCEPT ![a].fresh = none, ![a].pc = k]
        BY <1>1, NoHole DEF SnapCheck
      <3> QED BY <1>0, <1>1, <3>1 DEF SnapCheck, files
    <2>3. /\ r \in AgentType /\ r.job = ag[a].job /\ r.phase = ag[a].phase /\ r.fresh = (snap = None)
          /\ r.pc = IF snap = None THEN "current" ELSE "take"
      BY <1>0 DEF AgentType, Places, Taking
    <2> HIDE DEF r
    <2>4. AgentOf(r, proxy, snap) BY <1>0, <1>t, <2>1, <2>3 DEF AgentOf, Taking, FilesOK
    <2> QED BY <1>0, <1>t, <2>1, <2>2, <2>3, <2>4, MoveOn DEF Inv
  <1>2. CASE ReadCurrent(a)
    <2> DEFINE r == [ag[a] EXCEPT !.got = proxy, !.pc = "savesnap"]
    <2>1. ag[a].pc = "current" /\ ag[a].pc \in Taking BY <1>2 DEF ReadCurrent, At, Taking
    <2>2. ag' = [ag EXCEPT ![a] = r] /\ UNCHANGED <<proxy, snap, json>>
      BY <1>0, <1>2, NoHole DEF ReadCurrent, files
    <2>3. proxy \in Users /\ snap = None /\ ag[a].fresh
      BY <1>0, <2>1, TakeoverAssumption DEF AgentOf, FilesOK, Settings
    <2>4. /\ r \in AgentType /\ r.job = ag[a].job /\ r.phase = ag[a].phase /\ r.fresh = ag[a].fresh
          /\ r.pc = "savesnap" /\ r.got \in Users
      BY <1>0, <2>3 DEF AgentType, Places, Taking, Settings
    <2> HIDE DEF r
    <2>5. AgentOf(r, proxy, snap) BY <1>t, <2>1, <2>3, <2>4 DEF AgentOf
    <2> QED BY <1>0, <1>t, <2>1, <2>2, <2>4, <2>5, MoveOn DEF Inv
  <1>3. CASE SaveSnap(a)
    <2>1. ag[a].pc = "savesnap" /\ ag[a].pc \in Taking BY <1>3 DEF SaveSnap, At, Taking
    <2>2. ag[a].got \in Users /\ snap = None /\ proxy \in Users
      BY <1>0, <2>1, TakeoverAssumption DEF AgentOf, FilesOK, Settings
    <2>3. PICK saved \in BOOLEAN :
             /\ snap' = IF saved THEN ag[a].got ELSE snap
             /\ ag' = [ag EXCEPT ![a].pc = IF saved THEN "take" ELSE "failed", ![a].got = None]
      BY <1>3 DEF SaveSnap
    <2> DEFINE r == [ag[a] EXCEPT !.pc = IF saved THEN "take" ELSE "failed", !.got = None]
    <2>4. snap' \in {None} \cup Users /\ UNCHANGED <<proxy, json>> /\ ag' = [ag EXCEPT ![a] = r]
      BY <1>0, <1>3, <2>2, <2>3 DEF SaveSnap
    <2>5. /\ r \in AgentType /\ r.job = ag[a].job /\ r.phase = ag[a].phase
          /\ r.pc = "failed" \/ (r.pc = "take" /\ snap' \in Users)
      BY <1>0, <2>2, <2>3 DEF AgentType, Places, Taking
    <2> HIDE DEF r
    <2>6. AgentOf(r, proxy, snap') BY <1>t, <2>1, <2>5 DEF AgentOf
    <2>7. \A b \in Agents \ {a} : Harmless(ag[b], proxy, snap, proxy, snap')
      BY <2>1, TakerAlone DEF Harmless
    <2>8. AgentsOf(ag', proxy, snap') BY <1>0, <1>t, <2>1, <2>4, <2>5, <2>6, <2>7, OneAgent
    <2>9. FilesOK(proxy, snap') BY <1>0, <2>2, <2>4 DEF FilesOK
    <2> QED BY <1>0, <2>4, <2>8, <2>9 DEF Kept, Inv
  <1>4. CASE TakeOk(a)
    <2>1. ag[a].pc = "take" /\ ag[a].pc \in Taking /\ snap \in Users
      BY <1>0, <1>4 DEF TakeOk, At, Taking, AgentOf
    <2>2. proxy' = "ghydra" /\ UNCHANGED <<snap, json>> /\ ag' = [ag EXCEPT ![a] = Idle]
      BY <1>4 DEF TakeOk
    <2>3. \A b \in Agents \ {a} : Harmless(ag[b], proxy, snap, proxy', snap)
      BY <2>1, TakerAlone DEF Harmless
    <2>4. AgentsOf(ag', proxy', snap) BY <1>0, <2>2, <2>3, OneAgent, IdleOf
    <2>5. FilesOK(proxy', snap) BY <2>1, <2>2 DEF FilesOK, Settings
    <2> QED BY <1>0, <2>2, <2>4, <2>5 DEF Kept, Inv
  <1>5. CASE TakeFail(a)
    <2> DEFINE r == [ag[a] EXCEPT !.pc = IF ag[a].fresh THEN "undo" ELSE "failed"]
    <2>1. ag[a].pc = "take" /\ ag[a].pc \in Taking /\ snap \in Users
      BY <1>0, <1>5 DEF TakeFail, At, Taking, AgentOf
    <2>2. proxy' \in LeftBy("ghydra") /\ UNCHANGED <<snap, json>> /\ ag' = [ag EXCEPT ![a] = r]
      BY <1>0, <1>5 DEF TakeFail, Goto
    <2>3. /\ r \in AgentType /\ r.job = ag[a].job /\ r.phase = ag[a].phase
          /\ r.pc = IF ag[a].fresh THEN "undo" ELSE "failed"
          /\ r.fresh = ag[a].fresh
      BY <1>0 DEF AgentType, Places, Taking
    <2> HIDE DEF r
    <2>4. AgentOf(r, proxy', snap) BY <1>0, <1>t, <2>1, <2>3 DEF AgentOf
    <2>5. \A b \in Agents \ {a} : Harmless(ag[b], proxy, snap, proxy', snap)
      BY <2>1, TakerAlone DEF Harmless
    <2>6. AgentsOf(ag', proxy', snap) BY <1>0, <1>t, <2>1, <2>2, <2>3, <2>4, <2>5, OneAgent
    <2>7. FilesOK(proxy', snap)
      <3>1. proxy \in Settings /\ "ghydra" \in Settings BY <1>0 DEF FilesOK, Settings
      <3>2. proxy' \in Settings BY <2>2, <3>1, LeftOf
      <3> QED BY <2>1, <3>2 DEF FilesOK
    <2> QED BY <1>0, <2>2, <2>6, <2>7 DEF Kept, Inv
  <1>6. CASE UndoSnap(a)
    <2> DEFINE r == [ag[a] EXCEPT !.pc = "failed", !.fresh = FALSE]
    <2>1. ag[a].pc = "undo" /\ ag[a].pc \in Taking /\ ag[a].fresh
      BY <1>0, <1>6 DEF UndoSnap, At, Taking, AgentOf
    <2>2. /\ snap' \in {None, snap} /\ UNCHANGED <<proxy, json>> /\ ag' = [ag EXCEPT ![a] = r]
          /\ lost' = (lost \/ (ag[a].fresh /\ snap' = None /\ proxy \notin Users))
      BY <1>0, <1>6 DEF UndoSnap, Deleted
    <2>3. CASE snap' = None /\ proxy \notin Users BY <2>1, <2>2, <2>3 DEF Inv
    <2>4. CASE snap' # None \/ proxy \in Users
      <3>1. r \in AgentType /\ r.job = ag[a].job /\ r.phase = ag[a].phase /\ r.pc = "failed"
        BY <1>0 DEF AgentType, Places, Taking
      <3> HIDE DEF r
      <3>2. AgentOf(r, proxy, snap') BY <1>t, <2>1, <3>1 DEF AgentOf
      <3>3. \A b \in Agents \ {a} : Harmless(ag[b], proxy, snap, proxy, snap')
        BY <2>1, TakerAlone DEF Harmless
      <3>4. AgentsOf(ag', proxy, snap') BY <1>0, <1>t, <2>1, <2>2, <3>1, <3>2, <3>3, OneAgent
      <3>5. FilesOK(proxy, snap') BY <1>0, <2>2, <2>4 DEF FilesOK
      <3> QED BY <1>0, <2>2, <3>4, <3>5 DEF Kept, Inv
    <2> QED BY <2>3, <2>4
  <1>7. CASE TakeoverFailed(a)
    <2>1. ag[a].pc = "failed" /\ ag[a].pc \in Taking BY <1>7 DEF TakeoverFailed, At, Taking
    <2>2. UNCHANGED <<proxy, snap, json>> BY <1>7 DEF TakeoverFailed, files
    <2>3. CASE a = "api"
      <3>1. ag' = [ag EXCEPT ![a] = Idle] BY <1>7, <2>3 DEF TakeoverFailed
      <3> QED BY <1>0, <2>1, <2>2, <3>1, MoveOn DEF Inv
    <2>4. CASE a # "api"
      <3> DEFINE r == [ag[a] EXCEPT !.pc = "rmjson", !.phase = "rollback", !.serve = None]
                 A == [ag EXCEPT ![a] = r]
      <3>1. StopServe(ag[a].serve, A) BY <1>0, <1>7, <2>4 DEF TakeoverFailed
      <3>2. r \in AgentType /\ r.job = ag[a].job /\ r.phase = "rollback" /\ r.pc = "rmjson"
            /\ r.fresh = ag[a].fresh
        BY <1>0 DEF AgentType, Places, Phases
      <3> HIDE DEF r
      <3>3. AgentOf(r, proxy, snap) BY <1>0, <2>1, <3>2 DEF AgentOf, Taking
      <3>4. AgentsOf(A, proxy, snap) BY <1>0, <1>t, <2>1, <3>2, <3>3, OneAgent, BesideSame
      <3>5. \A b \in Agents : A[b].job = "on" => A[b].phase = "rollback"
        BY <1>0, <2>1, <3>2, TakerAlone, IdleOf
      <3>6. ag[a].serve \in Serves \cup {None} BY <1>0 DEF AgentType
      <3> HIDE DEF A
      <3>7. AgentsOf(ag', proxy, snap) BY <3>1, <3>4, <3>5, <3>6, StopKeeps
      <3> QED BY <1>0, <2>2, <3>7 DEF Kept, Inv
    <2> QED BY <2>3, <2>4
  <1> QED BY <1>1, <1>2, <1>3, <1>4, <1>5, <1>6, <1>7 DEF Take, Inv

-----------------------------------------------------------------------------
(* Jobs begin, processes come and go                                       *)

LEMMA Cast == "cli" \in Agents /\ "api" \in Agents /\ Serves \subseteq Agents
  BY DEF Agents

\* A job begins when nobody is in its way (MayBegin).
LEMMA StepBegins ==
    ASSUME Kept, Sound, NEW a \in Agents, NEW r \in AgentType, AgentOf(r, proxy, snap), MayBegin(r.job),
           UNCHANGED <<proxy, snap, json>>, ag' = [ag EXCEPT ![a] = r]
    PROVE  Kept'
  <1>1. \A b \in Agents : IF r.job = "on" THEN ag[b] = Idle ELSE ag[b].job # "on"
    BY NoHole DEF MayBegin
  <1>2. AgentsOf(ag, proxy, snap) /\ FilesOK(proxy, snap) /\ json \in Serves \cup {None} BY DEF Kept
  <1>3. \A b \in Agents \ {a} : ag[b].job = "on" => ag[b].phase = "rollback" /\ r.job = "exit"
    BY <1>1, IdleOf
  <1>4. r.job = "on" => \A b \in Agents \ {a} : ag[b] = Idle BY <1>1
  <1>5. AgentsOf(ag', proxy, snap) BY <1>2, <1>3, <1>4, OneBegins
  <1> QED BY <1>2, <1>5 DEF Kept

LEMMA StepCommand ==
    ASSUME Kept, Sound, NEW job \in {"on", "off", "status"}, Command(job)
    PROVE  Kept'
  <1> DEFINE r == Begin("load", "reconcile", job, None)
  <1>1. r \in AgentType /\ AgentOf(r, proxy, snap) /\ r.job = job BY BeginOf DEF Jobs
  <1>2. MayBegin(job) /\ UNCHANGED <<proxy, snap, json>> /\ ag' = [ag EXCEPT !["cli"] = r]
    BY DEF Command, files
  <1> HIDE DEF r
  <1> QED BY <1>1, <1>2, Cast, StepBegins

LEMMA StepStarts ==
    ASSUME Kept, Sound, NEW s \in Serves,
           Quit(s) \/ ApiOn(s) \/ ApiOff(s, "off") \/ ApiOff(s, "shutdown")
    PROVE  Kept'
  <1>1. ASSUME Quit(s) PROVE Kept'
    <2>1. ExitHook(s) \in AgentType /\ AgentOf(ExitHook(s), proxy, snap) /\ ExitHook(s).job = "exit"
      BY HookOf
    <2>2. MayBegin("exit") /\ UNCHANGED <<proxy, snap, json>> /\ ag' = [ag EXCEPT ![s] = ExitHook(s)]
      BY <1>1 DEF Quit, files
    <2> QED BY <2>1, <2>2, Cast, StepBegins
  <1>2. ASSUME ApiOn(s) PROVE Kept'
    <2> DEFINE r == Begin("snapcheck", "take", "on", s)
    <2>1. r \in AgentType /\ AgentOf(r, proxy, snap) /\ r.job = "on" BY BeginOf DEF Jobs
    <2>2. MayBegin("on") /\ UNCHANGED <<proxy, snap, json>> /\ ag' = [ag EXCEPT !["api"] = r]
      BY <1>2 DEF ApiOn, files
    <2> HIDE DEF r
    <2> QED BY <2>1, <2>2, Cast, StepBegins
  <1>3. ASSUME NEW job \in {"off", "shutdown"}, ApiOff(s, job) PROVE Kept'
    <2> DEFINE r == Begin("load", "release", job, s)
    <2>1. r \in AgentType /\ AgentOf(r, proxy, snap) /\ r.job = job BY BeginOf DEF Jobs
    <2>2. MayBegin(job) /\ UNCHANGED <<proxy, snap, json>> /\ ag' = [ag EXCEPT !["api"] = r]
      BY <1>3 DEF ApiOff, files
    <2> HIDE DEF r
    <2> QED BY <2>1, <2>2, Cast, StepBegins
  <1> QED BY <1>1, <1>2, <1>3

\* An agent ends its job, whatever it was.
LEMMA StepEnds ==
    ASSUME Kept, NEW a \in Agents, UNCHANGED <<proxy, snap, json>>, ag' = [ag EXCEPT ![a] = Idle]
    PROVE  Kept'
  <1>1. AgentsOf(ag, proxy, snap) /\ FilesOK(proxy, snap) /\ json \in Serves \cup {None} BY DEF Kept
  <1>2. AgentsOf(ag', proxy, snap) BY <1>1, IdleOf, OneAgent, BesideSame
  <1> QED BY <1>1, <1>2 DEF Kept

LEMMA StepServes ==
    ASSUME Kept, Sound, NEW s \in Serves,
           Launch(s) \/ Bind(s) \/ ServeUp(s) \/ CloseListener(s) \/ Exit(s) \/ KillServe(s)
    PROVE  Kept'
  <1>0. AgentsOf(ag, proxy, snap) /\ FilesOK(proxy, snap) /\ json \in Serves \cup {None}
    BY DEF Kept
  <1>1. CASE Launch(s) \/ Bind(s) \/ ServeUp(s)
    <2>1. UNCHANGED <<proxy, snap, ag>> /\ json' \in Serves \cup {None}
      BY <1>0, <1>1 DEF Launch, Bind, ServeUp, files
    <2> QED BY <1>0, <2>1 DEF Kept
  <1>2. CASE CloseListener(s)
    <2> DEFINE r == [ag[s] EXCEPT !.pc = "load", !.phase = "hook2"]
    <2>1. /\ ag[s] \in AgentType /\ AgentOf(ag[s], proxy, snap) /\ ag \in [Agents -> AgentType]
          /\ ag[s].pc = "close" /\ s \in Agents
      BY <1>0, <1>2, Cast DEF AgentsOf, CloseListener, At
    <2>2. ag[s].phase # "rollback" /\ ag[s] # Idle BY <2>1, IdleOf DEF AgentOf
    <2>3. UNCHANGED <<proxy, snap, json>> /\ ag' = [ag EXCEPT ![s] = r]
      BY <1>2, <2>1 DEF CloseListener, files
    <2>4. r \in AgentType /\ r.job = ag[s].job /\ r.pc = "load" /\ r.phase = "hook2"
      BY <2>1 DEF AgentType, Places, Phases
    <2> HIDE DEF r
    <2>5. AgentOf(r, proxy, snap) BY <2>4 DEF AgentOf, Taking
    <2>6. AgentsOf(ag', proxy, snap) BY <1>0, <2>1, <2>2, <2>3, <2>4, <2>5, OneAgent, BesideSame
    <2> QED BY <1>0, <2>3, <2>6 DEF Kept
  <1>3. CASE Exit(s) \/ KillServe(s)
    <2>1. UNCHANGED <<proxy, snap, json>> /\ ag' = WithoutServe(ag, s)
      BY <1>3 DEF Exit, KillServe, files
    <2>2. AgentsOf(ag', proxy, snap) BY <1>0, <2>1, DeathKeeps
    <2> QED BY <1>0, <2>1, <2>2 DEF Kept
  <1> QED BY <1>1, <1>2, <1>3

LEMMA StepOn ==
    ASSUME Kept, Sound, CliOn
    PROVE  Kept'
  <1>0. /\ ag["cli"] \in AgentType /\ AgentOf(ag["cli"], proxy, snap) /\ AgentsOf(ag, proxy, snap)
        /\ FilesOK(proxy, snap) /\ json \in Serves \cup {None} /\ ag \in [Agents -> AgentType]
    BY Cast DEF Kept, AgentsOf
  <1>t. ASSUME ag["cli"].pc \in Taking
        PROVE  ag["cli"].job = "on" /\ ag["cli"].phase \notin {"rollback", "release"}
    BY <1>0, <1>t DEF AgentOf, Taking
  <1>1. CASE Refuse \/ SpawnFail
    BY <1>1, StepEnds, Cast DEF Refuse, SpawnFail, files
  <1>2. ASSUME NEW s \in Serves, Spawn(s) PROVE Kept'
    <2> DEFINE r == [ag["cli"] EXCEPT !.pc = "waitup", !.serve = s]
    <2>1. ag["cli"].pc \in Taking /\ UNCHANGED <<proxy, snap, json>> /\ ag' = [ag EXCEPT !["cli"] = r]
      BY <1>0, <1>2 DEF Spawn, files, At, Taking
    <2>2. r \in AgentType /\ r.job = ag["cli"].job /\ r.pc = "waitup" /\ r.phase = ag["cli"].phase
      BY <1>0 DEF AgentType, Places, Taking
    <2> HIDE DEF r
    <2>3. AgentOf(r, proxy, snap) BY <1>t, <2>1, <2>2 DEF AgentOf
    <2> QED BY <1>0, <1>t, <2>1, <2>2, <2>3, Cast, MoveOn
  <1>3. CASE Answers
    <2> DEFINE r == [ag["cli"] EXCEPT !.pc = "snapcheck"]
    <2>1. /\ ag["cli"].pc \in Taking /\ UNCHANGED <<proxy, snap>> /\ ag' = [ag EXCEPT !["cli"] = r]
          /\ json' \in Serves \cup {None}
      BY <1>0, <1>3 DEF Answers, At, Goto, Taking, AgentType
    <2>2. r \in AgentType /\ r.job = ag["cli"].job /\ r.pc = "snapcheck" /\ r.phase = ag["cli"].phase
      BY <1>0 DEF AgentType, Places, Taking
    <2> HIDE DEF r
    <2>3. AgentOf(r, proxy, snap) BY <1>t, <2>1, <2>2 DEF AgentOf
    <2> QED BY <1>0, <1>t, <2>1, <2>2, <2>3, Cast, MoveOn
  <1>4. CASE NeverAnswers
    <2> DEFINE A == [ag EXCEPT !["cli"] = Idle]
    <2>1. ag["cli"].pc \in Taking /\ UNCHANGED <<proxy, snap, json>> /\ StopServe(ag["cli"].serve, A)
      BY <1>4 DEF NeverAnswers, At, Taking, files
    <2>2. AgentsOf(A, proxy, snap) BY <1>0, Cast, IdleOf, OneAgent, BesideSame
    <2>3. \A b \in Agents : A[b].job = "on" => A[b].phase = "rollback"
      BY <1>0, <2>1, Cast, TakerAlone, IdleOf
    <2>4. ag["cli"].serve \in Serves \cup {None} BY <1>0 DEF AgentType
    <2> HIDE DEF A
    <2>5. AgentsOf(ag', proxy, snap) BY <2>1, <2>2, <2>3, <2>4, StopKeeps
    <2> QED BY <1>0, <2>1, <2>5 DEF Kept
  <1> QED BY <1>1, <1>2, <1>3, <1>4 DEF CliOn

LEMMA StepOff ==
    ASSUME Kept, Sound, CliOff
    PROVE  Kept'
  <1>0. /\ ag["cli"] \in AgentType /\ AgentOf(ag["cli"], proxy, snap) /\ AgentsOf(ag, proxy, snap)
        /\ FilesOK(proxy, snap) /\ json \in Serves \cup {None} /\ ag \in [Agents -> AgentType]
    BY Cast DEF Kept, AgentsOf
  <1>1. CASE OffStop
    <2>1. ag["cli"].pc = "stop" /\ UNCHANGED <<proxy, snap, json>> BY <1>1 DEF OffStop, At, files
    <2>2. ag["cli"].job # "on" /\ ag["cli"].phase # "rollback" /\ ag["cli"] # Idle
      BY <1>0, <2>1, IdleOf DEF AgentOf
    <2>3. PICK l \in {"wait", "rmjson"} :
             StopServe(json, [ag EXCEPT !["cli"].pc = IF json = None THEN "rmjson" ELSE l,
                                        !["cli"].phase = "stop", !["cli"].serve = json])
      BY <1>1 DEF OffStop
    <2> DEFINE r == [ag["cli"] EXCEPT !.pc = IF json = None THEN "rmjson" ELSE l,
                                      !.phase = "stop", !.serve = json]
               A == [ag EXCEPT !["cli"] = r]
    <2>4. StopServe(json, A) BY <1>0, <2>3
    <2>5. r \in AgentType /\ r.job = ag["cli"].job /\ r.phase = "stop" /\ r.pc \in {"wait", "rmjson"}
      BY <1>0 DEF AgentType, Places, Phases
    <2> HIDE DEF r
    <2>6. AgentOf(r, proxy, snap) BY <2>5 DEF AgentOf, Taking
    <2>7. AgentsOf(A, proxy, snap) BY <1>0, <2>2, <2>5, <2>6, Cast, OneAgent, BesideSame
    <2>8. \A b \in Agents : A[b].job = "on" => A[b].phase = "rollback"
      <3> SUFFICES ASSUME NEW b \in Agents, A[b].job = "on" PROVE A[b].phase = "rollback"
        OBVIOUS
      <3>1. b # "cli" /\ A[b] = ag[b] BY <1>0, <2>2, <2>5, Cast
      <3> QED BY <1>0, <2>2, <3>1, Cast DEF AgentsOf, OnAlone
    <2> HIDE DEF A
    <2>9. AgentsOf(ag', proxy, snap) BY <1>0, <2>4, <2>7, <2>8, StopKeeps
    <2> QED BY <1>0, <2>1, <2>9 DEF Kept
  <1>2. CASE OffWaited
    <2> DEFINE r == [ag["cli"] EXCEPT !.pc = "rmjson"]
               A == [ag EXCEPT !["cli"] = r]
    <2>1. ag["cli"].pc = "wait" /\ ag["cli"].phase = "stop" /\ UNCHANGED <<proxy, snap, json>>
      BY <1>0, <1>2 DEF OffWaited, At, files, AgentOf
    <2>2. ag' = WithoutServe(A, ag["cli"].serve) BY <1>0, <1>2 DEF OffWaited
    <2>3. r \in AgentType /\ r.job = ag["cli"].job /\ r.phase = "stop" /\ r.pc = "rmjson"
      BY <1>0, <2>1 DEF AgentType, Places
    <2> HIDE DEF r
    <2>4. AgentOf(r, proxy, snap) BY <2>3 DEF AgentOf, Taking
    <2>5. ag["cli"] # Idle BY <2>1, IdleOf
    <2>6. AgentsOf(A, proxy, snap) BY <1>0, <2>1, <2>3, <2>4, <2>5, Cast, OneAgent, BesideSame
    <2> HIDE DEF A
    <2>7. AgentsOf(ag', proxy, snap) BY <2>2, <2>6, DeathKeeps
    <2> QED BY <1>0, <2>1, <2>7 DEF Kept
  <1> QED BY <1>1, <1>2 DEF CliOff

LEMMA StepShutdown ==
    ASSUME Kept, Sound, ApiShutdown
    PROVE  Kept'
  <1> DEFINE A == [ag EXCEPT !["api"] = Idle]
             s == ag["api"].serve
  <1>0. /\ ag["api"] \in AgentType /\ AgentsOf(ag, proxy, snap)
        /\ FilesOK(proxy, snap) /\ json \in Serves \cup {None} /\ ag \in [Agents -> AgentType]
    BY Cast DEF Kept, AgentsOf
  <1>1. ag["api"].pc = "shutdown" /\ ag["api"] # Idle /\ UNCHANGED <<proxy, snap, json>>
    BY IdleOf DEF ApiShutdown, At, files
  <1>2. s \in Serves \cup {None} BY <1>0 DEF AgentType
  <1>3. AgentsOf(A, proxy, snap) BY <1>0, Cast, IdleOf, OneAgent, BesideSame
  <1>4. CASE ag' = A BY <1>0, <1>1, <1>3, <1>4 DEF Kept
  <1>5. CASE s # None /\ ag' = [A EXCEPT ![s] = ExitHook(s)]
    <2>1. s \in Serves /\ s \in Agents BY <1>2, <1>5 DEF Agents
    <2>2. ExitHook(s) \in AgentType /\ AgentOf(ExitHook(s), proxy, snap) /\ ExitHook(s).job = "exit"
      BY <2>1, HookOf
    <2>3. \A b \in Agents : A[b].job = "on" => A[b].phase = "rollback"
      BY <1>0, <1>1, Cast, IdleOf DEF AgentsOf, OnAlone
    <2> HIDE DEF A, s
    <2>4. AgentsOf(ag', proxy, snap) BY <1>3, <1>5, <2>1, <2>2, <2>3, OneBegins
    <2> QED BY <1>0, <1>1, <2>4 DEF Kept
  <1>6. CASE s = None /\ ag' = [A EXCEPT ![s] = ExitHook(s)]
    <2>1. s \notin Agents BY <1>6, TakeoverAssumption
    <2>2. ag' = A BY <1>0, <1>6, <2>1
    <2> QED BY <1>0, <1>1, <1>3, <2>2 DEF Kept
  <1> QED BY <1>4, <1>5, <1>6 DEF ApiShutdown

-----------------------------------------------------------------------------
(* The theorems                                                            *)

LEMMA InvInit == Init => Inv
  <1> SUFFICES ASSUME Init PROVE Kept BY DEF Inv
  <1>1. \A a \in Agents : ag[a] = Idle BY DEF Init
  <1>2. ag \in [Agents -> AgentType] BY IdleOf DEF Init
  <1>3. AgentsOf(ag, proxy, snap) BY <1>1, <1>2, IdleOf DEF AgentsOf, OnAlone
  <1>4. FilesOK(proxy, snap) /\ json \in Serves \cup {None}
    BY DEF Init, FilesOK, Settings, Users
  <1> QED BY <1>3, <1>4 DEF Kept

\* What is lost stays lost.
LEMMA LostStays == lost /\ [Next]_vars => lost'
  BY DEF Next, vars, files, Commands, Command, CliStep, ApiStep, ServeStep, Restore, LoadSnap,
         SkipRestore, CheckAlive, ApplyOk, ApplyFail, DeleteSnap, RemoveJson, CliOn, Refuse, Spawn,
         SpawnFail, Answers, NeverAnswers, Take, SnapCheck, ReadCurrent, SaveSnap, TakeOk, TakeFail,
         UndoSnap, TakeoverFailed, CliOff, OffStop, OffWaited, ApiShutdown, Bind, ServeUp,
         CloseListener, Exit, Launch, Quit, KillServe, ApiOn, ApiOff, KillCommand

LEMMA InvStep == ASSUME Sound, Inv, [Next]_vars PROVE Inv'
  <1>0. CASE lost BY <1>0, LostStays DEF Inv
  <1>k. CASE Kept
    <2>1. CASE UNCHANGED vars BY <1>k, <2>1 DEF Kept, Inv, vars, files
    <2>2. CASE Commands
      <3>1. PICK job \in {"on", "off", "status"} : Command(job) BY <2>2 DEF Commands
      <3> QED BY <1>k, <3>1, StepCommand DEF Inv
    <2>3. CASE CliStep
      BY <1>k, <2>3, Cast, StepRestore, StepOn, StepTake, StepOff DEF CliStep, Inv
    <2>4. CASE ApiStep BY <1>k, <2>4, Cast, StepRestore, StepTake, StepShutdown DEF ApiStep, Inv
    <2>5. ASSUME NEW s \in Serves,
                 \/ Launch(s) \/ Quit(s) \/ ServeStep(s) \/ KillServe(s)
                 \/ ApiOn(s) \/ ApiOff(s, "off") \/ ApiOff(s, "shutdown")
          PROVE  Inv'
      BY <1>k, <2>5, Cast, StepRestore, StepServes, StepStarts DEF ServeStep, Inv
    <2>6. CASE KillCommand BY <1>k, <2>6, Cast, StepEnds DEF KillCommand, files, Inv
    <2> QED BY <2>1, <2>2, <2>3, <2>4, <2>5, <2>6 DEF Next
  <1> QED BY <1>0, <1>k DEF Inv

\* For any number of serves and kills, an Apply that stops halfway and a
\* store that fails: the store has the user's setting while the proxy is not
\* the user's, and never another one (daemon.go: the original is saved before
\* Apply, a repeated "on" keeps the first snapshot), until a first takeover
\* that failed halfway has deleted it.
THEOREM OriginalKept == ASSUME Sound PROVE Spec => []OriginalNeverLost
  <1>1. Inv => OriginalNeverLost BY DEF Inv, Kept, FilesOK, OriginalNeverLost
  <1>2. Inv /\ [Next]_vars => Inv' BY InvStep
  <1> QED BY <1>1, <1>2, InvInit, PTL DEF Spec

\* off stops a serve, and a serve leaves, with the user's setting restored,
\* unless their own restore met an error (main.go, exit hook; daemon.go,
\* offCmd).
THEOREM LeavingIsClean == ASSUME Sound PROVE Spec => LeavingRestores
  <1>1. Inv => (At("cli", "stop") /\ ag["cli"].err = "no" /\ ~lost => proxy \in Users)
    BY Cast DEF Inv, Kept, AgentsOf, AgentOf, At
  <1>2. Inv => [\A s \in Serves : Exit(s) /\ ag[s].err = "no" /\ ~lost => proxy \in Users]_vars
    <2> SUFFICES ASSUME Inv, NEW s \in Serves, Exit(s), ag[s].err = "no", ~lost
                 PROVE  proxy \in Users
      OBVIOUS
    <2> QED BY Cast DEF Inv, Kept, AgentsOf, AgentOf, Exit, At
  <1>3. Inv /\ [Next]_vars => Inv' BY InvStep
  <1> QED BY <1>1, <1>2, <1>3, InvInit, PTL DEF Spec, LeavingRestores
=============================================================================
