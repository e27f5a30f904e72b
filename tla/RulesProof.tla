------------------------------ MODULE RulesProof ------------------------------
(***************************************************************************)
(* Proofs about the rule updates, for any number of releases and backoff   *)
(* steps.  The embedded rules are version 1 for ever (floor.go).  That the *)
(* floor covers what serves holds under any faults; that an old release is *)
(* never accepted again holds when at most one fault happens, whichever it *)
(* is (MaxFaults = 1): the files and the row are redundant, but while one  *)
(* of them is being written only the other one remembers.  That the row    *)
(* itself never falls back survives any number of faults of the other      *)
(* kinds, or one fault of any kind.                                        *)
(***************************************************************************)
EXTENDS Rules, FiniteSetTheorems, TLAPS

EmbeddedIsFirst == Ships = {1}

Places == {"idle", "pull", "apply", "sig", "json", "publish",
           "setseen", "finish", "load", "save", "leave"}

GoroutineType == [pc : Places, cand : Nat, seen : Nat, ok : BOOLEAN, fails : Nat, off : Nat]

Types ==
    /\ embedded = 1 /\ sigV \in Nat /\ jsonV \in Nat
    /\ row \in [seen : Nat, fails : Nat, off : Nat]
    /\ up \in BOOLEAN
    /\ snap \in Nat /\ seenMax \in Nat /\ fails \in Nat /\ off \in Nat /\ best \in Nat
    /\ g \in [Goroutines -> GoroutineType]

\* Who applies is alone with the files, and its release is newer than the
\* floor until it is published.
Lock ==
    \A a \in Goroutines :
        /\ Applying(a) => g[a].cand > seenMax /\ \A b \in Goroutines \ {a} : ~Applying(b)
        /\ At(a, "json") => sigV = g[a].cand
        /\ At(a, "publish") => sigV = g[a].cand /\ jsonV = g[a].cand

FloorOK ==
    /\ up => seenMax >= snap /\ seenMax >= 1
    /\ ~up => \A a \in Goroutines : At(a, "idle")

Inv == Types /\ Lock /\ FloorOK

-----------------------------------------------------------------------------
LEMMA LoadedOf ==
    ASSUME Types
    PROVE  Loaded(1) \in Nat /\ Loaded(1) >= 1
  BY DEF Types, Loaded


LEMMA StepTypes == ASSUME EmbeddedIsFirst, Types, [Next]_vars PROVE Types'
  <1>0. Steps \in Nat /\ \A v \in Versions : v \in Nat BY RulesAssumption DEF Versions
  <1>1. NotRunning \in GoroutineType BY DEF NotRunning, GoroutineType, Places
  <1>2. CASE UNCHANGED vars BY <1>2 DEF Types, vars, files, state
  <1>3. CASE Start
    <2>1. embedded' = 1 BY <1>3 DEF Start, EmbeddedIsFirst
    <2>2. snap' \in Nat BY <1>3, <2>1, LoadedOf DEF Start
    <2>3. g' \in [Goroutines -> GoroutineType] BY <1>1, <1>3 DEF Start
    <2> QED BY <1>3, <2>1, <2>2, <2>3 DEF Start, Types, files, Floor, Higher
  <1>4. CASE Stop \/ Crash \/ Damage
    <2>1. g' \in [Goroutines -> GoroutineType] BY <1>1, <1>4 DEF Stop, Crash, Damage, Types
    <2>2. CASE Stop \/ Crash BY <2>1, <2>2 DEF Stop, Crash, Types, files, state
    <2>3. CASE Damage BY <2>1, <2>3 DEF Damage, Types, state
    <2> QED BY <1>4, <2>2, <2>3
  <1>5. CASE LoopFires \/ Trigger
    <2>1. g' \in [Goroutines -> GoroutineType]
      BY <1>5 DEF LoopFires, Trigger, Goto, Types, GoroutineType, Places, Goroutines
    <2> QED BY <1>5, <2>1 DEF LoopFires, Trigger, Types, files, state
  <1>6. CASE Expire
    <2>1. g' \in [Goroutines -> GoroutineType] BY <1>6 DEF Expire, Types, GoroutineType
    <2> QED BY <1>6, <2>1 DEF Expire, Types, files
  <1>7. ASSUME NEW a \in Goroutines, RefreshStep(a) PROVE Types'
    <2>1. g[a] \in GoroutineType /\ g \in [Goroutines -> GoroutineType] BY DEF Types
    <2>2. ASSUME \/ \E v \in Versions : Pulled(a, v)
                 \/ PullFails(a) \/ Decide(a) \/ WriteFails(a) \/ LoadRow(a)
          PROVE  Types'
      <3>1. g' \in [Goroutines -> GoroutineType]
        BY <1>0, <2>1, <2>2 DEF Pulled, PullFails, Decide, WriteFails, LoadRow, Goto, Types, GoroutineType, Places
      <3> QED BY <2>2, <3>1 DEF Pulled, PullFails, Decide, WriteFails, LoadRow, Types, files, state
    <2>3. ASSUME WriteSig(a) \/ WriteJson(a) \/ Publish(a) PROVE Types'
      <3>1. g' \in [Goroutines -> GoroutineType]
        BY <2>1, <2>3 DEF WriteSig, WriteJson, Publish, Goto, GoroutineType, Places
      <3>2. g[a].cand \in Nat BY <2>1 DEF GoroutineType
      <3> QED BY <2>3, <3>1, <3>2 DEF WriteSig, WriteJson, Publish, Types, files, state, Higher
    <2>4. ASSUME PersistSeen(a) \/ SaveRow(a) \/ Leave(a) PROVE Types'
      <3>1. g' \in [Goroutines -> GoroutineType]
        BY <1>1, <2>1, <2>4 DEF PersistSeen, SaveRow, Leave, Goto, GoroutineType, Places
      <3>2. row' \in [seen : Nat, fails : Nat, off : Nat]
        BY <2>1, <2>4 DEF PersistSeen, SaveRow, Leave, RowOf, GoroutineType, Types
      <3> QED BY <2>4, <3>1, <3>2 DEF PersistSeen, SaveRow, Leave, Types, files, state
    <2>5. ASSUME Finish(a) PROVE Types'
      <3>1. fails' \in Nat /\ off' \in Nat BY <1>0, <2>5 DEF Finish, Types, BackoffAfter
      <3>2. g' \in [Goroutines -> GoroutineType] BY <2>1, <2>5, <3>1 DEF Finish, GoroutineType, Places
      <3> QED BY <2>5, <3>1, <3>2 DEF Finish, Types, files
    <2> QED BY <1>7, <2>2, <2>3, <2>4, <2>5 DEF RefreshStep
  <1> QED BY <1>2, <1>3, <1>4, <1>5, <1>6, <1>7 DEF Next

-----------------------------------------------------------------------------
(* The floor, under any faults                                             *)

LEMMA InvInit == ASSUME EmbeddedIsFirst PROVE Init => Inv
  <1> SUFFICES ASSUME Init PROVE Inv OBVIOUS
  <1>1. NotRunning \in GoroutineType BY DEF NotRunning, GoroutineType, Places
  <1>2. g \in [Goroutines -> GoroutineType] BY <1>1 DEF Init
  <1>a. embedded = 1 /\ snap = 1 /\ seenMax = 1 BY DEF Init, EmbeddedIsFirst
  <1>b. row \in [seen : Nat, fails : Nat, off : Nat] BY DEF Init
  <1>c. sigV = 0 /\ jsonV = 0 /\ up = FALSE /\ fails = 0 /\ off = 0 /\ best = 0 BY DEF Init
  <1>3. Types BY <1>2, <1>a, <1>b, <1>c DEF Types
  <1>4. \A a \in Goroutines : g[a].pc = "idle" BY DEF Init, NotRunning
  <1> QED BY <1>3, <1>4 DEF Init, Inv, Lock, FloorOK, Applying, At

\* The steps that leave the floor, the files and what is applied alone.
LEMMA StepAside ==
    ASSUME Inv, Types', UNCHANGED <<files, up, snap, seenMax>>,
           \A a \in Goroutines : ~up => g'[a].pc = "idle",
           \A a \in Goroutines : \/ g'[a].pc \notin {"sig", "json", "publish"}
                                 \/ g'[a].pc = g[a].pc /\ g'[a].cand = g[a].cand
    PROVE  Inv'
  <1>1. Lock' BY DEF Inv, Lock, Applying, At, files
  <1>2. FloorOK' BY DEF Inv, FloorOK, At
  <1> QED BY <1>1, <1>2 DEF Inv

LEMMA InvStep == ASSUME EmbeddedIsFirst, Inv, [Next]_vars PROVE Inv'
  <1>0. Types /\ Types' BY StepTypes DEF Inv
  <1>1. CASE UNCHANGED vars
    BY <1>1 DEF Inv, Types, Lock, FloorOK, Applying, At, vars, files, state
  <1>2. CASE Start
    <2>1. embedded' = 1 /\ snap' = Loaded(1) /\ snap' >= 1 /\ seenMax' >= snap' /\ UNCHANGED files
      BY <1>0, <1>2, LoadedOf DEF Start, Types, EmbeddedIsFirst, Floor, Higher
    <2>2. \A a \in Goroutines : g'[a].pc = "idle" BY <1>2 DEF Start, NotRunning
    <2>3. Lock' BY <2>2 DEF Lock, Applying, At
    <2> QED BY <1>0, <1>2, <2>1, <2>3 DEF Start, Inv, FloorOK, Types
  <1>3. CASE Stop \/ Crash \/ Damage
    <2>1. \A a \in Goroutines : g'[a].pc = "idle"
      BY <1>3 DEF Stop, Crash, Damage, NotRunning, At, Inv, FloorOK
    <2>2. Lock' BY <2>1 DEF Lock, Applying, At
    <2>3. FloorOK' BY <1>3, <2>1 DEF Stop, Crash, Damage, Inv, FloorOK, At
    <2> QED BY <1>0, <2>2, <2>3 DEF Inv
  <1>4. CASE LoopFires \/ Trigger
    <2>1. PICK b \in Goroutines : MayRefresh(b) /\ Goto(b, "pull") /\ UNCHANGED <<files, up, snap, seenMax>>
      BY <1>4 DEF LoopFires, Trigger, Goroutines
    <2>2. \A a \in Goroutines : (g'[a].pc = g[a].pc /\ g'[a].cand = g[a].cand) \/ g'[a].pc = "pull"
      BY <1>0, <2>1 DEF Goto, Types, GoroutineType
    <2> QED BY <1>0, <2>1, <2>2, StepAside DEF MayRefresh
  <1>5. CASE Expire
    <2>1. \A a \in Goroutines : g'[a].pc = g[a].pc /\ g'[a].cand = g[a].cand
      BY <1>0, <1>5 DEF Expire, Types, GoroutineType
    <2>2. UNCHANGED <<files, up, snap, seenMax>> BY <1>5 DEF Expire
    <2> QED BY <1>0, <2>1, <2>2, StepAside DEF Inv, FloorOK, At
  <1>6. ASSUME NEW a \in Goroutines, RefreshStep(a) PROVE Inv'
    <2>1. g[a] \in GoroutineType /\ g \in [Goroutines -> GoroutineType] BY <1>0 DEF Types
    <2>2. g[a].pc # "idle" /\ up
      BY <1>6 DEF RefreshStep, Pulled, PullFails, Decide, WriteSig, WriteJson, WriteFails, Publish,
                  PersistSeen, Finish, LoadRow, SaveRow, Leave, At, Inv, FloorOK
    <2>3. ASSUME \/ \E v \in Versions : Pulled(a, v)
                 \/ PullFails(a) \/ WriteFails(a) \/ PersistSeen(a)
                 \/ Finish(a) \/ LoadRow(a) \/ SaveRow(a) \/ Leave(a)
          PROVE  Inv'
      <3>1. UNCHANGED <<files, up, snap, seenMax>>
        BY <2>3 DEF Pulled, PullFails, WriteFails, PersistSeen, Finish, LoadRow, SaveRow, Leave, state
      <3>2. g'[a].pc \notin {"sig", "json", "publish"}
        BY <2>1, <2>3 DEF Pulled, PullFails, WriteFails, PersistSeen, Finish, LoadRow, SaveRow, Leave,
                         Goto, GoroutineType, NotRunning
      <3>3. \A b \in Goroutines \ {a} : g'[b] = g[b]
        BY <2>1, <2>3 DEF Pulled, PullFails, WriteFails, PersistSeen, Finish, LoadRow, SaveRow, Leave, Goto
      <3> QED BY <1>0, <2>2, <3>1, <3>2, <3>3, StepAside
    <2>4. CASE Decide(a)
      <3>1. UNCHANGED <<files, up, snap, seenMax>> /\ \A b \in Goroutines : ~Applying(b)
        BY <2>4 DEF Decide
      <3>2. \A b \in Goroutines \ {a} : g'[b] = g[b] BY <2>1, <2>4 DEF Decide, Goto
      <3>3. CASE g[a].cand > seenMax /\ Goto(a, "sig")
        <4>1. g'[a].pc = "sig" /\ g'[a].cand = g[a].cand BY <2>1, <3>3 DEF Goto, GoroutineType
        <4>2. Lock' BY <3>1, <3>2, <3>3, <4>1 DEF Lock, Applying, At
        <4>3. FloorOK' BY <2>2, <3>1 DEF Inv, FloorOK
        <4> QED BY <1>0, <4>2, <4>3 DEF Inv
      <3>4. CASE g'[a].pc = "finish" BY <1>0, <2>2, <3>1, <3>2, <3>4, StepAside
      <3> QED BY <2>1, <2>4, <3>3, <3>4 DEF Decide, Newer, GoroutineType
    <2>5. CASE WriteSig(a)
      <3>1. g[a].pc = "sig" /\ sigV' = g[a].cand /\ UNCHANGED <<jsonV, up, snap, seenMax>>
        BY <2>5 DEF WriteSig, At
      <3>2. g'[a].pc = "json" /\ g'[a].cand = g[a].cand /\ \A b \in Goroutines \ {a} : g'[b] = g[b]
        BY <2>1, <2>5 DEF WriteSig, Goto, GoroutineType
      <3>3. Applying(a) BY <3>1 DEF Applying
      <3>4. Lock' BY <3>1, <3>2, <3>3 DEF Inv, Lock, Applying, At
      <3> QED BY <1>0, <2>2, <3>1, <3>4 DEF Inv, FloorOK
    <2>6. CASE WriteJson(a)
      <3>1. g[a].pc = "json" /\ jsonV' = g[a].cand /\ UNCHANGED <<sigV, up, snap, seenMax>>
        BY <2>6 DEF WriteJson, At
      <3>2. g'[a].pc = "publish" /\ g'[a].cand = g[a].cand /\ \A b \in Goroutines \ {a} : g'[b] = g[b]
        BY <2>1, <2>6 DEF WriteJson, Goto, GoroutineType
      <3>3. Applying(a) BY <3>1 DEF Applying
      <3>4. Lock' BY <3>1, <3>2, <3>3 DEF Inv, Lock, Applying, At
      <3> QED BY <1>0, <2>2, <3>1, <3>4 DEF Inv, FloorOK
    <2>7. CASE Publish(a)
      <3>1. g[a].pc = "publish" /\ snap' = g[a].cand /\ seenMax' = g[a].cand /\ UNCHANGED <<files, up>>
        BY <2>7 DEF Publish, At
      <3>2. g'[a].pc = "setseen" /\ \A b \in Goroutines \ {a} : g'[b] = g[b]
        BY <2>1, <2>7 DEF Publish, Goto, GoroutineType
      <3>3. Applying(a) /\ g[a].cand > seenMax BY <3>1 DEF Applying, Inv, Lock
      <3>4. Lock' BY <3>1, <3>2, <3>3 DEF Inv, Lock, Applying, At
      <3>5. FloorOK' BY <1>0, <2>1, <2>2, <3>1, <3>3 DEF Inv, FloorOK, Types, GoroutineType
      <3> QED BY <1>0, <3>4, <3>5 DEF Inv
    <2> QED BY <1>6, <2>3, <2>4, <2>5, <2>6, <2>7 DEF RefreshStep
  <1> QED BY <1>1, <1>2, <1>3, <1>4, <1>5, <1>6 DEF Next

\* While serve runs its floor covers the rules in force and the embedded
\* ones (rules_state.go: "max(embedded, disk, this table)"), after any
\* faults, however many.
THEOREM FloorCovers == ASSUME EmbeddedIsFirst PROVE Spec => []FloorCoversRules
  <1>1. Inv => FloorCoversRules BY DEF Inv, FloorOK, Types, FloorCoversRules
  <1>2. Inv /\ [Next]_vars => Inv' BY InvStep
  <1>3. Init => Inv BY InvInit
  <1> QED BY <1>1, <1>2, <1>3, PTL DEF Spec

-----------------------------------------------------------------------------
(* The floor over restarts, when there is one fault at most                *)

\* There has been one fault at most.
OneFault == faults = {} \/ \E k \in FaultKinds : faults = {k}

\* Without an overlap one goroutine refreshes, and what it has read of the
\* row is what the row holds.
Single ==
    "overlap" \notin faults =>
        /\ \A a, b \in Goroutines : ~At(a, "idle") /\ ~At(b, "idle") => a = b
        /\ \A a \in Goroutines : (At(a, "save") => g[a].seen = row.seen)
                                /\ (At(a, "setseen") => g[a].cand = best)
        /\ row.seen <= best

Torn == \E a \in Goroutines : At(a, "json")

\* What the files remember, what the row does, and what one of them does.
DiskKeeps == faults \subseteq {"overlap"} => Torn \/ Loaded(1) >= best
RowKeeps  == faults = {} => (\E a \in Goroutines : At(a, "setseen")) \/ row.seen >= best \/ best <= 1
OneKeeps  == "overlap" \notin faults => Torn \/ Loaded(1) >= best \/ row.seen >= best

\* Before any fault memory, files and row agree but for what is being written.
Same ==
    faults = {} /\ best # 0 =>
        /\ snap = best /\ seenMax = best
        /\ \/ \E a \in Goroutines : g[a].pc \in {"json", "publish"}
           \/ snap = Loaded(1)
        /\ \A a \in Goroutines : g[a].pc \in {"load", "save"} => g[a].fails = fails /\ g[a].off = off
        /\ \/ \E a \in Goroutines : g[a].pc \in {"load", "save"}
           \/ row.fails = fails /\ row.off = off

Memory == OneFault /\ Single /\ DiskKeeps /\ RowKeeps /\ OneKeeps /\ Same
          /\ (up => seenMax >= best /\ best >= 1) /\ (best = 0 => jsonV = 0)

LEMMA FaultOf ==
    ASSUME OneFault, OneFault', NEW k \in FaultKinds, Fault(k)
    PROVE  faults = {} /\ faults' = {k}
  BY DEF OneFault, Fault

LEMMA MemoryInit == ASSUME EmbeddedIsFirst PROVE Init => Memory
  <1> SUFFICES ASSUME Init PROVE Memory OBVIOUS
  <1>1. \A a \in Goroutines : g[a].pc = "idle" BY DEF Init, NotRunning
  <1>2. embedded = 1 /\ best = 0 /\ row.seen = 0 /\ faults = {} /\ up = FALSE /\ jsonV = 0
    BY DEF Init, EmbeddedIsFirst
  <1>3. Loaded(1) = 1 BY <1>2 DEF Loaded
  <1>4. \A a, b \in Goroutines : ~(~At(a, "idle") /\ ~At(b, "idle")) BY <1>1 DEF At
  <1>5. Single BY <1>1, <1>2, <1>4 DEF Single, At
  <1> QED BY <1>2, <1>3, <1>5 DEF Memory, OneFault, DiskKeeps, RowKeeps, OneKeeps, Same

LEMMA MemoryStart ==
    ASSUME EmbeddedIsFirst, OneFault', Inv, Inv', Memory, Start
    PROVE  Memory'
  <1>1. /\ embedded' = 1 /\ snap' = Loaded(1) /\ Loaded(1) >= 1 /\ Loaded(1) \in Nat
        /\ best' = Higher(best, snap') /\ UNCHANGED <<files, row>>
        /\ ~up /\ up'
    BY LoadedOf DEF Start, EmbeddedIsFirst, Inv, Types
  <1>2. /\ \A a \in Goroutines : g'[a].pc = "idle" /\ g[a].pc = "idle"
        /\ \A a \in Goroutines : At(a, "idle")' /\ At(a, "idle")
    BY <1>1 DEF Start, NotRunning, Inv, FloorOK, At
  <1>3. Loaded(1)' = Loaded(1) BY <1>1 DEF Loaded, files
  <1>4. best \in Nat /\ row.seen \in Nat BY DEF Inv, Types
  <1>5. ~Torn BY <1>2 DEF Torn, At
  <1>6. CASE UNCHANGED faults /\ seenMax' = Higher(snap', row.seen) /\ fails' = row.fails /\ off' = row.off
    <2>1. "overlap" \notin faults => Loaded(1) >= best \/ row.seen >= best
      BY <1>5 DEF Memory, OneKeeps
    <2>2. "overlap" \in faults => faults \subseteq {"overlap"} BY DEF Memory, OneFault
    <2>3. faults \subseteq {"overlap"} => Loaded(1) >= best BY <1>5 DEF Memory, DiskKeeps
    <2>4. seenMax' >= best' /\ best' >= 1 /\ best' \in Nat BY <1>1, <1>4, <1>6, <2>1, <2>2, <2>3 DEF Higher
    <2>5. OneFault' BY <1>6 DEF Memory, OneFault
    <2>6. Single'
      <3>1. "overlap" \notin faults => row.seen <= best BY DEF Memory, Single
      <3>2. row'.seen = row.seen /\ best' >= best BY <1>1, <1>4 DEF Higher
      <3> QED BY <1>1, <1>2, <1>4, <1>6, <2>4, <3>1, <3>2 DEF Single, At
    <2>7. DiskKeeps' /\ OneKeeps'
      BY <1>1, <1>3, <1>4, <1>6, <2>1, <2>3 DEF DiskKeeps, OneKeeps, Higher
    <2>8. RowKeeps'
      <3>1. faults = {} => row.seen >= best \/ best <= 1 BY <1>2 DEF Memory, RowKeeps, At
      <3>2. faults = {} /\ best # 0 => best' = best
        BY <1>1, <1>2, <1>4 DEF Memory, Same, Higher
      <3>3. best = 0 => best' = 1 BY <1>1, <1>4 DEF Higher, Memory, Loaded
      <3> QED BY <1>1, <1>6, <3>1, <3>2, <3>3 DEF RowKeeps
    <2>9. Same'
      <3> SUFFICES ASSUME faults = {}
                   PROVE  snap' = best' /\ seenMax' = best' /\ snap' = Loaded(1)' /\ row'.fails = fails' /\ row'.off = off'
        BY <1>2, <1>6 DEF Same
      <3>1. snap' = best' BY <1>1, <1>2, <1>4 DEF Memory, Same, Higher
      <3>2. row.seen <= best /\ best <= best' BY <1>1, <1>4 DEF Memory, Single, Higher
      <3>3. seenMax' = best' BY <1>1, <1>4, <1>6, <2>4, <3>1, <3>2 DEF Higher
      <3> QED BY <1>1, <1>3, <1>6, <3>1, <3>3
    <2>10. best' # 0 BY <2>4
    <2> QED BY <2>4, <2>5, <2>6, <2>7, <2>8, <2>9, <2>10 DEF Memory
  <1>7. CASE Fault("db") /\ seenMax' = snap'
    <2>1. faults = {} /\ faults' = {"db"} BY <1>7, FaultOf DEF Memory, FaultKinds
    <2>2. Loaded(1) >= best /\ row.seen <= best BY <1>5, <2>1 DEF Memory, DiskKeeps, Single
    <2>3. seenMax' >= best' /\ best' >= 1 /\ best' = Loaded(1) BY <1>1, <1>4, <1>7, <2>2 DEF Higher
    <2>4. Single' BY <1>1, <1>2, <1>4, <2>2, <2>3 DEF Single, At
    <2>5. OneKeeps' BY <1>1, <1>3, <2>3 DEF OneKeeps
    <2>6. OneFault' /\ DiskKeeps' /\ RowKeeps' /\ Same'
      BY <2>1 DEF OneFault, FaultKinds, DiskKeeps, RowKeeps, Same
    <2>7. best' # 0 BY <2>3
    <2> QED BY <2>3, <2>4, <2>5, <2>6, <2>7 DEF Memory
  <1> QED BY <1>1, <1>6, <1>7 DEF Start, Floor

\* serve stops, dies, or its files are damaged while it is down.
LEMMA MemoryDown ==
    ASSUME OneFault', Inv, Memory, Stop \/ Crash \/ Damage
    PROVE  Memory'
  <1>0. /\ best \in Nat /\ row.seen \in Nat /\ Loaded(1) \in Nat /\ Loaded(1) >= 1
        /\ sigV \in Nat /\ jsonV \in Nat
    BY LoadedOf DEF Inv, Types
  <1>1. UNCHANGED <<row, snap, seenMax, state, best>> /\ ~up'
    BY DEF Stop, Crash, Damage
  <1>2. \A a \in Goroutines : g'[a].pc = "idle"
    BY DEF Stop, Crash, Damage, NotRunning, At, Inv, FloorOK
  <1>3. Single'
    <2>1. "overlap" \notin faults' => "overlap" \notin faults
      BY FaultOf DEF Stop, Crash, Damage, Memory, FaultKinds
    <2> QED BY <1>1, <1>2, <2>1 DEF Memory, Single, At
  <1>4. CASE Stop
    <2>1. UNCHANGED <<files, faults, g>> /\ \A a \in Goroutines : g[a].pc = "idle" BY <1>4 DEF Stop, At
    <2>2. Loaded(1)' = Loaded(1) BY <2>1 DEF Loaded, files
    <2> QED BY <1>1, <1>3, <2>1, <2>2
        DEF Memory, OneFault, DiskKeeps, RowKeeps, OneKeeps, Same, Torn, At, state, files
  <1>5. CASE Crash
    <2>1. faults = {} /\ faults' = {"crash"} /\ UNCHANGED files
      BY <1>5, FaultOf DEF Crash, Memory, FaultKinds
    <2>2. Loaded(1)' = Loaded(1) BY <2>1 DEF Loaded, files
    <2>3. Loaded(1) >= best \/ row.seen >= best
      <3>1. CASE Torn
        <4>1. ~\E a \in Goroutines : At(a, "setseen") BY <2>1, <3>1 DEF Torn, At, Memory, Single
        <4> QED BY <1>0, <2>1, <4>1 DEF Memory, RowKeeps
      <3>2. CASE ~Torn BY <2>1, <3>2 DEF Memory, DiskKeeps
      <3> QED BY <3>1, <3>2
    <2>4. OneKeeps' BY <1>1, <2>2, <2>3 DEF OneKeeps
    <2> QED BY <1>1, <1>3, <2>1, <2>4
        DEF Memory, OneFault, FaultKinds, DiskKeeps, RowKeeps, Same, files
  <1>6. CASE Damage
    <2>1. faults = {} /\ faults' = {"damage"} /\ jsonV' = 0 /\ ~up
      BY <1>6, FaultOf DEF Damage, Memory, FaultKinds
    <2>2. Loaded(1)' = 1 BY <2>1 DEF Loaded
    <2>3. row.seen >= best \/ best <= 1 BY <2>1 DEF Memory, RowKeeps, Inv, FloorOK, At
    <2>4. OneKeeps' BY <1>0, <1>1, <2>2, <2>3 DEF OneKeeps
    <2> QED BY <1>1, <1>3, <2>1, <2>4
        DEF Memory, OneFault, FaultKinds, DiskKeeps, RowKeeps, Same
  <1> QED BY <1>4, <1>5, <1>6

\* A goroutine steps where it neither writes nor keeps what the others lack.
LEMMA MemoryAside ==
    ASSUME Memory, UNCHANGED <<files, row, snap, seenMax, fails, off, best, up, faults>>,
           NEW a \in Goroutines, \A b \in Goroutines \ {a} : g'[b] = g[b],
           ~At(a, "idle") \/ \A b \in Goroutines : At(b, "idle"),
           g[a].pc \notin {"json", "publish", "setseen", "load", "save"},
           g'[a].pc \in {"idle", "pull", "apply", "sig", "finish", "leave"}
    PROVE  Memory'
  <1>1. Loaded(1)' = Loaded(1) BY DEF Loaded, files
  <1>2. Single' BY DEF Memory, Single, At
  <1>3. Torn' <=> Torn BY DEF Torn, At
  <1>4. DiskKeeps' /\ OneKeeps' BY <1>1, <1>3 DEF Memory, DiskKeeps, OneKeeps
  <1>5. RowKeeps' BY DEF Memory, RowKeeps, At
  <1>6. Same' BY <1>1 DEF Memory, Same
  <1> QED BY <1>2, <1>4, <1>5, <1>6 DEF Memory, OneFault, files

\* Somebody refreshes.
LEMMA MemoryBegin ==
    ASSUME OneFault', Inv, Memory, LoopFires \/ Trigger
    PROVE  Memory'
  <1>1. PICK a \in Goroutines :
            MayRefresh(a) /\ Goto(a, "pull") /\ UNCHANGED <<files, row, snap, seenMax, fails, off, best, up>>
    BY DEF LoopFires, Trigger, Goroutines, state
  <1>2. g[a].pc = "idle" /\ g'[a].pc = "pull" /\ \A b \in Goroutines \ {a} : g'[b] = g[b]
    BY <1>1 DEF MayRefresh, Goto, At, Inv, Types, GoroutineType
  <1>3. CASE UNCHANGED faults /\ \A b \in Goroutines : At(b, "idle")
    BY <1>1, <1>2, <1>3, MemoryAside
  <1>4. CASE Fault("overlap")
    <2>1. faults = {} /\ faults' = {"overlap"} BY <1>4, FaultOf DEF Memory, FaultKinds
    <2>2. Loaded(1)' = Loaded(1) BY <1>1 DEF Loaded, files
    <2>3. Torn' <=> Torn BY <1>2 DEF Torn, At
    <2>4. DiskKeeps' BY <1>1, <2>1, <2>2, <2>3 DEF Memory, DiskKeeps
    <2> QED BY <1>1, <2>1, <2>4
        DEF Memory, OneFault, FaultKinds, Single, RowKeeps, OneKeeps, Same, files
  <1> QED BY <1>1, <1>3, <1>4 DEF MayRefresh

LEMMA MemoryExpire ==
    ASSUME Inv, Memory, Expire
    PROVE  Memory'
  <1>1. /\ UNCHANGED <<files, up, snap, seenMax, fails, best, faults>> /\ off' = 0
        /\ row'.seen = row.seen /\ row'.fails = row.fails /\ row'.off = 0
    BY DEF Expire, Inv, Types
  <1>2. \A a \in Goroutines :
            /\ g'[a].pc = g[a].pc /\ g'[a].cand = g[a].cand /\ g'[a].seen = g[a].seen
            /\ g'[a].fails = g[a].fails /\ g'[a].off = 0
    BY DEF Expire, Inv, Types, GoroutineType
  <1>3. Loaded(1)' = Loaded(1) /\ (Torn' <=> Torn) BY <1>1, <1>2 DEF Loaded, files, Torn, At
  <1>4. Single' BY <1>1, <1>2 DEF Memory, Single, At
  <1>5. DiskKeeps' /\ OneKeeps' BY <1>1, <1>3 DEF Memory, DiskKeeps, OneKeeps
  <1>6. RowKeeps' BY <1>1, <1>2 DEF Memory, RowKeeps, At
  <1>7. Same' BY <1>1, <1>2, <1>3 DEF Memory, Same
  <1> QED BY <1>1, <1>4, <1>5, <1>6, <1>7 DEF Memory, OneFault, files

\* A single fault strikes a goroutine that has nothing of its own to keep,
\* or whose release the files have.
LEMMA MemoryFault ==
    ASSUME Inv, Memory, faults = {}, NEW k \in FaultKinds \ {"overlap"}, faults' = {k},
           NEW a \in Goroutines, ~At(a, "idle"), \A b \in Goroutines \ {a} : g'[b] = g[b],
           g'[a].pc \in {"finish", "leave"},
           UNCHANGED <<files, row, snap, seenMax, best, up>>
    PROVE  Memory'
  <1>1. Loaded(1)' = Loaded(1) /\ Loaded(1) \in Nat /\ Loaded(1) >= 1 /\ best \in Nat /\ row.seen \in Nat
    BY LoadedOf DEF Loaded, files, Inv, Types
  <1>2. Single' BY DEF Memory, Single, At
  <1>3. Loaded(1) >= best \/ row.seen >= best
    <2>1. CASE At(a, "setseen") BY <2>1 DEF Memory, DiskKeeps, Single, Torn, At
    <2>2. CASE ~At(a, "setseen")
      <3>1. ~\E b \in Goroutines : At(b, "setseen") BY <2>2 DEF Memory, Single, At
      <3> QED BY <1>1, <3>1 DEF Memory, RowKeeps
    <2> QED BY <2>1, <2>2
  <1>4. OneKeeps' BY <1>1, <1>3 DEF OneKeeps
  <1> QED BY <1>2, <1>4 DEF Memory, OneFault, DiskKeeps, RowKeeps, Same, files

LEMMA MemoryRefresh ==
    ASSUME OneFault', Inv, Inv', Memory, NEW a \in Goroutines, RefreshStep(a)
    PROVE  Memory'
  <1>0. /\ g[a] \in GoroutineType /\ g \in [Goroutines -> GoroutineType]
        /\ best \in Nat /\ row \in [seen : Nat, fails : Nat, off : Nat] /\ Loaded(1) \in Nat /\ Loaded(1) >= 1
        /\ sigV \in Nat /\ jsonV \in Nat /\ seenMax \in Nat
    BY LoadedOf DEF Inv, Types
  <1>1. ~At(a, "idle") /\ up /\ seenMax >= best /\ best >= 1
    BY DEF RefreshStep, Pulled, PullFails, Decide, WriteSig, WriteJson, WriteFails, Publish,
           PersistSeen, Finish, LoadRow, SaveRow, Leave, At, Inv, FloorOK, Memory
  <1>2. \A b \in Goroutines \ {a} : g'[b] = g[b]
    BY <1>0 DEF RefreshStep, Pulled, PullFails, Decide, WriteSig, WriteJson, WriteFails, Publish,
                PersistSeen, Finish, LoadRow, SaveRow, Leave, Goto
  <1>3. "overlap" \notin faults => \A b \in Goroutines \ {a} : g[b].pc = "idle"
    BY <1>1 DEF Memory, Single, At
  <1>4. ASSUME (\E v \in Versions : Pulled(a, v)) \/ PullFails(a) \/ Decide(a) \/ Leave(a)
        PROVE  Memory'
    <2>1. UNCHANGED <<files, row, snap, seenMax, fails, off, best, up, faults>>
      BY <1>4 DEF Pulled, PullFails, Decide, Leave, state
    <2>2. g[a].pc \in {"pull", "apply", "leave"} BY <1>4 DEF Pulled, PullFails, Decide, Leave, At
    <2>3. g'[a].pc \in {"idle", "apply", "finish", "sig"}
      BY <1>0, <1>4 DEF Pulled, PullFails, Decide, Leave, Goto, GoroutineType, NotRunning
    <2> QED BY <1>1, <1>2, <2>1, <2>2, <2>3, MemoryAside
  <1>5. CASE WriteSig(a)
    <2>1. /\ g[a].pc = "sig" /\ g'[a].pc = "json"
          /\ UNCHANGED <<jsonV, row, snap, seenMax, fails, off, best, up, faults>>
      BY <1>0, <1>5 DEF WriteSig, At, Goto, GoroutineType, state
    <2>2. Single' BY <1>2, <1>3, <2>1 DEF Memory, Single, At
    <2>3. Torn' BY <2>1 DEF Torn, At
    <2>4. RowKeeps' BY <1>2, <1>3, <2>1 DEF Memory, RowKeeps, At
    <2>5. Same' BY <1>2, <2>1 DEF Memory, Same
    <2> QED BY <1>1, <2>1, <2>2, <2>3, <2>4, <2>5 DEF Memory, OneFault, DiskKeeps, OneKeeps
  <1>6. CASE WriteJson(a)
    <2>1. /\ g[a].pc = "json" /\ g'[a].pc = "publish" /\ jsonV' = g[a].cand /\ sigV' = sigV
          /\ UNCHANGED <<row, snap, seenMax, fails, off, best, up, faults>>
      BY <1>0, <1>6 DEF WriteJson, At, Goto, GoroutineType, state
    <2>2. sigV = g[a].cand /\ g[a].cand > seenMax /\ g[a].cand \in Nat
      BY <1>0, <2>1 DEF Inv, Lock, Applying, At, GoroutineType
    <2>3. Loaded(1)' = g[a].cand BY <1>0, <2>1, <2>2 DEF Loaded
    <2>4. Loaded(1)' >= best' BY <1>0, <1>1, <2>1, <2>2, <2>3
    <2>5. Single' BY <1>2, <1>3, <2>1 DEF Memory, Single, At
    <2>6. RowKeeps' BY <1>2, <1>3, <2>1 DEF Memory, RowKeeps, At
    <2>7. Same' BY <1>2, <2>1 DEF Memory, Same
    <2> QED BY <1>1, <2>1, <2>4, <2>5, <2>6, <2>7 DEF Memory, OneFault, DiskKeeps, OneKeeps
  <1>7. CASE WriteFails(a)
    <2>1. g'[a].pc = "finish" /\ UNCHANGED <<files, row, snap, seenMax, fails, off, best, up>>
      BY <1>0, <1>7 DEF WriteFails, GoroutineType, state
    <2>2. CASE At(a, "sig") /\ UNCHANGED faults BY <1>1, <1>2, <2>1, <2>2, MemoryAside DEF At
    <2>3. CASE Fault("partial")
      <3>1. faults = {} /\ faults' = {"partial"} BY <2>3, FaultOf DEF Memory, FaultKinds
      <3> QED BY <1>1, <1>2, <2>1, <3>1, MemoryFault DEF FaultKinds
    <2> QED BY <1>7, <2>2, <2>3 DEF WriteFails
  <1>8. CASE Publish(a)
    <2>1. /\ g[a].pc = "publish" /\ g'[a].pc = "setseen" /\ g'[a].cand = g[a].cand
          /\ snap' = g[a].cand /\ seenMax' = g[a].cand /\ best' = Higher(best, g[a].cand)
          /\ UNCHANGED <<files, row, fails, off, up, faults>>
      BY <1>0, <1>8 DEF Publish, At, Goto, GoroutineType, state
    <2>2. sigV = g[a].cand /\ jsonV = g[a].cand /\ g[a].cand > seenMax /\ g[a].cand \in Nat
      BY <1>0, <2>1 DEF Inv, Lock, Applying, At, GoroutineType
    <2>3. best' = g[a].cand /\ best' > best BY <1>0, <1>1, <2>1, <2>2 DEF Higher
    <2>4. Loaded(1)' = best' BY <1>0, <2>1, <2>2, <2>3 DEF Loaded, files
    <2>5. Single'
      <3>1. "overlap" \notin faults => row.seen <= best BY DEF Memory, Single
      <3>2. "overlap" \notin faults => row.seen <= best' BY <1>0, <2>2, <2>3, <3>1
      <3> QED BY <1>2, <1>3, <2>1, <2>3, <3>2 DEF Memory, Single, At
    <2>6. RowKeeps' BY <2>1 DEF RowKeeps, At
    <2>7. Same'
      <3> SUFFICES ASSUME faults = {}
                   PROVE /\ \A b \in Goroutines : g'[b].pc \in {"load", "save"} => g'[b].fails = fails /\ g'[b].off = off
                         /\ \/ \E b \in Goroutines : g'[b].pc \in {"load", "save"}
                            \/ row.fails = fails /\ row.off = off
        BY <2>1, <2>3, <2>4 DEF Same
      <3> QED BY <1>1, <1>2, <1>3, <2>1 DEF Memory, Same
    <2>8. best' \in Nat /\ best' >= 1 /\ Loaded(1)' >= best' BY <1>0, <1>1, <2>2, <2>3, <2>4
    <2> QED BY <2>1, <2>3, <2>5, <2>6, <2>7, <2>8 DEF Memory, OneFault, DiskKeeps, OneKeeps
  <1>9. CASE PersistSeen(a)
    <2>1. /\ g[a].pc = "setseen" /\ g'[a].pc = "finish"
          /\ UNCHANGED <<files, snap, seenMax, fails, off, best, up>>
      BY <1>0, <1>9 DEF PersistSeen, At, GoroutineType, state
    <2>2. CASE row' = [row EXCEPT !.seen = g[a].cand] /\ UNCHANGED faults
      <3>1. row'.seen = g[a].cand /\ row'.fails = row.fails /\ row'.off = row.off BY <1>0, <2>2
      <3>2. "overlap" \notin faults => g[a].cand = best BY <2>1 DEF Memory, Single, At
      <3>3. Loaded(1)' = Loaded(1) BY <2>1 DEF Loaded, files
      <3>4. Single' BY <1>0, <1>2, <1>3, <2>1, <2>2, <3>1, <3>2 DEF Memory, Single, At
      <3>5. RowKeeps' BY <1>0, <2>1, <2>2, <3>1, <3>2 DEF RowKeeps
      <3>6. OneKeeps' BY <1>0, <2>1, <2>2, <3>1, <3>2 DEF OneKeeps
      <3>7. Torn' <=> Torn BY <1>2, <2>1 DEF Torn, At
      <3>8. DiskKeeps' BY <2>1, <2>2, <3>3, <3>7 DEF Memory, DiskKeeps
      <3>9. Same' BY <1>2, <2>1, <2>2, <3>1, <3>3 DEF Memory, Same
      <3> QED BY <1>1, <2>1, <2>2, <3>4, <3>5, <3>6, <3>8, <3>9 DEF Memory, OneFault, files
    <2>3. CASE UNCHANGED row /\ Fault("db")
      <3>1. faults = {} /\ faults' = {"db"} BY <2>3, FaultOf DEF Memory, FaultKinds
      <3> QED BY <1>1, <1>2, <2>1, <2>3, <3>1, MemoryFault DEF FaultKinds
    <2> QED BY <1>9, <2>2, <2>3 DEF PersistSeen
  <1>10. CASE Finish(a)
    <2>1. /\ g[a].pc = "finish" /\ g'[a].pc = "load" /\ g'[a].fails = fails' /\ g'[a].off = off'
          /\ UNCHANGED <<files, row, snap, seenMax, best, up, faults>>
      BY <1>0, <1>10 DEF Finish, At, GoroutineType
    <2>2. Loaded(1)' = Loaded(1) BY <2>1 DEF Loaded, files
    <2>3. Single' BY <1>2, <1>3, <2>1 DEF Memory, Single, At
    <2>4. Torn' <=> Torn BY <1>2, <2>1 DEF Torn, At
    <2>5. DiskKeeps' /\ OneKeeps' BY <2>1, <2>2, <2>4 DEF Memory, DiskKeeps, OneKeeps
    <2>6. RowKeeps' BY <1>2, <2>1 DEF Memory, RowKeeps, At
    <2>7. Same' BY <1>2, <1>3, <2>1, <2>2 DEF Memory, Same
    <2> QED BY <1>1, <2>1, <2>3, <2>5, <2>6, <2>7 DEF Memory, OneFault, files
  <1>11. CASE LoadRow(a)
    <2>1. g[a].pc = "load" /\ UNCHANGED <<files, row, snap, seenMax, fails, off, best, up>>
      BY <1>11 DEF LoadRow, At, state
    <2>2. CASE g' = [g EXCEPT ![a].pc = "save", ![a].seen = row.seen] /\ UNCHANGED faults
      <3>1. g'[a].pc = "save" /\ g'[a].seen = row.seen /\ g'[a].fails = g[a].fails /\ g'[a].off = g[a].off
        BY <1>0, <2>2 DEF GoroutineType
      <3>2. Loaded(1)' = Loaded(1) BY <2>1 DEF Loaded, files
      <3>3. Single' BY <1>2, <1>3, <2>1, <2>2, <3>1 DEF Memory, Single, At
      <3>4. Torn' <=> Torn BY <1>2, <2>1, <3>1 DEF Torn, At
      <3>5. DiskKeeps' /\ OneKeeps' BY <2>1, <2>2, <3>2, <3>4 DEF Memory, DiskKeeps, OneKeeps
      <3>6. RowKeeps' BY <1>2, <2>1, <2>2, <3>1 DEF Memory, RowKeeps, At
      <3>7. Same' BY <1>2, <2>1, <2>2, <3>1, <3>2 DEF Memory, Same
      <3> QED BY <1>1, <2>1, <2>2, <3>3, <3>5, <3>6, <3>7 DEF Memory, OneFault, files
    <2>3. CASE Goto(a, "leave") /\ Fault("db")
      <3>1. faults = {} /\ faults' = {"db"} BY <2>3, FaultOf DEF Memory, FaultKinds
      <3>2. g'[a].pc = "leave" BY <1>0, <2>3 DEF Goto, GoroutineType
      <3> QED BY <1>1, <1>2, <2>1, <3>1, <3>2, MemoryFault DEF FaultKinds
    <2> QED BY <1>11, <2>2, <2>3 DEF LoadRow
  <1>12. CASE SaveRow(a)
    <2>1. /\ g[a].pc = "save" /\ g'[a].pc = "leave"
          /\ UNCHANGED <<files, snap, seenMax, fails, off, best, up>>
      BY <1>0, <1>12 DEF SaveRow, At, Goto, GoroutineType, state
    <2>2. CASE row' = RowOf(a) /\ UNCHANGED faults
      <3>1. row'.seen = g[a].seen /\ row'.fails = g[a].fails /\ row'.off = g[a].off BY <2>2 DEF RowOf
      <3>2. "overlap" \notin faults => g[a].seen = row.seen BY <2>1 DEF Memory, Single, At
      <3>3. Loaded(1)' = Loaded(1) BY <2>1 DEF Loaded, files
      <3>4. Single' BY <1>2, <1>3, <2>1, <2>2, <3>1, <3>2 DEF Memory, Single, At
      <3>5. Torn' <=> Torn BY <1>2, <2>1 DEF Torn, At
      <3>6. DiskKeeps' /\ OneKeeps' BY <2>1, <2>2, <3>1, <3>2, <3>3, <3>5 DEF Memory, DiskKeeps, OneKeeps
      <3>7. RowKeeps' BY <1>2, <2>1, <2>2, <3>1, <3>2 DEF Memory, RowKeeps, At
      <3>8. Same' BY <1>2, <1>3, <2>1, <2>2, <3>1, <3>3 DEF Memory, Same
      <3> QED BY <1>1, <2>1, <2>2, <3>4, <3>6, <3>7, <3>8 DEF Memory, OneFault, files
    <2>3. CASE UNCHANGED row /\ Fault("db")
      <3>1. faults = {} /\ faults' = {"db"} BY <2>3, FaultOf DEF Memory, FaultKinds
      <3> QED BY <1>1, <1>2, <2>1, <2>3, <3>1, MemoryFault DEF FaultKinds
    <2> QED BY <1>12, <2>2, <2>3 DEF SaveRow
  <1> QED BY <1>4, <1>5, <1>6, <1>7, <1>8, <1>9, <1>10, <1>11, <1>12 DEF RefreshStep

LEMMA MemoryStep == ASSUME EmbeddedIsFirst, OneFault', Inv, Memory, [Next]_vars PROVE Memory'
  <1>0. Inv' BY InvStep
  <1>1. CASE UNCHANGED vars
    BY <1>1 DEF Memory, OneFault, Single, DiskKeeps, RowKeeps, OneKeeps, Same, Torn, At, Loaded,
                vars, files, state
  <1>2. ASSUME NEW a \in Goroutines, RefreshStep(a) PROVE Memory' BY <1>0, <1>2, MemoryRefresh
  <1> QED BY <1>0, <1>1, <1>2, MemoryStart, MemoryDown, MemoryBegin, MemoryExpire DEF Next

-----------------------------------------------------------------------------
(* How many faults there are                                               *)

LEMMA FaultStep ==
    ASSUME [Next]_vars
    PROVE  UNCHANGED faults \/ \E k \in FaultKinds : Fault(k)
  <1>1. CASE Start \/ Stop \/ Crash \/ Damage
    BY <1>1 DEF Start, Stop, Crash, Damage, FaultKinds
  <1>2. CASE LoopFires \/ Trigger \/ Expire
    BY <1>2 DEF LoopFires, Trigger, MayRefresh, Expire, FaultKinds
  <1>3. ASSUME NEW a \in Goroutines, RefreshStep(a)
        PROVE  UNCHANGED faults \/ \E k \in FaultKinds : Fault(k)
    BY <1>3 DEF RefreshStep, Pulled, PullFails, Decide, WriteSig, WriteJson, WriteFails, Publish,
                PersistSeen, Finish, LoadRow, SaveRow, Leave, FaultKinds
  <1> QED BY <1>1, <1>2, <1>3 DEF Next, vars

\* What has been true while there was one fault at most.
Remembers == OneFault => Memory

LEMMA RemembersStep ==
    ASSUME EmbeddedIsFirst, Inv, Remembers, [Next]_vars
    PROVE  Remembers'
  <1> SUFFICES ASSUME OneFault' PROVE Memory' BY DEF Remembers
  <1>1. faults \subseteq faults' BY FaultStep DEF Fault
  <1>2. OneFault BY <1>1 DEF OneFault
  <1> QED BY <1>2, MemoryStep DEF Remembers

LEMMA OneFaultStep == ASSUME MaxFaults = 1, OneFault, [Next]_vars PROVE OneFault'
  <1>1. CASE UNCHANGED faults BY <1>1 DEF OneFault
  <1>2. ASSUME NEW k \in FaultKinds, Fault(k) PROVE OneFault'
    <2>1. Cardinality(faults) < 1 /\ faults' = faults \union {k} BY <1>2 DEF Fault
    <2>2. ASSUME NEW x, faults = {x} PROVE FALSE
      <3>1. Cardinality({x}) = 1 BY FS_Singleton
      <3> QED BY <2>1, <2>2, <3>1
    <2>3. faults = {} BY <2>2 DEF OneFault
    <2> QED BY <2>1, <2>3 DEF OneFault
  <1> QED BY <1>1, <1>2, FaultStep

-----------------------------------------------------------------------------
(* The row over any number of faults that are not faults of the row        *)

\* The floor in memory is never below the row's, and what is on its way to
\* the row is no less than what the row holds.
Rising ==
    "overlap" \notin faults =>
        /\ \A a, b \in Goroutines : ~At(a, "idle") /\ ~At(b, "idle") => a = b
        /\ \A a \in Goroutines : /\ At(a, "save") => g[a].seen = row.seen
                                 /\ At(a, "setseen") => g[a].cand = seenMax
        /\ up => seenMax >= row.seen

LEMMA RisingStep ==
    ASSUME EmbeddedIsFirst, "db" \notin Faults, Inv, Inv', Rising, [Next]_vars
    PROVE  Rising'
  <1> SUFFICES ASSUME "overlap" \notin faults' PROVE Rising' BY DEF Rising
  <1>0. /\ "overlap" \notin faults
        /\ seenMax \in Nat /\ row \in [seen : Nat, fails : Nat, off : Nat]
        /\ g \in [Goroutines -> GoroutineType]
    BY FaultStep DEF Fault, Inv, Types
  <1>1. /\ \A a, b \in Goroutines : ~At(a, "idle") /\ ~At(b, "idle") => a = b
        /\ \A a \in Goroutines : /\ At(a, "save") => g[a].seen = row.seen
                                 /\ At(a, "setseen") => g[a].cand = seenMax
        /\ up => seenMax >= row.seen
    BY <1>0 DEF Rising
  <1>2. ~Fault("db") BY DEF Fault
  <1>3. CASE UNCHANGED vars BY <1>1, <1>3 DEF Rising, At, vars, files, state
  <1>4. CASE Start \/ Stop \/ Crash \/ Damage
    <2>1. \A a \in Goroutines : g'[a].pc = "idle"
      BY <1>4 DEF Start, Stop, Crash, Damage, NotRunning, At, Inv, FloorOK
    <2>2. up' => seenMax' >= row'.seen
      <3>1. CASE Start
        <4>1. snap' \in Nat BY DEF Inv, Types
        <4> QED BY <1>0, <1>2, <3>1, <4>1 DEF Start, Floor, Higher
      <3>2. CASE Stop \/ Crash \/ Damage BY <3>2 DEF Stop, Crash, Damage
      <3> QED BY <1>4, <3>1, <3>2
    <2> QED BY <2>1, <2>2 DEF Rising, At
  <1>5. CASE LoopFires \/ Trigger
    <2>1. PICK b \in Goroutines :
            MayRefresh(b) /\ Goto(b, "pull") /\ UNCHANGED <<row, up, seenMax>>
      BY <1>5 DEF LoopFires, Trigger, Goroutines
    <2>2. \A a \in Goroutines : g[a].pc = "idle"
      BY <1>0, <2>1 DEF MayRefresh, Fault, At
    <2>3. g'[b].pc = "pull" /\ \A a \in Goroutines \ {b} : g'[a].pc = "idle"
      BY <1>0, <2>1, <2>2 DEF Goto, GoroutineType
    <2> QED BY <1>1, <2>1, <2>3 DEF Rising, At
  <1>6. CASE Expire
    <2>1. \A a \in Goroutines : g'[a].pc = g[a].pc /\ g'[a].cand = g[a].cand /\ g'[a].seen = g[a].seen
      BY <1>0, <1>6 DEF Expire, GoroutineType
    <2>2. row'.seen = row.seen /\ UNCHANGED <<up, seenMax>> BY <1>0, <1>6 DEF Expire
    <2> QED BY <1>1, <2>1, <2>2 DEF Rising, At
  <1>7. ASSUME NEW a \in Goroutines, RefreshStep(a) PROVE Rising'
    <2>1. g[a] \in GoroutineType /\ g[a].pc # "idle"
      BY <1>0, <1>7 DEF RefreshStep, Pulled, PullFails, Decide, WriteSig, WriteJson, WriteFails,
                        Publish, PersistSeen, Finish, LoadRow, SaveRow, Leave, At
    <2>2. \A b \in Goroutines \ {a} : g'[b] = g[b] /\ g[b].pc = "idle"
      <3>1. \A b \in Goroutines \ {a} : g'[b] = g[b]
        BY <1>0, <1>7 DEF RefreshStep, Pulled, PullFails, Decide, WriteSig, WriteJson, WriteFails,
                          Publish, PersistSeen, Finish, LoadRow, SaveRow, Leave, Goto
      <3> QED BY <1>1, <2>1, <3>1 DEF At
    <2>3. SUFFICES ASSUME TRUE
                   PROVE  /\ g'[a].pc = "save" => g'[a].seen = row'.seen
                          /\ g'[a].pc = "setseen" => g'[a].cand = seenMax'
                          /\ up' => seenMax' >= row'.seen
      BY <2>2 DEF Rising, At
    <2>4. CASE \/ (\E v \in Versions : Pulled(a, v)) \/ PullFails(a) \/ Decide(a) \/ WriteSig(a)
               \/ WriteJson(a) \/ WriteFails(a) \/ Finish(a) \/ Leave(a)
      <3>1. UNCHANGED <<row, up, seenMax>>
        BY <2>4 DEF Pulled, PullFails, Decide, WriteSig, WriteJson, WriteFails, Finish, Leave
      <3>2. g'[a].pc \notin {"save", "setseen"}
        BY <1>0, <2>1, <2>4 DEF Pulled, PullFails, Decide, WriteSig, WriteJson, WriteFails, Finish,
                                Leave, Goto, GoroutineType, NotRunning
      <3> QED BY <1>1, <3>1, <3>2
    <2>5. CASE Publish(a)
      <3>1. /\ g[a].pc = "publish" /\ g'[a].pc = "setseen" /\ g'[a].cand = g[a].cand
            /\ seenMax' = g[a].cand /\ UNCHANGED <<row, up>>
        BY <1>0, <2>1, <2>5 DEF Publish, At, Goto, GoroutineType
      <3>2. g[a].cand > seenMax /\ g[a].cand \in Nat /\ up
        BY <2>1, <3>1 DEF Inv, Lock, FloorOK, Applying, At, GoroutineType
      <3> QED BY <1>0, <1>1, <3>1, <3>2
    <2>6. CASE PersistSeen(a)
      <3>1. /\ g[a].pc = "setseen" /\ g'[a].pc = "finish" /\ row'.seen = g[a].cand
            /\ UNCHANGED <<up, seenMax>>
        BY <1>0, <1>2, <2>1, <2>6 DEF PersistSeen, At, GoroutineType
      <3> QED BY <1>0, <1>1, <3>1 DEF At
    <2>7. CASE LoadRow(a)
      <3>1. /\ UNCHANGED <<row, up, seenMax>>
            /\ g'[a].pc = "save" /\ g'[a].seen = row.seen
        BY <1>0, <1>2, <2>1, <2>7 DEF LoadRow, GoroutineType
      <3> QED BY <1>1, <3>1
    <2>8. CASE SaveRow(a)
      <3>1. /\ g[a].pc = "save" /\ g'[a].pc = "leave" /\ row'.seen = g[a].seen
            /\ UNCHANGED <<up, seenMax>>
        BY <1>0, <1>2, <2>1, <2>8 DEF SaveRow, RowOf, At, Goto, GoroutineType
      <3> QED BY <1>1, <3>1 DEF At
    <2> QED BY <1>7, <2>4, <2>5, <2>6, <2>7, <2>8 DEF RefreshStep
  <1> QED BY <1>3, <1>4, <1>5, <1>6, <1>7 DEF Next

\* A step that writes the row writes a floor that is no lower, if what is on
\* its way there is not (PersistSeen, SaveRow).
LEMMA RowRises ==
    ASSUME Inv, [Next]_vars,
           \A a \in Goroutines : /\ At(a, "save") => g[a].seen = row.seen
                                 /\ At(a, "setseen") => g[a].cand >= row.seen
    PROVE  row'.seen >= row.seen
  <1>0. row \in [seen : Nat, fails : Nat, off : Nat] BY DEF Inv, Types
  <1>1. CASE row'.seen = row.seen BY <1>0, <1>1
  <1>2. ASSUME NEW a \in Goroutines, PersistSeen(a) PROVE row'.seen >= row.seen
    <2>1. row'.seen \in {g[a].cand, row.seen} BY <1>0, <1>2 DEF PersistSeen
    <2> QED BY <1>0, <1>2, <2>1 DEF PersistSeen
  <1>3. ASSUME NEW a \in Goroutines, SaveRow(a) PROVE row'.seen = row.seen
    BY <1>3 DEF SaveRow, RowOf
  <1>4. CASE Expire BY <1>0, <1>4 DEF Expire
  <1>5. ASSUME NEW a \in Goroutines, RefreshStep(a), ~PersistSeen(a), ~SaveRow(a)
        PROVE  row'.seen = row.seen
    BY <1>5 DEF RefreshStep, Pulled, PullFails, Decide, WriteSig, WriteJson, WriteFails, Publish,
                Finish, LoadRow, Leave
  <1>6. CASE Start \/ Stop \/ Crash \/ Damage \/ LoopFires \/ Trigger \/ UNCHANGED vars
    BY <1>1, <1>6 DEF Start, Stop, Crash, Damage, LoopFires, Trigger, vars
  <1> QED BY <1>1, <1>2, <1>3, <1>4, <1>5, <1>6 DEF Next

\* The persisted floor only rises unless two refreshes overlap, and an
\* ordinary restart changes nothing (rulesglue.go restoreSeenMax, refresher.go
\* Start): after one fault of any kind, or after any number of faults if the
\* row itself can be read and written.  Both are needed: a row that cannot be
\* read at a restart after the files were lost lets an older floor be written.
THEOREM RestartKeeps ==
    ASSUME EmbeddedIsFirst, MaxFaults = 1 \/ "db" \notin Faults
    PROVE  Spec => CountersKept
  <1> DEFINE Kept == /\ row'.seen >= row.seen \/ "overlap" \in faults
                     /\ Start /\ faults' = {} /\ best # 0 =>
                          snap' = snap /\ seenMax' = seenMax /\ fails' = fails /\ off' = off
             \* Which of the two hypotheses it is.
             Known == (MaxFaults = 1 /\ OneFault) \/ ("db" \notin Faults /\ Rising)
  <1>1. Inv /\ Remembers /\ Known /\ [Next]_vars => [Kept]_vars
    <2> SUFFICES ASSUME Inv, Remembers, Known, [Next]_vars PROVE Kept OBVIOUS
    <2>0. row \in [seen : Nat, fails : Nat, off : Nat] /\ g \in [Goroutines -> GoroutineType] /\ best \in Nat
      BY DEF Inv, Types
    <2>1. row'.seen >= row.seen \/ "overlap" \in faults
      <3> SUFFICES ASSUME "overlap" \notin faults PROVE row'.seen >= row.seen OBVIOUS
      <3>1. CASE OneFault
        <4>1. /\ \A a \in Goroutines : /\ At(a, "save") => g[a].seen = row.seen
                                       /\ At(a, "setseen") => g[a].cand = best
              /\ row.seen <= best
          BY <3>1 DEF Remembers, Memory, Single
        <4>2. best >= row.seen BY <2>0, <4>1
        <4> QED BY <4>1, <4>2, RowRises
      <3>2. CASE Rising
        <4>1. \A a \in Goroutines : At(a, "setseen") => up BY DEF Inv, FloorOK, At
        <4> QED BY <3>2, <4>1, RowRises DEF Rising
      <3> QED BY <3>1, <3>2
    <2>2. ASSUME Start, faults' = {}, best # 0
          PROVE  snap' = snap /\ seenMax' = seenMax /\ fails' = fails /\ off' = off
      <3>1. UNCHANGED faults /\ seenMax' = Higher(snap', row.seen) /\ fails' = row.fails /\ off' = row.off
        BY <2>2 DEF Start, Fault, Floor
      <3>2. Memory BY <2>2, <3>1 DEF Remembers, OneFault
      <3>3. \A a \in Goroutines : g[a].pc = "idle" BY <2>2 DEF Start, Inv, FloorOK, At
      <3>4. snap = best /\ seenMax = best /\ snap = Loaded(1) /\ row.fails = fails /\ row.off = off
        BY <2>2, <3>1, <3>2, <3>3 DEF Memory, Same
      <3>5. snap' = Loaded(1) BY <2>2 DEF Start, EmbeddedIsFirst
      <3>6. row.seen <= best BY <2>2, <3>1, <3>2 DEF Memory, Single
      <3> QED BY <2>0, <3>1, <3>4, <3>5, <3>6 DEF Higher
    <2> QED BY <2>1, <2>2
  <1>2. Inv /\ [Next]_vars => Inv' BY InvStep
  <1>3. Inv /\ Remembers /\ [Next]_vars => Remembers' BY RemembersStep
  <1>4. Inv /\ Known /\ [Next]_vars => Known'
    <2> SUFFICES ASSUME Inv, Known, [Next]_vars PROVE Known' OBVIOUS
    <2>1. CASE MaxFaults = 1 /\ OneFault BY <2>1, OneFaultStep
    <2>2. CASE "db" \notin Faults /\ Rising BY <1>2, <2>2, RisingStep
    <2> QED BY <2>1, <2>2
  <1>5. Init => Inv /\ Remembers /\ Known
    <2> SUFFICES ASSUME Init PROVE Inv /\ Remembers /\ Known OBVIOUS
    <2>1. Inv /\ Remembers BY InvInit, MemoryInit DEF Remembers
    <2>2. OneFault BY DEF Init, OneFault
    <2>3. Rising BY DEF Init, NotRunning, Rising, At
    <2> QED BY <2>1, <2>2, <2>3
  <1> QED BY <1>1, <1>2, <1>3, <1>4, <1>5, PTL DEF Spec, CountersKept
-----------------------------------------------------------------------------
(* The files alone, and the row alone, keep the highest release            *)

\* The files remember it while each of their writes is finished: the row may
\* be unreadable or overwritten as often as it will.
FilesRemember ==
    /\ Torn \/ Loaded(1) >= best
    /\ up => seenMax >= best

LEMMA FilesRememberStep ==
    ASSUME EmbeddedIsFirst, Faults \subseteq {"db", "overlap"}, Inv, Inv', FilesRemember, [Next]_vars
    PROVE  FilesRemember'
  <1>0. /\ best \in Nat /\ seenMax \in Nat /\ Loaded(1) \in Nat /\ Loaded(1) >= 1
        /\ g \in [Goroutines -> GoroutineType] /\ sigV \in Nat /\ jsonV \in Nat
    BY LoadedOf DEF Inv, Types
  <1>1. ~Fault("crash") /\ ~Fault("damage") /\ ~Fault("partial") BY DEF Fault
  <1>2. ASSUME UNCHANGED <<files, best>>, Torn => Torn', up' => up /\ UNCHANGED seenMax
        PROVE  FilesRemember'
    BY <1>2 DEF FilesRemember, Loaded, files
  <1>3. CASE UNCHANGED vars BY <1>2, <1>3 DEF vars, Torn, At
  <1>4. CASE Start
    <2>1. snap' = Loaded(1) /\ Loaded(1)' = Loaded(1) /\ best' = Higher(best, snap')
      BY <1>4 DEF Start, EmbeddedIsFirst, Loaded, files
    <2>2. ~Torn BY <1>4 DEF Start, Torn, Inv, FloorOK, At
    <2>3. best' = Loaded(1) BY <1>0, <2>1, <2>2 DEF FilesRemember, Higher
    <2>4. seenMax' >= snap' BY <1>4 DEF Start, Inv, FloorOK
    <2> QED BY <1>0, <2>1, <2>3, <2>4 DEF FilesRemember
  <1>5. CASE Stop
    <2>1. ~Torn /\ ~up' /\ UNCHANGED <<files, best>> BY <1>5 DEF Stop, Torn, At
    <2> QED BY <1>2, <2>1
  <1>6. CASE Crash \/ Damage BY <1>1, <1>6 DEF Crash, Damage
  <1>7. CASE LoopFires \/ Trigger
    <2>1. PICK b \in Goroutines :
            At(b, "idle") /\ Goto(b, "pull") /\ UNCHANGED <<files, best, up, seenMax>>
      BY <1>7 DEF LoopFires, Trigger, MayRefresh, Goroutines
    <2>2. \A a \in Goroutines : g[a].pc = "json" => g'[a].pc = "json" BY <1>0, <2>1 DEF Goto, At
    <2> QED BY <1>2, <2>1, <2>2 DEF Torn, At
  <1>8. CASE Expire
    <2>1. \A a \in Goroutines : g'[a].pc = g[a].pc BY <1>0, <1>8 DEF Expire, GoroutineType
    <2> QED BY <1>2, <1>8, <2>1 DEF Expire, Torn, At
  <1>9. ASSUME NEW a \in Goroutines, RefreshStep(a) PROVE FilesRemember'
    <2>1. g[a] \in GoroutineType BY <1>0
    <2>2. \A b \in Goroutines \ {a} : g'[b] = g[b]
      BY <1>0, <1>9 DEF RefreshStep, Pulled, PullFails, Decide, WriteSig, WriteJson, WriteFails,
                        Publish, PersistSeen, Finish, LoadRow, SaveRow, Leave, Goto
    <2>3. CASE \/ (\E v \in Versions : Pulled(a, v)) \/ PullFails(a) \/ Decide(a) \/ WriteFails(a)
               \/ PersistSeen(a) \/ Finish(a) \/ LoadRow(a) \/ SaveRow(a) \/ Leave(a)
      <3>1. UNCHANGED <<files, best, up, seenMax>>
        BY <2>3 DEF Pulled, PullFails, Decide, WriteFails, PersistSeen, Finish, LoadRow, SaveRow, Leave
      <3>2. g[a].pc # "json"
        BY <1>1, <2>3 DEF Pulled, PullFails, Decide, WriteFails, PersistSeen, Finish, LoadRow, SaveRow,
                          Leave, At
      <3> QED BY <1>2, <2>2, <3>1, <3>2 DEF Torn, At
    <2>4. CASE WriteSig(a)
      <3>1. g'[a].pc = "json" /\ UNCHANGED <<up, seenMax, best>>
        BY <1>0, <2>1, <2>4 DEF WriteSig, Goto, GoroutineType
      <3> QED BY <3>1 DEF FilesRemember, Torn, At
    <2>5. CASE WriteJson(a)
      <3>1. /\ g[a].pc = "json" /\ jsonV' = g[a].cand /\ sigV' = sigV
            /\ UNCHANGED <<up, seenMax, best>>
        BY <2>5 DEF WriteJson, At
      <3>2. sigV = g[a].cand /\ g[a].cand > seenMax /\ g[a].cand \in Nat /\ up
        BY <2>1, <3>1 DEF Inv, Lock, FloorOK, Applying, At, GoroutineType
      <3>3. Loaded(1)' = g[a].cand BY <1>0, <3>1, <3>2 DEF Loaded
      <3> QED BY <1>0, <3>1, <3>2, <3>3 DEF FilesRemember
    <2>6. CASE Publish(a)
      <3>1. /\ g[a].pc = "publish" /\ seenMax' = g[a].cand /\ best' = Higher(best, g[a].cand)
            /\ UNCHANGED <<files, up>>
        BY <2>6 DEF Publish, At
      <3>2. /\ sigV = g[a].cand /\ jsonV = g[a].cand /\ g[a].cand > seenMax /\ g[a].cand \in Nat /\ up
        BY <2>1, <3>1 DEF Inv, Lock, FloorOK, Applying, At, GoroutineType
      <3>3. best' = g[a].cand BY <1>0, <3>1, <3>2 DEF FilesRemember, Higher
      <3>4. Loaded(1)' = g[a].cand BY <1>0, <3>1, <3>2 DEF Loaded, files
      <3> QED BY <3>1, <3>2, <3>3, <3>4 DEF FilesRemember
    <2> QED BY <1>9, <2>3, <2>4, <2>5, <2>6 DEF RefreshStep
  <1> QED BY <1>3, <1>4, <1>5, <1>6, <1>7, <1>8, <1>9 DEF Next

\* The row remembers it while the process gets as far as to write it: the
\* files may be lost or torn as often as they will.
RowRemembers ==
    /\ (\E a \in Goroutines : At(a, "setseen")) \/ row.seen >= best \/ best <= 1
    /\ (\E a \in Goroutines : At(a, "publish")) \/ jsonV <= best
    /\ up => seenMax >= best
    /\ faults \subseteq Faults

LEMMA RowRemembersStep ==
    ASSUME EmbeddedIsFirst, Faults \subseteq {"damage", "partial"},
           Inv, Inv', Rising, RowRemembers, [Next]_vars
    PROVE  RowRemembers'
  <1>0. /\ best \in Nat /\ seenMax \in Nat /\ Loaded(1) \in Nat /\ Loaded(1) >= 1 /\ jsonV \in Nat
        /\ g \in [Goroutines -> GoroutineType] /\ row \in [seen : Nat, fails : Nat, off : Nat]
    BY LoadedOf DEF Inv, Types
  <1>1. /\ ~Fault("crash") /\ ~Fault("db") /\ ~Fault("overlap")
        /\ "overlap" \notin faults
        /\ faults' \subseteq Faults
    BY FaultStep DEF Fault, RowRemembers
  <1>2. /\ \A a, b \in Goroutines : ~At(a, "idle") /\ ~At(b, "idle") => a = b
        /\ \A a \in Goroutines : /\ At(a, "save") => g[a].seen = row.seen
                                 /\ At(a, "setseen") => g[a].cand = seenMax
    BY <1>1 DEF Rising
  <1>3. ASSUME row'.seen = row.seen, UNCHANGED <<jsonV, best>>, up' => up /\ UNCHANGED seenMax,
               \A a \in Goroutines : g[a].pc \in {"setseen", "publish"} => g'[a].pc = g[a].pc
        PROVE  RowRemembers'
    BY <1>1, <1>3 DEF RowRemembers, At
  <1>4. CASE UNCHANGED vars BY <1>3, <1>4 DEF vars, files
  <1>5. CASE Start
    <2>1. /\ snap' = Loaded(1) /\ best' = Higher(best, snap') /\ UNCHANGED <<files, row>>
          /\ seenMax' = Higher(snap', row.seen)
      BY <1>1, <1>5 DEF Start, EmbeddedIsFirst, Floor
    <2>2. \A a \in Goroutines : g[a].pc = "idle" BY <1>5 DEF Start, Inv, FloorOK, At
    <2>3. jsonV <= best /\ (row.seen >= best \/ best <= 1) BY <2>2 DEF RowRemembers, At
    <2>4. Loaded(1) <= best \/ Loaded(1) = 1 BY <1>0, <2>3 DEF Loaded
    <2>5. best' = best \/ best' = 1 BY <1>0, <2>1, <2>4 DEF Higher
    <2>6. jsonV' <= best' BY <1>0, <2>1, <2>3 DEF files, Higher
    <2>7. row'.seen >= best' \/ best' <= 1 BY <2>1, <2>3, <2>5
    <2>8. seenMax' >= best' BY <1>0, <2>1, <2>3, <2>4, <2>5 DEF Higher
    <2> QED BY <1>1, <2>6, <2>7, <2>8 DEF RowRemembers
  <1>6. CASE Stop
    <2>1. /\ \A a \in Goroutines : g[a].pc = "idle"
          /\ row'.seen = row.seen /\ UNCHANGED <<jsonV, best>> /\ ~up'
      BY <1>6 DEF Stop, At, files
    <2> QED BY <1>3, <2>1
  <1>7. CASE Crash BY <1>1, <1>7 DEF Crash
  <1>8. CASE Damage
    <2>1. jsonV' = 0 /\ UNCHANGED <<row, up, seenMax, best, g>> BY <1>8 DEF Damage
    <2> QED BY <1>0, <1>1, <2>1 DEF RowRemembers, At
  <1>9. CASE LoopFires \/ Trigger
    <2>1. PICK b \in Goroutines :
            At(b, "idle") /\ Goto(b, "pull") /\ UNCHANGED <<row, files, best, up, seenMax>>
      BY <1>9 DEF LoopFires, Trigger, MayRefresh, Goroutines
    <2>2. \A a \in Goroutines : g[a].pc \in {"setseen", "publish"} => g'[a].pc = g[a].pc
      BY <1>0, <2>1 DEF Goto, At
    <2> QED BY <1>3, <2>1, <2>2 DEF files
  <1>10. CASE Expire
    <2>1. \A a \in Goroutines : g'[a].pc = g[a].pc BY <1>0, <1>10 DEF Expire, GoroutineType
    <2>2. row'.seen = row.seen BY <1>0, <1>10 DEF Expire
    <2> QED BY <1>3, <1>10, <2>1, <2>2 DEF Expire, files
  <1>11. ASSUME NEW a \in Goroutines, RefreshStep(a) PROVE RowRemembers'
    <2>1. g[a] \in GoroutineType BY <1>0
    <2>2. \A b \in Goroutines \ {a} : g'[b] = g[b]
      BY <1>0, <1>11 DEF RefreshStep, Pulled, PullFails, Decide, WriteSig, WriteJson, WriteFails,
                         Publish, PersistSeen, Finish, LoadRow, SaveRow, Leave, Goto
    <2>3. CASE \/ (\E v \in Versions : Pulled(a, v)) \/ PullFails(a) \/ Decide(a) \/ WriteSig(a)
               \/ WriteFails(a) \/ Finish(a) \/ LoadRow(a) \/ SaveRow(a) \/ Leave(a)
      <3>1. UNCHANGED <<jsonV, best, up, seenMax>>
        BY <2>3 DEF Pulled, PullFails, Decide, WriteSig, WriteFails, Finish, LoadRow, SaveRow, Leave, files
      <3>2. g[a].pc \notin {"setseen", "publish"}
        BY <2>3 DEF Pulled, PullFails, Decide, WriteSig, WriteFails, Finish, LoadRow, SaveRow, Leave, At
      <3>3. row'.seen = row.seen
        BY <1>2, <2>3 DEF Pulled, PullFails, Decide, WriteSig, WriteFails, Finish, LoadRow, SaveRow, Leave,
                          RowOf
      <3> QED BY <1>3, <2>2, <3>1, <3>2, <3>3
    <2>4. CASE WriteJson(a)
      <3>1. /\ g[a].pc = "json" /\ g'[a].pc = "publish" /\ UNCHANGED <<row, up, seenMax, best>>
        BY <1>0, <2>1, <2>4 DEF WriteJson, At, Goto, GoroutineType
      <3>2. \A b \in Goroutines : g[b].pc = "setseen" => g'[b].pc = "setseen" BY <2>2, <3>1
      <3> QED BY <1>1, <3>1, <3>2 DEF RowRemembers, At
    <2>5. CASE Publish(a)
      <3>1. /\ g[a].pc = "publish" /\ g'[a].pc = "setseen"
            /\ seenMax' = g[a].cand /\ best' = Higher(best, g[a].cand) /\ UNCHANGED <<files, up>>
        BY <1>0, <2>1, <2>5 DEF Publish, At, Goto, GoroutineType
      <3>2. jsonV = g[a].cand /\ g[a].cand > seenMax /\ g[a].cand \in Nat /\ up
        BY <2>1, <3>1 DEF Inv, Lock, FloorOK, Applying, At, GoroutineType
      <3>3. best' = g[a].cand BY <1>0, <3>1, <3>2 DEF RowRemembers, Higher
      <3> QED BY <1>0, <1>1, <3>1, <3>2, <3>3 DEF RowRemembers, At, files
    <2>6. CASE PersistSeen(a)
      <3>1. g[a].pc = "setseen" /\ row'.seen = g[a].cand /\ UNCHANGED <<jsonV, best, up, seenMax>>
        BY <1>0, <1>1, <2>6 DEF PersistSeen, At, files
      <3>2. up /\ g[a].cand = seenMax BY <1>2, <3>1 DEF Inv, FloorOK, At
      <3>3. row'.seen >= best' BY <3>1, <3>2 DEF RowRemembers
      <3>4. \A b \in Goroutines : g[b].pc = "publish" => g'[b].pc = "publish" BY <2>2, <3>1
      <3> QED BY <1>1, <3>1, <3>3, <3>4 DEF RowRemembers, At
    <2> QED BY <1>11, <2>3, <2>4, <2>5, <2>6 DEF RefreshStep
  <1> QED BY <1>4, <1>5, <1>6, <1>7, <1>8, <1>9, <1>10, <1>11 DEF Next

\* No release is accepted that is not newer than every one that was ever in
\* force, over restarts and one fault of any kind (rules_state.go: seen_max is
\* insured by the table and by the pair on disk), or over any number of faults
\* that leave one of the two alone: of the row and overlaps, which the files
\* outlast, or of the files while the process lives, which the row outlasts.
THEOREM OldStaysOut ==
    ASSUME EmbeddedIsFirst,
           MaxFaults = 1 \/ Faults \subseteq {"db", "overlap"} \/ Faults \subseteq {"damage", "partial"}
    PROVE  Spec => NoReplay
  \* Which of the three hypotheses it is.
  <1> DEFINE Known == \/ MaxFaults = 1 /\ OneFault
                      \/ Faults \subseteq {"db", "overlap"} /\ FilesRemember
                      \/ Faults \subseteq {"damage", "partial"} /\ Rising /\ RowRemembers
  <1>1. Inv /\ Remembers /\ Known => [\A a \in Goroutines : Publish(a) => g[a].cand > best]_vars
    <2> SUFFICES ASSUME Inv, Remembers, Known, NEW a \in Goroutines, Publish(a) PROVE g[a].cand > best
      OBVIOUS
    <2>1. g[a].pc = "publish" BY DEF Publish, At
    <2>2. up BY <2>1 DEF Inv, FloorOK, At
    <2>3. g[a].cand > seenMax /\ g[a].cand \in Nat /\ seenMax \in Nat /\ best \in Nat
      BY <2>1 DEF Inv, Lock, Applying, Types, GoroutineType
    <2>4. seenMax >= best BY <2>2 DEF Remembers, Memory, FilesRemember, RowRemembers
    <2> QED BY <2>3, <2>4
  <1>2. Inv /\ [Next]_vars => Inv' BY InvStep
  <1>3. Inv /\ Remembers /\ [Next]_vars => Remembers' BY RemembersStep
  <1>4. Inv /\ Known /\ [Next]_vars => Known'
    <2> SUFFICES ASSUME Inv, Known, [Next]_vars PROVE Known' OBVIOUS
    <2>1. CASE MaxFaults = 1 /\ OneFault BY <2>1, OneFaultStep
    <2>2. CASE Faults \subseteq {"db", "overlap"} /\ FilesRemember BY <1>2, <2>2, FilesRememberStep
    <2>3. CASE Faults \subseteq {"damage", "partial"} /\ Rising /\ RowRemembers
      <3>1. "db" \notin Faults BY <2>3
      <3> QED BY <1>2, <2>3, <3>1, RisingStep, RowRemembersStep
    <2> QED BY <2>1, <2>2, <2>3
  <1>5. Init => Inv /\ Remembers /\ Known
    <2> SUFFICES ASSUME Init PROVE Inv /\ Remembers /\ Known OBVIOUS
    <2>1. Inv /\ Remembers BY InvInit, MemoryInit DEF Remembers
    <2>2. OneFault BY DEF Init, OneFault
    <2>3. FilesRemember BY DEF Init, FilesRemember, Loaded
    <2>4. Rising /\ RowRemembers BY DEF Init, NotRunning, Rising, RowRemembers, At
    <2> QED BY <2>1, <2>2, <2>3, <2>4
  <1> QED BY <1>1, <1>2, <1>3, <1>4, <1>5, PTL DEF Spec, NoReplay

=============================================================================
