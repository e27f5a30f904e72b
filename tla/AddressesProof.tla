--------------------------- MODULE AddressesProof ---------------------------
(***************************************************************************)
(* Proofs about Addresses for any number of schedulers, of processes that  *)
(* hold them, of addresses, starts and sources' answers: the cache stays   *)
(* whole, no level of the chain is skipped, and a one-shot scheduler       *)
(* connects to checked addresses only.                                     *)
(* Each invariant has a strengthening of its own, over one type invariant. *)
(***************************************************************************)
EXTENDS Addresses, TLAPS

SeedPlaces == {"off", "host", "meta", "doh", "cache", "seeds", "add", "check", "done"} \cup Saving
MainPlaces == {"off", "wait", "restore", "check", "run"}
PoolStates == {None, "New", "Active", "Isolated"}

SchedType == [seed : SeedPlaces, main : MainPlaces, left : Nat, got : SUBSET Addrs, doh : SUBSET Addrs,
             read : {None, "there", "none"}, fd : {None, "tmp", "cache", "gone"}, pool : [Addrs -> PoolStates],
             batch : [{"seed", "main"} -> SUBSET Addrs], ops : SUBSET [ip : Addrs, score : {1, 2}]]

\* What is in a file: an answer, nothing or a truncated rest.
FileType == (SUBSET Addrs) \cup {{Torn}}

TypeInv ==
    /\ net \in [Sources -> {"up", "refused", "stalled"}] /\ alive \in SUBSET Addrs
    /\ cache \in FileType /\ tmp \in FileType
    /\ row = None \/ row.ip \in Addrs
    /\ sc \in [Scheds -> SchedType]

\* CacheWhole: who writes has the temporary file open, and who has written it
\* renames what he has written.
WrittenWhole ==
    "overlap" \notin seen =>
        /\ Torn \notin cache
        /\ \A p \in Scheds : InSeed(p, "write") => sc[p].fd = "tmp" /\ tmp = {Torn}
        /\ \A p \in Scheds : InSeed(p, "rename") => Torn \notin tmp

\* EveryLevelCounts: a level that is behind a scheduler had no answer for it.
Hopeless(state, s) == state.left = 0 \/ net[s] # "up"

ChainOf(state) ==
    /\ state.main = "off" => state.seed = "off"
    /\ state.seed \in Saving => state.got # {}
    /\ state.seed \in {"doh", "cache", "seeds"} => Hopeless(state, "meta")
    /\ state.seed \in {"cache", "seeds"} => Hopeless(state, "doh")
    /\ state.seed = "seeds" => state.read = "none"
    /\ state.seed \in {"add", "check", "done"} /\ state.got = {} =>
           state.read = "none" /\ \A s \in Sources : Hopeless(state, s)

\* OneshotChecked: what is New is in the batch that is being checked.
CheckedOf(state) ==
    /\ state.main \in {"restore", "check", "run"} => state.seed = "done"
    /\ state.main = "wait" /\ state.seed = "check" => News(state.pool) \subseteq state.batch["seed"]
    /\ state.main = "check" => News(state.pool) \subseteq state.batch["main"]
    /\ state.main \in {"restore", "run"} => News(state.pool) = {}

-----------------------------------------------------------------------------
(* Types *)

\* A scheduler that is off, or has just started, has the type of one.
LEMMA OffType == Off \in SchedType
  BY DEF Off, SchedType, SeedPlaces, MainPlaces, PoolStates

LEMMA SpentType ==
    ASSUME TypeInv, NEW p \in Scheds, NEW s \in Sources
    PROVE  /\ Spent(p, s) \in Nat
           /\ sc[p].left = 0 => Spent(p, s) = 0
  <1>1. sc[p].left \in Nat BY DEF TypeInv, SchedType
  <1>2. Cost(s) \in Nat BY DEF Cost, Sources
  <1> QED BY <1>1, <1>2 DEF Spent

LEMMA PoolTypes ==
    ASSUME NEW pool \in [Addrs -> PoolStates], NEW list
    PROVE  /\ With(pool, list) \in [Addrs -> PoolStates]
           /\ News(pool) \in SUBSET Addrs
           /\ Checked(pool, list) \in [Addrs -> PoolStates]
           /\ News(Checked(pool, list)) = News(pool) \ list
  BY DEF With, News, Checked, PoolStates

LEMMA TypeInit == Init => TypeInv
  BY OffType DEF Init, TypeInv, FileType

\* A step that changes one scheduler gives it a state of the type.
LEMMA OneSched ==
    ASSUME TypeInv, NEW p \in Scheds, NEW state \in SchedType, Becomes(p, state)
    PROVE  sc' \in [Scheds -> SchedType]
  BY DEF TypeInv, Becomes

LEMMA SeedType ==
    ASSUME TypeInv, NEW p \in Scheds, NEW l \in SeedPlaces
    PROVE  [sc[p] EXCEPT !.seed = l] \in SchedType
  BY DEF TypeInv, SchedType

LEMMA StartTypes == ASSUME TypeInv, NEW p \in Scheds, Start(p) PROVE TypeInv'
  <1>1. FirstOfMain(p) \in MainPlaces /\ Budget(p) \in Nat BY DEF FirstOfMain, Budget, MainPlaces
  <1>2. [Off EXCEPT !.seed = "host", !.main = FirstOfMain(p), !.left = Budget(p)] \in SchedType
    BY <1>1, OffType DEF SchedType, SeedPlaces
  <1>3. sc' \in [Scheds -> SchedType] BY <1>2, OneSched DEF Start
  <1> QED BY <1>3 DEF Start, TypeInv

LEMMA AskHostTypes == ASSUME TypeInv, NEW p \in Scheds, AskHost(p) PROVE TypeInv'
  <1>1. Spent(p, "doh") \in Nat BY SpentType DEF Sources
  <1> DEFINE doh == IF Answers(p, "doh") THEN List["doh"] ELSE {}
             state == [sc[p] EXCEPT !.doh = doh, !.left = Spent(p, "doh"), !.seed = "meta"]
  <1>2. doh \in SUBSET Addrs BY AddressesAssumption DEF Sources
  <1>3. Becomes(p, state) BY DEF AskHost
  <1>4. state \in SchedType
    <2> HIDE DEF doh
    <2> QED BY <1>1, <1>2 DEF TypeInv, SchedType, SeedPlaces
  <1> HIDE DEF state
  <1>5. sc' \in [Scheds -> SchedType] BY <1>3, <1>4, OneSched
  <1> QED BY <1>5 DEF AskHost, ChainVars, TypeInv

LEMMA AskTypes ==
    ASSUME TypeInv, NEW p \in Scheds, NEW s \in Sources, NEW l, NEW n \in SeedPlaces, Ask(p, s, l, n)
    PROVE  TypeInv'
  <1> DEFINE found == [sc[p] EXCEPT !.got = List[s], !.seed = "open"]
             none  == [sc[p] EXCEPT !.left = Spent(p, s), !.seed = n]
  <1>1. Spent(p, s) \in Nat BY SpentType
  <1>2. List[s] \in SUBSET Addrs BY AddressesAssumption
  <1>3. found \in SchedType BY <1>2 DEF TypeInv, SchedType, SeedPlaces, Saving
  <1>4. none \in SchedType BY <1>1 DEF TypeInv, SchedType
  <1>5. Becomes(p, found) \/ Becomes(p, none) BY DEF Ask
  <1> HIDE DEF found, none
  <1>6. sc' \in [Scheds -> SchedType] BY <1>3, <1>4, <1>5, OneSched
  <1> QED BY <1>6 DEF Ask, ChainVars, TypeInv

\* What a scheduler is after it has asked the cache.
LEMMA AskCacheBecomes ==
    ASSUME TypeInv, NEW p \in Scheds, AskCache(p)
    PROVE  \/ /\ cache \notin {{}, {Torn}}
              /\ Becomes(p, [sc[p] EXCEPT !.read = "there", !.got = cache, !.seed = "add"])
           \/ Becomes(p, [sc[p] EXCEPT !.read = "none", !.seed = "seeds"])
  <1>1. CASE Readable
    <2>1. Becomes(p, [[sc[p] EXCEPT !.read = "there"] EXCEPT !.got = cache, !.seed = "add"])
      BY <1>1 DEF AskCache
    <2>2. [[sc[p] EXCEPT !.read = "there"] EXCEPT !.got = cache, !.seed = "add"]
            = [sc[p] EXCEPT !.read = "there", !.got = cache, !.seed = "add"]
      OBVIOUS
    <2> QED BY <1>1, <2>1, <2>2 DEF Readable
  <1>2. CASE ~Readable
    <2>1. Becomes(p, [[sc[p] EXCEPT !.read = "none"] EXCEPT !.seed = "seeds"])
      BY <1>2 DEF AskCache, AfterNoCache
    <2>2. [[sc[p] EXCEPT !.read = "none"] EXCEPT !.seed = "seeds"]
            = [sc[p] EXCEPT !.read = "none", !.seed = "seeds"]
      OBVIOUS
    <2> QED BY <2>1, <2>2
  <1> QED BY <1>1, <1>2

LEMMA AskCacheTypes == ASSUME TypeInv, NEW p \in Scheds, AskCache(p) PROVE TypeInv'
  <1> DEFINE found == [sc[p] EXCEPT !.read = "there", !.got = cache, !.seed = "add"]
             none  == [sc[p] EXCEPT !.read = "none", !.seed = "seeds"]
  <1>1. cache \notin {{}, {Torn}} => cache \in SUBSET Addrs BY DEF TypeInv, FileType
  <1>2. cache \in SUBSET Addrs => found \in SchedType BY DEF TypeInv, SchedType, SeedPlaces
  <1>3. none \in SchedType BY DEF TypeInv, SchedType, SeedPlaces
  <1>4. (cache \notin {{}, {Torn}} /\ Becomes(p, found)) \/ Becomes(p, none)
    BY AskCacheBecomes
  <1> HIDE DEF found, none
  <1>5. sc' \in [Scheds -> SchedType] BY <1>1, <1>2, <1>3, <1>4, OneSched
  <1> QED BY <1>5 DEF AskCache, ChainVars, TypeInv

LEMMA ChainTypes == ASSUME TypeInv, NEW p \in Scheds, Chain(p) PROVE TypeInv'
  <1>1. CASE Ask(p, "meta", "meta", "doh") BY <1>1, AskTypes DEF Sources, SeedPlaces
  <1>2. CASE Ask(p, "doh", "doh", "cache") BY <1>2, AskTypes DEF Sources, SeedPlaces
  <1>3. CASE AskCache(p) BY <1>3, AskCacheTypes
  <1>4. CASE Ask(p, "seeds", "seeds", "add") BY <1>4, AskTypes DEF Sources, SeedPlaces
  <1> QED BY <1>1, <1>2, <1>3, <1>4 DEF Chain

LEMMA OpenTypes == ASSUME TypeInv, NEW p \in Scheds, OpenTmp(p) PROVE TypeInv'
  <1> DEFINE opened == [sc[p] EXCEPT !.fd = "tmp", !.seed = "write"]
             failed == [sc[p] EXCEPT !.seed = "add"]
  <1>1. cache' \in FileType /\ tmp' \in FileType BY DEF OpenTmp, OpenedFile, TypeInv, FileType
  <1>2. opened \in SchedType BY DEF TypeInv, SchedType, SeedPlaces, Saving
  <1>3. failed \in SchedType BY SeedType DEF SeedPlaces
  <1>4. Becomes(p, opened) \/ Becomes(p, failed) BY DEF OpenTmp, OpenedFile, Seed
  <1> HIDE DEF opened, failed
  <1>5. sc' \in [Scheds -> SchedType] BY <1>2, <1>3, <1>4, OneSched
  <1> QED BY <1>1, <1>5 DEF OpenTmp, TypeInv

LEMMA WriteTypes == ASSUME TypeInv, NEW p \in Scheds, WriteTmp(p) PROVE TypeInv'
  <1> DEFINE written == [sc[p] EXCEPT !.fd = None, !.seed = "rename"]
             failed  == [sc[p] EXCEPT !.fd = None, !.seed = "add"]
  <1>1. sc[p].got \in FileType BY DEF TypeInv, SchedType, FileType
  <1>2. cache' \in FileType /\ tmp' \in FileType
    <2>1. ASSUME NEW c, NEW d \in Into(c, sc[p].got) PROVE d \in FileType BY <1>1, <2>1 DEF Into, FileType
    <2> QED BY <2>1 DEF WriteTmp, TypeInv
  <1>3. written \in SchedType BY DEF TypeInv, SchedType, SeedPlaces, Saving
  <1>4. failed \in SchedType BY DEF TypeInv, SchedType, SeedPlaces
  <1>5. Becomes(p, written) \/ Becomes(p, failed) BY DEF WriteTmp
  <1> HIDE DEF written, failed
  <1>6. sc' \in [Scheds -> SchedType] BY <1>3, <1>4, <1>5, OneSched
  <1> QED BY <1>2, <1>6 DEF WriteTmp, TypeInv

LEMMA RenameTypes == ASSUME TypeInv, NEW p \in Scheds, RenameTmp(p) PROVE TypeInv'
  <1>1. ASSUME NEW q \in Scheds PROVE sc'[q] \in SchedType
    <2>1. sc[q] \in SchedType BY DEF TypeInv
    <2>2. [sc[q] EXCEPT !.seed = "add"] \in SchedType BY SeedType DEF SeedPlaces
    <2>3. [sc[q] EXCEPT !.fd = "cache"] \in SchedType BY <2>1 DEF SchedType
    <2>4. [sc[q] EXCEPT !.fd = "gone"] \in SchedType BY <2>1 DEF SchedType
    <2>5. CASE Seed(p, "add") BY <2>1, <2>2, <2>5 DEF Seed, Becomes, TypeInv
    <2>6. CASE ~Seed(p, "add") BY <2>1, <2>2, <2>3, <2>4, <2>6 DEF RenameTmp
    <2> QED BY <2>5, <2>6
  <1>2. sc' = [q \in Scheds |-> sc'[q]] BY DEF RenameTmp, Seed, Becomes, TypeInv
  <1>3. sc' \in [Scheds -> SchedType] BY <1>1, <1>2
  <1>4. cache' \in FileType /\ tmp' \in FileType BY DEF RenameTmp, TypeInv, FileType
  <1> QED BY <1>3, <1>4 DEF RenameTmp, TypeInv

LEMMA AddFoundTypes == ASSUME TypeInv, NEW p \in Scheds, AddFound(p) PROVE TypeInv'
  <1> DEFINE pool == With(sc[p].pool, sc[p].doh \cup sc[p].got)
             state == [sc[p] EXCEPT !.pool = pool, !.batch["seed"] = News(pool), !.seed = "check"]
  <1>1. sc[p].pool \in [Addrs -> PoolStates] BY DEF TypeInv, SchedType
  <1>2. pool \in [Addrs -> PoolStates] BY <1>1, PoolTypes
  <1>3. News(pool) \in SUBSET Addrs BY <1>2, PoolTypes
  <1>4. Becomes(p, state) BY DEF AddFound
  <1>5. state \in SchedType
    <2> HIDE DEF pool
    <2> QED BY <1>2, <1>3 DEF TypeInv, SchedType, SeedPlaces
  <1> HIDE DEF state
  <1>6. sc' \in [Scheds -> SchedType] BY <1>4, <1>5, OneSched
  <1> QED BY <1>6 DEF AddFound, ChainVars, TypeInv

\* Whoever reports a batch does nothing else to the pool.
LEMMA ReportedTypes ==
    ASSUME TypeInv, NEW p \in Scheds, NEW t \in {"seed", "main"}, NEW then \in SchedType,
           Reported(p, t, then), UNCHANGED ChainVars
    PROVE  TypeInv'
  <1>1. PICK score \in [sc[p].batch[t] \cap alive -> {1, 2}] :
          Becomes(p, [then EXCEPT !.pool = Checked(@, sc[p].batch[t]), !.batch[t] = {},
                       !.ops = @ \cup {[ip |-> a, score |-> score[a]] : a \in DOMAIN score}])
    BY DEF Reported
  <1> DEFINE pool == Checked(then.pool, sc[p].batch[t])
             ops == then.ops \cup {[ip |-> a, score |-> score[a]] : a \in DOMAIN score}
             state == [then EXCEPT !.pool = pool, !.batch[t] = {}, !.ops = ops]
  <1>2. then.pool \in [Addrs -> PoolStates] BY DEF SchedType
  <1>3. pool \in [Addrs -> PoolStates] BY <1>2, PoolTypes
  <1>4. \A a \in DOMAIN score : a \in Addrs /\ score[a] \in {1, 2} BY DEF TypeInv
  <1>5. {[ip |-> a, score |-> score[a]] : a \in DOMAIN score} \in SUBSET [ip : Addrs, score : {1, 2}]
    BY <1>4
  <1>6. then.ops \in SUBSET [ip : Addrs, score : {1, 2}] BY DEF SchedType
  <1>7. ops \in SUBSET [ip : Addrs, score : {1, 2}] BY <1>5, <1>6
  <1>8. Becomes(p, state) BY <1>1
  <1>9. state \in SchedType
    <2> HIDE DEF pool, ops
    <2> QED BY <1>3, <1>7 DEF SchedType
  <1> HIDE DEF state
  <1>10. sc' \in [Scheds -> SchedType] BY <1>8, <1>9, OneSched
  <1> QED BY <1>10 DEF ChainVars, TypeInv

LEMMA CheckFoundTypes == ASSUME TypeInv, NEW p \in Scheds, CheckFound(p) PROVE TypeInv'
  <1> DEFINE then == [sc[p] EXCEPT !.seed = "done", !.main = IF @ = "wait" THEN "restore" ELSE @]
  <1>1. then \in SchedType BY DEF TypeInv, SchedType, SeedPlaces, MainPlaces
  <1>2. Reported(p, "seed", then) /\ UNCHANGED ChainVars BY DEF CheckFound
  <1> HIDE DEF then
  <1> QED BY <1>1, <1>2, ReportedTypes

LEMMA RestoreTypes == ASSUME TypeInv, NEW p \in Scheds, Restore(p) PROVE TypeInv'
  <1> DEFINE pool == IF row = None THEN sc[p].pool ELSE With(sc[p].pool, {row.ip})
             new   == pool # sc[p].pool
             batch == IF new THEN News(pool) ELSE {}
             next  == IF new /\ p \in Oneshot THEN "check" ELSE "run"
             state == [sc[p] EXCEPT !.pool = pool, !.batch["main"] = batch, !.main = next]
  <1>1. sc[p].pool \in [Addrs -> PoolStates] BY DEF TypeInv, SchedType
  <1>2. pool \in [Addrs -> PoolStates] BY <1>1, PoolTypes
  <1>3. batch \in SUBSET Addrs
    <2> HIDE DEF pool
    <2> QED BY <1>2, PoolTypes
  <1>4. next \in MainPlaces BY DEF MainPlaces
  <1>5. Becomes(p, state) BY DEF Restore
  <1>6. state \in SchedType
    <2> HIDE DEF pool, batch, next
    <2> QED BY <1>2, <1>3, <1>4 DEF TypeInv, SchedType
  <1> HIDE DEF state
  <1>7. sc' \in [Scheds -> SchedType] BY <1>5, <1>6, OneSched
  <1> QED BY <1>7 DEF Restore, ChainVars, TypeInv

LEMMA CheckRestoredTypes == ASSUME TypeInv, NEW p \in Scheds, CheckRestored(p) PROVE TypeInv'
  <1> DEFINE then == [sc[p] EXCEPT !.main = "run"]
  <1>1. then \in SchedType BY DEF TypeInv, SchedType, MainPlaces
  <1>2. Reported(p, "main", then) /\ UNCHANGED ChainVars BY DEF CheckRestored
  <1> HIDE DEF then
  <1> QED BY <1>1, <1>2, ReportedTypes

LEMMA WriteRowTypes == ASSUME TypeInv, NEW p \in Scheds, WriteRow(p) PROVE TypeInv'
  <1>1. PICK op \in sc[p].ops :
          /\ Becomes(p, [sc[p] EXCEPT !.ops = @ \ {op}])
          /\ row' = [ip |-> op.ip, score |-> op.score, old |-> FALSE] \/ UNCHANGED row
    BY DEF WriteRow
  <1> DEFINE state == [sc[p] EXCEPT !.ops = @ \ {op}]
  <1>2. op.ip \in Addrs BY DEF TypeInv, SchedType
  <1>3. state \in SchedType BY DEF TypeInv, SchedType
  <1>4. Becomes(p, state) BY <1>1
  <1> HIDE DEF state
  <1>5. sc' \in [Scheds -> SchedType] BY <1>3, <1>4, OneSched
  <1>6. row' = None \/ row'.ip \in Addrs BY <1>1, <1>2 DEF TypeInv
  <1> QED BY <1>5, <1>6 DEF WriteRow, TypeInv

LEMMA StepType == TypeInv /\ [Next]_vars => TypeInv'
  <1> SUFFICES ASSUME TypeInv, [Next]_vars PROVE TypeInv' OBVIOUS
  <1>1. CASE Age BY <1>1 DEF Age, TypeInv
  <1>2. CASE Change BY <1>2 DEF Change, TypeInv
  <1>3. CASE UNCHANGED vars BY <1>3 DEF vars, TypeInv
  <1>4. ASSUME NEW p \in Scheds, Exit(p) PROVE TypeInv'
    <2>1. sc' \in [Scheds -> SchedType] BY <1>4, OffType DEF Exit, TypeInv
    <2> QED BY <1>4, <2>1 DEF Exit, ChainVars, TypeInv
  <1> QED
    BY <1>1, <1>2, <1>3, <1>4, StartTypes, AskHostTypes, ChainTypes, OpenTypes, WriteTypes, RenameTypes,
       AddFoundTypes, CheckFoundTypes, RestoreTypes, CheckRestoredTypes, WriteRowTypes
    DEF Next, Save

-----------------------------------------------------------------------------
(* The chain and the checks: what a scheduler may become *)

Sound(p, state) == ChainOf(state) /\ (p \in Oneshot => CheckedOf(state))

SoundInv == \A p \in Scheds : Sound(p, sc[p])

\* A step that changes one scheduler is judged by what that one becomes.
LEMMA OneSound ==
    ASSUME TypeInv, SoundInv, NEW p \in Scheds, NEW state, Becomes(p, state), Sound(p, state), UNCHANGED net
    PROVE  SoundInv'
  BY DEF TypeInv, SoundInv, Becomes, Sound, ChainOf, CheckedOf, Hopeless

LEMMA StartSound == ASSUME TypeInv, SoundInv, NEW p \in Scheds, Start(p) PROVE SoundInv'
  <1> DEFINE state == [Off EXCEPT !.seed = "host", !.main = FirstOfMain(p), !.left = Budget(p)]
  <1>1. Sound(p, state) BY DEF Sound, ChainOf, CheckedOf, Off, FirstOfMain, Saving
  <1>2. Becomes(p, state) /\ UNCHANGED net BY DEF Start
  <1> HIDE DEF state
  <1> QED BY <1>1, <1>2, OneSound

LEMMA AskHostSound == ASSUME TypeInv, SoundInv, NEW p \in Scheds, AskHost(p) PROVE SoundInv'
  <1> DEFINE doh == IF Answers(p, "doh") THEN List["doh"] ELSE {}
             state == [sc[p] EXCEPT !.doh = doh, !.left = Spent(p, "doh"), !.seed = "meta"]
  <1>1. Sound(p, sc[p]) /\ sc[p] \in SchedType /\ sc[p].seed = "host"
    BY DEF SoundInv, TypeInv, AskHost, InSeed
  <1>2. Sound(p, state)
    <2> HIDE DEF doh
    <2> QED BY <1>1 DEF Sound, ChainOf, CheckedOf, SchedType, Saving
  <1>3. Becomes(p, state) /\ UNCHANGED net BY DEF AskHost, ChainVars
  <1> HIDE DEF state
  <1> QED BY <1>2, <1>3, OneSound

\* A source that is asked in vain is hopeless from then on, and so is one that
\* was before.
LEMMA AskedInVain ==
    ASSUME TypeInv, NEW p \in Scheds, NEW s \in Sources, ~Answers(p, s), NEW l
    PROVE  LET state == [sc[p] EXCEPT !.left = Spent(p, s), !.seed = l] IN
           /\ Hopeless(state, s)
           /\ \A r \in Sources : Hopeless(sc[p], r) => Hopeless(state, r)
  <1>1. sc[p] \in SchedType /\ sc[p].left \in Nat BY DEF TypeInv, SchedType
  <1>2. sc[p].left = 0 => Spent(p, s) = 0 BY SpentType
  <1>3. sc[p].left = 0 \/ net[s] # "up" BY <1>1 DEF Answers
  <1> DEFINE state == [sc[p] EXCEPT !.left = Spent(p, s), !.seed = l]
  <1>4. state.left = Spent(p, s) BY <1>1 DEF SchedType
  <1> HIDE DEF state
  <1>5. Hopeless(state, s) BY <1>2, <1>3, <1>4 DEF Hopeless
  <1>6. ASSUME NEW r \in Sources, Hopeless(sc[p], r) PROVE Hopeless(state, r)
    BY <1>2, <1>4, <1>6 DEF Hopeless
  <1> QED BY <1>5, <1>6 DEF state

LEMMA AskSound ==
    ASSUME TypeInv, SoundInv, NEW p \in Scheds, NEW s \in Sources, NEW l, NEW n, Ask(p, s, l, n),
           \/ s = "meta" /\ l = "meta" /\ n = "doh"
           \/ s = "doh" /\ l = "doh" /\ n = "cache"
           \/ s = "seeds" /\ l = "seeds" /\ n = "add"
    PROVE  SoundInv'
  <1> DEFINE found == [sc[p] EXCEPT !.got = List[s], !.seed = "open"]
             none  == [sc[p] EXCEPT !.left = Spent(p, s), !.seed = n]
  <1>1. Sound(p, sc[p]) /\ sc[p] \in SchedType /\ sc[p].seed = l
    BY DEF SoundInv, TypeInv, Ask, InSeed
  <1>2. List[s] # {} BY AddressesAssumption
  <1>3. Sound(p, found) BY <1>1, <1>2 DEF Sound, ChainOf, CheckedOf, SchedType, Saving
  <1>4. ASSUME ~Answers(p, s) PROVE Sound(p, none)
    <2>1. /\ Hopeless(none, s)
          /\ \A r \in Sources : Hopeless(sc[p], r) => Hopeless(none, r)
      BY <1>4, AskedInVain
    <2>2. /\ none.seed = n /\ none.main = sc[p].main /\ none.pool = sc[p].pool
          /\ none.batch = sc[p].batch /\ none.got = sc[p].got /\ none.read = sc[p].read
      BY <1>1 DEF SchedType
    <2> HIDE DEF none
    <2>3. ChainOf(none) BY <1>1, <2>1, <2>2 DEF Sound, ChainOf, Saving, Sources
    <2>4. p \in Oneshot => CheckedOf(none) BY <1>1, <2>2 DEF Sound, CheckedOf
    <2> QED BY <2>3, <2>4 DEF Sound
  <1>5. Becomes(p, found) \/ (~Answers(p, s) /\ Becomes(p, none)) BY DEF Ask
  <1>6. UNCHANGED net BY DEF Ask, ChainVars
  <1> HIDE DEF found, none
  <1> QED BY <1>3, <1>4, <1>5, <1>6, OneSound

LEMMA AskCacheSound == ASSUME TypeInv, SoundInv, NEW p \in Scheds, AskCache(p) PROVE SoundInv'
  <1> DEFINE found == [sc[p] EXCEPT !.read = "there", !.got = cache, !.seed = "add"]
             none  == [sc[p] EXCEPT !.read = "none", !.seed = "seeds"]
  <1>1. Sound(p, sc[p]) /\ sc[p] \in SchedType /\ sc[p].seed = "cache"
    BY DEF SoundInv, TypeInv, AskCache, InSeed
  <1>2. cache # {} => Sound(p, found) BY <1>1 DEF Sound, ChainOf, CheckedOf, SchedType, Saving
  <1>3. Sound(p, none) BY <1>1 DEF Sound, ChainOf, CheckedOf, SchedType, Saving, Hopeless
  <1>4. (cache # {} /\ Becomes(p, found)) \/ Becomes(p, none) BY AskCacheBecomes
  <1>5. UNCHANGED net BY DEF AskCache, ChainVars
  <1> HIDE DEF found, none
  <1> QED BY <1>2, <1>3, <1>4, <1>5, OneSound

LEMMA ChainSound == ASSUME TypeInv, SoundInv, NEW p \in Scheds, Chain(p) PROVE SoundInv'
  <1>1. CASE Ask(p, "meta", "meta", "doh") BY <1>1, AskSound DEF Sources
  <1>2. CASE Ask(p, "doh", "doh", "cache") BY <1>2, AskSound DEF Sources
  <1>3. CASE AskCache(p) BY <1>3, AskCacheSound
  <1>4. CASE Ask(p, "seeds", "seeds", "add") BY <1>4, AskSound DEF Sources
  <1> QED BY <1>1, <1>2, <1>3, <1>4 DEF Chain

\* Saving moves on in the chain's last steps, with the answer in hand.
LEMMA SavingSound ==
    ASSUME SoundInv, NEW p \in Scheds, NEW state \in SchedType, sc[p].seed \in Saving,
           state.seed \in Saving \cup {"add"}, state.got = sc[p].got, state.main = sc[p].main,
           state.pool = sc[p].pool, state.batch = sc[p].batch
    PROVE  Sound(p, state)
  BY DEF SoundInv, Sound, ChainOf, CheckedOf, Saving

LEMMA SaveSound == ASSUME TypeInv, SoundInv, NEW p \in Scheds, Save(p) PROVE SoundInv'
  <1>1. sc[p] \in SchedType BY DEF TypeInv
  <1> DEFINE added == [sc[p] EXCEPT !.seed = "add"]
  <1>2. added \in SchedType BY SeedType DEF SeedPlaces
  <1>3. /\ added.seed = "add" /\ added.got = sc[p].got /\ added.main = sc[p].main
        /\ added.pool = sc[p].pool /\ added.batch = sc[p].batch
    BY <1>1 DEF SchedType
  <1>4. sc[p].seed \in Saving => Sound(p, added)
    <2> HIDE DEF added
    <2> QED BY <1>2, <1>3, SavingSound
  <1>5. CASE OpenTmp(p)
    <2> DEFINE state == [sc[p] EXCEPT !.fd = "tmp", !.seed = "write"]
    <2>1. state \in SchedType BY <1>1 DEF SchedType, SeedPlaces, Saving
    <2>2. /\ state.seed = "write" /\ state.got = sc[p].got /\ state.main = sc[p].main
          /\ state.pool = sc[p].pool /\ state.batch = sc[p].batch
      BY <1>1 DEF SchedType
    <2>3. sc[p].seed \in Saving BY <1>5 DEF OpenTmp, InSeed, Saving
    <2>4. Becomes(p, state) \/ Becomes(p, added) BY <1>5 DEF OpenTmp, OpenedFile, Seed
    <2>5. UNCHANGED net BY <1>5 DEF OpenTmp
    <2> HIDE DEF state, added
    <2>6. Sound(p, state) BY <2>1, <2>2, <2>3, SavingSound DEF Saving
    <2> QED BY <1>4, <2>3, <2>4, <2>5, <2>6, OneSound
  <1>6. CASE WriteTmp(p)
    <2> DEFINE state(l) == [sc[p] EXCEPT !.fd = None, !.seed = l]
    <2>1. sc[p].seed \in Saving BY <1>6 DEF WriteTmp, InSeed, Saving
    <2>2. ASSUME NEW l \in {"rename", "add"} PROVE Sound(p, state(l))
      <3>1. state(l) \in SchedType BY <1>1 DEF SchedType, SeedPlaces, Saving
      <3>2. /\ state(l).seed = l /\ state(l).got = sc[p].got /\ state(l).main = sc[p].main
            /\ state(l).pool = sc[p].pool /\ state(l).batch = sc[p].batch
        BY <1>1 DEF SchedType
      <3> HIDE DEF state
      <3> QED BY <2>1, <3>1, <3>2, SavingSound DEF Saving
    <2>3. Becomes(p, state("rename")) \/ Becomes(p, state("add")) BY <1>6 DEF WriteTmp
    <2>4. UNCHANGED net BY <1>6 DEF WriteTmp
    <2> HIDE DEF state
    <2> QED BY <2>2, <2>3, <2>4, OneSound
  <1>7. CASE RenameTmp(p)
    <2>1. sc[p].seed \in Saving /\ UNCHANGED net BY <1>7 DEF RenameTmp, InSeed, Saving
    <2>2. CASE Becomes(p, added)
      <3> HIDE DEF added
      <3> QED BY <1>4, <2>1, <2>2, OneSound
    <2>3. CASE sc' = [q \in Scheds |->
                        IF q = p THEN added
                        ELSE IF sc[q].fd = "tmp" THEN [sc[q] EXCEPT !.fd = "cache"]
                        ELSE IF sc[q].fd = "cache" THEN [sc[q] EXCEPT !.fd = "gone"]
                        ELSE sc[q]]
      <3>1. ASSUME NEW q \in Scheds, NEW f PROVE Sound(q, [sc[q] EXCEPT !.fd = f])
        BY DEF SoundInv, Sound, ChainOf, CheckedOf, Hopeless, TypeInv, SchedType
      <3>2. ASSUME NEW q \in Scheds PROVE Sound(q, sc'[q])
        <4> HIDE DEF added
        <4> QED BY <1>4, <2>1, <2>3, <3>1 DEF SoundInv
      <3> QED BY <2>1, <3>2 DEF SoundInv, Sound, ChainOf, CheckedOf, Hopeless
    <2> QED BY <1>7, <2>2, <2>3 DEF RenameTmp, Seed
  <1> QED BY <1>5, <1>6, <1>7 DEF Save

LEMMA AddFoundSound == ASSUME TypeInv, SoundInv, NEW p \in Scheds, AddFound(p) PROVE SoundInv'
  <1> DEFINE pool == With(sc[p].pool, sc[p].doh \cup sc[p].got)
             state == [sc[p] EXCEPT !.pool = pool, !.batch["seed"] = News(pool), !.seed = "check"]
  <1>1. Sound(p, sc[p]) /\ sc[p] \in SchedType /\ sc[p].seed = "add"
    BY DEF SoundInv, TypeInv, AddFound, InSeed
  <1>2. Becomes(p, state) /\ UNCHANGED net BY DEF AddFound, ChainVars
  <1>3. Sound(p, state)
    <2> HIDE DEF pool
    <2> QED BY <1>1 DEF Sound, ChainOf, CheckedOf, Hopeless, SchedType, Saving
  <1> HIDE DEF state
  <1> QED BY <1>2, <1>3, OneSound

\* What a report leaves of a scheduler.
LEMMA ReportLeaves ==
    ASSUME TypeInv, NEW p \in Scheds, NEW t \in {"seed", "main"}, NEW then \in SchedType,
           then.pool = sc[p].pool, then.batch = sc[p].batch, Reported(p, t, then)
    PROVE  \E state \in SchedType :
              /\ Becomes(p, state)
              /\ state.seed = then.seed /\ state.main = then.main
              /\ state.left = then.left /\ state.got = then.got /\ state.fd = then.fd /\ state.read = then.read
              /\ News(state.pool) = News(sc[p].pool) \ sc[p].batch[t]
  <1>1. PICK score \in [sc[p].batch[t] \cap alive -> {1, 2}] :
          Becomes(p, [then EXCEPT !.pool = Checked(@, sc[p].batch[t]), !.batch[t] = {},
                       !.ops = @ \cup {[ip |-> a, score |-> score[a]] : a \in DOMAIN score}])
    BY DEF Reported
  <1> DEFINE pool == Checked(sc[p].pool, sc[p].batch[t])
             ops == then.ops \cup {[ip |-> a, score |-> score[a]] : a \in DOMAIN score}
             state == [then EXCEPT !.pool = pool, !.batch[t] = {}, !.ops = ops]
  <1>2. sc[p].pool \in [Addrs -> PoolStates] BY DEF SchedType, TypeInv
  <1>3. pool \in [Addrs -> PoolStates] /\ News(pool) = News(sc[p].pool) \ sc[p].batch[t]
    BY <1>2, PoolTypes
  <1>4. \A a \in DOMAIN score : a \in Addrs /\ score[a] \in {1, 2} BY DEF TypeInv
  <1>5. {[ip |-> a, score |-> score[a]] : a \in DOMAIN score} \in SUBSET [ip : Addrs, score : {1, 2}]
    BY <1>4
  <1>6. then.ops \in SUBSET [ip : Addrs, score : {1, 2}] BY DEF SchedType
  <1>7. ops \in SUBSET [ip : Addrs, score : {1, 2}] BY <1>5, <1>6
  <1>8. Becomes(p, state) BY <1>1
  <1>9. /\ state \in SchedType /\ state.pool = pool /\ state.seed = then.seed /\ state.main = then.main
        /\ state.left = then.left /\ state.got = then.got /\ state.fd = then.fd /\ state.read = then.read
    <2> HIDE DEF pool, ops
    <2> QED BY <1>3, <1>7 DEF SchedType
  <1> HIDE DEF state, pool
  <1> QED BY <1>3, <1>8, <1>9

LEMMA CheckFoundSound == ASSUME TypeInv, SoundInv, NEW p \in Scheds, CheckFound(p) PROVE SoundInv'
  <1> DEFINE then == [sc[p] EXCEPT !.seed = "done", !.main = IF @ = "wait" THEN "restore" ELSE @]
  <1>1. Sound(p, sc[p]) /\ sc[p] \in SchedType /\ sc[p].seed = "check"
    BY DEF SoundInv, TypeInv, CheckFound, InSeed
  <1>2. /\ then \in SchedType /\ then.pool = sc[p].pool /\ then.batch = sc[p].batch
        /\ then.left = sc[p].left /\ then.got = sc[p].got /\ then.read = sc[p].read /\ then.seed = "done"
        /\ then.main = IF sc[p].main = "wait" THEN "restore" ELSE sc[p].main
    BY <1>1 DEF SchedType, SeedPlaces, MainPlaces
  <1>3. Reported(p, "seed", then) /\ UNCHANGED net BY DEF CheckFound, ChainVars
  <1> HIDE DEF then
  <1>4. PICK state \in SchedType :
          /\ Becomes(p, state) /\ state.seed = then.seed /\ state.main = then.main
          /\ state.left = then.left /\ state.got = then.got /\ state.read = then.read
          /\ News(state.pool) = News(sc[p].pool) \ sc[p].batch["seed"]
    BY <1>2, <1>3, ReportLeaves
  <1>5. ChainOf(state) BY <1>1, <1>2, <1>4 DEF Sound, ChainOf, Hopeless, Saving
  <1>6. p \in Oneshot => CheckedOf(state)
    BY <1>1, <1>2, <1>4 DEF Sound, CheckedOf
  <1> QED BY <1>3, <1>4, <1>5, <1>6, OneSound DEF Sound

LEMMA RestoreSound == ASSUME TypeInv, SoundInv, NEW p \in Scheds, Restore(p) PROVE SoundInv'
  <1> DEFINE pool == IF row = None THEN sc[p].pool ELSE With(sc[p].pool, {row.ip})
             new   == pool # sc[p].pool
             batch == IF new THEN News(pool) ELSE {}
             next  == IF new /\ p \in Oneshot THEN "check" ELSE "run"
             state == [sc[p] EXCEPT !.pool = pool, !.batch["main"] = batch, !.main = next]
  <1>1. Sound(p, sc[p]) /\ sc[p] \in SchedType /\ sc[p].main = "restore"
    BY DEF SoundInv, TypeInv, Restore, InMain
  <1>2. Becomes(p, state) /\ UNCHANGED net BY DEF Restore, ChainVars
  <1>3. /\ state.seed = sc[p].seed /\ state.main = next /\ state.left = sc[p].left
        /\ state.got = sc[p].got /\ state.read = sc[p].read /\ state.pool = pool /\ state.batch["main"] = batch
    <2> HIDE DEF pool, batch, next
    <2> QED BY <1>1 DEF SchedType
  <1> HIDE DEF state, pool
  <1>4. ChainOf(state) BY <1>1, <1>3 DEF Sound, ChainOf, Hopeless, Saving
  <1>5. p \in Oneshot => CheckedOf(state) BY <1>1, <1>3 DEF Sound, CheckedOf
  <1> QED BY <1>2, <1>4, <1>5, OneSound DEF Sound

LEMMA CheckRestoredSound == ASSUME TypeInv, SoundInv, NEW p \in Scheds, CheckRestored(p) PROVE SoundInv'
  <1> DEFINE then == [sc[p] EXCEPT !.main = "run"]
  <1>1. Sound(p, sc[p]) /\ sc[p] \in SchedType /\ sc[p].main \in {"check", "run"}
    BY DEF SoundInv, TypeInv, CheckRestored, InMain
  <1>2. /\ then \in SchedType /\ then.pool = sc[p].pool /\ then.batch = sc[p].batch
        /\ then.left = sc[p].left /\ then.got = sc[p].got /\ then.read = sc[p].read /\ then.seed = sc[p].seed
        /\ then.main = "run"
    BY <1>1 DEF SchedType, MainPlaces
  <1>3. Reported(p, "main", then) /\ UNCHANGED net BY DEF CheckRestored, ChainVars
  <1> HIDE DEF then
  <1>4. PICK state \in SchedType :
          /\ Becomes(p, state) /\ state.seed = then.seed /\ state.main = then.main
          /\ state.left = then.left /\ state.got = then.got /\ state.read = then.read
          /\ News(state.pool) = News(sc[p].pool) \ sc[p].batch["main"]
    BY <1>2, <1>3, ReportLeaves
  <1>5. ChainOf(state) BY <1>1, <1>2, <1>4 DEF Sound, ChainOf, Hopeless, Saving
  <1>6. p \in Oneshot => CheckedOf(state) BY <1>1, <1>2, <1>4 DEF Sound, CheckedOf
  <1> QED BY <1>3, <1>4, <1>5, <1>6, OneSound DEF Sound

LEMMA WriteRowSound == ASSUME TypeInv, SoundInv, NEW p \in Scheds, WriteRow(p) PROVE SoundInv'
  <1>1. PICK op \in sc[p].ops : Becomes(p, [sc[p] EXCEPT !.ops = @ \ {op}]) BY DEF WriteRow
  <1> DEFINE state == [sc[p] EXCEPT !.ops = @ \ {op}]
  <1>2. Sound(p, sc[p]) /\ sc[p] \in SchedType BY DEF SoundInv, TypeInv
  <1>3. Sound(p, state) BY <1>2 DEF Sound, ChainOf, CheckedOf, Hopeless, SchedType
  <1>4. Becomes(p, state) /\ UNCHANGED net BY <1>1 DEF WriteRow
  <1> HIDE DEF state
  <1> QED BY <1>3, <1>4, OneSound

LEMMA ExitSound == ASSUME TypeInv, SoundInv, NEW p \in Scheds, Exit(p) PROVE SoundInv'
  <1>1. \A q \in Scheds : Sound(q, Off) BY DEF Sound, ChainOf, CheckedOf, Off, Saving
  <1>2. ASSUME NEW q \in Scheds PROVE Sound(q, sc'[q])
    <2>1. sc'[q] = Off \/ sc'[q] = sc[q] BY DEF Exit
    <2> QED BY <1>1, <2>1 DEF SoundInv
  <1>3. UNCHANGED net BY DEF Exit, ChainVars
  <1> QED BY <1>2, <1>3 DEF SoundInv, Sound, ChainOf, CheckedOf, Hopeless

\* No scheduler lives to see tomorrow's network.
LEMMA ChangeSound == ASSUME SoundInv, Change PROVE SoundInv'
  BY DEF Change, Running, SoundInv, Sound, ChainOf, CheckedOf, Saving

LEMMA SoundInit == Init => SoundInv
  <1>1. ASSUME NEW p \in Scheds PROVE Sound(p, Off) BY DEF Sound, ChainOf, CheckedOf, Off, Saving
  <1> QED BY <1>1 DEF Init, SoundInv

LEMMA StepSound == TypeInv /\ SoundInv /\ [Next]_vars => SoundInv'
  <1> SUFFICES ASSUME TypeInv, SoundInv, [Next]_vars PROVE SoundInv' OBVIOUS
  <1>1. CASE UNCHANGED <<sc, net>> BY <1>1 DEF SoundInv, Sound, ChainOf, CheckedOf, Hopeless
  <1>2. CASE Age BY <1>1, <1>2 DEF Age
  <1>3. CASE UNCHANGED vars BY <1>1, <1>3 DEF vars
  <1> QED
    BY <1>2, <1>3, StartSound, AskHostSound, ChainSound, SaveSound, AddFoundSound, CheckFoundSound,
       RestoreSound, CheckRestoredSound, WriteRowSound, ExitSound, ChangeSound
    DEF Next

-----------------------------------------------------------------------------
(* The cache file *)

\* A step that leaves the files and brings no scheduler to write or rename.
LEMMA OneWritten ==
    ASSUME TypeInv, WrittenWhole, NEW p \in Scheds, NEW state, Becomes(p, state), UNCHANGED <<cache, tmp, seen>>,
           state.seed \in {"write", "rename"} => state.seed = sc[p].seed /\ state.fd = sc[p].fd
    PROVE  WrittenWhole'
  BY DEF TypeInv, WrittenWhole, Becomes, InSeed

\* The steps outside the saving.
LEMMA OtherWritten ==
    ASSUME TypeInv, WrittenWhole, NEW p \in Scheds,
           \/ Start(p) \/ AskHost(p) \/ Chain(p) \/ AddFound(p) \/ CheckFound(p)
           \/ Restore(p) \/ CheckRestored(p) \/ WriteRow(p) \/ Exit(p)
    PROVE  WrittenWhole'
  <1>1. sc[p] \in SchedType BY DEF TypeInv
  <1>2. CASE Start(p)
    <2> DEFINE state == [Off EXCEPT !.seed = "host", !.main = FirstOfMain(p), !.left = Budget(p)]
    <2>1. Becomes(p, state) /\ UNCHANGED <<cache, tmp, seen>> BY <1>2 DEF Start
    <2>2. state.seed = "host" BY DEF Off
    <2> HIDE DEF state
    <2> QED BY <2>1, <2>2, OneWritten
  <1>3. CASE AskHost(p)
    <2> DEFINE doh == IF Answers(p, "doh") THEN List["doh"] ELSE {}
               state == [sc[p] EXCEPT !.doh = doh, !.left = Spent(p, "doh"), !.seed = "meta"]
    <2>1. Becomes(p, state) /\ UNCHANGED <<cache, tmp, seen>> BY <1>3 DEF AskHost, ChainVars
    <2>2. state.seed = "meta" BY <1>1 DEF SchedType
    <2> HIDE DEF state
    <2> QED BY <2>1, <2>2, OneWritten
  <1>4. CASE Chain(p)
    <2>1. ASSUME NEW s, NEW l, NEW n \in {"doh", "cache", "add"}, Ask(p, s, l, n) PROVE WrittenWhole'
      <3> DEFINE found == [sc[p] EXCEPT !.got = List[s], !.seed = "open"]
                 none  == [sc[p] EXCEPT !.left = Spent(p, s), !.seed = n]
      <3>1. (Becomes(p, found) \/ Becomes(p, none)) /\ UNCHANGED <<cache, tmp, seen>>
        BY <2>1 DEF Ask, ChainVars
      <3>2. found.seed = "open" /\ none.seed = n BY <1>1 DEF SchedType
      <3> HIDE DEF found, none
      <3> QED BY <3>1, <3>2, OneWritten
    <2>2. CASE AskCache(p)
      <3> DEFINE found == [sc[p] EXCEPT !.read = "there", !.got = cache, !.seed = "add"]
                 none  == [sc[p] EXCEPT !.read = "none", !.seed = "seeds"]
      <3>1. UNCHANGED <<cache, tmp, seen>> BY <2>2 DEF AskCache, ChainVars
      <3>3. Becomes(p, found) \/ Becomes(p, none) BY <2>2, AskCacheBecomes
      <3>2. found.seed = "add" /\ none.seed = "seeds" BY <1>1 DEF SchedType
      <3> HIDE DEF found, none
      <3> QED BY <3>1, <3>2, <3>3, OneWritten
    <2> QED BY <1>4, <2>1, <2>2 DEF Chain
  <1>5. CASE AddFound(p)
    <2> DEFINE pool == With(sc[p].pool, sc[p].doh \cup sc[p].got)
               state == [sc[p] EXCEPT !.pool = pool, !.batch["seed"] = News(pool), !.seed = "check"]
    <2>1. Becomes(p, state) /\ UNCHANGED <<cache, tmp, seen>> BY <1>5 DEF AddFound, ChainVars
    <2>2. state.seed = "check" BY <1>1 DEF SchedType
    <2> HIDE DEF state
    <2> QED BY <2>1, <2>2, OneWritten
  <1>6. CASE CheckFound(p)
    <2> DEFINE then == [sc[p] EXCEPT !.seed = "done", !.main = IF @ = "wait" THEN "restore" ELSE @]
    <2>1. /\ then \in SchedType /\ then.pool = sc[p].pool /\ then.batch = sc[p].batch /\ then.seed = "done"
      BY <1>1 DEF SchedType, SeedPlaces, MainPlaces
    <2>2. Reported(p, "seed", then) /\ UNCHANGED <<cache, tmp, seen>> BY <1>6 DEF CheckFound, ChainVars
    <2> HIDE DEF then
    <2>3. PICK state \in SchedType : Becomes(p, state) /\ state.seed = then.seed BY <2>1, <2>2, ReportLeaves
    <2> QED BY <2>1, <2>2, <2>3, OneWritten
  <1>7. CASE Restore(p)
    <2> DEFINE pool == IF row = None THEN sc[p].pool ELSE With(sc[p].pool, {row.ip})
               batch == IF pool # sc[p].pool THEN News(pool) ELSE {}
               next  == IF pool # sc[p].pool /\ p \in Oneshot THEN "check" ELSE "run"
               state == [sc[p] EXCEPT !.pool = pool, !.batch["main"] = batch, !.main = next]
    <2>1. Becomes(p, state) /\ UNCHANGED <<cache, tmp, seen>> BY <1>7 DEF Restore, ChainVars
    <2>2. state.seed = sc[p].seed /\ state.fd = sc[p].fd
      <3> HIDE DEF pool, batch, next
      <3> QED BY <1>1 DEF SchedType
    <2> HIDE DEF state
    <2> QED BY <2>1, <2>2, OneWritten
  <1>8. CASE CheckRestored(p)
    <2> DEFINE then == [sc[p] EXCEPT !.main = "run"]
    <2>1. /\ then \in SchedType /\ then.pool = sc[p].pool /\ then.batch = sc[p].batch
          /\ then.seed = sc[p].seed /\ then.fd = sc[p].fd
      BY <1>1 DEF SchedType, MainPlaces
    <2>2. Reported(p, "main", then) /\ UNCHANGED <<cache, tmp, seen>> BY <1>8 DEF CheckRestored, ChainVars
    <2> HIDE DEF then
    <2>3. PICK state \in SchedType : Becomes(p, state) /\ state.seed = then.seed /\ state.fd = then.fd
      BY <2>1, <2>2, ReportLeaves
    <2> QED BY <2>1, <2>2, <2>3, OneWritten
  <1>9. CASE WriteRow(p)
    <2>1. PICK op \in sc[p].ops : Becomes(p, [sc[p] EXCEPT !.ops = @ \ {op}]) BY <1>9 DEF WriteRow
    <2> DEFINE state == [sc[p] EXCEPT !.ops = @ \ {op}]
    <2>2. state.seed = sc[p].seed /\ state.fd = sc[p].fd BY <1>1 DEF SchedType
    <2>3. Becomes(p, state) /\ UNCHANGED <<cache, tmp, seen>> BY <1>9, <2>1 DEF WriteRow
    <2> HIDE DEF state
    <2> QED BY <2>2, <2>3, OneWritten
  <1>10. CASE Exit(p)
    <2>1. \A q \in Scheds : sc'[q] = Off \/ sc'[q] = sc[q] BY <1>10 DEF Exit
    <2>2. Off.seed = "off" /\ UNCHANGED <<cache, tmp, seen>> BY <1>10 DEF Exit, ChainVars, Off
    <2> QED BY <2>1, <2>2 DEF WrittenWhole, InSeed
  <1> QED BY <1>2, <1>3, <1>4, <1>5, <1>6, <1>7, <1>8, <1>9, <1>10 DEF Chain

\* Without an overlap, before and after, nobody else is saving.
LEMMA Alone ==
    ASSUME NEW p \in Scheds, NEW f, Noted(p, f), "overlap" \notin seen'
    PROVE  "overlap" \notin seen /\ \A q \in Scheds \ {p} : sc[q].seed \notin Saving
  BY DEF Noted, SavedBy

LEMMA SaveWritten == ASSUME TypeInv, WrittenWhole, NEW p \in Scheds, Save(p) PROVE WrittenWhole'
  <1> SUFFICES ASSUME "overlap" \notin seen'
               PROVE  /\ Torn \notin cache'
                      /\ \A q \in Scheds : sc'[q].seed = "write" => sc'[q].fd = "tmp" /\ tmp' = {Torn}
                      /\ \A q \in Scheds : sc'[q].seed = "rename" => Torn \notin tmp'
    BY DEF WrittenWhole, InSeed
  <1>1. sc[p] \in SchedType BY DEF TypeInv
  <1>2. \E f : Noted(p, f) BY DEF Save, OpenTmp, WriteTmp, RenameTmp
  <1>3. "overlap" \notin seen /\ \A q \in Scheds \ {p} : sc[q].seed \notin Saving BY <1>2, Alone
  <1>4. CASE OpenTmp(p)
    <2> DEFINE opened == [sc[p] EXCEPT !.fd = "tmp", !.seed = "write"]
               failed == [sc[p] EXCEPT !.seed = "add"]
    <2>1. /\ (Becomes(p, opened) /\ tmp' = {Torn}) \/ Becomes(p, failed)
          /\ UNCHANGED cache
      BY <1>4 DEF OpenTmp, OpenedFile, Seed
    <2>2. opened.seed = "write" /\ opened.fd = "tmp" /\ failed.seed = "add" BY <1>1 DEF SchedType
    <2> HIDE DEF opened, failed
    <2> QED BY <1>3, <2>1, <2>2 DEF WrittenWhole, Becomes, TypeInv, Saving
  <1>5. CASE WriteTmp(p)
    <2> DEFINE state(l) == [sc[p] EXCEPT !.fd = None, !.seed = l]
    <2>1. sc[p].fd = "tmp" /\ tmp = {Torn} BY <1>3, <1>5 DEF WrittenWhole, WriteTmp
    <2>2. /\ (Becomes(p, state("rename")) /\ tmp' = sc[p].got) \/ Becomes(p, state("add"))
          /\ UNCHANGED cache
      BY <1>5, <2>1 DEF WriteTmp, Into
    <2>3. state("rename").seed = "rename" /\ state("add").seed = "add" BY <1>1 DEF SchedType
    <2>4. Torn \notin sc[p].got BY <1>1, AddressesAssumption DEF SchedType
    <2> HIDE DEF state
    <2> QED BY <1>3, <2>2, <2>3, <2>4 DEF WrittenWhole, Becomes, TypeInv, Saving
  <1>6. CASE RenameTmp(p)
    <2>1. Torn \notin cache /\ Torn \notin tmp BY <1>3, <1>6 DEF WrittenWhole, RenameTmp
    <2>2. cache' \in {cache, tmp} BY <1>6 DEF RenameTmp
    <2>3. \A q \in Scheds : sc'[q].seed = IF q = p THEN "add" ELSE sc[q].seed
      BY <1>1, <1>6 DEF RenameTmp, Seed, Becomes, TypeInv, SchedType
    <2> QED BY <1>3, <2>1, <2>2, <2>3 DEF Saving
  <1> QED BY <1>4, <1>5, <1>6 DEF Save

LEMMA StepWritten == TypeInv /\ WrittenWhole /\ [Next]_vars => WrittenWhole'
  <1> SUFFICES ASSUME TypeInv, WrittenWhole, [Next]_vars PROVE WrittenWhole' OBVIOUS
  <1>1. CASE UNCHANGED <<sc, cache, tmp, seen>> BY <1>1 DEF WrittenWhole, InSeed
  <1>2. CASE Age \/ Change BY <1>1, <1>2 DEF Age, Change
  <1>3. CASE UNCHANGED vars BY <1>1, <1>3 DEF vars
  <1> QED BY <1>2, <1>3, OtherWritten, SaveWritten DEF Next

-----------------------------------------------------------------------------
(* The theorems *)

\* The cache file is a whole answer or none, wherever the process that saves
\* it dies, unless two seedings saved at the same time (bootstrap.go:387), be it
\* of two processes or of one serve.
THEOREM CacheCorrect == Spec => []CacheWhole
  <1>1. Init => TypeInv /\ WrittenWhole
    <2>1. Init => WrittenWhole BY DEF Init, WrittenWhole, InSeed, Off
    <2> QED BY <2>1, TypeInit
  <1>2. TypeInv /\ WrittenWhole /\ [Next]_vars => TypeInv' /\ WrittenWhole'
    BY StepType, StepWritten
  <1>3. WrittenWhole => CacheWhole BY DEF WrittenWhole, CacheWhole
  <1> QED BY <1>1, <1>2, <1>3, PTL DEF Spec

\* A seeding that ends with nothing has found no cache to read, time left or
\* not, and no source that answers in the time it had (bootstrap.go:6).
THEOREM LevelsCorrect == Spec => []EveryLevelCounts
  <1>1. TypeInv /\ SoundInv /\ [Next]_vars => TypeInv' /\ SoundInv'
    BY StepType, StepSound
  <1>2. SoundInv => EveryLevelCounts
    BY DEF SoundInv, Sound, ChainOf, Hopeless, EveryLevelCounts, InSeed
  <1> QED BY TypeInit, SoundInit, <1>1, <1>2, PTL DEF Spec

\* A one-shot scheduler connects to no address that it has not checked
\* (main.go:981).
THEOREM OneshotCorrect == Spec => []OneshotChecked
  <1>1. TypeInv /\ SoundInv /\ [Next]_vars => TypeInv' /\ SoundInv'
    BY StepType, StepSound
  <1>2. SoundInv => OneshotChecked
    BY AddressesAssumption DEF SoundInv, Sound, CheckedOf, OneshotChecked, InMain
  <1> QED BY TypeInit, SoundInit, <1>1, <1>2, PTL DEF Spec

=============================================================================
