----------------------------- MODULE Addresses -----------------------------
(***************************************************************************)
(* Where the addresses of github.com come from when a scheduler starts     *)
(* (main.go startSchedulerMode): the chain of bootstrap.go, which asks the *)
(* meta API, DNS over HTTPS, the cache of the last good answer and the     *)
(* frozen seeds within one budget of time, and the row that an earlier     *)
(* scheduler left in the table last_good (store.go).  The scheduler of a   *)
(* serve does this beside its connections; a one-shot one, of get, of      *)
(* update and of the update runner inside a serve, before its first one.   *)
(* The cache file and the database are shared by all of them.              *)
(***************************************************************************)
EXTENDS Naturals, FiniteSets

CONSTANTS
    Scheds,     \* schedulers: calls of startSchedulerMode
    Oneshot,    \* those of them that wait for their addresses
    Owner,      \* scheduler -> the one whose process starts it later, or None
    Addrs,      \* addresses of github.com
    List,       \* source -> the addresses it gives when it answers
    None,
    Torn,       \* stands in a file that was truncated and is not yet written
    MaxStarts   \* bound: schedulers started

Sources == {"meta", "doh", "seeds"}

ASSUME AddressesAssumption ==
    /\ Oneshot \subseteq Scheds /\ MaxStarts \in Nat
    /\ None \notin Scheds /\ Owner \in [Scheds -> Scheds \cup {None}]
    /\ Torn \notin Addrs /\ List \in [Sources -> (SUBSET Addrs) \ {{}}]

VARIABLES
    net,     \* source -> "up", "refused" or "stalled", as the network is today
    alive,   \* the addresses a TLS handshake succeeds with
    cache,   \* cache.json: the addresses in it, {} if there is no such file
    tmp,     \* cache.json.tmp, the same name for every scheduler
    row,     \* last_good of github.com: address, score (less is better), old (a day)
    sc,      \* scheduler -> its threads and its pool
    starts,  \* schedulers started
    seen     \* history: "overlap", two seedings saved at a time; "failed", a save

vars == <<net, alive, cache, tmp, row, sc, starts, seen>>

\* Seconds a seeding may take, and those a source that stalls takes from it:
\* 15 the client of the meta API, 10 for each of two DoH endpoints, 5 to connect
\* for each of seven rounds of eight seeds.
Budget(p) == IF p \in Oneshot THEN 8 ELSE 30
Cost(s)   == CASE s = "meta" -> 15 [] s = "doh" -> 20 [] s = "seeds" -> 35

\* seed and main: where the threads are; left: seconds; got: the answer of the
\* chain; doh: the answer beside it; read: what it found in the cache; fd: the
\* file being written; pool: address -> state; batch: the addresses each thread is checking; ops: queued for last_good.
Off == [seed |-> "off", main |-> "off", left |-> 0, got |-> {}, doh |-> {}, read |-> None, fd |-> None,
        pool |-> [a \in Addrs |-> None], batch |-> [t \in {"seed", "main"} |-> {}], ops |-> {}]

Running(p)  == sc[p].main # "off"
InSeed(p, l) == sc[p].seed = l
InMain(p, l) == sc[p].main = l
Becomes(p, state) == sc' = [sc EXCEPT ![p] = state]
Seed(p, l)  == Becomes(p, [sc[p] EXCEPT !.seed = l])
Saving      == {"open", "write", "rename"}

-----------------------------------------------------------------------------
(* Start *)

\* Bug variant: the seeding of a one-shot scheduler in the background, as a serve's.
MainAtOnce(p) == "restore"

FirstOfMain(p) == IF p \in Oneshot THEN "wait" ELSE "restore"

\* The update runner of a serve starts its scheduler once the serve's own is
\* there, and while that seeds in the background.
Start(p) ==
    /\ ~Running(p) /\ starts < MaxStarts
    /\ Owner[p] # None => InMain(Owner[p], "run")
    /\ starts' = starts + 1
    /\ Becomes(p, [Off EXCEPT !.seed = "host", !.main = FirstOfMain(p), !.left = Budget(p)])
    /\ UNCHANGED <<net, alive, cache, tmp, row, seen>>

-----------------------------------------------------------------------------
(* The chain *)

Answers(p, s) == net[s] = "up" /\ sc[p].left > 0

Spent(p, s) == IF net[s] # "stalled" THEN sc[p].left
               ELSE IF sc[p].left > Cost(s) THEN sc[p].left - Cost(s) ELSE 0

ChainVars == <<net, alive, cache, tmp, row, starts, seen>>

\* ResolveHost before the chain: what it finds is added to what that finds.
AskHost(p) ==
    /\ InSeed(p, "host")
    /\ Becomes(p, [sc[p] EXCEPT !.doh = IF Answers(p, "doh") THEN List["doh"] ELSE {},
                                  !.left = Spent(p, "doh"), !.seed = "meta"])
    /\ UNCHANGED ChainVars

\* A level of the chain that asks the network: an answer ends the chain and is
\* saved, a failure goes on to the next.
Ask(p, s, level, next) ==
    /\ InSeed(p, level)
    /\ \/ /\ Answers(p, s)
          /\ Becomes(p, [sc[p] EXCEPT !.got = List[s], !.seed = "open"])
       \/ /\ ~Answers(p, s)
          /\ Becomes(p, [sc[p] EXCEPT !.left = Spent(p, s), !.seed = next])
    /\ UNCHANGED ChainVars

AfterNoCache == "seeds"

Readable == cache \notin {{}, {Torn}}   \* there, and a JSON text

\* Bug variant: the cache is asked only while there is time left.
AskCacheInTime(p) ==
    /\ InSeed(p, "cache")
    /\ LET asked == [sc[p] EXCEPT !.read = IF Readable THEN "there" ELSE "none"] IN
        IF Readable /\ sc[p].left > 0
        THEN Becomes(p, [asked EXCEPT !.got = cache, !.seed = "add"])
        ELSE Becomes(p, [asked EXCEPT !.seed = AfterNoCache])
    /\ UNCHANGED ChainVars

\* The cache takes no time; what comes from it is not saved again.
AskCache(p) ==
    /\ InSeed(p, "cache")
    /\ LET asked == [sc[p] EXCEPT !.read = IF Readable THEN "there" ELSE "none"] IN
        IF Readable THEN Becomes(p, [asked EXCEPT !.got = cache, !.seed = "add"])
        ELSE Becomes(p, [asked EXCEPT !.seed = AfterNoCache])
    /\ UNCHANGED ChainVars

Chain(p) == \/ Ask(p, "meta", "meta", "doh") \/ Ask(p, "doh", "doh", "cache")
            \/ AskCache(p) \/ Ask(p, "seeds", "seeds", "add")

-----------------------------------------------------------------------------
(* saveCache: a temporary file, truncated, written, renamed.  An error ends it
   and is ignored. *)

SavedBy(p) == \E q \in Scheds \ {p} : sc[q].seed \in Saving
Noted(p, f) == seen' = seen \cup f \cup (IF SavedBy(p) THEN {"overlap"} ELSE {})

\* Bug variant: the cache is written in place.
OpenInPlace == "cache"

OpenedFile == "tmp"

\* os.WriteFile opens and truncates before it writes.
OpenTmp(p) ==
    /\ InSeed(p, "open")
    /\ \/ /\ Becomes(p, [sc[p] EXCEPT !.fd = OpenedFile, !.seed = "write"])
          /\ IF OpenedFile = "tmp" THEN tmp' = {Torn} /\ UNCHANGED cache
             ELSE cache' = {Torn} /\ UNCHANGED tmp
          /\ Noted(p, {})
       \/ Seed(p, "add") /\ Noted(p, {"failed"}) /\ UNCHANGED <<cache, tmp>>
    /\ UNCHANGED <<net, alive, row, starts>>

\* A file with content c after text is written into it from its start: what
\* another one wrote meanwhile may be longer (saved_at has no fixed length),
\* and its end stays.
Into(c, text) == IF c \in {{}, {Torn}} THEN {text} ELSE {text, {Torn}}

\* The file written is the one that was opened, whatever it is called by now.
WriteTmp(p) ==
    /\ InSeed(p, "write")
    /\ \/ /\ CASE sc[p].fd = "tmp"   -> tmp' \in Into(tmp, sc[p].got) /\ UNCHANGED cache
               [] sc[p].fd = "cache" -> cache' \in Into(cache, sc[p].got) /\ UNCHANGED tmp
               [] OTHER              -> UNCHANGED <<cache, tmp>>
          /\ Becomes(p, [sc[p] EXCEPT !.fd = None, !.seed = "rename"])
          /\ Noted(p, {})
       \/ /\ Becomes(p, [sc[p] EXCEPT !.fd = None, !.seed = "add"])
          /\ Noted(p, {"failed"}) /\ UNCHANGED <<cache, tmp>>
    /\ UNCHANGED <<net, alive, row, starts>>

\* Another seeding may have renamed the file before, or be writing it.
RenameTmp(p) ==
    /\ InSeed(p, "rename")
    /\ \/ /\ tmp # {} /\ Noted(p, {})
          /\ cache' = tmp /\ tmp' = {}
          /\ sc' = [q \in Scheds |->
                      IF q = p THEN [sc[p] EXCEPT !.seed = "add"]
                      ELSE IF sc[q].fd = "tmp" THEN [sc[q] EXCEPT !.fd = "cache"]
                      ELSE IF sc[q].fd = "cache" THEN [sc[q] EXCEPT !.fd = "gone"]
                      ELSE sc[q]]
       \/ /\ Seed(p, "add") /\ UNCHANGED <<cache, tmp>>
          /\ Noted(p, IF tmp = {} THEN {} ELSE {"failed"})
    /\ UNCHANGED <<net, alive, row, starts>>

Save(p) == OpenTmp(p) \/ WriteTmp(p) \/ RenameTmp(p)

-----------------------------------------------------------------------------
(* The pool.  AddCandidates leaves the addresses it knows as they are; a
   Preflight handshakes with the addresses that are New when it begins and
   reports them when all have answered. *)

With(pool, list) == [a \in Addrs |-> IF pool[a] = None /\ a \in list THEN "New" ELSE pool[a]]

News(pool) == {a \in Addrs : pool[a] = "New"}

AddFound(p) ==
    /\ InSeed(p, "add")
    /\ LET pool == With(sc[p].pool, sc[p].doh \cup sc[p].got) IN
        Becomes(p, [sc[p] EXCEPT !.pool = pool, !.batch["seed"] = News(pool), !.seed = "check"])
    /\ UNCHANGED ChainVars

\* Every success is reported with a score and queued for the database.
Checked(pool, batch) ==
    [a \in Addrs |-> IF a \notin batch THEN pool[a]
                     ELSE IF a \in alive THEN "Active" ELSE "Isolated"]

Reported(p, t, then) ==
    \E score \in [sc[p].batch[t] \cap alive -> {1, 2}] :
        Becomes(p, [then EXCEPT !.pool = Checked(@, sc[p].batch[t]), !.batch[t] = {},
                                !.ops = @ \cup {[ip |-> a, score |-> score[a]] : a \in DOMAIN score}])

\* A one-shot scheduler goes on to the database, and then to its work.
CheckFound(p) ==
    /\ InSeed(p, "check")
    /\ Reported(p, "seed", [sc[p] EXCEPT !.seed = "done",
                            !.main = IF @ = "wait" THEN "restore" ELSE @])
    /\ UNCHANGED ChainVars

\* The row of last_good; a serve does not wait for its check.
Restore(p) ==
    /\ InMain(p, "restore")
    /\ LET pool == IF row = None THEN sc[p].pool ELSE With(sc[p].pool, {row.ip})
           new  == pool # sc[p].pool IN
        Becomes(p, [sc[p] EXCEPT !.pool = pool,
                                   !.batch["main"] = IF new THEN News(pool) ELSE {},
                                   !.main = IF new /\ p \in Oneshot THEN "check" ELSE "run"])
    /\ UNCHANGED ChainVars

CheckRestored(p) ==
    /\ InMain(p, "check") \/ (InMain(p, "run") /\ sc[p].batch["main"] # {})
    /\ Reported(p, "main", [sc[p] EXCEPT !.main = "run"])
    /\ UNCHANGED ChainVars

-----------------------------------------------------------------------------
(* The database *)

Better(op) == IF row = None THEN TRUE ELSE op.score < row.score \/ row.old

\* execLastGood; a full queue or a database error loses the row.
WriteRow(p) ==
    /\ Running(p)
    /\ \E op \in sc[p].ops :
        /\ Becomes(p, [sc[p] EXCEPT !.ops = @ \ {op}])
        /\ \/ Better(op) /\ row' = [ip |-> op.ip, score |-> op.score, old |-> FALSE]
           \/ UNCHANGED row
    /\ UNCHANGED <<net, alive, cache, tmp, starts, seen>>

\* A day passes for the row.
Age ==
    /\ row # None /\ ~row.old /\ row' = [row EXCEPT !.old = TRUE]
    /\ UNCHANGED <<net, alive, cache, tmp, sc, starts, seen>>

\* A process ends, with its queue written (Close waits for the writer), or
\* dies wherever it is, a serve in the middle of its seedings too.
Exit(p) ==
    /\ Running(p) /\ Owner[p] = None
    /\ sc' = [q \in Scheds |-> IF q = p \/ Owner[q] = p THEN Off ELSE sc[q]]
    /\ UNCHANGED ChainVars

\* Tomorrow's network.
Change ==
    /\ \A p \in Scheds : ~Running(p)
    /\ net' \in [Sources -> {"up", "refused", "stalled"}] /\ alive' \in SUBSET Addrs
    /\ UNCHANGED <<cache, tmp, row, sc, starts, seen>>

Init ==
    /\ net \in [Sources -> {"up", "refused", "stalled"}] /\ alive \in SUBSET Addrs
    /\ cache = {} /\ tmp = {} /\ row = None
    /\ sc = [p \in Scheds |-> Off]
    /\ starts = 0 /\ seen = {}

Next ==
    \/ \E p \in Scheds :
        \/ Start(p) \/ AskHost(p) \/ Chain(p) \/ Save(p) \/ AddFound(p) \/ CheckFound(p)
        \/ Restore(p) \/ CheckRestored(p) \/ WriteRow(p) \/ Exit(p)
    \/ Age \/ Change

Spec == Init /\ [][Next]_vars

-----------------------------------------------------------------------------
(* Properties *)

\* The cache is a whole answer or none, wherever the process that saves it
\* dies, unless two seedings saved at the same time, of one serve even: the
\* temporary file has one name for all of them (bootstrap.go:387).
CacheWhole == "overlap" \notin seen => Torn \notin cache

\* "Any level that succeeds ends the chain, and its result is brought to the
\* cache" (bootstrap.go:6): once every seeding is over and none met an error,
\* what is in the cache can be read.  Violated: the two seedings of one serve
\* write into one temporary file.
CacheRefreshed ==
    (\A p \in Scheds : sc[p].seed = "done") /\ "failed" \notin seen => cache # {Torn}

\* "Any level that succeeds is enough" (bootstrap.go:6): a seeding that ends
\* with nothing has asked the cache and found none to read, used-up time or
\* not, and no source answers, unless one that stalled used up the time of
\* the others.
EveryLevelCounts ==
    \A p \in Scheds :
        InSeed(p, "done") /\ sc[p].doh \cup sc[p].got = {} =>
            /\ sc[p].read = "none"
            /\ sc[p].left = 0 \/ \A s \in Sources : net[s] # "up"

\* A one-shot scheduler is used for no connection before every address it was
\* seeded with is checked (main.go:981, the updates that failed three times
\* on dead addresses).
OneshotChecked ==
    \A p \in Oneshot : InMain(p, "run") => News(sc[p].pool) = {}

=============================================================================
