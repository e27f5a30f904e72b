# A TLA+ model of GHydra

GHydra (`src/engine`, Go) is a local proxy that accelerates GitHub: it takes
the system proxy over, terminates `CONNECT` requests, dials the best of several
addresses of an accelerated host, falls back to a CDN ("channel B") when the
direct channel A is down, keeps a signed rule set up to date and updates its own
executable. A GUI shell (`src/internal`) supervises the daemon.

The modules of this directory model the parts whose correctness depends on
interleavings, crashes, late answers and long histories. They are checked with
TLC on small instances; every safety property the runs check is also proved with
TLAPS for every value of the constants, some of them under a hypothesis that
section 4 names.

## 1. The system

| Component | State | Operations | Model |
|---|---|---|---|
| IP scheduler, `sched/` | per host: candidate addresses with state (New, Probing, Active, Cooldown, Quarantine), claim mark, failure count, deadlines, EWMAs; a sticky address; lookups in flight | `AddCandidates`, `Pick`, `PickValidated`, `PickN`, `ReleaseCandidates`, `Report`, `resolveAsync`, `Preflight`, `ProbeBest` | `Sched`, `RaceProof` |
| CONNECT race, `proxy/race.go`, `tunnel.go` | one race slot per host; per connection: rounds, excluded addresses, deadline, the dials of a round | hot path, slot acquire/wait/release, staggered dials, reports, direct fallback, 502 | `Race` (on `Sched`), `RaceProof` |
| Channel breaker, `channel/`, `cmd/ghydra/doctor_loop.go` | closed/open/half-open, deadline, backoff exponent, ring of outcomes, what is known of B | `Report`, `NotifyDoctor`, `NotifyB`, `SetOverride`, `Route`; periodic and manual doctors | `Channel`, `ChannelProof` |
| System proxy takeover, `cmd/ghydra/daemon.go`, `apicore.go`, `sysproxy/` | the OS proxy setting, the snapshot row, `serve.json`, serve processes | `on`, `off`, API on/off, exit hook, `ensureReconcile` by every command | `Takeover`, `TakeoverProof` |
| Rule updates, `rules/`, `store/rules_state.go`, `rulesglue.go` | embedded rules, signed pair on disk, row `rules_state`, snapshot and floor in memory, backoff | start, periodic and manual refresh, `Apply`, `SaveRefreshState` | `Rules`, `RulesProof` |
| Self-update, `selfupdate/`, `selfupdateglue.go`, `updateapi.go` | `ghydra`, `.old`, `.bad`, staging, `update.json` | boot hook of every process, `update`, `update rollback`, apply in the daemon | `SelfUpdate`, `SelfUpdateProof` |
| GUI supervisor, `internal/supervisor` | startup flag, restart intent | `Step`, `Restart` | `SelfUpdate` (and `Launch` in `Takeover`) |
| Downloader, `get/`, `gettasks.go` | segments, offsets, channel per segment, tasks | range requests over A and B, slow detection, switch, resume | `Assembly`, `Download`, `DownloadProof`; the task registry in `Panel` |
| API and event hub, `api/`, `updateapi.go` | subscribers with bounded queues, the runner of updates | broadcast, eviction, SSE handlers, status ticker, `Check`, `Apply` | `Panel`, `DownloadProof`; the handlers that change settings in `Takeover` and `Managed` |
| GUI front end, `sse.ts` | the last frame of each kind, the link | connect, reconnect, give up | `Panel` |
| git and ssh settings, `gitcfg/`, `sshcfg/`, `cmd/ghydra/git.go`, `ssh.go` | url keys, `~/.ssh/config` and its backup, `managed_snapshot` | `enable`, `disable`, `off`, the API's handlers | `Managed`, `ManagedProof` |
| Resolver bootstrap, `bootstrap/`, `main.go` `startSchedulerMode` | `cache.json`, `last_good`, the pool of `github.com` | chain of levels, save, restore, seed, check | `Addresses`, `AddressesProof`; an arbitrary answer in `Sched` |
| Store, `store/` | SQLite rows, an asynchronous queue | snapshot rows, `rules_state`, `last_good` | rows in `Takeover`, `Rules`, `Managed`; the queue in `Addresses` |

Everything else (rule schema, minisign, SNI parser, diagnostics, configuration
commands, elevation, release tools, the mirror worker) is pure
parsing, cryptography, I/O or presentation; `PROJECT.json` lists each with the
reason.

How they interact: a connection (`Race`) asks the scheduler for validated
addresses or for `n` candidates, dials them without a lock and reports; what it
reports on A also feeds the breaker's window (`Channel`), which a doctor's
measurements can trip and close. `on` starts `serve`, which writes `serve.json`;
every other command reads it, and starts with reconciliation and with the boot
hook of the self-update. The shell reads `serve.json` and `update.json` and
starts `serve`. Commands, daemon and shell share nothing but files, the SQLite
database and the OS setting, and no lock spans two of them.

What is hard, and what makes each component correct:

* **Late reports** (scheduler, breaker). A dial or a measurement ends long
  after the state it was started from. The claim, the failure count, the state
  and the sticky pointer must not contradict each other; a verdict from before an
  outage must not end it.
* **Single flight** (race). Many connections want one slot, time out and are
  woken in any order: no wake-up may be lost, no storm of dials may arise, every
  client gets an answer, and a 502 needs evidence.
* **Somebody else's settings** (takeover). Processes are killed anywhere;
  restorers overlap. The user's proxy setting must survive and come back.
* **Monotone versions** (rules). A floor against replay is spread over a
  binary, two files and a row, each of which can be lost.
* **One copy** (downloader). A file is put together from answers of two
  channels, which may hold different copies and leave out what tells them apart.
* **Borrowed files** (git and ssh settings). Keys change one `git` process at a
  time, the snapshot is one more write, and commands and the API share no lock;
  what the user had must come back whatever died, failed or was repeated.
* **Lost frames** (panel). A slow subscriber is evicted, a link breaks, a ticker
  reads the state before it takes the hub's lock; what the panel shows must still
  become true.
* **One budget** (addresses). The levels of the chain share one stretch of time
  and all schedulers, two of them in one serve, share one cache file; a level that
  works must count, and what a crash leaves of the file must be whole.
* **Never destroy yourself** (self-update). Renames, record and check are
  separate steps of processes that die and are restarted, by several owners.

## 2. Modules

Each module names the operations after the code; `PROJECT.json` maps every
definition to its lines. One action is one critical section, one file operation
or one step between two points where another actor can act.

**`Sched`** is the pool of one host (pools share only the mutex). Every exported
method runs under `Scheduler.mu` and is one action, with its tail (rotation
index, sticky binding, the spawn of `resolveAsync`). The goroutines
(`resolveAsync`, `Preflight`, `ProbeBest`) start, dial and report in separate
actions. `Calls` lets callers use the methods in any order with any arguments, so
reports may be arbitrarily late; `Race` restricts that to what connections do.
Deadlines are countdowns moved by `Tick`. Scores are integers in thousandths.

**`Race`** extends `Sched` with client connections: `connectAccel` (hot path,
budget gate, slot, rounds), `dialRaceRound` with one step per dial and per
report, and the relay's final report. A dial that succeeds puts its connection into a
channel (`DialOk`), from which the loop collects the first as the winner (`Collect`) and cancels
the rest; dials under way are then dropped (`DialFail` on "dropped"). When all dials
have returned the loop may end although successes are still in the channel (`RoundEnd`):
a Go `select` takes either, and the drain files them as late winners. A
connection that never raced dials the domain itself, and an error of that dial is a 502
too (`DirectEnd`).

**`Channel`** is the `Router` and two doctors. A doctor measures A, then probes
B, then notifies, and others act in between; `stale` remembers whether A was
tripped after the measurement. Durations are machine integers in
`-Half..Half-1`: the backoff is a shift that overflows.

**`Takeover`** has one record per agent (the command, the API handler, each
serve's exit hook), each executing the same restore routine step by step: read
the snapshot, ask whether serve lives, write the setting, delete the snapshot,
delete `serve.json`. Kills may strike any process between two steps. A setting is the
user's (`orig`), GHydra's, or `mixed` after an `Apply` that stopped halfway. `near` is what
`Apply` makes of the user's (`Written`, with `Back`): it does not write all that
`Current` reads (`AutoDetect`, `windows.go`) nor keep a manual proxy beside a PAC or switched
off (`darwin.go:105`, `darwin.go:114`). `Faults` says what may go wrong: an
`Apply` that writes some values and fails (`partial`), a store that fails a restore, which is then
skipped without an error or leaves its snapshot (`store`), the same on the side of `on` (`nosnap`), a current
setting that cannot be read (`unread`), an `on` beside another agent (`overlap`).

**`Rules`** has the two goroutines that refresh, each with its local copies of
the refresh state and of the row, and all separate writes: signature, JSON,
snapshot, floor, `seen_max`, row.

**`SelfUpdate`** has one record per process: the version of its code, its place
in boot hook, update or rollback, and the state it has read. A binary is its
version, 0 a missing file. Whether a binary starts depends on `Dead`. `Spawned`
is `spawnServeAt`, and a daemon beyond the bound `Serves` dies at once.
With `Overlap = FALSE` work begins only when everyone else rests; a started
command then waits for the daemon it started, and everything after that
interleaves (the daemon's boot hook, the successor beside the process it
replaces, the supervisor). With `Overlap = TRUE` anything may begin any time.

**`Download`** is one `Downloader.Get`: requests, headers, body and switch are
separate actions, and what a server answers is chosen among `Replies`. The file is a
sequence of blocks `<<copy, number>>`, so its length is the offset. A slow channel is a
choice at the two points where the code judges it (the headers, the block that
closes the window). `Quirks` says what servers may do. **`Assembly`** is the promise:
one copy grows block by block, done means whole, and it ends; `Download` implements it
with `pc` mapped to busy, done or failed.

**`Managed`** has an agent for the command line and one for the handlers of the API.
Each runs `enable`, `disable` or `off` as the sequence of processes and writes it is
in the code: read the keys, unset or add one, save or delete the snapshot, write the
backup, write the ssh file. A key is `<<base, source, key>>` with a sequence of values, the
ssh file a block of ours and a text of the user's. `Faults` says whether an agent may die
between two steps, a step may fail, the two agents may overlap and the user may edit the
ssh file meanwhile. `mine` is what the user would have without GHydra, `back` what a
successful `disable` or `off` claims to have given back.

**`Panel`** is the hub with one handler per connection (subscribe, `hello`, copy the
buffer, leave), the status ticker that reads the state and broadcasts it in two steps,
the update runner with a check and an apply that may overlap, the task registry, and the
page, which keeps the last frame of each kind and reconnects unless it was refused. A
restart of the daemon forgets tasks and subscribers.

**`Addresses`** is the start of a scheduler, which is one call of `startSchedulerMode`: its seeding thread goes down the chain (meta
API, DNS over HTTPS beside it, cache, seeds) with the seconds that are left, saves the
answer over `cache.json.tmp` in three steps and adds the addresses to the pool; its main
thread restores what `last_good` remembers, and of a one-shot scheduler (`get`, `update`, the update
runner) waits for the seeding. `Owner` says which scheduler belongs to the process of
another: a serve starts its own, seeds in the background, and its update runner starts a one-shot one meanwhile, over
the same file. A writer that finds its file renamed goes on in what it has open (`fd`), and a shorter text
leaves the end of a longer one (`Into`). Addresses are checked with a handshake, whose results are queued for the database.
Processes stop or die anywhere, and the network changes between starts.

**`RaceProof`** (also about `Sched`, on which `Race` rests), **`ChannelProof`**,
**`TakeoverProof`**, **`RulesProof`**, **`SelfUpdateProof`**, **`ManagedProof`**,
**`AddressesProof`** and **`DownloadProof`** hold the proofs about the modules they
extend, `DownloadProof` also those about `Panel`, which shows downloads. Modules named `MC...` give the constants values for TLC.

The operators marked "Bug variant" are plausible mistakes in the code at that
place; no specification uses them. Each stands for one checked property:
with it in place of the definition next to it, TLC finds that property violated.

## 3. What is checked

| Run | Question | Bounds | Distinct states |
|---|---|---|---|
| `sched` | Are claims, counts, isolation and stickiness consistent under any order of calls? | 2 addresses, cooldown 1, quarantine and sticky 2 ticks, 2 failures to quarantine | 213,638 |
| `race` | Single flight, storm bound, no redial, no 502 without evidence | 2 connections, 2 addresses of which 1 is still being verified, width 2 | 5,663,184 |
| `race_live` | Is every CONNECT answered? | 2 connections, 1 address, width 1 | 350,380 |
| `channel` | Trips, suppression, overflowing backoff, fresh recovery, progress | window 2, deadlines up to 3 ticks, 4-value half range, 2 doctors | 718,413 |
| `takeover` | Is the user's setting kept, restored and healed? | 2 serves, 1 kill, `Faults = {"partial", "store"}`, `Back = "near"`, up to the loss (`NotLost`) | 2,535,734 |
| `rules` | Replay floor, restart, convergence | 3 releases, 2 backoff steps, 1 fault of five kinds | 49,387 |
| `update` | A program stays, nothing unverified unnoticed, bad stays out, every update settles | 3 releases of which the last does not start, 1 daemon, 1 fault of three kinds | 709,097 |
| `managed` | Do the user's git and ssh settings survive and come back? | 2 agents, 3 commands, 2 option sets, 4 git and 3 ssh starts, all four faults | 1,888,662 |
| `panel` | Does the panel come to show the truth, and are subscriptions given back? | 2 connections, 1 subscription of 1 frame, 1 download, 2 checks or applies, 1 fault | 285,510 |
| `addresses` | Does every level of the chain count, is the cache whole, does a one-shot scheduler check first? | a serve and its update runner, 2 addresses, 3 starts | 6,588,572 |
| `download` | Is the file one copy, complete when reported so, and does a download end? | 4 blocks (5 of the longer copy), 3 switches, window 2 | 288 |

One more run, `download_range`, ends in a counterexample to `Intact` (section 5).

Why these bounds suffice for what the properties tell apart: two addresses are
enough for a better one to fail while another is sticky, claimed or isolated,
and two connections for a holder and a waiter, with reports of one for claims
of the other (`Width` 2 covers a winner, a late winner and a dropped dial). Two
failures reach quarantine, so every edge of the state diagram is taken. Two
ring slots overwrite an old sample; with three-bit durations the shift turns
negative at an exponent of 1 and zero at 2, where `BackoffCap` holds it. Two serves are a leaving one and
its successor. Three releases are an installed one, a good one and a bad one,
and leave room for one update over another. A file of four blocks breaks
before, in and after the window; three switches (the code's default) return to each
channel, and the copies differ in tag, or in tag and length. Faults are bounded at one:
the redundancies of the code (row and files, `.old`) are meant for one.
Three commands are an interrupted enable, its repetition and the disable after it, or a
disable and its retry; the starts are a user without rewrites, with one of another tool,
with two values under a name GHydra wants and with GHydra's own value. One
subscription of one frame makes every second frame an eviction and every second
connection a refusal, and a second connection is what the page reconnects with. Three starts
are a serve with its update runner and a successor that finds what they left; two addresses are one the
meta API lists and one only DNS answers. The run
`takeover` follows an execution up to the state in which the only copy of the user's setting is deleted (`NotLost`, which that
state still is checked against): `lost` stays for ever, and no property claims anything after it.

In `rules` the embedded release is 1 (`Ships = {1}`) because the code's is
(`floor.go`: the embedded version is always 1). Were it ever newer than the pair
on disk, the floor would not cover it: `provider.go` `NewProvider` takes the
version of the disk pair alone.

The properties, in the order of the runs:

* `sched`: `StickyIsActive` (circuit breaking beats stickiness), `ClaimIffProbing`
  (mark and state are one thing, so an address is neither claimed twice nor lost),
  `CountMatchesState`, `IsolationHolds` (only a success ends an isolation early, and an
  exhausted pool does not; `state.go` says otherwise, section 5).
* `race`: `SlotDiscipline` (who races holds the slot; nobody waits for nobody),
  `StormBound`, `NeverRedialed`, `RefusedHasEvidence` (a 502 after a race has a failed
  candidate of the same connection behind it or a success that a round of it left unread; a 502
  without a race comes of the direct dial); `race_live`: `Answered`.
* `channel`: `ClosedMeansWindowOK`, `BackoffEndsWithOutage`, `CooldownKept` (an outage is
  never prolonged by its own late failures, nor shorter than the base whatever the shift
  overflows to), `EvidenceOnly` (no verdict measured before the outage ends it; no trip
  onto a B that is known dead), `Recovers`.
* `takeover`: `OriginalNeverLost` (while the proxy is not the user's the store has the
  user's setting, unless a first takeover that stopped halfway deleted it, `lost`), `LeavingRestores` (`off` and
  a leaving serve whose own restore met no error leave the user's setting, whatever another restorer met), `Heals`
  (if commands keep being run, a proxy that points at no serve does not stay).
* `rules`: `FloorCoversRules`, `NoReplay` (no release older than one that was in force),
  `CountersKept` (the persisted floor only rises, an ordinary restart changes nothing),
  `Converges`.
* `update`: `StartableStays` (a binary that starts is in place or one rename
  away), `UncheckedIsPending`, `BadNotInForce`, `BadStaysOut`, `Settles`. The first
  three speak of executions without a failing file operation; `UncheckedIsPending`
  and `BadNotInForce` except a process death between the swap and its record and an
  update over an unconfirmed one (`lapse`), which section 5 describes.
* `managed`: `ForeignKept` (rewrites that are not GHydra's survive every fault and
  overlap, unless `enable --force` is told to take them away), `GitRestored` and `SshRestored` (after a `disable` or `off` that reported success the
  user's settings are back and ours are gone). The last two except the cases of `seen` that
  section 5 lists as observations.
* `panel`: `DownloadShown` (a subscription that kept up shows the download as it is),
  `UpdateSettles`, `ShownTrue` (a state that stays comes to be shown), `SlotsFreed`.
* `addresses`: `CacheWhole` (no crash leaves a torn cache, unless two seedings saved at a
  time), `EveryLevelCounts` (a seeding ends empty only if it has asked the cache and found none to read, time or no time, and
  no source answers or one that stalled used up the time), `OneshotChecked`.
* `download`: `Intact` (complete means one whole copy, however channels were mixed),
  `Implements` (no block is lost, doubled or of another copy on the way, and the
  download ends); for servers that may leave out the total but name the copy.

### Fairness

Safety runs use none. `race_live`: a goroutine that can run runs, a dial ends
within its timeout and time passes; a relay may last for ever. `channel`: time
passes, the doctor loop measures every interval, and the store can be opened
again and again (strong fairness of `DocNotify`: the loop retries each
interval). `takeover`: neither the store nor `Apply` fails the command for ever
(strong fairness of its `LoadSnap` and `ApplyOk`: a lock of the database is released, and each command tries anew).
Nothing is assumed of handlers and hooks; `Heals` is conditional on commands being run again and again, which
supposes that none of them hangs. `rules`: a refresh
ends (it has a timeout), the timer fires, and the newest release is neither
unreachable nor refused for ever. `update`: processes run on, the user keeps
giving commands, and the supervisor observes every two seconds. `download`: a
request is answered or given up and a body goes on, ends or breaks. The code limits
only the dial (and B's requests); for A's headers and bodies this is an assumption
about servers and TCP, and a stalled body holds a download for ever. `panel`: handlers run on, the ticker gets the hub's lock again
and again (it fires every second, and broadcasts are short), a check and an apply end (both have
timeouts), and the page reconnects, as an EventSource does. Nothing is
assumed of users beyond that, nor of who wins a race.

`CHECK_DEADLOCK FALSE` is set for the self-update (once the installed
binary does not start and nobody is left, the system does stop), for the
download, which is over when it is done or has failed, and for `managed`, `panel` and
`addresses`, which rest when their commands, runs and starts are used up.

## 4. What is proved

Every theorem holds for all values of the constants that the named assumption of its module
allows; a further hypothesis is named where there is one.

**Scheduler.** `RaceProof` proves, for every finite set of addresses, every configuration and
every order of calls (`SchedAssumption`: positive durations and limits, `Alpha`
a percentage):

* `TypeCorrect`: `Spec => []TypeOK`
* `StickyCorrect`: `Spec => []StickyIsActive`
* `ClaimCorrect`: `Spec => []ClaimIffProbing`
* `CountCorrect`: `Spec => []CountMatchesState`
* `RanksCorrect`: `Spec => []RanksDistinct`
* `IsolationCorrect`: `Spec => IsolationHolds`

The inductive invariant is `SchedInv == PoolInv /\ ProbeTypeOK`, where `PoolInv`
joins the pool's types with the three invariants. Given the types the
invariants carry themselves, with one exception: the sticky pointer stays on an
Active address only if `BestActive`, a `CHOOSE` over scores, is one, and that is
not about a single step. A strict partial order has a minimal element on a
finite set (`MinimalElement`, from the well-foundedness of strict subsets), and
`Better` is one because scores are integers (`EwmaType`, `ObserveType`,
`ScoreType`). Each step under the lock
has a lemma (`AppendKeeps`, `BindKeeps`, `ClaimKeeps`, `ReleaseKeeps`,
`SuccessKeeps`, `FailKeeps`, ...) that the actions share; `StepHolds` goes
through the actions of `Next`.

`IsolationCorrect` is an action property with two parts. A report: an address
that is in cooldown or quarantine and fails again goes one way (`ReportSpares`).
A claim: when nothing can be rotated, `rotateLocked` takes the touchstone, the
first address of the rotation order that is not isolated, and that must exist.
It does because the insertion ranks are distinct and below the size of the pool
(`RanksDistinct`, an invariant of its own: `RanksInit`, `RanksStep`), so the
rotation order is total; the number of predecessors of an element is then an
injection of a finite set into `0..n-1`, hence onto, and an element of every rank
exists (`RankExists`, `RotatePickInPool`).

**Downloader.** `DownloadProof` proves, for every file length, set of copies, bound on switches and
window (`DownloadAssumption`):

* `DownloadTypes`: `Spec => []TypeOK`
* `DownloadIntact`: `NamedCopies` implies `Spec => []Intact`
* `DownloadImplements`: `NamedCopies` implies `Spec => A!SafeSpec`, the refinement
  of `Assembly` without its liveness

`NamedCopies` says of the servers that every answer carries a tag, that copies differ
in theirs, that a range is honoured and that no body ends early unnoticed; the total
may be missing. The inductive invariant is `TypeInv /\ CopyInv`: the tag that `Get` keeps
names the copy whose first blocks are on disk (`FileNamed`), the body that is being
read is of that copy and goes on where the file ends (`BodyContinues`). `Intact` alone is
not inductive, as it says nothing of an unfinished file. Without `NamedCopies` it
does not hold: the run `download_range` drops one part of it.

**Races.** `RaceProof` proves, for any number of connections and addresses and any width:

* `SingleFlight`: `RaceSpec => []SlotDiscipline`
* `StormBounded`: `RaceSpec => []StormBound`
* `NoneRedialed`: `RaceSpec => []NeverRedialed`
* `RefusalsHaveEvidence`: `RaceSpec => []RefusedHasEvidence`
* `RaceImplementsSched`: `RaceSpec => [][Next]_schedVars`, where `Next` is the scheduler's
* `RaceKeepsPool`: `RaceSpec => [](TypeOK /\ StickyIsActive /\ ClaimIffProbing /\ CountMatchesState)`
* `RaceKeepsIsolation`: `RaceSpec => IsolationHolds`

`RaceInv` joins the types, `SlotDiscipline` and, for each connection, what its place
says of its dials: none outside a race (`Quiet`), none to an excluded address
(`NoRedial`), a failure or an unread success behind every refusal (`Evidence`), and not more than the
round was given (`Flight`). It rests on the pool's invariants (`PoolSafe`),
since a round takes its candidates from the pool.
`StormBound` counts dials of all connections; they belong to the holder of the slot,
whose round got at most `Width` candidates: with distinct ranks the order in which a
pool is dialled is total, so at most `Width` addresses have fewer than `Width` before them
(`RaceWidth`). The last three say that `Race` is a client of `Sched` and no more: each
access to the scheduler is one of the calls that `Sched` lets any caller make, every other step
leaves the pool alone (`RaceCalls`), so what holds of a pool under arbitrary callers
holds beneath any number of races. They suppose that there is an address at all (`IPs # {}`): the calls
of `Sched` ask for one to as many addresses as there are, and a wider race is the
race of the whole domain (`WidestRace`).

**Breaker.** `ChannelProof` proves, for any window, thresholds, durations and doctors:

* `BreakerTypes`, `ClosedWindow`, `BackoffEnds`: `TypeOK`, `ClosedMeansWindowOK` and
  `BackoffEndsWithOutage`, without a hypothesis
* `DeadlineKept`: `CooldownsKeepBase` implies `Spec => CooldownKept`
* `OnlyEvidence`: `DoctorsInTime` implies `Spec => EvidenceOnly`

`CooldownsKeepBase` says that no overflow of the shift leaves less than the base. It
holds of the code's defaults: with 60 s, a maximum of 10 min and 64-bit nanoseconds every shift
that stays positive is at least 60 s. `DoctorsInTime` says that a doctor delivers before the
shortest cooldown is over. The invariant is `Inv` (the first three) with `Fresh`: while the verdict of a
doctor that was overtaken by a trip is under way, the channel is open and
the doctor runs out of time before the channel does. The lemma behind it compares two countdowns;
the rest goes by the kind of step (`Switch`: calm, a trip, a closing).

**Takeover.** `TakeoverProof` proves, for any number of serves and kills, with restorers that overlap at will,
an `Apply` that stops halfway and a store that fails (`Sound`: `Faults` within `{"partial", "store"}`):

* `OriginalKept`: `Sound` implies `Spec => []OriginalNeverLost`
* `LeavingIsClean`: `Sound` implies `Spec => LeavingRestores`

The invariant is `lost \/ Kept`: once a takeover has deleted the only copy, nothing is claimed.
The properties speak of files, but what an agent does next depends on what it read some
steps ago. The strengthening says what each agent still knows at its place whatever the
others did (`AgentOf`), that beside an `on` everybody rests, and beside its rollback only
exit hooks run (`OnAlone`). A step of one agent is `Harmless` to the others
(`OneAgent`, `OneBegins`), a death only removes agents (`DeathKeeps`, `StopKeeps`).

**Rules.** `RulesProof` proves, for any number of releases, goroutine steps and restarts, where the
embedded release is the first (`EmbeddedIsFirst`):

* `FloorCovers`: `Spec => []FloorCoversRules`, with any faults
* `OldStaysOut`: `Spec => NoReplay`, if `MaxFaults = 1`, or `Faults` is within `{"db", "overlap"}`,
  or within `{"damage", "partial"}`
* `RestartKeeps`: `Spec => CountersKept`, if `MaxFaults = 1` or `"db"` is not among the `Faults`

`Inv` is types, the lock of a refresh and the floor; `Memory` is why one fault is not enough: files and row each
know the newest release that was in force, and while one of them is being written or is lost the
other remembers (`DiskKeeps`, `RowKeeps`, `OneKeeps`, `Same`). `Memory` holds while there was one
fault at most (`Remembers`), whatever the bound. The other hypotheses say what "insured twice" is
worth when faults repeat: the files alone keep the floor through any number of failures of the row
and overlaps (`FilesRemember`), the row alone through any number of lost or half-written files
while the process gets as far as to write it (`RowRemembers`), and a row that can be read and
written never falls back (`Rising`). `OldStaysOut` is as strong as it can be in pairs: for every
pair of kinds it does not allow TLC finds an old release accepted again, and `RestartKeeps` fails
for `"db"` with any of `"crash"`, `"damage"` and `"partial"` (four releases, two faults).

**Addresses.** `AddressesProof` proves, for any schedulers in any processes, addresses and answers (`AddressesAssumption`):

* `CacheCorrect`: `Spec => []CacheWhole`
* `LevelsCorrect`: `Spec => []EveryLevelCounts`
* `OneshotCorrect`: `Spec => []OneshotChecked`

`WrittenWhole` says that who writes has the temporary file open and torn, and who renames has it whole,
as long as no two seedings saved at a time. `SoundInv` carries along the chain that
each level behind a scheduler was hopeless when it was asked or took the time, that one behind the cache has found none
to read, and that the main thread of a one-shot scheduler waits for its pool to be checked.

**Self-update.** `SelfUpdateProof` proves, for any number of releases, deaths and failing
operations, while no command is given beside an update (`~Overlap`, as in the run):

* `StartableKept`: `Spec => []StartableStays`
* `UncheckedNoticed`: `Spec => []UncheckedIsPending`
* `BadRemembered`: `OneDaemon` implies `Spec => BadStaysOut`
* `BadNotBack`: `OneDaemon` implies `Spec => []BadNotInForce`

Without `~Overlap` the first does not hold (section 5). The invariant grows from one theorem to
the next. `Orderly` says at which place a process may be in which role and that one
works while the others wait, for which the guards of `Overlap = FALSE` alone are not
enough: a daemon is started in the middle of an update, and the process that
started it waits. `FilesInv` says which of the files are missing in the middle of a swap or a
rollback, and what is left to do then; that is why a death anywhere leaves something to
start. `VerifiedInv` adds who answers for a binary that nothing has checked:
`passed`, `update.json` with an `.old` to go back to, or the process about to write
it. `BadInv` adds what each process has read of `update.json` and may still write back,
and that every later update is newer than what is recorded as bad. `NamedInv` and
`ForwardInv` add that `serve.json` names the daemon, so the update stops it, and that
nobody plans by a version of its own that is older than the installed one.

`BadNotBack` says: when everybody rests, no file operation has failed and no lapse occurred, the
installed binary is not the release recorded as bad. It says nothing of `.old`, and the
daemon that a rollback itself starts beside a running one is excluded by `OneDaemon`.

`OneDaemon` (at most one daemon beside the command) is needed. With two, `rollbackSync` starts the
old daemon before it records the rollback, that daemon may have loaded
`update.json` before and write it back over the record; and a daemon that nothing names goes on with the old
version and reinstalls what was rolled back. The first two theorems hold for any number.

**Git and ssh settings.** `ManagedProof` proves, for any users, options, commands and faults, without a
hypothesis:

* `OthersKept`: `Spec => []ForeignKept`
* `KeysReturned`: `Spec => []GitRestored`
* `FileReturned`: `Spec => []SshRestored`

The properties speak of the end of a `disable` or `off`, the invariants of what is at hand in the
middle of a command. `Foreign`: whatever a snapshot or an agent is about to clear
held nothing but GHydra's value, so a `disable` that clears names nobody wrote does no harm.
`Restorable`: the snapshot together with the keys makes up the user's keys (`Covers`);
while an `enable` runs, what it has in hand does (`Taken`), and while a `disable`
runs, what it has put back, the value it is adding and what is left do (`Giving`).
That relation survives a death or a failure between any two `git` processes. `Borrowed`: file, backup and snapshot
hold the text of the user, whichever of them has been written. Each holds as long as `seen`
has not recorded one of the cases the property excepts, so the exceptions are exactly where the
argument breaks. `ConfigAssumption` says that the users' keys are sequences of values the model knows,
and that a snapshot is never taken for its absence.

**Panel.** The second half of `DownloadProof` proves, for any number of connections, downloads, runs and faults and any buffer:

* `DownloadSeen`: `PanelSpec => []DownloadShown`
* `UpdateSettled`: `PanelSpec => []UpdateSettles`

`UpToDate` is the strengthening: what is still in the buffer of a subscription that was sent a frame of the last
download brings the page up to date (`EndsWith`), a frame of a download behind it does so by
itself (`EndsAppend`), and a delivery takes the head away (`EndsTail`).

Only model-checked: the liveness properties (`Answered`, `Recovers`, `Heals`,
`Converges`, `Settles`, `ShownTrue`, `SlotsFreed` and the liveness part of `Implements`), since the
prover does no reasoning with fairness or `ENABLED`; and what lies outside the hypotheses above, where it holds at all:
servers that do not name their copy (`download`).
No theorem speaks of the value a recursive definition computes.

## 5. Where code and documents disagree

The run `download_range` shows one; `PROJECT.json` quotes the sentence. A
server that answers a range request with the whole file (a 200, as HTTP allows) has
it written behind the part that is there, and the download is reported complete.

Six sentences of the code are stated as properties that TLC finds violated when they are added to
the configuration named here; they have no run of their own.

* `ExhaustionReleases` (`MCSched.cfg`): `state.go:12` and `:20` release a quarantine early when the pool is exhausted,
  with its count cleared. `Pick` only spawns `resolveAsync` (`sched.go:193`); the quarantined
  addresses stay isolated to their deadline, which `IsolationHolds` states.
* `LateHasWinner` (`MCRace.cfg`): a late winner completes after the winner was decided (`race.go:205`). But a success that
  is in the channel when the last dial returns may lose the `select`
  against the closed `done` (`race.go:282`); the drain closes its connection as a late
  winner's, and the round has no winner. After two of those the client gets a 502 although an address answered.
* `NoHalfTakeover` (`MCTakeover.cfg` without its `CONSTRAINT`): an `Apply` that fails after writing some values makes a failed `on`
  delete the only copy of the user's setting (`apicore.go:61`); nothing is written back, although
  `daemon.go:267` promises no half-takeover. `OriginalNeverLost` excepts this case as `lost`.
* `NeverSilent` (`MCTakeover.cfg`): a store that does not open or load makes the restore a no-op without an error
  (`apicore.go:76`, `:77`); `off` then stops the serve the proxy points at and exits with 0, which
  `daemon.go:317` rules out. The next command heals it if the store opens then (`Heals`); `LeavingRestores`
  excepts it as an error of the restore.
* `ClearedByOff` (`MCTakeover.cfg` with `Faults = {"unread"}`): when the current setting cannot be read the takeover goes on without a
  snapshot, and `off` does nothing; `apicore.go:47` says it clears the proxy.
* `CacheRefreshed` (`MCAddresses.cfg`): any level that succeeds brings its result to the cache (`bootstrap.go:6`). But a serve seeds twice at once
  (`main.go:1021`, and `main.go:450` through
  `selfupdateglue.go:216`), both over one `cache.json.tmp`. One may truncate or overwrite what the other is writing or renames:
  the cache is torn although nobody died and nothing failed, which `CacheWhole` excepts as an overlap.

Further observations made while modelling, without a run of their own:

* *Scheduler.* Pool members get no EWMA alpha (`sched.go:148`), so an average
  stays at its first sample and failures do not worsen a score (`ewma.go:61`).
  Quarantine ends as a touchstone with its count kept, not as "New, count cleared"
  (`state.go:12`) when its time is over. Each late failure of one outage counts as a failure in a row.
* *Race.* A dial that was started and then cancelled sends no result; its address is
  neither reported nor released and stays Probing
  (`race.go:261`; `race.go:9` promises a release). A failure to write the `200` to the client is booked against the
  upstream address (`tunnel.go:157`).
* *Breaker.* `EvidenceOnly` says that a stale verdict closes nothing, not which doctor
  delivers it. A fault verdict suppressed because B is dead leaves the traffic on B
  when the channel is already open or half-open (`channel.go:226`: "stay on A").
  The doctor loop drops its verdict when the store cannot be opened.
* *Takeover.* Nothing keeps an `on` from running beside another `on`, an off or an exit
  hook (`apicore.go:37` takes no lock); it then loses the user's setting (with `Faults` set to
  `{"overlap"}` TLC finds `OriginalNeverLost` violated). An error of the store in a takeover counts as "no snapshot"
  (`apicore.go:37`): a repeated `on` then saves GHydra's setting as the original, or deletes a good snapshot
  when its `Apply` fails (`{"nosnap"}`). `Apply` does not give back all that `Current` reads
  (`darwin.go:105`, `windows.go:73`), so what comes back is near to what was there. The error of
  `DeleteSnapshot` is ignored, so a later command restores again. A foreground `serve` has no
  `serve.json`, so another command's reconciliation undoes a live takeover.
* *Rules.* The periodic refresh does not take `tryEnter` (`refresher.go:313`), so a
  manual one beside it can write an old `seen_max` back (`refresher.go:325` says
  "serial"); `CountersKept` therefore excludes overlapping refreshes. A refresh that finds the current version counts as a failure and backs
  off to a day (`version.go:31`). After damage the current release cannot be
  accepted again. A death between signature and JSON leaves a pair that does not
  load (`atomic.go:16` says otherwise).
* *Self-update.* The boot hook of any command deletes the staging of an update
  that another process is in the middle of (`swap.go:121`); the next attempt removes
  `ghydra.old` although `ghydra` is missing (set `Overlap = TRUE` to see
  `StartableStays` violated). `daemon_was_running` is never cleared, so the first command after
  `off` starts the daemon again (`update.go:321`). `pending` is written after the swap although
  `docs/GHydra-M3-W4-Notes.md:105` says before: a death in between leaves an
  unverified binary nobody checks. An update may run over an unconfirmed one and
  then removes the binary it could roll back to. A rename or save that fails in a
  running daemon is not undone, and its next attempt removes `ghydra.old`.
  `rollbackSync` starts the old daemon before it records the rollback: that daemon
  finds the update pending with two failures and rolls back again. Two rollbacks at
  once move the good binary to `.bad`, which the next start deletes. With two daemons at a time, one
that loaded `update.json` before a rollback saves it over the record of the bad
release, and one that `serve.json` does not name may install that release again. The restart
  intent of the panel is not consumed by a successor's start
  (`supervisor.go:170`). The check compares by substring (`update.go:399`).
* *Downloader.* The identity of a refused answer is kept when nothing was known
  before (`get.go:134`), so a stale CDN copy can make the origin be refused. A break
  after the last byte leads to a 416 and is reported as a failure.
* *Panel.* Every status differs from the one before, since it holds the uptime, so
  each tick pushes one although only changes are meant to be. The end of a
  download that an eviction, a reconnection or a restart swallows leaves the download
  shown as running for ever: a panel that reconnects gets `hello` and `status` only, and
  nothing asks for the rest (`sse.ts:14`, `sse.ts:33`); `DownloadShown` therefore speaks of
  subscriptions that kept up. `gettasks.go:6` names the switch of channel among the
  frames that are pushed at once, but it is throttled. The W1 design drops a frame after a
  write timeout of 5 s, the hub evicts at once. A refusal (503) ends an EventSource for
  good. `updateRunner.Check` overwrites a busy or failed state with idle during an
  apply. Downloads of the API pick addresses that they do not report on, so they stay
  claimed (`apiglue.go:142`).
* *git and ssh settings.* A second `ssh enable` overwrites the backup with a file that
  holds our own block, and `disable` leaves the block (`sshcfg.go:126`; the comment at
  `sshcfg.go:71` says otherwise). A second forced `enable` overwrites the snapshot with
  GHydra's keys; a forced one that dies before `SaveGit` loses the originals, as the snapshot
  is saved after the keys are written (`gitcfg.go:9` says before). `disable` unsets names it did
  not write, ignores errors of git while clearing, and adds values twice when it is
  retried. Edits of the ssh file made while it is borrowed are lost. With an empty
  snapshot `disable` writes an empty ssh file, although `ssh.go:118` says there is nothing to
  restore. These are the cases `seen` records and the properties except.
* *Addresses.* One budget covers all levels: a source that stalls starves the later
  ones, in a one-shot's 8 s always, although `bootstrap.go` has no level depend on
  another; only the cache takes no time. When the first seed that answers knows no address, the level fails.
  A full queue loses rows of `last_good`; what is queued when the store closes is written.

## 6. What is left

Not modelled, and why:

* *Race*, *downloader*: what the dials of a download report to the scheduler, and the DNS
  cache of channel B: `Sched` already admits reports in any order, and the cache
  only changes which address of B is dialled.
* *Breaker*: how a doctor's report is classified (`channel/doctor.go`, `probe/`) is a pure
  function over the results of many probes; `Channel` takes any verdict.
* *Takeover*: a snapshot row that does not parse, which clears the proxy (nothing the code does leaves
  one), and the order of `off`, which gives back the proxy first and then what `Managed` models.
* *Self-update*: a rename that fails while `RecoverFromCrash` puts `.old` back (`swap.go:102`); the
  faults are deaths, failing renames of the swap and the rollback, and failing saves.
* *Panel*: the second `EventSource` that each visit of the settings page opens and nothing
  closes (`Settings.tsx:29`; the model has one link, so `SlotsFreed` speaks of places whose client is gone); an apply that is followed by another one in the same daemon
  (`updateapi.go:157` gives the flag back, but the model's apply stays done until `Restart`); `conn` and `doctor` frames, the heartbeat, the list of recent connections
  and cached answers of a check, which nothing waits for.
* *git and ssh settings*: an ssh file torn by a crash in mid-write, the dry run, an empty `--db`, edits of the git
  keys by the user meanwhile, blank lines, the probe of ports 22 and 443.
* *Addresses*: the filter of domains by rules, and the lookup for an exhausted pool, which is
  `resolveAsync` in `Sched`.
* Parsing, cryptography, operating system dialogs, build tools and the mirror worker:
  no state of several actors, or none that the repository holds.

Next, in this order:

1. An abstract "borrowed setting" (free, borrowed with a copy, given back) that `Takeover`
   and both halves of `Managed` implement.
2. The classification of doctor reports as an operator over bounded inputs.

Liveness stays with TLC.
