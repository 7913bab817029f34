# A TLA+ verification of RockSys

RockSys is a single-process HTTP gateway written in Go: a chain of middlewares in
three slots around a reverse proxy, hot-swappable at run time, with an admin API,
a dispatcher with health checks, a firewall, scripts, a message outbox, a service
registry and a set of background jobs. This directory models the parts whose
correctness rests on interleaving, ordering, retries or crashes, checks the models
with TLC, and proves what matters most with TLAPS. Every definition is translated
from the Go source; `PROJECT.json` gives the lines ("map"), the runs, the mutants
each property must catch, the hazards and the theorems.

## 1. Inventory

Paths are relative to `src/`. "Hard" names what an ordinary test hardly reaches.

| Component | State it keeps | Operations | Talks to | Hard |
|---|---|---|---|---|
| task centre `internal/taskcenter` | running and finished tasks, white list, conflict rules | Submit, run, Cancel, progress, listings | admin API, GeoIP timer, migration, SQL execution | finish time taken outside the lock; retention; conflicts in both directions |
| migration and data sources `internal/adminapi/migrate*.go`, `dsn.go` | file of data sources, the tables of a run and their status | submit, align, copy batch by batch, cancel a table or the task, edit and delete a source | task centre, two databases | deletion checks, then deletes; a run ends while a table is marked |
| GeoIP `cmd/rocksys/geoip_sync.go`, `schedule.go`, `plugins/obs/traffic_cache.go` | cursors per log table, schedule list, cache of the statistics | rounds, pruning by two loops and by hand, queries | task centre, log tables | a cursor that passes a row not written; a query that overtakes the purge |
| worker pool `internal/workpool` | channel, target and active worker counts, stop flags | Start, Submit (three forms), UpdateWorkers, UpdateQueueSize, Stop | a library, used by its tests | compare-and-swap retirement, replacing the channel under load, stop against submit |
| chain `internal/chain/impl.go` | three lists of middlewares behind one RW mutex | Add, Remove, Replace, Execute, ResponseHooks, WriteFinal | adapter, hot-swap manager | requests walk a list outside the lock while Remove shifts the same backing array |
| adapter `internal/chain/adapter.go` | in-flight counter | Handler: Head, Middle, forward, Tail hooks, flush | chain, engine | which hooks run on which path; counter on every exit |
| hot-swap manager `internal/hotswap/impl.go` | mount states, registration order, automatic-mount map | Enable, Disable, Shutdown, applyAutoEnable, hotReload | chain, configuration centre, every plugin | hot reload outside the lifecycle lock; concurrent reloads; forced drain |
| script hub `internal/hotswap/hub.go`, `script.go`, `internal/netutil` | cache of texts, fingerprints, the list of trusted proxies | GetScriptText, rounds of the scan, change handlers, the administrator's save | plugins, file system | read miss racing a change; handlers run as goroutines |
| script plugin `plugins/script` | one immutable snapshot of versions | Publish, Rollback, Remove, Start, Stop, Handle | chain | compilation outside the lock |
| configuration centre `internal/conf/impl` | bound variables, items, watchers | Set, poll of the files, publish | engine, hot-swap manager | notifications as goroutines, out of order; external edits against Set |
| engine `internal/engine` | default upstream, transport | Forward, tunnel, watcher | configuration, adapter | applies the snapshot it was handed, which may be an old one |
| dispatcher `plugins/dispatch` | rules, node registry, in-flight counts, sticky choice, health tasks, cursor of the round robin | Rebuild, OnRequest, Tail hook, probes, Start, Stop; its administration | database, adapter, target services | Rebuild against Stop, in-flight pairing, nodes removed under load, saves statement by statement |
| firewall `plugins/shield` | snapshot of rules and bans, limiter, counter of denials, refresh loop | OnRequest, refresh, ban, unban, restore, automatic ban, Start, Stop | database, hot-swap manager, script hub | unlocked rebuilds, restart of the loop, lock-free counters and buckets |
| event recorder `plugins/shield/event_recorder.go` | bounded channel, batch, counters | Record, flush, Stop | database | batches that fail in part; shutdown order |
| access log `plugins/obs` | sinks, one goroutine each | Start, OnDone, flush, Stop | database | a request writes to a sink it fetched before a switch; a reload starts it again beside Stop |
| message outbox `plugins/mq` | rows with status, worker loop | Insert, poll, deliver, retry, dead letter, Start, Stop | database, consumers | crash between delivery and the mark; one message that keeps failing |
| service registry `plugins/registry` | instances with expiry, watchers | Register, Deregister, Heartbeat, scan, watch | HTTP callers | watchers called outside the lock |
| process `cmd/rocksys/main.go` | none of its own | assembly, shutdown in order | everything above | what is still in memory when the database closes |
| operators and login, list pages, schema tools, stateless plugins, SDK, web console | small or none | one-shot calls | HTTP API | nothing a model checker would find |

How they interact. `main.go` assembles the process: the configuration centre first,
then the engine (which subscribes to the default upstream), the chain with its
adapter, the hot-swap manager (which subscribes to every publication), the plugins,
the admin API with the task centre, and last the pollers of files. A request enters
the adapter, which counts it, copies the Head and Middle lists, runs them, lets the
engine forward and then runs the Tail list in reverse. The firewall is a Head
component whose denials go to the event recorder; the dispatcher is a Middle
component that chooses the target and a Tail component that takes the request off the
node's count; the access log is a hook at the end. An operator's switch call goes
through the admin API to the configuration centre and from there, by a notification
in a goroutine of its own, to the manager, which also acts directly for the call
itself. Every plugin may be started again by a hot reload without a stop in between.
Background jobs run as goroutines of the task centre.

What makes each component correct:

* task centre: running jobs never conflict; each accepted job is settled exactly
  once and releases its label; finished jobs do not change.
* migration: a table reported done is complete, but for rows whose key the target
  has already when conflicts are to be skipped; every table of a run gets a verdict;
  no deletion that begins later takes the source from a running migration.
* GeoIP: no row is left behind a cursor; a round is not called a success when it was
  cut short; statistics show what a finished round has written.
* worker pool: an accepted task is executed once, whatever is resized, replaced or
  stopped meanwhile; management calls return.
* chain and adapter: a request runs the middlewares of its snapshot, in order.
* hot-swap manager: shown state, chain and resources agree; nothing is stopped
  under a request unless the drain ran into its limit; every call ends.
* configuration centre and engine: a hot change holds through reloads and
  restarts, as long as nothing of higher rank names the key, an edit of a file takes effect, subscribers end with the last value.
* script hub and plugin: texts in force are those of the files once the scan is
  quiet; concurrent publications are all kept.
* dispatcher: the snapshot, the probes and the registry follow the tables; the first
  match in the global order wins; no node starves; a count is the number of requests;
  Stop leaves no probe behind, unless a Rebuild had passed its test of `stopped`;
  saves are in force or reported.
* firewall: what the tables count is what happened; the snapshot comes to agree with
  tables and files; counts by the minute are exact but for overlaps; the limiter
  allows no more than its rate.
* access log, event recorder: a record is in memory, in the table or counted as
  dropped, but for those of a sink that has no table; an orderly shutdown leaves none
  in memory, but in a sink that a late reload has in hand.
* outbox: a message is repeated by faults only and comes to an end.
* service registry: the watchers end with the table as it is.

The hazards, each at its line, are listed in `PROJECT.json`, with the properties that
would catch them.

## 2. Plan

Written, in this order (the core of a running gateway first, then what it needs):

1. `TaskCenter` with its promise `LabelExclusion`;
2. `WorkerPool` with `JobLedger`; 3. `Chain`; 4. `HotSwap`; 5. `Config`;
6. `Dispatch`; 7. `RouteTables`, then `Traffic` on top of it;
8. `Shield`, `EventCounter`, `RateLimiter`, joined in `Firewall`;
9. `Storage`, `AccessLog`, `EventRecorder`, `Outbox`, `ServiceRegistry`, joined in
   `Process`;
10. `ScriptHub` and `ScriptEngine`, joined in `Scripts`;
11. `Migration` and `GeoipSync` over `TaskCenter`, joined in `Jobs`;
12. modules of proofs: `Jobs_proofs` (with `TaskCenter`), `WorkerPool_proofs`,
   `HotSwap_proofs` (with `Chain` and `Scripts`), `Config_proofs`, `Dispatch_proofs`,
   `Traffic_proofs` (with `RouteTables`), `Firewall_proofs` and `Process_proofs`.

To come: the liveness of the dispatcher's retry loop as a run on a reduced instance;
the response path of the adapter (buffer, hooks, WebSocket); operators and login.

## 3. Modules and code

A module that composes others EXTENDS them and adds the steps in which they meet;
each MC module gives the constants of one run. Where several small scenarios say more
than a large one, a constant (`Scenes`, `Scenarios`, `Plans`, `Budgets`) holds the
scenarios, `Init` picks one, and every counter in it is a bound.

### TaskCenter, LabelExclusion (`internal/taskcenter/taskcenter.go`)

`task[i]` is the `entry` of the i-th accepted submission, `running` and `terminal`
the map and the list of the centre, `pc[i]` the position of the goroutine `run`.
`Submit` is the whole of `Submit` under the lock; `Return` is the end of the body
(or its panic) together with `finishAt`, which the code takes without the lock;
`Settle` the rest of `run` under the lock; between the two, `Cancel` and
`SetProgress` may run. The clock is non-decreasing and two readings may be equal.
A second `Cancel` overwrites the stamp of the first, as in the code: one that
slips between `finishAt` and the lock moves the stamp behind the end of the body, and
a task that was cancelled in time is then reported done or failed, unlike what the
comment at line 38 says. `firstCancel` is history. `LabelExclusion` is the promise:
a lock on labels under a conflict relation.

### Migration (`internal/adminapi/migrate*.go`, `dsn.go`), GeoipSync, Jobs

In `Migration`, `dsn` is the list of data sources, `mig[i]` the run of task i (mode,
position, the status and the counted rows of each table), `target[t]` what the target
holds: the rows copied, those whose key another row has (`held`), and whether it has
rows of its own. The handler of a submission, the body's steps (`VerdictOf`,
`WriteBatch`, ...), the removal of a single table and the changes of the list
interleave; rows are copied in batches, each in a transaction of its own, and a
cancelled context fails the statement that runs. With "skip" a row whose key is held
is refused by the database and counted all the same (`migrate.go:529`, 619, 726, 739);
with "replace" the table is emptied first. Which keys are held is the constant
`HeldRows`.

`dsn.json` is loaded, changed and saved without a lock. `editor[e]` is a handler
between the two: `AddLoads` and `DeleteLoads` read the list, `Saves` writes what was
made of it, over whatever others have written meanwhile, or fails and leaves the file
as it was (a file cut off half-way, which would cost every entry, is left out). Who
reads the list while it is being saved may get the old list, the new one or an error.
`DeleteChecked` is the look at the tasks before it all. `exposed` is history: runs that
were submitted while the list had not their source, or an editor was about to write
one without it, or that looked while the file was being written. The active source of
the program itself is not looked up by any task and left out.

In `GeoipSync`, `logRows[t]` are the rows of a log table, `cursors[t]` how far the
process has come, `sync[i]` the round of task i, `geoList` the table of places and
`cache` the cached statistics with the query that computes them outside the lock.
Old rows are pruned by the loop of the event recorder (`PruneEvents`), by that of the
access log (`PruneLogs`) and by hand (`PruneEventsByHand`, `PruneLogsByHand`), with
or without the switch of each table (`PruneEnabled`). Address ranges are the sets
`Addresses` and `Located`. The flag `geoSyncRunning` stands behind the rules of the
task centre and is left out, as is `GEOIP_ENABLED`.

`Jobs` is the whole: `Goroutine` is what the bodies and `Settle` do.

### WorkerPool, JobLedger (`internal/workpool/workpool.go`)

`queue[q]` are the channels the pool has had, `current` the one in force; a
worker's `pc` are the steps of the loop between two atomic operations (load,
compare, compare-and-swap, check, roll-back, snapshot of the channel, select).
`ctl` is the one goroutine that holds `stateMutex`, with the steps of growing, of
the replacement (close, drain, merge) and of Stop. A submitter reads `stopped` with
no lock, and again with the read lock of the channel. Select is a free choice among
ready cases. `JobLedger` is the promise to the caller.

### Chain (`internal/chain/impl.go`, `adapter.go`)

Slices are views of backing arrays (`array`, `segment`). `Add`, `Remove` and
`Replace` take the lock and leave a list of cells to write; `WriteCell` writes one
word at a time, so that a reader without the lock may meet a torn interface value
(`Torn`); `Unlock` publishes the new view. A request copies its views under the
lock (`Execute`, `ResponseHooks`) and reads one cell at a time (`Visit`). What a
middleware does is the choice between going on and ending the request.

### HotSwap (`internal/hotswap/impl.go`, `internal/adminapi/adminapi.go`)

`proc[p]` is a goroutine inside the manager: a switch call (`BeginSwitch`,
`VerifySwitch`, then Enable or Disable), a reload (`BeginReload` to `Restart`), or
Shutdown. `lock` is `lifecycleMu`; what the code does under `m.mu` is one action.
`pending` counts notifications whose goroutine has not started. `active` is the
adapter's counter, `using[r]` the middlewares in the snapshot of a request.
Independent components without a place on the chain are left out.

### Config (`internal/conf/impl.go`, `internal/engine/engine.go`)

`disk`, `env`, `cmdline` are the sources, `mem` the bound variables, `cfg` the
published snapshot, `args` the arguments that reloads replay. `Load`, `Register`,
`Set`, `Reload` and `Publish` follow the functions of those names; the poller is split
where it releases the lock (`Poll`, `Reload`). `FailingReload` is a reload that does
not come to its end, see the comment there; nothing is published then. The command
line may name a key without a value (`Switch`), which reloads replay and the
synchronisation of the arguments (`SyncArgs`) passes over. A publication starts a
goroutine per subscriber; `notes` counts them by value and `Notify` runs them in any
order. `wanted` and `edited` are histories of the last hot change and of the last edit
of each key, `apart` of a write or a reload that failed and left variables and file
unlike each other. easyconf, which binds the variables, is a library that is not in
the repository: from the way the code uses it, reading a file sets the keys the file
names and leaves the others, and `UpdateFile` writes every bound variable. A hot
change of `ROCKSYS_CONFIG` itself is left out.

### Dispatch (`plugins/dispatch`)

The tables are abstracted to one rule that sends everything to one upstream with a
few nodes; a node's row is absent, off, exempt from probing, or probed with
parameters p1 or p2; a relation is primary or backup. `SaveNode`, `SaveUpstream`
with `SaveRelations` (two statements), and `Reload` are the admin handlers. Every
caller then goes through `Rebuild`: the test of `stopped`, `rebuildMu`, one query
per table, the validation, the new snapshot, and the difference in the health
centre under its own mutex, where a probe that is to end is told (`StopTask`),
ends by itself (`EndProbe`, after as many `Probe` as it likes) and is removed
(`Drop`). The operations of the registry (`Ensure`, `Forget`, `SetHealth`,
`DecInflight`) are operators: each is one critical section or one atomic update.
`IncInflight` is two: the record is looked up under the lock (`Find`) and added to
after the unlock (`Count`), so that a Rebuild may have cleared it in between and the
addition goes to a record nobody sees. `Start` may come without `Stop`, from the hot reload; a failed Start
leaves a retry loop. A request is chosen, counted, answered, or cut off by a later
middleware, with any of these steps between those of a rebuild.

### RouteTables, Traffic (`plugins/dispatch`: `admin.go`, `model.go`, `match.go`, `select.go`, `sticky.go`)

`db` holds the tables with the deletion stamps, `served` the graph the snapshot
was built from, `call` the handler each administrator is in and the statement that
comes next. No handler opens a transaction, so every query and every statement is an
action: the checks (`CheckUrl`, `CheckUpstream`, `CheckNode`, `CountRules`,
`CountRelations`, `CheckName`, the `ReadDeleted...`), the writes (`WriteNode`,
`DropUpstream`, `RemoveRelation`, `TagRule`, ...) and the Rebuild of `afterWrite` with
its mutex and four queries. The tags of a rule are saved after the rule itself: those
it has are taken off one by one (`Untag`), then each name is looked up (`FindTag`),
made if need be (`NewTag`) and attached (`TagRule`), and only then is the snapshot
rebuilt. A rule whose tags cannot be saved is therefore in the table and not yet
served, which the caller is told. Tags have handlers of their own, without a Rebuild.
`Fail` is a statement the database does not answer: the handler reports an error and
what it wrote before stays. A deletion stamp is the number of the call, since two
calls do not share a time; the relations of an upstream come back by the stamp they
were deleted with. The unique indexes are those of postgres (`PartialIndex`). With
the indexes of sqlite and mysql, on the pair of value and deletion time, active rows
never clash, their deletion time being NULL: there only the query before the write
stands against twins.

The documents promise that neither deletion nor restoration leaves a dangling
reference (`docs/done/ROUTE_DISPATCH_DESIGN_PLAN.md`, D11). `TablesHold` says how far
that is so when calls do not overlap: a rule that is not deleted keeps its upstream
even if statements fail; if none fails, the tables become invalid, so that every later
Rebuild is refused and reported and the old snapshot serves on, in four ways only: an
upstream saved without nodes; a deleted upstream saved (its relations are inserted
anew); an upstream deleted twice and restored (the second deletion sets a new stamp,
so the restore finds none of its relations); and an upstream restored when a node of
its group has been deleted meanwhile. Each of the four is needed.

`Traffic` adds requests: `Candidates` and `Match` follow the lists per domain that a
rebuild prepares and their merge; `CollectCands`, `LeastConnSet`, `PickRR`, `WrrStep`
and `StickyNode` the choice of a node; `Handle` and `OnResponse` count it; `Probe`
changes the health of a node. A path is the sequence of what stands between its
slashes. The conditions of the rules, the weights and the algorithm are chosen at the
start and stay (`setting`); nodes are listed in the order of their numbers; hosts are
normalised hosts.

### Shield, EventCounter, RateLimiter, Firewall (`plugins/shield`)

`Shield`: `rows` are the two address lists in the database, `snapshot` what requests
are judged by, `proc` the position of each caller, of the ban engine (`Engine`) and of
the refresh loop (`Ttl`), `pending` the hits in memory. A ban of an address is an
insert, or, if there is a row, a read and a restoring or updating statement
(`RestoreBan`); an import is a statement per line (`ImportIPList`), of which the first
that fails ends the call, keeps the rows before it and leaves the snapshot as it is; a
rebuild reads the lists one by one without a lock and stores a new snapshot. `file` is
the rule file and `cached` the text of it that the hub has: rebuilds and the import of
the file read the second, which follows the first when the hub looks (`HandleChange`),
before its callback rebuilds (`RuleChanged`). How the hub itself may be mistaken is the
matter of `ScriptHub`; the refresh loop first writes the hits back, row by row, putting back what
a failing statement took. The patterns of the firewall are data: a request is the set
of checks it would trip. `EventCounter` is the ring of minute buckets, each access to
an atomic variable a step: a bucket is taken over by a compare-and-swap and cleared
afterwards. `RateLimiter` is the map of token buckets, the counter beside it and the
eviction. Every rebuild of a snapshot, that of the 60-second refresh too, brings a
new limiter with full buckets (`Renew`). `Firewall` joins them; the variable `part`
says which of the structures a behaviour is about, since the counter and the limiter
have no step in common.

### Storage, AccessLog, EventRecorder, Outbox, ServiceRegistry, Process

`Storage` is the database as these components see it: a statement succeeds or fails,
and fails once the connections are closed. `AccessLog` has one record per sink
(`AsyncStore`) with the position of its goroutine: what is queued and in the batch,
what was dropped, and as history what is in the table (`stored`, of which `kept` belong
to the batch in hand), what is in the table although it was counted as dropped
(`both`), and what a sink without a table threw away (`discarded`). `life[w]` is the
Start or Stop that the manager or a hot reload is in: Start swaps the sink, flushes the
old one for five seconds, closes it, with a flush again, and Stop flushes without a
limit the sink it has loaded. `EventRecorder` is the channel, the batch and the
position of `flushLoop`; `Outbox` the rows, the position of the courier and what the
consumers have got; `ServiceRegistry` the table and those who publish it, the list
being taken under the lock and handed on without it.

`Process` is `main`: requests, the manager that switches the components, hot reloads,
the shutdown in its order, and an end or a crash with the next start (`Restart`), after
which the rows and the consumers are as they were and memory is empty. A reload
(`HotReload`) makes the list of what is on and then calls Start of each outside
`lifecycleMu` (`ReloadObs`, `ReloadMq`, `ReloadRegistry`), whatever has been switched
or shut down since: nothing makes main wait for it. The first sink of a process is
taken to have its table; later ones may not.

### ScriptHub, ScriptEngine, Scripts (`internal/hotswap`, `internal/netutil`, `plugins/script`)

`ScriptHub` has two watched files: the list of trusted proxies, with a subscriber and
an administrator who saves it by way of a temporary file, and an SQL text that
readers look up. A round of the scan compares fingerprints, reads again, stores and
notifies; a callback runs as a goroutine of its own. `ScriptEngine` has the immutable
snapshot; `Publish` compiles before it takes the lock.

## 4. Runs

| Run | Question | Bounds and why they are enough |
|---|---|---|
| `jobs` | no task lost, cancelled tasks end, `LabelExclusion` is implemented; migrations complete and settled, sources kept; rounds of GeoIP leave nothing behind, are reported truly and show | two tasks are all pairs of jobs; a table of three rows and batches of two give a short last batch, an empty table none; KeepLimit 1 evicts with the second task; of the copied rows one has its key held; eleven scenes: a rerun, faults, two editors of the list, one of them beside a migration of an entry that the other adds, alignment alone and beside a migration, rounds, pruning, queries, a crowded centre |
| `worker_pool` | no task lost or doubled, accepted tasks run once, calls return, the count of workers settles, `JobLedger` is implemented | plan one: two tasks fill the smaller channel and block the merge; plan two: two workers shrink and grow around one task |
| `chain` | a request runs its snapshot | five changes outgrow an array, shift it and append into the spare cells again; two middlewares share a slot |
| `hot_swap` | what a request can reach is running; every call ends | two goroutines are all pairs of calls; one middleware, since the manager treats each name alone but for the order of the loop; one change beside the initial reload, a failing Start, a hanging request, Shutdown |
| `config` | the last word on a key counts, the engine follows, writes settle | two changes, two edits, one restart and one reload that fails halfway order any write against any reload; the disk may fail; every source may or may not name a key, the command line also without a value |
| `route_tables` | what is saved is served or reported; references and tags; first match in order; fair turns | see `MCTraffic`: one upstream with two nodes, where no statement relates two upstreams: three calls, two at once, when all that name a node name the same one, else two at once or three in turn; without a rule, and for tags, two at once or three in turn; one failing statement; three rules with all combinations of six conditions on six paths; weights 2:1:1, 3:2:1, 1:2:1 and a backup group |
| `dispatch` | counts, last save, verdicts, Stop | one administrator, Start and Stop and the retry loop are three callers of Rebuild; two nodes, one probed and one exempt, change their rows and roles; one failing query; one request. The same instance with two Starts (3.7 million states) was checked as well and is left out for its length |
| `dispatch_disabled` (violation) | a node that is switched off gets no request | two Starts with a save between them |
| `firewall` | counted hits and bans are true, the snapshot settles; denials by the minute are exact; the limiter holds | one address and, for one call, a block that holds it, since rows do not meet but in an import; calls against the engine, an edit of the file, failing statements, a switch off and on, in five budgets; three rounds of the engine reach the repetition limit; a ring of two buckets over three minutes comes round once; one bucket for two keys forces an eviction with every new key |
| `shield_reenabled` (violation) | while the plugin is mounted its snapshot comes to agree with the tables | one edit and one switch off and on |
| `process` | records are accounted for, an orderly shutdown ends and leaves nothing, messages are repeated by faults only and end, watchers are told, all with the exceptions of section 6 | ten budgets, one for each interaction, one with everything there when the signal comes, and three with a hot reload; one reload at a time (the theorems are about any number), three sinks; channel and sink overflow with the third request |
| `scripts` | texts in force are those of the files; publications are kept | three edits or saves order a change against a read, a callback and a save; four calls of the engine are two publications and a roll-back, removal or switch |

Deadlock is not checked in these runs: all bounds (submissions, changes, clock) end
in states without a step, as an idle gateway does.

Fairness. `Jobs`: a goroutine that is alive goes on, and a body honours its context,
which is `RunFn`'s contract; a free body nobody cancelled may run for ever. One weak
fairness for all goroutines is enough, as the rules of exclusion leave one alive at a
time. `WorkerPool`: goroutines run; Go's select chooses at random among ready cases,
which justifies strong fairness of receiving and of quitting; nobody must submit or
stop. `HotSwap`: goroutines run, and a Go mutex hands itself to a waiter that starves
(strong fairness of the two lock steps); requests may hang for ever, and switches need
not come. `Config`, `Shield`, `ScriptHub`: tickers, the scan of the files and the goroutines they start run;
callers need not come but finish what they began. `Process`: whoever can go on does;
nobody has to switch, to reload, to stop or to fail. `Scripts` has `Prompt = TRUE`, the assumption
that a callback has ended before the next round of the scan; without it two callbacks
of one file may apply their texts in either order and the older one stays, so that the
liveness property fails.

Each property is paired with a mutant in `PROJECT.json`, an operator in the module
marked as such, that changes one definition like a plausible slip and that the run
must refute.

## 5. Proofs

TLAPS proves the following for every value of the constants that satisfies the named
assumptions of each module (`...Assumption`); TLC evaluates the assumptions in every
run, and each inductive invariant was checked with TLC before it was proved. Where a
theorem states a property of a run, `PROJECT.json` names it. The name in parentheses
is the inductive invariant.

* `Jobs_proofs`, first part (`Bookkeeping`, on top of `TypeOK`), about `TaskCenter`: a
  task's status, its goroutine, its place in `running` or `terminal` and its stamps
  agree (`PhaseOK`, `MemoryOK`, `StampsOK`). From it: `MutualExclusion`,
  `NothingLost`, `CancelledOnlyIfAsked`, `TerminalIsFinal`, and that the centre
  implements `LabelExclusion`: Submit acquires, Settle releases, all else stutters.
* `Jobs_proofs`, second part (`JobsInv`): the accounts of migrations (`SourcesOK`,
  `TablesOK`, `TargetOK`) and of rounds of GeoIP (`ScanOK`, `OutcomesOK`, `CacheOK`)
  agree with target, list and cursors; tasks of one label are one after the other.
  Needs that there is a table to copy (`migrate.go:362` refuses an empty list). Every
  behaviour of the composition is one of the task centre (`JobsRunInCentre`), so that
  the theorems of the centre carry over. From it `DoneIsComplete`, `TablesSettle`,
  `SourceLostByRaceOnly`, `ScannedIsListed`, `OutcomeIsTrue`, `FreshAfterSync`.
* `WorkerPool_proofs` (`PoolInv`): each task lies in exactly one place (a channel, a
  worker, the hands of UpdateQueueSize or of Stop, or it has run once), no sequence
  holds a task twice, and the channel in use is open until Stop has taken what it
  held, after which nobody is inside an attempt to send. `ExactlyOnePlace` counts the
  places; the pool implements `JobLedger`, for which the last part is what matters:
  nothing is accepted after the ledger has closed.
* `HotSwap_proofs`, first part (`HotSwapInv`): what the holder of the lock knows, the
  counts of calls in flight, and that whatever is mounted was started and not stopped.
  From it `UsableIsRunning`.
* `HotSwap_proofs`, second part (`ChainInv`), about `Chain`: no two slots view one
  array; what the holder of the lock will publish shows the lists it means, but for
  cells it has still to write (`ContentsOK`); a request has met all that is mounted
  while it lasts (`MetOK`); and the cells ahead of a request that nothing was shifted
  under hold the rest of its snapshot, inside what is in view and out of the writer's
  way (`TrueOK`). That last conjunct is why append may write without a copy. From it
  `RunsItsSnapshot`. `Kept`, the loop of Remove, is a recursive function; the part first
  proves that it exists and that it keeps only elements of the list.
* `HotSwap_proofs`, third part (`EngineInv`), about `ScriptEngine`: numbers of
  publications given away lie below the next one; hence `PublishesKept`.
* `Dispatch_proofs` (`DispatchInv`): who may hold which lock where, what the health
  centre knows of configured nodes, and `ServedOK`: what was read from the tables is
  fresh or somebody will read again. From it `InflightCounts`, `LastSaveServed`,
  `StoppedIsQuiet`, `KeepsVerdict`.
* `Traffic_proofs`, first part (`RouteTablesInv`): the last writer was told; or it is on
  its way to its rebuild; or nobody who rebuilds has anything old in hand and either the
  snapshot is up to date or the last writer will store one. That only one call rebuilds
  at a time (`OneRebuild`) is part of it. From it `ServedOrTold`, first for the handlers
  alone (`RouteTables`), then for `Traffic`, whose requests change no table
  (`TrafficImplementsRouteTables`).
* `Traffic_proofs`, second part (`TablesInv`): as long as no two calls overlapped, at
  most one call is under way, and at each of its statements the tables hold what is
  still promised there. `RulesHold`: a rule that is not deleted has its upstream, and
  what a check found still stands when the write comes. `GraphHolds`: if nothing failed
  and no culprit came by, the tables are valid but for the upstream whose relations are
  just being replaced or brought back; of that one, the relations taken off and put on
  so far are told by their stamps. `TagsHold`: every rule shows the names it was given,
  but for the rule or the tag in work, of which it is said what is still to come.
  `TablesHold` speaks only of moments when nobody calls, and is not inductive: what
  makes the next write safe is the check some statements before. Needs that the program
  starts from valid tables without tags (`FirstTablesAssumption`). From it `TablesHold`
  (`TablesAlwaysHold`, `TablesHoldInTraffic`).
* `Traffic_proofs`, third part (`TurnsInv`): for the nodes of an upstream, the values of
  the cursor add up to 0, and any k of n nodes are together at most W·k·(L − k) ahead,
  where W is the heaviest weight and L is 2n − 3 (or n, if n is at most 2). A turn of
  any subset of the nodes keeps this: with the winner among the k, they pay at
  least what they gain; without it, none of those that gained has come further than the
  winner before it paid, so that the bounds for the k with the winner and for the k
  without those that gained limit the k as well (`AheadMean`). Since n − 1 nodes are
  ahead by so little, the last one is behind by no more, and each turn it loses moves it
  up by its weight: `TurnsAreFair`. Weights are positive and nodes finitely many
  (`WeightsAssumption`). The sums are folds over subsets; the module proves that they
  exist and are additive. The bound grows with the square of the number of nodes: twice
  the sum of the weights, which held for three nodes, does not for four nodes with the
  weights 1, 1, 1 and 2.
* `Traffic_proofs`, fourth part: the order by `match_order` and id is total, so a set of
  rules has a list in order, of which the list of a domain is the part with that domain
  (`OfDomainListed`) and the merge of two of them lists both sets in order
  (`MergeListed`); the recursive functions behind the two are first shown to exist. With
  the invariant that snapshots contain rules only (`RulesNamed`), the first candidate
  that fits is the first of all rules that fit: `FirstInOrderWins`, what the comment at
  `plugins/dispatch/model.go:245` claims. Orders are numbers (`OrdersAssumption`).
* `Config_proofs`: unless a publication overtook another, one goroutine at most is on
  its way to the engine and it carries the value that counts (`ConfigInv`, hence
  `EngineFollows`); a hot change is in the file and nothing on the command line will
  undo it, a key bound already has its value (`WordsInv`, hence `LastWordCounts`). The
  second is about the default, one file (`OneFile`), with the keys and moments left aside
  that section 6 names; with two files it is false.
* `Process_proofs`: a recorded denial is in the channel, the batch, the table or the
  count of dropped ones (`EventsInv`); as long as the watchers do not know the table,
  somebody will tell them (`RegistryInv`, `WatchersTold`); each delivery of a message
  is paid for by the row marked done, the mark about to be written, or a fault or cut
  (`OutboxInv`, `RepeatedByFaultsOnly`); the records of the access log in the sinks,
  in the table, dropped and discarded add up to those written, those counted twice
  aside (`LogTypeOK`, `RecordsAccounted`); and a shutdown that met no time limit leaves
  no denial in memory, no courier awake that a reload has not woken (`ProcessInv`) and
  no record in a sink, unless a Start has it still in hand. The last is the hard one,
  since a reload may start obs at any moment: where obs stands and how far the shutdown
  is agree (`SwitchOK`), and only the manager stops (`SwitchersOK`); as long as no
  wait met its limit, whoever a batch belongs to waits for it (`AcksOK`), every sink but
  the last is closed or about to be (`OldOK`), no request writes once obs has drained
  them (`HooksOK`), and from then on the last sink is about to be closed or as empty as
  it was made (`LastOK`); all this is `LogInv`, hence `NothingLeftBehind`. The sums over
  all sinks are folds over sets; the module first proves that a fold exists and what it
  becomes when one summand changes or one more sink appears.
* `Firewall_proofs`: a bucket belongs to the key of its maker, tokens spent and left
  never exceed the burst and what the time has refilled, and while evictions overlap
  each knows how far the count is off (`LimiterInv`, `LimiterHolds`); rows of the
  address lists never go, what a goroutine in mid-call relies on stays, and the hits
  counted are those in memory, in the table and in hand (`ListsInv`,
  `TableCountsTrue`). The counter of denials trusts a minute that is still in the ring
  and had no call overlap a clearing: whoever counted it finds it in its bucket, which
  shows how many they are, and while the bucket is cleared they are none
  (`CounterInv`). Two minutes of one bucket are a ring apart, so that a window of the
  ring holds each minute in one bucket and the sums of a snapshot, folds over the ring,
  are those of sets that are apart (`SnapshotExact`).

Only model-checked are:

* what must happen eventually (`CancelEndsTask`, `AcceptedRuns`, `CallsReturn`,
  `WorkersConverge`, `CallsEnd`, both `Settles`, `ShutdownEnds`, `MessagesEnd`,
  `TextsFollowFiles`): liveness under fairness needs ENABLED.

Every invariant and every action property of the runs is stated by a theorem.

## 6. Where code and documents disagree

Two disagreements are runs that TLC must refute:

* `dispatch_disabled`: a node switched off while the dispatcher is disabled keeps
  its healthy record through the next Start (`plugins/dispatch/healthcenter.go:172`),
  against `plugins/dispatch/registry.go:134`.
* `shield_reenabled`: after the firewall is switched off and on, the refresh loop does
  not run (`plugins/shield/shield.go:510`), so that a ban whose time is over stays,
  against `docs/COMPONENTS.md:111`.

Others were met while modelling; the properties of the passing runs state what does
hold in each case:

* `Remove` shifts the list inside the array that requests walk
  (`internal/chain/impl.go:38`), against "immutable snapshot" (line 12) and
  `internal/hotswap/impl.go:247`. `RunsItsSnapshot` excepts requests whose list was
  shifted under them.
* A second request to cancel a task moves the stamp of the first (section 3).
* Two reloads that overlap may leave the mounted state against the configuration
  (`internal/hotswap/impl.go:168`), against "the only truth" (line 118) and
  `internal/adminapi/adminapi.go:388`. `UsableIsRunning` holds all the same.
* With `--config`, a hot change of a plugin's key is not found after a restart
  (`internal/conf/impl.go:356`), against line 399. The run has the default file only.
* A text that a reader took from its file before a change and cached after it stays
  until the next change (`internal/hotswap/hub.go:143`), although GetScriptText is
  documented to return the newest: the set `adrift` of `TextsFollowFiles`.
* A list of trusted proxies saved empty applies as an empty list until the callback of
  the scan brings the built-in text, which the comment on saving says at once.
* A snapshot between the compare-and-swap and the clearing of a bucket counts the old
  minute in the new one, against the comment at `plugins/shield/event_recorder.go:72`:
  `SnapshotExact` speaks of the time when no call is under way.
* Two evictions of the limiter that overlap take the same buckets off its count twice;
  from then on there may be more buckets than the limit: the flag `overlap`.
* A Rebuild of the dispatcher that has passed the test of `stopped`
  (`plugins/dispatch/dispatch.go:253`) goes on after Stop and starts the probes again,
  which run until the next Stop, against lines 212 and 254 ("refused, so that no probe
  leaks") and 338 ("no leak"). `StoppedIsQuiet` excepts it by `slipped`.
* The goroutines of two publications may run in either order, and the engine applies the
  value it was handed, not the present one (`internal/engine/engine.go:51`): the older
  upstream may stay until the next change, against "so that the proxy switches at once"
  (line 42). `EngineFollows` excepts it by `overtaken`.
* `internal/conf/impl.go:398` promises that a hot change persists through restarts. A key
  that the environment names gets the environment's value back at the next reload,
  already that of the change's own write-back; a key that the command line names loses
  the change at the next start; and a switch the command line names without a value
  (`syncArgsLocked`, line 510) keeps its meaning in every reload. `HotChangesStay` leaves
  the first and the last aside, and `wanted` forgets at a restart what the command line
  names.
* A hot change writes back all variables. An edit made by hand since the last poll is
  overwritten with what was read before, although the key was not changed: `EditsStay`
  leaves edits that were not read yet aside. A reload that fails halfway
  (`internal/conf/impl.go:165`, 302) has changed some variables and published none:
  `FilesDecide` speaks of the time when the last write and the last reload went well.
* A hot reload starts obs, mq and the registry again outside `lifecycleMu`
  (`internal/hotswap/impl.go:454`), also beside the shutdown that `cmd/rocksys/main.go:138`
  gives an order. Then the new sink of obs is what Stop flushes, while the old one is
  still being written by the reload; mq may be started from a list made before it was
  stopped, and its courier run into the closing database (`revived`, and `cut` of the
  repeated deliveries that may follow); and a Stop that has found a sink open waits for
  ever if the reload flushes and closes that sink first, since nobody takes its request
  any more (`Abandoned`, `plugins/obs/store.go:189`). `NothingLeftBehind`,
  `RepeatedByFaultsOnly` and `ShutdownEnds` except these cases by name.
* A sink whose table could not be made discards what it gets without counting it
  (`plugins/obs/store.go:77`): such records appear in no number the program shows.
  `RecordsAccounted` counts them by a history. Rows of a failing batch that were already
  in the table are counted as dropped as well (`both`).
* The report of a migration in mode "skip" counts a row that the database refused as
  copied (`internal/adminapi/migrate.go:529`): `DoneIsComplete` says which rows those are.
* An import of addresses that fails midway leaves its first rows in force for the next
  rebuild only, whoever sets that off (`plugins/shield/ip_list_mgmt.go:163`): `Settles`
  holds by the refresh loop.

## 7. Not modelled, and why

Forwarding, WebSocket tunnels (`engine.go` from line 185 on) and file transfer are
I/O; the DDL parser, the comparison of schemas and the firewall's patterns are text;
the Lua interpreter is a library. The buffering of responses in the adapter is left
out. Paged lists and queries change nothing. Operators and login keep a counter of
failed attempts and are left for later. Code without a caller in the program is left
out: `Server.Remove` and Reload of the service registry, the file store of
`plugins/config`, `MarkDead` of the outbox. The web console, the command line and the
SDK are clients.

Limits of what is checked: the order of the rules is the list `sortRules` ends with, not
its insertions one by one; `Snapshots` of a task's progress is one value, and only for
bodies that are left open; the clock of the task centre is bounded scene by scene. Type
invariants are stated where a proof uses them. `db_store.go:125` skips a record whose
extra fields cannot be serialised; nothing in the program sets such fields, and the
skip is left out. A callback of the hub that is owed when the next one comes runs once
for both. That a label's pairing which only one side names excludes in both orders is
shown by the theorem alone: the program registers no such pairing
(`internal/adminapi/adminapi.go:143`), nor does the run.
