# WinForge: formal models

TLA+ models of WinForge (a Go engine that tunes Windows, with a local dashboard),
the TLC runs that check them on small instances, and TLAPS proofs of the
properties that hold for every instance. Paths below are relative to the
repository; `internal/` means `src/internal/`.

    tlc -workers 2 -config Orchestrator_undo.cfg MCOrchestrator.tla     # a run
    tlapm OrchestratorProofs.tla                                        # the proofs

Contents: 1 inventory, 2 plan, 3 modules, 4 runs and bounds, 5 fairness,
6 proofs, 7 what the models found, 8 what is left out.

## 1. Inventory

WinForge is one Windows program used in three ways: the dashboard
(`winforge serve`, a local HTTP server), one-shot CLI commands, and the weekly
scheduled task `winforge run-maintenance`. Each is a process of its own with its
own `App`; they share the machine's settings and the audit directory.

    dashboard requests --> rate limiter --> httpapi.Server --jobs--> App --> Orchestrator --> Executor --> Windows
    CLI, weekly task   ------------------------------------------>   |           |
                                                                     |           +--> audit.Logger --> log files
    catalogs, packs ------------------(start of a process)--------->  +--> restorepoint, service, maintenance,
                                                                          updater, isobuilder, appmanager

| Component | State | Operations | Interacts through | Hard part | Correct when |
|---|---|---|---|---|---|
| Tweak orchestrator (`internal/tweak`) | `mutationMu`; the settings behind `Executor` | `Apply`, `Undo`, `UndoEntry`, `EnsureApplied`, `IsApplied` | reads and writes settings, appends to and reads the log | read-then-write, partial failure, undo in any order, other processes | snapshots are what the write replaced; an entry is undone once; newest-first undo leads back; history explains the settings |
| Application service (`internal/app`) | `mutationMu`, `mu`, last restore point, catalog, logger (nil when elevated) | `Apply`, `Undo`, `UndoEntry`, `RunMaintenance`, `CreateRestorePoint`, `InstallPackage`, schedule, start | owns the orchestrator; called by CLI and HTTP | every error path under a mutex; history re-read after a long restore point; a catalog whose tweaks contradict each other | calls return; a clean pass converges; refused calls have no side effect |
| Audit log (`internal/audit`) | daily files in numbered segments | `Append` with retention, `ReadAll` | one directory shared by all processes | crash in a write, retention races, clock changes, bounds on bytes and entries | acknowledged entries stay readable until pruned; oldest pruned first; growth never blocks undo |
| HTTP job queue (`internal/httpapi/server.go`) | job table, `mutationMu`, `mu` | `startJob`, log callback, `pruneJobs`, `withMutation` | goroutine per job; polled by the web page | panics, bounds on jobs/results/log, publication after unlock | one mutation at a time; live jobs never dropped; bounded gapless log; jobs end |
| HTTP routes (`internal/httpapi/server.go`) | none of their own | 28 handlers behind `ServeHTTP` | locks of server and App, job queue | checks spread over gate, handler and App | flawed requests change nothing; answers are truthful |
| Rate limiter (`internal/httpapi/ratelimit.go`) | token buckets per address | `allow`, `sweepLocked`, `retryAfter` | wall clock | lazy refill, sweeping of idle buckets | never more than the burst and the rate; buckets are independent |
| Process lifecycle (`internal/cli`) | server up / draining / exited | `serveWithShutdown`, 19 commands | signals, `http.Server.Shutdown` | stopping during a job | no mutation is cut off |
| Restore points (`internal/restorepoint`, `internal/app`) | throttle timestamp; COM security of the process; begin/end pair | `Create`, `List`, `EnsureRestorePoint` | COM, WMI, clock | second call of a pair fails; security set once per process; malformed and endless enumerations; releases on every way out | an automatic point at most once an hour; failures do not consume the throttle; results truthful; nothing leaked |
| Service control (`internal/service`) | none (service manager) | `Start`, `Stop`, start modes | service manager, polling with deadline | state changes between observation and action | success only in the wanted state; controls only with the rights they need |
| Repair operations (`internal/maintenance`) | provisioned-package cache | Windows Update reset, DNS, network reset, provisioned and installed Appx packages | services, files, external commands, Windows Runtime | partial failure of a sequence; stale cache; time-out against completion | services are restarted on every path; failed removals are retried; failures are reported |
| Windows Update client (`internal/updater`) | none | search, install | COM | partial results of several updates | partial failure is reported; nothing leaked |
| ISO builder (`internal/isobuilder`) | temporary files | list, export, copy, pack | DISM, oscdimg | clean-up after failure | the ISO has the wanted editions; no temporary file is left |
| Package manager (`internal/appmanager`, `procout`) | none | winget install/upgrade/search | external process through a pipe | more output than is kept, deadline | the child is drained; lost output is an error |
| Engine executor | none | registry, power, scheduler, services | Win32 | multi-step writes that fail part-way | error reported |
| Plugins (`internal/plugin`) | the Lua API of a running script | discovery, JSON and Lua packs, merge | files, Lua callbacks, the Lua hook | scripts that fail half-way, catch errors or never end; limits | packs count whole or not at all; a broken pack hides no other; only runaway scripts are stopped |
| Configuration and catalog (`internal/config`) | loaded once | loading, validation | files | malformed input, overrides | only valid tweaks get in |
| Health score | none | scoring | - | - | bounds |
| Dashboard simulator (`src/src/lib/actions.ts`) | database rows | server actions | awaits between statements | read-check-await-write races, undo order | an operation is undone once; undo-all is newest first |

`PROJECT.json` lists every component with its status and every hazard with its
source line and the properties that guard it.

## 2. Plan

The most valuable behaviour is undo: the product promises that what it changed
can be put back. Hence the order.

1. **Orchestrator** (done): apply, record, undo, undo of one entry, maintenance;
   several processes and callers, failures and crashes.
2. **AuditLog** (done): the file-level protocol behind the history.
3. **JobQueue** (done): admission, progress and shutdown.
4. **RestorePoint, RestoreThrottle, ComObjects** (done): the COM calls and the
   hourly throttle; **RateLimiter** (done) implements **TokenBucket**.
5. **ServiceControl**, with **UpdateReset** composed on top (done), and the other
   repairs: **ProvisionedCache**, **ChildProcess**, **NetworkRepair**,
   **AppxRemoval** (done); **UpdateClient** and **IsoBuilder** (done).
6. **Commands** over **CommandTable** (done): every request and CLI command from
   its checks to its answer. **Catalog**, **LuaPack**, **Plugins** (done): the start.
7. The proofs of all safety properties that the passing runs check: Orchestrator,
   RateLimiter, JobQueue, AuditLog, SystemRepair, FrontEnds (with Plugins) and
   WindowsCalls (done, section 6).
8. Abstract specifications, checked and proved: **UndoHistory**, which `Orchestrator`
   with one process implements, and **AppendOnlyLog**, which `AuditLog` implements (done).
9. If room remains: the simulator's server actions, the health score, and the order
   of releases as pure operators.

The modules of steps 4 to 6 are independent components; they are checked together
in three runs, each a choice between sessions of one component (section 4).

## 3. Modules

### Orchestrator, UndoHistory (with MCOrchestrator, OrchestratorProofs)

One step reads one operation's state, performs one write, or appends one audit
entry; between any two steps other callers, other processes or a crash may act.

| Variable | Code |
|---|---|
| `setting` | the machine: registry values, service start modes, power settings, tasks |
| `log` | what `audit.Logger.ReadAll` returns; an entry's ID is its position |
| `mutationMu` | `App.mutationMu` per process (`Orchestrator.mutationMu` is only taken inside it and is the same variable) |
| `pc`, `job`, `eff` | the call in progress: control point, arguments and loop index, `Effect` |
| `budget` | bounds of the run |
| `before`, `restores`, `lost`, `unlogged`, `orderly` | history variables: no action reads them to decide anything |

| Actions | Code |
|---|---|
| `Request`, `Acquire`, `Return` | `App.Apply/Undo/UndoEntry/RunMaintenance` and their deferred unlock |
| `ReadOp`, `ReadFails`, `WriteOp` (`Execute`, `ExecuteFails`), `Record`, `EndOfTweak` | `Orchestrator.Apply`, `applyOp`, `record` |
| `UndoOp` | `Orchestrator.Undo`: the revert list, run blindly |
| `VerifyOp`, `NextTweak`, `EndOfCatalog`, `Summary` | `EnsureApplied`, `IsApplied`, `RunMaintenance` |
| `Lookup`, `Recheck`, `HistoryUnreadable`, `Restore`, `RecordUndo` | `App.UndoEntry`, `Orchestrator.UndoEntry`, `restoreEntry` |
| `Crash`, `Drift` | the end of a process; another program's change (external) |

Operation types are grouped by what the code does with them: `set` and `delete`
capture one previous value, `delete_key` and `netbios` work on several targets
and capture nothing, `unary` operations cannot be read. `Compound` targets (the
processor state) are written in several steps, so a write that reports an error
may have taken effect all the same. A dry run reads and never writes, but still
goes through `App.mutationMu`.

Properties: `SnapshotFaithful` (an undoable entry holds what its own write
replaced), `UndoOnce` (a second restore of an entry needs a lost record),
`HistoryExplainsSettings` (between calls a target holds what its last successful
entry left; a target that a write reached without leaving an entry is excepted, and stays
excepted until an entry for it is written again), `UndoChain` (undoable entries of a target chain back to the
original value), `MaintenanceConverges` (a clean pass brings every verifiable
tweak to its target unless a later one contradicts it), `EveryCallReturns`.

`UndoHistory` is what a process promises whichever of its callers is at work: `machine`,
`entries` and `pending`, the entry of a change that was made and not recorded yet, if
there is one. `Make` is one change, by a tweak or by an undo; `Record` appends its entry
as it is, `Forget` loses it (a failed append, a crash), and nothing else changes before
one of them. `ChangesRecorded` says that `Orchestrator` implements it, with `setting`,
`log` and `PendingEntries`; waiting, reading, verifying and refusing are stutters. It
contains `SnapshotFaithful`, which run `two_processes` checks by itself.

### AuditLog, AppendOnlyLog (with AuditLogProofs)

`file` maps existing segments `<<day, number>>` to the chunks written to them;
`writer[p]` is process p's append in progress. Actions: `Start`, `OpenSegment`
(size check, once), `WriteLine`, `WriteCut` (short write or kill), `Scan`,
`RemoveOldest` (one file per step), `Acknowledge`, `Abandon` (any error return,
or a kill), `SetClock`. `Logger.mu` makes one append per process enough.
`ReadAll` is an operator: a fold over the files from newest name to oldest with
the byte and entry bounds, in which a line is whatever lies between two newlines,
so a cut write swallows the line after it.

Properties: `Acknowledged`, `HistoryReadable` (that is `HistoryComplete` and
`NewestKept`: what `ReadAll` leaves out is the oldest), `OverfillBounded`,
`PromisesKept`; and the three documented claims that fail (section 7).

`AppendOnlyLog` is what the log promises, without what an append does between its steps:
`kept` (the lines of each segment), `dropped` (the entries that went with their
segments) and `promised` (the entries whose `Append` returned nil). Its steps are
`Create`, `Write` (an entry that was never there before, at the end of a segment),
`Drop` and `Promise` (only of an entry written whole). While no two processes have
written at the same time (`shared`), `Drop` takes the oldest segment and only over the
bound of a read, and `Promise` finds the log within it. `PromisesKept` says that
`AuditLog` implements it, with `file`, `removed`, `acked` and `overlapped` for its
variables; an append's other steps are stutters.

### JobQueue (with JobQueueProofs)

`jobs`, `seq` and `mutationMu` are the fields of `Server`; `goroutine` and
`handler` are the program counters of job goroutines and of request handlers
under `withMutation`; `server` is the process. Every critical section of
`Server.mu` is one step, because nothing blocks inside one. `Log` computes the
callback's dropping loop as "keep the longest suffix that leaves room".
`OperationEnds` covers return, error and recovered panic, all of which run the
deferred unlock before `Publish`.

Properties: `OneMutation`, `LogIsNewestPart`, `LiveJobsTracked`,
`ResultsRetained`, `PollsAdvance`, `JobsEnd`.

### ServiceControl, UpdateReset

`svc` and `mode` are the service manager's states and start types, which services
and other programs change at any moment (`ServiceMoves`, `ModeMoves`); `call` is
the control point of one call of `start`, `stop` or `setStartMode`, with the
state it observed, the rights of its handle and the state it waits for; `expired`
is its deadline; `seen` is the last state the program read of each service, and
`reply` what the last call returned.

| Actions | Code |
|---|---|
| `Observe`, `Reopen`, `Recheck`, `Leave` | the loops of `start` and `stop`: query-only observation, a handle with the rights for that state, observation again, wait for a change |
| `Control`, `Refused`, `Poll` (`Reached`, `WaitFails`), `Resolve` | `StartServiceW`, `ControlService`, `waitForState` and what a refusal means |
| `ObserveMode`, `ChangeMode` | `getStartMode`, `setStartMode` |
| `CallFails`, `DeadlinePasses` | failing Win32 calls; the clock |
| `StopNext`, `Stopped`, `AllStopped`, `RemoveBackup`, `MoveCache`, `StartNext`, `Started`, `EndReset` | `resetWindowsUpdate`, whose service calls are the actions above |

Properties: `ControlRights` (a service is controlled only through a handle opened
for what is now to be done, however its state moved in between), `RepliesSeen`
(success means the program has read the wanted state), `CacheMovedWhenStopped`,
`ServicesBroughtBack` (a reset that returns has tried to start every service,
whatever failed before).

### ProvisionedCache, ChildProcess, NetworkRepair, IsoBuilder

- *ProvisionedCache*: the process-wide cache with its two ages (`CheckFresh`,
  `CheckMiss`), `Refresh`, the removal loop that keeps what failed, while others
  provision packages. `RemovalTruthful`: a removal without an error leaves no
  matching package but those provisioned by others after the list was loaded, so
  neither a failed removal nor a failed listing may make a later call believe that
  there is nothing to do.
- *ChildProcess*: a child that writes any amount into a small pipe and may exit
  badly, against the three ways the code reads it: line by line with a line that
  is too long (`Scan`, `Drain`), into a bounded buffer (`Copy`), and as a bounded
  report under a deadline (`Report`, `Expire`). `Wait` returns when the child is
  gone and the pipe is empty; a reader that gave up too early would wait for ever.
- *NetworkRepair*: two commands per adapter, five steps of a reset; adapters come
  and go and are set by others.
- *IsoBuilder*: `build` with one action per step, and the deferred clean-up as a
  list that each step extends. An edition is a name that may occur several times
  in an image.
- *SystemRepair* (with SystemRepairProofs) composes these with ServiceControl. `OutcomesReported` is the
  conjunction of the outcome properties: the output returned without an error is
  complete, every adapter that was up has the servers, a reset reports each failed
  step, a finished ISO has exactly the wanted editions, and no temporary path is
  left but those whose removal failed, which is reported.

### ComObjects, RestorePoint, RestoreThrottle, UpdateClient, AppxRemoval (with WindowsCallsProofs)

`ComObjects` is the discipline the three COM clients share: `held` are the
resources an operation owns (thread, apartment, interfaces, strings, buffers),
`deferred` its stack of release calls, with a mark where a called function's own
begin. `OrderlyRelease` says that nothing is released twice or outside the apartment
it belongs to, `NothingHeld` that nothing is left.

- *RestorePoint*: `Create` and `List`, which may overlap in a process and share
  `security` and `once` (a `sync.Once`: whoever comes second waits, and finds the
  stored outcome). Creating is a begin and an end call; listing reads rows, of
  which some are malformed, up to limits on rows and on error text.
- *RestoreThrottle*: a clock, `App.lastRestorePoint`, automatic and manual
  creations on top of RestorePoint, and their audit record. `logger` says whether the
  process has an audit log: an elevated one has none, writes no record, and reports
  success all the same. A mutation asks (`Ensure`) unless there is a recent point
  (`Skip`) or automatic ones are switched off or unavailable (`Off`); it goes on
  whatever the attempt came to, so `Throttled` promises it no point. What it promises
  is that only a success opens the window: a mutation is passed by as recent only
  within an hour of one.
- *UpdateClient*: `search` and `installAll`; the agent may download and install
  any part of what was asked for and report any result code for the whole
  (`Work`); the results of single updates are collected up to a bound.
- *AppxRemoval*: enumeration, then for each match an asynchronous operation that
  completes, fails, is cancelled or never ends, polled with a time-out and a grace
  period; other programs install and remove packages meanwhile.
- *WindowsCalls* composes them. `ComReleased`: everything is given back once, in
  order, on every way out. `CallsTruthful`: success is reported only for what
  Windows has done. `Throttled`, `CallsEnd`.

### TokenBucket, RateLimiter (with RateLimiterProofs)

`TokenBucket` is the promise: every address has a bucket that is full at the start,
gains tokens with every tick and pays one per request. `RateLimiter` is `allow`:
buckets exist from the first request, are refilled when the next one comes and are
swept when idle. The refinement maps the level of an address to `Level(k)`: its
stored bucket after the refill its next request would make, or a full one. Time is
counted in ticks and tokens in fractions, so no rounding hides in the model;
`ThresholdAssumption` is where the code's truncation of the idle threshold matters
(section 7). `BudgetHonoured`: the number admitted is bounded by burst and rate, and
the advertised `Retry-After` suffices. `BucketPerAddress` is the refinement.

### CommandTable, Commands

A command is a record of what distinguishes it (how it runs, what is checked
where, which locks it takes, whether it asks for a restore point, records its
outcome, can succeed in part); `CommandTable` has one for each of the 28 handlers
and 19 CLI commands, built from one for each method of `App`. `Commands` interprets
them: `Gate`, `Check`, `OpenApp`, `Admit`, `LockServer`, `Enter`,
`EnsureRestorePoint`, `RestorePointEnds`, `LockRestorePoint`, `Work`, `Record`,
`Finish`, with the locks `serverMu` (`Server.mutationMu`), `appMu`
(`App.mutationMu`) and `restoreMu` (`App.mu`). Each request carries at most one
defect, so that it is rejected by exactly the check that is there for it.

Properties: `FlawedHarmless` (a flawed or refused request starts neither the
operation nor a restore point), `AnswersTruthful` (ok only for what succeeded and
was recorded), `CommandsEnd` (no lock stays held on any way out).

### Catalog, LuaPack, Plugins

`Catalog` is validation: what the loader accepts as an operation, a tweak, a list
of tweaks, apps, DNS presets and services, over the classes of values that it tells
apart. `null` is a class of its own: it decodes to 0, an empty string or false without an
error, wherever a single value stands. `LuaPack` maps the state of a script's API and a
call to the state it leaves and to return or error. `Plugins` is `newApp`: catalogs, then the folders one by
one, the calls of a script one per step in any order, with errors it catches or
not, then the merge. The record of an input says whether it is `fit`; the
properties compare what validation decides with that, never with validation itself.

Scripts run in a `host`. `"windows"` is the one a build has, `lua_windows.go`: its hook
is installed for line events (`StopsAtFirstLine`), so it stops every script before the first
call (`ScriptStopped`). `"other"` is any host that keeps to the interface `ScriptHost`
and lets scripts call the API; `lua.go` promises what it does for any, and its tests
put one of their own in place of the real one. `ScriptCalls`, `ScriptFails` and
`ScriptEnds` are the steps of a host that lets a script get to its calls (`GetsToCalls`).

`PacksContained` is the conjunction of `PackWhole` and `OnlyLimitsFail` (a broken pack
neither prevents the start nor hides another pack; too many sound ones do). It does
not cover a call of `print`, which no script of today's host gets to (section 7, item 12).
`CatalogMerged` says what a started application has (unique ids, sound tweaks, base
first and unchanged, the first that offers an id wins). It says so without the merge:
`FirstOffered(k)` are the tweaks of the k-th list whose id no list before it has.

Definitions marked *Mutant* belong to no specification. Each is a plausible mistake
in the definition below it; `PROJECT.json` pairs one with every property, and the
others break further parts of the conjunctions.

## 4. Runs and bounds

| Run | Instance | Shows |
|---|---|---|
| `undo` (238,515 states) | one process, two callers, four calls, one crash; two tweaks on one value, one sets and one deletes it | `TypeOK`, `UndoOnce`, `UndoChain`, `ChangesRecorded` (it implements `UndoHistory`), `EveryCallReturns` |
| `maintenance` (1,086,211 states) | one caller, two calls of any kind, one crash, one outside change; three tweaks with all operation kinds on three targets, one compound | `HistoryExplainsSettings`, `MaintenanceConverges` |
| `two_processes` | dashboard and CLI process, one target, two calls | `SnapshotFaithful` fails |
| `append` (147,337 states) | two processes, four appends, two days, segments of two entries, one cut write, one clock change | the five AuditLog promises, the last of them that it implements `AppendOnlyLog` |
| `entry_limit`, `same_day`, `crash` | one process, no or one cut write | documented claims that fail |
| `admission` (75,585 states) | three jobs, one handler, room for two active jobs, one result, two log lines | the JobQueue promises |
| `shutdown` | the same with one log line | the process exits while a job is inside its operation: a documented claim that fails |
| `system_repair` (123,898 states) | three services, two of them of the reset; two packages under two names; a pipe of one line, two lines kept, four written; two adapters; an image with an edition twice | service calls, the reset and the other repairs: `ControlRights`, `RepliesSeen`, `ServicesBroughtBack`, `CacheMovedWhenStopped`, `RemovalTruthful`, `OutcomesReported`, `OperationsEnd` |
| `windows_calls` (118,149 states) | with and without a logger; two restore points, three rows, one row error; an hour of two ticks; three updates, two of them accepted; three packages, two of which match | `ComReleased`, `CallsTruthful`, `Throttled`, `CallsEnd` |
| `front_ends` (266,034 states) | two addresses, burst 2; two requests, one of any kind and defect; up to four folders, three of them scanned; at most two packs with three tweaks; both script hosts | `BudgetHonoured`, `BucketPerAddress`, `FlawedHarmless`, `AnswersTruthful`, `PacksContained`, `CatalogMerged`, `CommandsEnd` |

The last three runs each hold several components that share no state. Checking them
as a product would multiply their state spaces and say nothing more, so `Init`
chooses a `session` and the others stand still; each behaviour of a component alone
is a behaviour of the run.

Why the bounds are enough for the questions asked:

- *undo*: four calls allow apply, apply, undo, undo in every order, an undo of an
  entry that a later apply has covered, and a repeated undo after a lost record;
  the two tweaks want different states of one value, which exercises both "value"
  and "absent" snapshots. Two callers suffice for every race over one mutex.
- *maintenance*: two calls give a pass after an apply, an undo, a drift or a
  killed pass, and a pass after a pass. `iface`, which can fail part-way, comes
  first in the catalog and is contradicted by `clear`, so every pass redoes both;
  `clear` has two operations, the second on a compound target; `command` cannot be
  verified and, run by a user, undoes `clear` without excusing it.
- *append*: segments hold two entries, the directory two, and the entry bound is
  three, so segments fill up, prunes happen in the third append, and the entry
  bound is met between files. That it is met inside a file is not a case of this run;
  there `HistoryReadable` rests on its theorem, which holds for every bound. Two processes suffice for the
  races because each append only relies on what it saw in `OpenSegment` or `Scan`.
- *admission*: with two active places and one retained result three jobs meet a
  full queue, an eviction and a running job beside a fresh result; lines of one
  and two bytes against three make one line drop two.
- *system_repair*: a call sees the state of a service twice before it acts and
  twice after, and another program may move it between any two of these; a `start`
  looks again twice instead of 16 times, which is once with and once without a
  wait. The two services of the reset are the first and the last of its loops; the
  third one can be paused and has its start type changed. A child may write nothing, less than the pipe
  holds, more than it holds, and more than is kept. The image names one edition
  twice, and the caller may ask for none, one, both or an unknown one.
- *windows_calls*: enumerations are met empty, with a malformed row, at their limit
  and beyond it; with two accepted updates one can fail in the download, one in the
  installation, or both, against any code for the whole, and errors exceed the
  collected number. Two matching packages are removed one after the other, one of
  them a resource package that leaves with its main package.
- *front_ends*: eight ticks of half a second are more than two sweeps and a refill
  from empty. One request is arbitrary, the other a direct change or a job, which is
  every way to hold the locks against it. Three folders with two packs allowed meet the
  limit on packs, four the one on folders, and three tweaks the one on tweaks. Scripts make any calls in any order, with
  two commits and one operation per list, so a pack can clash with the catalog, with
  another pack and with itself.

`MaxCalls`, `MaxCrashes`, `MaxDrifts`, `MaxAppends`, `MaxCuts`, `MaxClockMoves`,
`Days`, `MaxJobs`, `MaxEmitted`, `MaxOutput`, `MaxPoints`,
`MaxTime`, `MaxFolders`, `MaxCommits` and `MaxOps` bound runs, not the code;
`Kinds` picks the entry points of a run. `Finished` and `Stopped` are the stutters
of runs whose bound is used up; deadlock is checked in every run but `front_ends`,
where processes have started, requests have been answered and the clock has run
out. `FileBytes`, `TotalBytes`, `MaxEntries`, `MaxSegment`, `MaxActive`,
`MaxRetained`, `MaxLines`, `MaxLogBytes`, `MaxTransitions`, `TTL`, `MissAge`, `Limit`,
`MaxRestorePoints`, `MaxRowErrors`, `Hour`, `MaxUpdates`, `MaxResultErrors`,
`MaxPackages`, `MaxMatched`, `Rate`, `Burst`, `Minute`, `MaxActiveJobs`,
`MaxDirectories`, `MaxPacks`, `MaxPackTweaks` and `MaxLogEntries` are the code's own
limits, made small. `Elevated` is empty in the runs of Orchestrator (an elevated
process has no log, so the undo properties say nothing of it); the theorems hold for
every choice of it, and Commands and Plugins run elevated as well.

## 5. Fairness

`EveryCallReturns` and `JobsEnd` assume weak fairness of a goroutine's own steps
(the Go scheduler runs every runnable goroutine; file and registry calls return)
and strong fairness of taking a `sync.Mutex`: since Go 1.9 a waiter that has
starved for a millisecond gets the lock handed over, so one that finds it free
again and again is not passed over for ever. `JobsEnd` also takes operations to
return: winget runs under a 30-minute context, but `dism.exe`, `netsh` and the
other helpers run without a timeout, so the property is relative to their ending.

`OperationsEnd` assumes that the program's steps go on and that deadlines pass;
services may stay pending for ever. A child writes while the pipe has room and exits
in the end unless it hangs, and only winget's report, which has a deadline, is run
against one that hangs. `CallsEnd` assumes the program's steps and the passing of
time; Windows need not ever finish the removal of a package, and a provider may
enumerate for ever. `CommandsEnd` assumes weak fairness of each call's steps; each
call of that run takes a lock once, so weak fairness of a lock is enough.

Requests, failures, crashes, signals, other programs and clock changes have no
fairness.

## 6. Proofs

A theorem holds for every value of the constants that satisfies the named assumptions
of the modules (`Parameters`, `CapturedOnOneTarget`, `LimiterAssumption`, `Bounds` and
so on), which TLC evaluates in the runs; what else one assumes stands in its statement.
In particular no proof uses the bounds of section 4: there may be any number of
callers, jobs, entries, services or packages, and any number of failures. Each proof
has the shape *invariant holds at first, every action preserves it, it implies the
property*, with one lemma per action.

### OrchestratorProofs

- `TypeCorrect`: `TypeOK`. Alone it is not inductive: restoring an entry writes
  `log[id].prev` to the settings, which has a value only if `id` is in the log, and a
  write needs an operation at index `i`. `TypeInv` adds `IndexOK`, which says so.
- `SnapshotIsFaithful`: `SnapshotFaithful`, if there is one process (`OneProcessOnly`).
  The caller at work owns the mutex (`LockHeld`), so nobody else is at a control point
  that writes; hence between `ReadOp` and `WriteOp` the captured value is still the
  setting's (`Fresh`), and the settings saved at the write agree with it until the entry
  is appended (`Replaced`). `FaithInv` is the conjunction. The hypothesis is needed:
  run `two_processes` violates the property without it.
- `RestoredOnce`: `UndoOnce`. `Agree` relates the number of restores of an entry to the
  undo records in the log, the one restore that a call has made but not yet recorded,
  and the restores whose record was lost.
- `SettingsExplained`: `HistoryExplainsSettings`. Between calls the last successful entry
  of a target tells its setting; during one, what the caller at work has written since
  stands in its `eff` (`Explains`).
- `UndoLeadsBack`: `UndoChain`. The undoable entries of a target link each `prev` to the
  state the entry before it left (`Chained`); a newest-first undo shortens the chain by
  its last link.
- `PassesConverge`: `MaintenanceConverges`. `Passed` says of a pass in progress that each
  tweak behind its queue is as wanted, or contradicted by itself or by a later one.

- `HistoryOfChanges`: `ChangesRecorded`, the refinement. The mutex makes the caller that
  is between a write and its record the only one (`Alone`), so `PendingEntries` has at
  most one element. Each shape a step can have (`StepShapes`) is then one action of
  `UndoHistory` or a stutter; a change needs `Fresh` for the value its entry holds, and an
  undo needs that its entry is still undoable after the second look (`Pending`).

The last five assume one process as well.

### RateLimiterProofs

Under `LimiterAssumption` (the parameters are positive) and `ThresholdAssumption` (an
idle bucket is full by the time it is swept).

- `LimiterTypeCorrect`: levels stay between nothing and full and no bucket was filled
  in the future; inductive as it stands.
- `LimiterImplementsBuckets`: `LimiterSpec => BucketPerAddress`, the refinement. A tick of
  the clock is a `Tick` of every bucket at once, because the lazy refill of a longer time
  is the capped sum of its ticks, and a request is a `Request`: a bucket that is swept is
  full by `IdleIsFull`, the lemma that needs `ThresholdAssumption`, so dropping it does not
  change its level. The products of rate and time are nonlinear; `Units` and `Products`
  state once what is needed.
- `LimiterKeepsBudget`: `BudgetHonoured`. `RetrySuffices` is not inductive: it speaks of
  the moment the wait is over. `RefillsAfterRefusal` says how much there is at every
  moment since the refusal.

### JobQueueProofs

`QueueInv` is `TypeOK`, `TableMatches` (an admitted job has a goroutine, one that is not
over is in the table, and the table's status is where the goroutine is) and `Capacity`.

- `LiveJobsStay`, `MutationsExclude`: `LiveJobsTracked` and `OneMutation` follow from it
  and from who owns the mutex.
- `ResultsStay`: `ResultsRetained`. Of the results that pruning evicts, the oldest go
  first, so those that stay are the last `MaxRetained`.
- `LogFaithful`: `LogIsNewestPart`. `LogsAgree` says that a log is a suffix of what the job
  emitted, with the number of lines before it; its bytes are a sum over a finite set
  (`SumLaws`), which loses the dropped prefix and gains the new line.
- `PollsOnlyAdvance`: the action property `PollsAdvance`, from the same invariants.

### AuditLogProofs

`LogInv` says what an append in progress relies on: the segment it has opened is there,
what it has written stands there with its newline or was pruned (`Kept`), and the bytes
of a segment with what every process is about to add to it stay below the bound
(`Load`, a sum over the processes). With it `AcknowledgedStays` (`Acknowledged`) and
`OverfillStaysBounded` (`OverfillBounded`), with crashes, cut writes and clock changes in
any number.

- `HistoryIsReadable`: `HistoryReadable`, of a walk over all segments. `WalkInv` is what
  the walk relies on: without overlapping appends the segments that stand after an
  acknowledgement fit the bounds (`FitsInv`), and no entry stands in two places
  (`DistinctInv`, which needs that an append in progress has an entry no line has yet,
  `NumberInv`). The walk itself is a fold; `WalkRuns` shows that there is a table of what
  it has read of every part of the directory, and `WalkKeeps` and `AllAreRead` are
  inductions over that table: what was left out so far is older than what was returned,
  and below the bounds nothing was left out. The file at which the entry bound is met
  is the hard case: it returns exactly as many lines as are left (`NewestFull`).
- `LogKeepsPromises`: `PromisesKept`, the refinement, with no assumption on the number of
  processes. Every step of `AuditLog` is a step of `AppendOnlyLog` or a stutter
  (`StepPromised`). It needs more of a reachable state than the other theorems: an entry
  about to be written went with no segment (`GoneInv`), since it would otherwise come
  back; that the scan an append works from still describes the directory when it deletes
  (`OldestGoes`, while appends do not overlap); and, where `Append` returns, `FitsInv`.

### SystemRepairProofs

The sessions share no state, so `Sound` is a conjunction of one invariant per component
with the types. `CallInv` says what a service call knows at each of its places: the
rights of its handle are those the *observed* state asks for, and a start about to act
has seen that state again; hence `HandlesSuffice` (`ControlRights`) and, with `ReplyInv`,
`SuccessSeen` (`RepliesSeen`). For the reset: the services before the one at work have
all shown the state the loop wants, which gives `ResetRestarts` (`ServicesBroughtBack`)
and `CacheStandsStill` (the action property `CacheMovedWhenStopped`). For provisioned
packages: every matching package is in the list still to be removed, among those whose
removal failed, or was provisioned by others after the list was loaded (`RemovalsHold`).
`ReportsHold` proves `OutcomesReported` from the invariants of the child process and
its pipe, the network repair and the build. Nothing is assumed of Windows beyond the
model's actions.

### FrontEndsProofs

`SessionInv` is the conjunction of the types, the limiter's invariants, `CommandsInv` and
`PacksInv`. The table of commands is data; `ServiceRows` and its companions type every
row, and what the proofs need of a row (a command that refuses has a check for it, one
that records has an operation) is proved row by row. `FlawedChangesNothing`
(`FlawedHarmless`): a request whose defect has not been met by a check is not past the
place of that check. `AnswersHold` (`AnswersTruthful`): the outcome of a request is what
its operation and its record left. `BrokenPacksContained` (`PacksContained`): the packs
taken are those whose script ended without an error, with exactly what it committed;
in the host of a build none does. A start that fails after folders were read has met a
sound pack that was one too many, or had too many tweaks.
`CatalogIsMerged` (`CatalogMerged`), for any number of packs of any length: the merge is a
fold over lists within a fold over packs, so its result is characterised by induction
over both (`IndexFoldExists`, `PrefixInduction`): a prefix of the lists has been merged
when the catalog holds, once and in order, what they offered first. `CatalogInv` adds
that the packs taken are sound and that an elevated start has the embedded tweaks only.
`BudgetHolds` and `BucketsImplemented` carry the limiter's theorems over to the
sessions.

### WindowsCallsProofs

What an operation holds is not an invariant one could state by place: it depends on the
way it got there. The proof keeps *books* instead. `Books(o, extra)` says that what
operation `o` holds of every resource is what its deferred calls owe (`Owed`, a count of
their entries), plus `extra`, which it is about to give back itself; and that `Shape`
holds: the thread is deferred first, the apartment second and interface pointers above
them only. Obtaining, taking, calling, unwinding and returning keep the books balanced,
each shown once for any operation (`ObtainBooks`, `GiveBooks`, `RunBooks`, ...). What is
left is where an operation is: `RpStack`, `UcStack` and `ArStack` say at which places the
apartment is deferred, a call is on the stack and an asynchronous operation is still to
be closed. `AllBooks` is their conjunction; `EverythingReleased` (`ComReleased`) reads
the order of release and the emptiness at the end off `Shape` and the balance.

`SuccessIsTrue` (`CallsTruthful`) rests on what each operation knows: the rows of a
listing are unread, read, malformed or in hand, and nothing else (`RowsMatch`); a search
has the updates that match (`Search`), and an installation whose results were all good
has reached every update (`Installation`); every matching package is still to be looked
at, on the list, or gone or put back by others (`Covered`), and the status of an
asynchronous operation says what it has done (`AsyncInv`). `Secured` says that a stored
outcome *ok* means a policy, and that only one operation is inside the once, with which
the books give `SecuredBeforeUse`. `AtMostHourly` (`Throttled`): `lastRestorePoint` lies
between the beginning of the last success and its end, and a creation in progress
excludes another (`ThrottleInv`). It claims a record for a successful manual creation only
where there is a `logger`, and nothing for a mutation whose attempt failed or was never
made. `CallsInv` is the conjunction, preserved by every step
of every session; TLC checked it on run `windows_calls`' instance before it was proved.

### SetTheorems

The induction theorems of the library take an operator as a parameter, which the
provers cannot instantiate. `SmallestSubset` gets induction over finite sets from
`WFMin` instead, for a *set* of subsets; `SetInduction`, `NumberInduction`,
`PrefixInduction`, `SumLaws` and `MaxOfFinite` follow. `FoldTableExists` and
`IndexFoldExists` show that the recursive functions behind the folds of the community
modules exist, for a step given as a function; what a fold computes is then an induction
over its table, stated where the fold is used.

### The form of the model

Where a definition was written in a way the provers cannot use, it was rewritten to
an equal one: IF instead of CASE with overlapping guards, a function instead of `@@`,
EXTENDS instead of LOCAL INSTANCE, and the sorted rows of a listing as a permutation in
order (`NewestFirst`) instead of `SortSeq`. The merge of the catalog and the walk of
`ReadAll` are folds whose operand has a name (`MergeTweak`, `ReadFile`), and the walk names
its next file (`Oldest`).

### Only model-checked

- Liveness: `EveryCallReturns`, `JobsEnd`, `OperationsEnd`, `CallsEnd`, `CommandsEnd`. Fairness
  is out of the prover's reach. Every other property of a passing run has a theorem.
- The violations of section 7 are counterexamples, and need no proof.

## 7. Where the code and its documentation differ

Each of the first five is a run that TLC ends with a counterexample of what the code
does.

1. `entry_limit`: retention is bounded in bytes and reading in entries too, so a
   history of more than 100,000 small entries makes `ReadAll` report an error and
   undo refuse, which the comment on `pruneLocked` says cannot happen.
2. `same_day`: after the first segments of the current day were pruned, `Append`
   creates segment 0 again; it sorts first and is pruned before older entries.
3. `crash`: a line that was cut short has no newline, so the next acknowledged
   entry is appended to it and cannot be parsed.
4. `two_processes`: nothing serialises two processes, so an undoable entry can
   hold a value that its write did not replace.
5. `shutdown`: a graceful shutdown waits for requests, not for jobs, so the process
   exits while a job, admitted before the interrupt or while the server drains, is
   inside its operation.

Met while modelling, and modelled as the code has it, without a run of their own:

6. `luaMaskCount` (`internal/plugin/lua_windows.go:41`) is `1 << 2`, the line event of
   Lua 5.4; the count event is `1 << 3`. The hook raises its error on the first line of
   every script, so no Lua pack loads. The comment on lines 15-16 calls it an
   "instruction-count hook" against "runaway scripts", and `internal/plugin/lua.go:39` the
   budget "generous enough for real packs".
7. `null` for the value of an operation passes decoding (`internal/config/models.go:100-138`)
   and validation as zero, an empty string or false, although the comment on the decoder
   (`internal/config/loader.go:100-102`) says that strict decoding keeps such mistakes from
   "silently applying zero values".
8. `internal/httpapi/ratelimit.go:81` truncates burst / rate to whole seconds before
   it is compared with a minute, so a burst that is more than 60 times the rate and no
   multiple of it makes a bucket count as refilled (comment, line 78) a moment
   early. The defaults (5 and 15) are far from it; `ThresholdAssumption` states the
   condition.
9. `internal/app/app.go:340` says a restore point is created "at most once per hour";
   the time of the last one is kept per process, so every CLI command starts anew.
10. `internal/restorepoint/restorepoint_windows.go:726` and
    `internal/maintenance/appx_windows.go:382` report that a limit was "exceeded" when an
    enumeration has exactly as many elements as the limit allows.
11. `handleListRestorePoints` (`internal/httpapi/server.go:676-686`) drops the rows
    that could be read when some could not, and `handleRestorePoint` (688-709) the
    information on a restore point whose end call failed, although `List` and `Create`
    return both.

Hidden by item 6 today, and met as soon as a script gets past its first line:

12. `internal/plugin/lua_windows.go:155` makes `print` the callback for `log` before
    `installCallbacks` (line 158) creates it, so in the first script of a process
    `print` is a C function at address zero; the comment on line 154 says it is
    redirected to `winforge.log`. The model's `"other"` host has no `print`.
13. An operation obtained from `winforge.registry.set` and handed to
    `winforge.revert` has been recorded as an operation to apply as well
    (`internal/plugin/lua.go:125-138`, 152-172), so the example pack
    (`examples/plugins/example-lua-pack/pack.lua`, "Sets a marker value") would apply a
    set and then the delete that is meant for its undo. Giving `revert` a table avoids it.
14. The hook bounds a script by raising an error, which a script can catch with `pcall`
    and go on.

Not modelled:

15. `internal/updater/github.go:174`: the comment on `normalizeVersion` promises more
    than the function does with pre-release suffixes. Only tests call the file.

## 8. Abstractions, and what is not modelled

- *Orchestrator*: IDs are unique (`NewID`), so the "ambiguous" refusal does not
  occur; the log is not pruned and reads back completely or with an error (the
  file level is AuditLog); entries written by older versions (without captured
  values) are not modelled; an append that reports an error after writing counts
  as written, because the history then holds the entry; other programs act between
  calls only; restore points and the app upgrades of a maintenance pass appear
  only as a possible failure; removal of a value or key that is absent fails, as
  the registry layer reports `ErrNotFound`, except in `restoreEntry`, which
  accepts it.
- *AuditLog*: content is an id and a length; symbolic links, special files, the
  limits of 100,000 directory entries and 10,000 log files and files of foreign
  names are left out; file deletion fails while another process has the file open
  for writing, as on Windows; only the set of entries `ReadAll` returns is
  modelled, not the final sort by timestamp; `ReadAll` sees one state of the
  directory.
- *JobQueue*: one kind of job; request decoding and the response are left out; a
  line is a number and a length after truncation; a request in flight is either a
  mutating handler or an admission.
- *ServiceControl*: states, controls and rights as Windows defines them; error codes
  are reduced to success, refusal and failure; a deadline passes at any moment of a
  wait rather than after two minutes.
- *Repairs*: what `dism.exe`, `netsh` and `ipconfig` do is success or failure with
  the effect the code relies on; output is lines, short or too long for the scanner,
  and no bytes; the deadline of a report ends the child together with its pipe (a
  process that winget leaves behind could hold the pipe longer). `repairImage`,
  `flushDNS` and the optional features are single runs of ChildProcess.
- *COM clients*: an interface pointer, string or buffer is a resource with a count;
  each native call succeeds or fails; properties of one row, update or package are
  read in one step; a manager object that is obtained and queried is one step where
  nothing else can be seen between. `github.go` is left out, since only tests use it.
- *RateLimiter*: time is the monotonic reading of `time.Now`, which does not go back;
  fractions of a token are exact, where the code uses floating point. The limiter's
  key is `RemoteAddr` with its port (`internal/httpapi/ratelimit.go:119`), so an
  "address" of the model is one connection, and the bound is one per connection.
- *Commands*: the body of a request is its defects; sessions and cookies, the static
  files of the page, JSON encoding, flag parsing and printing are left out; what
  operations do to the machine is in their own modules. A request has at most one
  defect.
- *Catalog, LuaPack, Plugins*: strings, paths and values are the classes that
  validation tells apart; the conversions between Lua and Go are what they accept;
  strings that scripts hand over hold no NUL (a name with one is recorded although the script
  is told otherwise); a plugin directory is read in one step per folder and does not
  change meanwhile. No build contains a WASM runtime, so a WASM pack is a folder that
  is skipped. The hook leaves a Go callback by `lua_error`, a jump over Go frames; the
  model takes it to end the script, as the comment (`lua_windows.go:15-16`) has it.
- Not modelled at all, with the reasons in `PROJECT.json`: the table parsing of the
  package manager, the health score, platform queries, the web pages, the
  simulator's server actions, and the archived C# edition.
