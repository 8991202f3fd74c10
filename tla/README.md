# A verification of Reforger Manager

TLA+ modules for the backend of Reforger Manager (`backend/app`), the TLC runs
that check them on small instances, and the theorems TLAPS proves about them.
`PROJECT.json` lists, in a form tools can read, the components, the runs, the
source lines every definition models, the findings and the hazards.

The backend is one Python process with one asyncio event loop and a PostgreSQL
database. A coroutine runs undisturbed from one `await` to the next, so an
action of these modules is the code between two awaits. Commits, subprocess
exits, queue reads and sleeps are where other handlers get in.

## 1. Inventory

| Component | State | Operations | What is hard |
|---|---|---|---|
| Job manager, `core/jobs.py` | `jobs` rows; `_pending`, `_queue`, `_current_*`, `_cancel_requested`; worker and watchdog tasks | start (with recovery of rows), stop, enqueue, request_cancel, the worker, the watchdog | cancel racing start and finish, crash between commit and memory, failing commits, hanging bodies, shutdown |
| Job API, `api/jobs.py` | none of its own | cancel, delete, prune, two streams | read-then-write of a row the worker also writes |
| Supervisor, `servers/supervisor.py` | `_active`, `_lock`, `_restart_task`; the runtime columns of `servers` | start, stop, `_watch_exit`, schedule and cancel a restart, reconcile | the watcher of a dead process works half a second beside its successor; start writes the row in two sessions |
| Server definitions, `api/servers.py` | `servers`, `server_mods`, config revisions | create, patch, delete, clone, pins, ensure-ready, updates, start, stop, RCON, logs | rows loaded, awaited on and flushed; checks against the supervisor made before an await |
| Mod assignment and modpacks, `api/modpacks.py`, `api/mods.py` | `modpacks`, `modpack_items`, `server_mods` | apply (replace, append), export, import, add a mod, delete its row or its files | pins that survive a reordering, drops that are reported, references computed before an await |
| Backup and storage, `api/backup.py`, `api/storage.py` | none of their own | export, import, orphans | one transaction over definitions and packs after one look at what runs |
| Saves, `api/server_saves.py`, `servers/saves.py`, `servers/save_snapshots.py` | save selection columns; save points, snapshot archives and manifests on disk | arm, clear, snapshot, rename, delete, upload, restore | file operations in threads, a pair of files per snapshot, a restore that replaces a directory |
| Engine, `api/engine.py`, `steam/` | the engine row, the installed build on disk | check, update, validate | check against a running server at enqueue only; steamcmd children; stale writes of the row |
| Mod jobs, `mods/downloader.py`, `mods/verify.py`, `mods/freespace.py` | addon cache on disk | download, verify and repair | bodies of hours, engine children to clean up |
| Library, `mods/sync.py`, `mods/scanner.py`, `api/scenarios.py` | `mods`, `mod_dependencies`, `mod_scenarios` | scan, enrich, prune, resolve | a sync outside the job queue beside a download in it; two sources for one edge |
| Updates and the nightly check, `mods/updates.py`, `mods/schedule.py`, `api/settings.py`, `main.py` | `app_settings`, nightly scheduler singleton | update all or one server's mods, the nightly cycle, patch of the settings | pins of two kinds; a scheduler replaced while its cycle runs |
| Resolution and configuration, `mods/resolve.py`, `servers/config_gen.py`, `servers/preflight.py`, `mods/pinning.py` | none | dependency closure, ordered mod list of `config.json`, pins, verdicts | cyclic and half-known graphs, precedence of pins, verdicts on versions that move |
| Workshop client, `mods/workshop.py` | rate limiter, its lock, answer cache | get with retries | a lock held across sleeps, a bucket that refusals rewrite, cancelled callers, midnight |
| RCON client, `rcon/client.py` | sequence number, lock, keepalive task | connect, command, close | lossy UDP, wrapping sequence numbers, multipart replies |
| Broadcaster, `core/events.py`, `api/ws.py` | bounded subscriber queues | publish, subscribe | drops at the bound, replay before subscribe |
| Post-update report, `mods/post_engine_update.py` | none of its own | mark the engine row, collect reports | |
| File manager, logs, diagnosis, A2S client, authentication, MCP tools, migrations, frontend | files, tokens | | no control worth a model, or a mirror of operations above |

How they interact. HTTP handlers and MCP tools (which call the same HTTP routes
in process) enqueue jobs and call the supervisor. The worker executes one job
body at a time; bodies write mod and engine rows and launch the engine binary.
The supervisor writes the runtime columns of `servers`, which handlers read to
refuse what may not happen while a server runs. Both publish to the
broadcaster. `lifespan` in `main.py` starts the supervisor's reconciliation
before the job manager and stops the job manager last.

What makes them correct, in order of weight:

* job manager: a body runs at most once and never beside another; no queued job
  is lost; rows and memory agree after every crash; a cancel is obeyed and final;
  the queue moves on although bodies hang;
* supervisor: one server at a time; the handle on the process is never lost; the
  flags in the database agree with what runs; stop ends the process; a scheduled
  restart hits only the process it was meant for;
* engine and mod jobs: nothing begins on the installation while a server runs, no
  child outlives its job unless the code has no handler for it, the nightly scheduler
  is the one the settings ask for;
* saves: no save is lost by a restore or a failing copy, a listed snapshot has
  its archive, a delete that commits leaves no selection of what it took;
* library: no edge twice, no row of nothing, what the Workshop named is kept, what
  something needs is not deleted, scans put right what they must;
* definitions: a pin goes only because somebody asked, what is dropped is told, a
  replacement is whole, a running definition is left alone;
* resolution and configuration: `config.json` is complete and ordered as deep as the
  code looks, the most specific pin wins, what preflight passes can start;
* RCON: an answer belongs to its command, and nobody waits for ever;
* Workshop client: never more requests than the budget, and every call returns.

## 2. Modules

| Module | What it is | Theorems |
|---|---|---|
| `SerialExecutor` | what the job manager promises: bodies at most once, one at a time | |
| `JobManager` | `core/jobs.py` with the cancel, delete and prune handlers | `JobManagerProofs` |
| `SingleServer` | what the supervisor promises: definitions run one after the other | |
| `Supervisor` | `servers/supervisor.py` with the handlers that share its rows | `SupervisorProofs` |
| `Installation` | job bodies, the nightly cycle, their child processes and PATCH /settings on one installation | `InstallationProofs` |
| `EngineBuild` | the engine row and its badge, `steam/engine.py` | |
| `Library` | mod rows, edges, missions and addon directories: sync, download, add, resolve, deletes | `LibraryProofs` |
| `Definitions` | definitions, packs and backups: PATCH, apply, import, clone, pins | `DefinitionsProofs` |
| `Dependencies` | the closure of a dependency graph and its load order, for `Library` and `ServerStart` | |
| `ServerStart` | what a start needs: `config.json`, ensure-ready, updates, preflight | `ServerStartProofs` |
| `SaveSnapshots` | save points and snapshots on disk | `SaveSnapshotsProofs` |
| `RemoteCall` | what a caller of RCON may rely on | |
| `RconClient` | `rcon/client.py` over UDP | `ClientProofs` |
| `TokenBucket` | the budget of the Workshop API | |
| `WorkshopClient` | `mods/workshop.py` | `ClientProofs` |

A module `MC...` gives the constants of its module values for TLC: model values,
symmetries, graphs, example backups. Each module states a `TypeOK`; it is not
among the runs (add `INVARIANT TypeOK` to a configuration), and where there is a
proofs module it, or a stronger one, is part of what is proved.

How the modules divide what the components share. `Installation` keeps of the
job manager its one worker and of the supervisor whether a server runs; it has
the processes, and nothing of what they write. `Library` has what they write.
`ServerStart` takes a job as three steps (queued, loaded, ended) and has the
versions, pins and lists `Library` leaves out. `Definitions` keeps of the
supervisor the start of one definition. A refused request and one that changes
nothing are the same step, the one that is not taken.

Some modules have a constant `Overlaps`: overlaps the code leaves open and which
make a property false. Each is a guard of the environment that the set switches
off. Runs and theorems say which of them they exclude; section 3 shows what
happens with them.

### JobManager

`row` is the state column of each job (plus "none" before its insert and "gone"
after its delete), `pending`, `queue`, `current`, `cancelReq` are the fields of
the same names, `worker` is the await at which the worker task is suspended,
`body` is the task of the job's factory. Job bodies are opaque: they return,
raise or are cancelled, and may never end. A job's id is inserted at most once,
`Registered` are the jobs whose kind has a factory after a restart.

| Code | Actions |
|---|---|
| `start`, `_fail_orphans` | `Startup` |
| `stop` | `Stop` (the cancellations), `StopReturns` (the worker is done) |
| `enqueue` | `EnqueueCommit`, `EnqueueTrack` |
| `_run`, `_execute` | `WorkerSkip`, `WorkerTake`, `WorkerStart`, `WorkerReap`, `WorkerClose`, and `WorkerStartFails`, `WorkerCloseFails` when a commit raises |
| the job's coroutine | `BodyEnds` |
| `_run_watchdog` | `TimePasses`, `Watchdog` |
| `cancel_job`, `request_cancel` | `CancelRead`, `CancelDecide`, `CancelCommit`, `CancelMarkFails` |
| `delete_job`, `prune_jobs` | `DeleteRead`, `DeleteCommit`, `Prune` |
| the process is killed | `Crash`, at any state; a commit in flight may or may not land |

Left out: progress, the log ring, results and error texts, published events. The
commit of a `_mark` and the awaits inside it are one step. `Stop` models what
`Task.cancel` does: it cancels the innermost task that is awaited, and when that
task is already done, the awaiting worker receives the CancelledError itself.

### Supervisor

A slot is an `ActiveServer` object from its creation until its watcher ends:
`owner`, `alive`, `clean`, `stopReq`, `watch` are its server, whether it has a
returncode, whether that is 0, its `stop_requested` and where `_watch_exit` is
suspended. `start` is the call that holds `_lock`; others wait without effect.
`stored`, `flagged`, `lastState`, `save` are the columns of `servers`, the last
one being latest, armed for one start or armed for all.

| Code | Actions |
|---|---|
| `reconcile_on_startup` | `Reconcile` |
| `start` | `StartCall`, `StartLoad` or `StartRefused`, `StartConfigure`, `StartSpawn`, `StartMark`; `StartAborts`, `StartMarkFails` |
| the process, `_watch_exit` | `ProcessExits`, `WatchRecord` or `WatchRecordFails`, `WatchEnds` |
| `stop` | `StopCall`; the SIGKILL after the grace period is in the fairness |
| `schedule_restart`, `cancel_restart`, `_run_restart_schedule` | `ScheduleRestart`, `CancelRestart`, `ScheduleFires`, `RestartSent` |
| arm, arm-fresh, clear | `Arm` |
| `delete_server` | `DeleteCheck`, `DeleteCommit` |
| the backend ends | `BackendEnds` |

`stopReq` keeps more than the code's boolean: "told" and "signalled" remember
that something reached the process, which only `StoppedWasTold` and the fairness
read. The countdown's `#say` warnings are left out, as is the wait of `stop` for
the process (the caller's answer depends on it, the state does not).

`SlowCommits` and `HastyRestarts` make assumptions on timing explicit instead of
silent: whether start's second commit may take longer than the half second the
watcher sleeps, and whether a definition may be started again within that half
second. The code excludes neither. Handles, schedules and the single-server rule
are checked and proved with both allowed; `SupLive` and two theorems show that
the flags are right without them, `SupHasty.cfg` and `SupSlow.cfg` that they are
not right with them.

The game process is a child of the backend in its container and ends with it
(process 1 of the container is an init that waits for the backend only), so
`BackendEnds` empties the slots. A backend restarted by hand outside a container
may leave an orphan, which `reconcile_on_startup` does not look for either.

### Installation

`task` is the await at which a runner is suspended: the job worker, or a nightly
scheduler, which runs the same bodies outside the queue. `kids` are the live
child processes: the tool (steamcmd, its `app_info_print`, the engine downloading or
verifying), who spawned it, whether it was told to end, and whether a body that was
interrupted left it behind (`left`). `asking` is a POST /engine/update between its look
at the supervisor and its enqueue.
`installed` says whether the engine is there, `enabled` and `current` are
the setting and `main.nightly_scheduler`, `patch` the PATCH requests and `held`
the references a request keeps to a scheduler it is stopping.

| Code | Actions |
|---|---|
| `POST /engine/update` | `UpdateAsks`, `UpdateEnqueues`, `UpdateFails` |
| downloads, updates, verify are queued; the worker | `Enqueue`; `TakeJob`, `RequestCancel` |
| `run_engine_update`, `run_steamcmd` | `UpdateBegins`, `SteamcmdEnds`, `Reports` |
| `run_mod_download`, `_run_engine` | `DownloadBegins`, `ChecksServer`, `SpawnsTool`, `DownloadReady`, `DownloadFails`, `DownloadEnds`, `Reaps`, `Retries`, `ClosureIncomplete`, `ClosureComplete`, `LocalRefreshed` |
| `run_verify_repair` | the same checks and spawn, `VerifyEnds`, `VerifyFails` |
| an exception or a cancellation inside a body | `Interrupted`, `Raises`, `Cancelled`; `Abandons` what the body does not stop |
| `NightlyCheckScheduler`, `refresh_engine` | `CycleBegins`, `CycleRefreshes`, `AsksSteam`, `AsksInVain`, `SteamAnswers`, `CycleEnds` |
| PATCH /settings, `apply_nightly_settings` | `PatchSettings`, `StopNightly`, `NightlyStopped`, `CreateNightly` |
| the supervisor, the tools | `StartServer`, `ServerStops`, `ToolExits` |

`StartServer` looks at nothing but other servers. It marks every look made before it,
of a request, a queued update, a body about to spawn, and every tool that lives, as
`crossed`: a tool beside a running server without that mark is one the code let begin
there. `Unhandled` names the processes no handler stops (steamcmd, `app_info_print`, a
verification that raises); they live on beside whatever comes next.
POST /engine/check and the check at startup call `refresh_engine` as well, as requests;
they are in `EngineBuild` only.

`Overlaps`: "patch" two changes of the settings at once.

### EngineBuild

`row` is the engine row, `seen` what each session loaded of it and of the
manifest, `disk` and `steam` the two builds. `refresh_engine` is `CheckBegins`,
`CheckEnds`, `CheckFails`; an update is `UpdateBegins`, `SteamcmdEnds`,
`ReportBegins`, `MarkEngineUpdated`; `SteamReleases` is the world. A flush writes
the columns a session changed over whatever was committed meanwhile.

### Library

`disk` of a mod is absent, torn (a directory a scan cannot read) or whole, `lib`
its row: none, remote, local. `edges` and `scenes` are `mod_dependencies` and
`mod_scenarios` with the source that wrote them, `assigned` and `packed` the roots that
definitions and packs name (`Named` together), `task` where the worker and the nightly
check are in a sync or a download. `steady` is a history: what was assigned and packed,
and which edges there were, all the time since a delete began.

| Code | Actions |
|---|---|
| `run_mod_sync` | `SyncScans`, `SyncUpserts`, `SyncEnriches`, `SyncPrunes` |
| `mod_download` and its callback in `main.py` | `DownloadBegins`, `Lands` (the engine), `EngineLands`, `EngineReady`, `ChecksClosure`, `LocalScans`, `LocalRefreshed`, `Stops` |
| POST /mods/add, POST /scenarios/resolve | `AddMod`; `ResolveReads`, `ResolveCaches` |
| the two deletes of `api/mods.py` | `DeleteReads`, `ReadsAssigned`, `ReadsPacked`, `DeleteVisits` (one mod of one root's closure), then `DeleteRefused`, or `DeletesFiles` and `CommitsLocal` or `DeletesRow`; `RequestFails` |
| assignments, a running server's downloads | `Assigns`, `Packs`; `StartServer`, `ServerStops`, `ServerLands` |
| `api/storage.py` | the operators `Orphans`, `KeptAsDependency`, `Unreferenced` |

A delete reads the assigned GUIDs, then the packed ones, then the edges of one mod
after the other, and every other action may come in between, assignments, rescans,
enrichments and other deletes included. `NeededStays` says what the walk is good for
all the same: what was named from its first read to its last write, and what such names
need along edges that were there as long, is not taken. An assignment or an edge that
comes during the walk is not seen, and a rescan replaces the Workshop's edges of a mod
by those of its files until the next enrichment: what only such an edge keeps may go.

### Definitions

`srv` maps each name to its mod rows (a pin, and whether it has a time) and
administrators, `pack` each pack to its items, `req` what a suspended request
loaded and means to write, `proc` the definition that is starting or running.

| Code | Actions |
|---|---|
| create, clone, delete | `CreateServer`, `CloneServer`, `DeleteServer` |
| PATCH, `_apply_mods` | `LoadsPatch`, `FlushesMods` |
| apply of a pack | `LoadsApply`, `FlushesMods` |
| pin, unpin | `PinServerMod`, `UnpinServerMod` |
| packs: create, update, delete, of a server, import | `CreateModpack`, `UpdateModpack`, `DeleteModpack`, `ModpackFromServer`, `ImportModpack` |
| import of a backup | `LoadsImport`, `FlushesImport` |
| any flush that the database refuses | `Fails` |
| the supervisor's start and exit | `StartLoads`, `StartSpawns`, `StartFlags`, `ServerExits` |

`Reconciled` is what `_apply_mods` makes of the loaded rows; `Flushed` is what the
flush makes of the rows of now: it deletes and inserts rows and updates only the
columns that were changed. That difference is where two requests meet.
An import that meets a pack that was edited since it loaded it may clash with the new
items, and then nothing is written (`ServersClash`, `PacksClash`), or it leaves them
beside its own (`Leftovers`).
`Needs` says which definitions a waiting request edits: the one of a PATCH or an
apply, those an import replaces. `Overlaps`: "start" a start goes on inside an
apply, an import or a delete, "edit" two waiting requests edit one definition.

### ServerStart

One definition over a library of versions: `layout`, `pin`, `libPin` are its mod
list and the two kinds of pin, `disk`, `row`, `edges` what is on disk and in the
database, `oldest` and `latest` the releases the Workshop lists, `build` and `engine`
the engine's version as installed and as recorded (0: not known), `job` the one job with
its targets.

| Code | Definitions |
|---|---|
| `resolve_dependencies`, the closure | `Reach`, `Near` (of `Dependencies`), `UpTo`, `Nodes`, `StartGraph` |
| `resolved_mod_entries` and its depth-first order | `Visits`, `Ordered` (of `Dependencies`), `Closure`, `Entries` |
| `_missing_mods`, POST ensure-ready | `MissingMods`, `EnsureReady` |
| `_targets_for_scope`, `refresh_mods` | `ApplyUpdates`, `UpdateLoads`, `UpdateTargets`, `TargetPin` |
| the end of a job, with what the engine brings along | `JobLands`, `JobFails` |
| preflight | `Selected`, `VersionCompat`, `BlockedAddons`, `SpaceBlocks`, `Blocked` |
| edits and the world | `SaveLayout`, `AddMod`, `PinServerMod`, `PinMod`, `ModSync`, `Publishes`, `Withdraws`, `EngineUpdated`, `EngineSeen`, `VersionScraped` |

`Reach` is a closure by its meaning, the least set of mods that holds the roots and
what its members name: the breadth-first search visits each mod once in whatever
order the rows come, so this set is all that is left of it, but for the depth each mod
is met at: from `MaxDepth` on (12 in the code) only rows are read, neither files nor the
Workshop (`Near`, `UpTo`). A mod there may be listed before, or without, what its files
name, although `config_gen.py:163` says "closure included". The order of the depth-first visit is the point of `Ordered`, so it is computed move by move: a call
or a return of `visit` at a time, with its stack.

Preflight judges only what it knows. Where the engine's version is not on record or the
release declares none it can read, it warns, and the release may not load
(`VersionCompat`); a pin the Workshop does not list any more is judged by the newest
release (`Selected`) while the start asks for the pin. `UnblockedCanStart` claims no more
than that, for the report and the start it is of: what changes between the two is not
covered. The version on record may also be older than the engine's, when an update
ended while a server ran: then a release for the new engine is blocked without need
until the next look.

### SaveSnapshots

`disk`, `archive` and `manifest` are what the file system holds: a save point, a
tar, the JSON beside it. A save is known by its uuid; content is whole, torn (the
game or a copy was in the middle) or bare (no metadata yet). `written` and
`discarded` remember which saves there were and which somebody asked to remove.

| Code | Actions |
|---|---|
| create | `CreateCall`, `Locate` or `LocateFails`, `TarBegins`, `TarEnds` or `TarFails`, `WriteManifest` or `ManifestFails` |
| rename | `RenameReads`, `RenameWrites` or `RenameFails` |
| delete | `DeleteArchive`, `DeleteManifest` |
| restore, with its backup | `RestoreCall`, `Resolve` (`Resolved`, `BackupOf`), then the steps of create, `RemoveTarget`, `Extract`, `CopyFails`, `Arms` |
| upload | `UploadCall`, `UploadStores`, then those of restore |
| deletes of save points | `RemoveCall`, `RemoveFinds`, `RmTree` or `RmTreeFails`, `RemoveCommits` |
| selection | `ArmSave`, `Arms`, `Unpin`; `NothingCommitted` when a commit fails |
| game and backend | `StartServer`, `ServerExits`, `GameSaves`, `Crash` |

A manifest's write may fail on the disk or on the temporary file, which all writers of
one snapshot in one process share (`ManifestFails`, `RenameFails`). A delete of save
points removes files in a thread and commits the selection after that; a kill, a failing
commit or a removal that stops midway may come in between, and then the selection still
names what is gone (a start falls back to the latest save).

`Overlaps`: "start" a server starts while saves are changed, "rename" a rename
while its snapshot is deleted, "crash" a kill between a delete's two unlinks, "arm"
a save is armed beside a delete that takes it away.

### RconClient and RemoteCall

`line` is the lock with those who wait for it in order, `sequence` and `awaited`
the number given and the one looked for, `requests` and `replies` what is on the
wire, `inbox` the packets that came and are not read. Commands are numbered in
the order of their sending; the number is not on the wire.

| Code | Actions |
|---|---|
| `connect` | `Connect`, `LoginDone`, `LoginFails` |
| `command`, `_command`, `_collect_response` | `CallCommand`, `Refuse`, `SendCommand`, `ReadPacket`, `EndCommand`, `TimesOut` |
| the keepalive task | `KeepaliveWakes`, `KeepaliveSkips`, then those of a command |
| `close` | `CloseCall`, `CancelKeepalive`, `CloseSocket` |
| network and server | `ServerLogin`, `ServerExecutes`, `LoseRequest`, `LoseReply`, `Deliver` (a reply stays and may come again), `UdpError` |

The protocol has one assumption about the network, `Young`: no datagram outlives
`Modulus` - 2 further commands (254 in the code). Without it a number that has
wrapped matches a reply of the last round.

`RemoteCall` lets each command be executed at most once and end at most once, with
its own answer or with a failure that says nothing about its execution.

### WorkshopClient and TokenBucket

`tokens`, `ahead`, `dayCount` are the bucket (a pause after a refusal is a debt of
tokens that `ahead` remembers), `lock` its waiters, `cache` the answers with their
age, `pc` and `left` where a caller is and how long it still sleeps. One unit of
time is the interval that earns a token. `get` is `Get`, `Acquire`, `PaceEnds`,
`Ends` (`Answered`, `Raises`, `TooMany`, `Transient`, `GivesUp`), `TriesAgain`;
then `Cancelled`, `ClearCache`, `Tick`, `Midnight`.

## 3. Runs

| Run | Instance | Properties |
|---|---|---|
| `Jobs` | 2 jobs (one not recoverable), 1 client, 1 restart, 1 failing commit; fair | `QueuedIsTracked`, `RunningIsOwned`, `SettledMeansOver`, `ExecutesSerially`, `WithdrawnStaysCancelled`, `QueuedEventuallySettles`, `InterruptedEventuallySettles` |
| `SupSafety` | 2 definitions, 2 slots, 1 failing commit, slow commits and hasty restarts | `AliveIsActive`, `ScheduleFollowsProcess`, `KeepsSingleServerRule` |
| `SupLive` | 1 definition, 2 slots, one-shot selections, 1 restart, 1 failing commit, ordinary timings; fair | `FlagHasProcess`, `RunningIsFlagged`, `StopEndsProcess`, `DeadIsUnflagged` |
| `Installation` | worker, 2 schedulers, 1 PATCH, 1 POST /engine/update, queue of 1, 2 tools; any two at once, 1 abandoned tool; fair | `ServerAlone`, `ToolsReaped`, `SchedulerFollowsSettings`, `PatchEnds` |
| `EngineBuild` | 2 checking sessions beside an update, 3 builds; fair | `BadgeHeals` |
| `Library` | 2 mods in a chain, a download beside a sync, a server, 1 request, any two at once | `RowsAgree`, `StorageAgrees`, `NamedScenesKept`, `NeededStays`, `FlagsHeal` |
| `Definitions` | 2 definitions, 2 packs, 1 mod, 1 version, 2 backups, 1 request beside atomic ones | `PinsSurvive`, `DropsAreTold`, `ReplaceIsWhole`, `RunningUntouched` |
| `ServerStart` | 3 mods in a cyclic graph, depth limit of 1, 3 layouts, 2 versions | `ConfigOrdered`, `UnblockedCanStart`, `EnsureSettles`, `PinsKept` |
| `RefreshPins` | the same | `EnabledPinsHonoured`, which fails |
| `Saves` | 2 saves, 2 directories, 2 snapshots, 2 clients, cap of 2 | `NeverDiscarded`, `ListedHasArchive`, `DeletingUnpins` |
| `Rcon` | a caller, the keepalive, `close`; numbers modulo 3, 4 commands, replies of none and of 2 parts; fair | `AnswersMatch`, `ImplementsRemoteCall`, `CallsEnd` |
| `Workshop` | 2 callers, burst of 2, 4 a day, pauses of 1 and 2, one retry of each kind, midnights; fair | `ImplementsTokenBucket`, `GetEnds` |

Deadlock is checked in `Saves`, `EngineBuild`, `Library` and `Definitions`, where
somebody can always do something. The others may rest: jobs settled and
restarts used up, connections closed, queue empty, all commands sent.

What they show. `Jobs`, `SupSafety`, `SupLive`: section 1's claims about the two
managers, refinements of `SerialExecutor` and `SingleServer` among them.
`Installation`: a tool stands beside a server only where the server was started after
the look behind it; no body forgets what it spawned, but for the processes no handler
stops; replacing the scheduler leaves exactly the one asked for,
and the request ends although a cycle is in flight. `EngineBuild`: stale writes of
the row are put right by the next checks (the badge alone may be wrong until then:
`BadgeAgrees` is not an invariant). `Library`: no interleaving doubles an edge or
orphans one, guesses do not replace names, deletes spare what was named and
needed all the while they walked, the storage view says what the routes do, and syncs repair `is_local`.
`Definitions`: a pin goes only because somebody asked, an apply reports what it
drops, a replacement is whole, nothing edits a running definition but its PATCH.
`ServerStart`: the list of `config.json` is complete as deep as the code looks and
children come first, also on cycles; what preflight passes can start as far as versions
are known; ensure-ready comes to an end; updates
keep pins. `Saves`: nobody loses a save without asking, whatever copy fails.
`Rcon`, `Workshop`: refinements of `RemoteCall` and `TokenBucket`, and every call
returns.

Why these bounds. What can go wrong here takes a pair: the one that ends and
the one that follows, the one that waits and the one that gets in between. Two jobs
give a queue with a withdrawn entry in front of another; two slots a watcher
beside its successor; two schedulers the old and the new; two sessions a stale
write; two snapshots with
a cap of two the one that is restored and the backup of what it replaces, and the cap
refuses that backup where a second snapshot is already there. A depth limit of 1 over
three mods has files on both sides of it.
One restart, failing commit or retry enters each state such an event leads to from
each state it can happen in. Modulo 3 and 4 commands the sequence number wraps
within a run, and two parts are the smallest reply that can be mixed. Three mods
hold a cycle with something hanging from it; on top of the run, TLC evaluates the
assumption `EveryGraphInOrder` on all graphs of three mods. `Definitions` has one
request that waits because its transactions have one wait each, while pins, clones,
deletes, starts and packs move around it; where two edits of one definition wait,
`ReplaceIsWhole` is false (two PATCHes may merge into a list nobody asked for);
without such a pair ("edit") it is proved for any number of requests, as the other
three are with it. All the safety properties of the runs are
proved for all instances, but for the finding and what section 4 excludes.

CONSTRAINTs of the MC modules cut the larger runs: any two of the actors of `Library` and
of `Installation` at once, one torn directory, one process left behind; in `Saves` not two
clients that make, rename or delete the same kind of thing, one damaged copy, and an end
where nothing is left to lose; in `ServerStart` the engine and the withdrawals move while
no job runs, which reads neither. The theorems have none of these cuts.

Symmetry is used in safety runs only: on clients, definitions and slots, and on
the ids, clients, saves and directories of `Saves`. Jobs are not symmetric when one is
recoverable and the other is not.

### Where the code differs from what it says

`RefreshPins` is the finding: `mods/updates.py:132` says a global update must not
overwrite a version that an enabled definition pins, but the record it builds of
those pins has no `version`, so `refresh_mods` asks for the newest release.

The following configurations are kept beside the runs. Each states a claim as
written, and TLC refutes it (`tlc -config <name>.cfg <module>`). Several are
consequences of timing nobody promised anything about.

| Configuration, module | Claim | What happens |
|---|---|---|
| `JobsTerminalFinal`, `MCJobManager` | `wait_for_job` returns the job's final record | a cancel between enqueue's commit and its `_pending` entry writes cancelled, then the job runs and the row changes |
| `JobsOvertime`, `MCJobManager` | the watchdog cancels what is over the cap | a cancel during the commit of "running" leaves a body that nobody interrupts and the watchdog skips |
| `JobsStop`, `MCJobManager` | queued jobs are restored after a restart | `stop` cancels the worker, the worker takes it for the job's cancellation and starts the next job during shutdown |
| `SupHasty`, `MCSupervisor` | the supervisor maintains `is_running` | the old watcher clears the flag of the new process of the same definition |
| `SupSlow`, `MCSupervisor` | a start is refused while another server runs | a flag set after the watcher cleared it refuses all other starts with nothing running |
| `SupToldStop`, `MCSupervisor` | the restart command is on the wire | the send failed, `stop_requested` stays, a later crash is recorded as stopped |
| `SupSelection`, `MCSupervisor` | an armed selection is used by the next start | armed between start's two sessions it is reset unused |
| `InstallUpdate`, `MCInstallation` | no engine update beside a running server | a server is started after the look of the request, before or after the update is queued; nothing checks again |
| `EngineBadge`, `EngineBuild` | an update to the latest build clears the badge | the row's latest build is older than the one installed: the two differ, the badge is set |
| `LibraryClosure`, `MCLibrary` | a finished download is reflected in the library at once | an addon that came along as a dependency stays remote until the next sync |
| `LibraryDelete`, `MCLibrary` | deleting files never breaks what depends on them | a start reads the files of a mod without known edges, the delete only the edges |
| `DroppedPins`, `MCDefinitions` | every pinned GUID an apply drops is in `dropped_pins` | a pin set between load and flush goes unreported |
| `BackupAdmins`, `MCDefinitions` | a restored definition is the exported one | `game_admins` is not in the schema of a backup |
| `StartDrops`, `MCServerStart` | only unresolvable dependencies are dropped from `config.json` | the row of a resolvable one is still the stub its parent left |
| `SavesStart`, `MCSaveSnapshots` | a restore does not lose what it replaces | a server started during the restore writes into the directory that is then removed |
| `WorkshopBackoff`, `WorkshopClient` | after a refusal nothing is sent until its pause is over | a caller that was already pacing settles the bucket when it wakes |

### Fairness

`JobManager!Fairness`: the event loop runs each ready task (`WorkerTake`,
`WorkerStart`, `WorkerReap`, `WorkerClose`, the two halves of a request), the
watchdog's clock advances, and a coroutine that was thrown a CancelledError
ends. The last is an assumption on the bodies: they await, and they do not
swallow the cancellation; the downloader, verify and steamcmd bodies are of that
kind. A body that is left alone may hang. Nothing makes users call, commits
fail, or a dead process restart.

`Supervisor!Fairness`: the same for `start`, the watcher and the schedule, and a
process that was sent a SIGTERM by `stop` ends, because a SIGKILL follows
(`stop_grace_seconds`). A process left alone may run for ever.

The conditions in the liveness properties are the ways out the code leaves: the
process ends, a commit fails (the row of a job then stays as it is until the next
start), or the cancel of `JobsOvertime` (`Deaf`).

`RconClient!Fairness`: tasks that are ready run and timers expire (the five
seconds of a command run on however many packets come in); the network owes
nothing, a reply may be lost for ever.

`Installation!Fairness`: a cancellation is raised where the task awaits, the wait
for a child that was told to end is bounded (a SIGKILL follows), a PATCH goes on
when what it awaits is done. Nothing makes a download end.

`EngineBuild!Fairness`: the nightly check comes again, its lookup does not fail for
ever (strong fairness of `CheckEnds`), a job that was started ends.

`WorkshopClient!WCFairness`: time passes, who is ready runs, and an HTTP request ends
because the transport has timeouts.

`FlagsHeal` and `EnsureSettles` assume what they need in the formula itself: that
the disk is left alone and syncs complete; that downloads land and nothing else
happens.

## 4. Proofs

TLAPS checks every theorem for all values of the constants, assuming the
assumptions the modules name on their constants (sentinels are not ids, bounds are
natural numbers, sets that are subsets) and, where a theorem has an ASSUME of its
own, the absence of the overlap or timing it names.

`JobManagerProofs`. `ExecutesSerially` is not inductive: that a body starts only
once depends on where the job's id can still be. `IInv` adds

* `BodyOwned`: a task exists only for the job the worker awaits, and that job is
  in `executed`;
* `NeverAgain`: a job that was executed neither says queued nor waits in
  `entering`, `pending` or with the worker. Without it a restart could be thought
  to requeue a job that already ran;
* `WaitsOnce`: a job waits in one place only and has a row; else the worker could
  take a job that `enqueue` is about to queue again;
* `DownIsEmpty`: nothing waits in a dead process; else `Startup` could meet the
  waiting jobs of its predecessor.

From `Inductive` (`Spec => []IInv`) follow `TypeCorrect`, `SerialExecution` (every
step maps to a step of `SerialExecutor` or leaves it alone), `Settled` and
`Owned`, the last two with one invariant of their own on top of `IInv`.
`NoneLost` (`QueuedIsTracked`) and `Withdrawn` (`WithdrawnStaysCancelled`) need
only the types: the first is inductive with them, by what `Tail` and `Append` do to
the ids of the queue (`InTail`, `InAppend`), the second follows from `RowStep`, the
list of the ways in which a row may change.

`SupervisorProofs`. `AliveIsActive` and the refinement need `StartsAlone` (a start
between its check and its spawn meets no live process, because it holds the lock
and only it spawns) and `WatcherAwaits` (a slot is alive exactly while its watcher
awaits it, so a slot that is reused is dead). From `Inductive` follow
`TypeCorrect`, `HandleIsKept`, `ScheduleNeverOutlives` and `SingleServerRule`.
With `SlowCommits = FALSE` also `FlagsHaveProcesses`, and with `HastyRestarts = FALSE`
moreover `RunningIsMarked`. They rest on where a flag can come from:
`MarkedIsWatched` (a flag, or a start about to set it, belongs to a slot whose
watcher has yet to clear it), `FlaggedOrMarking` (a live process is flagged, or its
start is between spawn and commit), `StartsDrained` and `DownIsEmpty` (no start and
no slot outlives the backend).

`InstallationProofs`. `NoneForgotten` needs `Shape` and `AllRead`, which tie each child
to the await of the runner that reads it, or to the ways in which the code leaves one
behind. `ServersRunAlone` needs where a look can still be: `LooksCross` says that beside
a running server every look of a request, of a queued update and of a body about to
spawn is crossed, because `StartServer` crosses those there are and new ones are refused.
Neither has a hypothesis. `SchedulerIsTheOne` is proved without "patch" and rests on
`SchedulerInv`: what each PATCH in flight holds is the scheduler that lives, or the one
it has already stopped.

`LibraryProofs`. `IInv` is types, `RowsAgree` itself, `TasksScanMods` and
`DeletesAreRight`. The heart of the last is `WalkIsRight`: a walk that has not met the
mod has read all of the names that were there all the time (`ReadsAssigned`,
`ReadsPacked`), what the mods it has visited need along lasting edges is visited or in
its queue, and no root it is done with needs the mod along such edges. A commit of
somebody else only shrinks the history (`NeedsShrink`), so it takes nothing away from
that; when the queue runs empty the visited mods are closed (`WalkEnds`). From `IInv`
follow `RowsStayWellFormed`, `NamedScenesStay` and, without any hypothesis on overlaps,
`NeededIsKept`. `StorageIsRight` rests on the closure instead: `ReachByRoots` says that a
search from many roots finds what the searches from each find together, so the owners
`orphan_reference_sets` counts root by root (`OwnersAre`) are there exactly for what is
needed; the invariant only keeps the references mods (`Rooted`).

`DefinitionsProofs`. Lemmas on the operators say what `_apply_mods`, a flush and an
import make of rows (`ReconciledType`, `FlushedType`, `FlushedRow`, `RestoredType`).
`Requests` is the invariant that matters: what a waiting request wants for a row it
loaded is that row or a row pinned as its payload asks. `StartsApart` keeps two
loads of the same start apart. `PinsLast` and `DropsAreReported` hold for every
overlap, `RunningIsLeftAlone` without "start". `EditsAreWhole` (`ReplaceIsWhole`) holds
without "edit" and needs `EditsApart`: while a request waits with the rows of a
definition, the definition has the same mods (`Fresh`), because pins change no set of
mods, creations and clones make other definitions, a delete takes the request with
it, and no other flush is of a definition somebody else edits. The rest is
`FlushedWhole`, what a flush over the same mods leaves.

`ServerStartProofs`. `VisitOrders` is about the visit of `resolved_mod_entries` on any
finite graph. Its invariant `WalkOK` says that the mods on the stack need all those
above them (`PathLeads`), that what a listed mod names is listed before it or leads
back to it (`ListedAfter`), and that a listed mod names nothing unseen; with it, each
call or return adds to `Done`, which the number of mods bounds (`DoneIsBounded`), so the
visit ends, and what it has listed is then the closure, in order. The induction is
over the steps of a recursive function and needs only that a set of numbers has a
least one (`LeastOf`, `IterationExists`). With `TypeCorrect` it gives `ConfigIsOrdered`,
for every depth limit: the list is whole for the graph a start has, and where nothing
needed lies beyond the limit that graph is all that library and disk name (`NearIsWhole`).
`PreflightSufficient` compares two searches: where the edges of the files are on record
the graph of a start is part of the graph preflight walks (`ReportCoversEntries`), and
the versions they look at are the same where the Workshop lists what the start loads;
that the version on record is never ahead of the engine is part of the types. `UpdateKeepsPins` is an action property that
needs no invariant: the pins an update reads and those `config.json` takes agree.

`SaveSnapshotsProofs`. `Books` ties what a request remembers to the files: the
snapshot it makes is nobody else's and not there yet (`Makes`, `Strangers`), and a
restore's target is the root of the archive it writes (`Rooted`); it holds for every
overlap. `Contents` follows the one copy of a save that no archive holds: it lies in
one directory and nothing of it is elsewhere (`LiesIn`), and a restore that has that
directory for its target is still at its backup, with that directory in hand
(`BackedUp`). When the archive of the backup appears the save is no longer of that
kind (`Covering`), so the removal of the target cannot take it; an extraction writes
where an uncovered save is not, because its archive would have to be of that save.
From it `NothingIsLost`, without "start". `ListedCanBeRestored` adds that a rename that
has read a manifest meets no delete (`Renames`), `DeletesClearTheSelection`,
without "arm", that a selection among the saves a delete found is the one its row
was loaded with (`Deletes`), whatever else was written since.

`ClientProofs`, of `RconClient`. The heart is arithmetic of wrapping numbers (`NextNumber`,
`NumbersApart`: two commands less than `Modulus` apart have different numbers).
The invariant says what can be where: what was queued before a command was sent
belongs to recent earlier commands (`Fresh`), what comes later is `Young`, so a packet
that matches by number is of the command (`Gathered`). `AnswersBelong` and the
refinement `RemoteCalls` follow.

`ClientProofs`, of `WorkshopClient` (whose specification is `WCSpec`, so that the two can
be extended together). `Covered` says that tokens and debts never promise more than the
Workshop still grants, `PacedIsCovered` that a caller that paces holds the lock and has
its token by the time it wakes; with `Shape` they are inductive and give the refinement
of `TokenBucket` for any number of callers.

Only model-checked: what is temporal and needs fairness (`QueuedEventuallySettles`,
`InterruptedEventuallySettles`, `StopEndsProcess`, `DeadIsUnflagged`, `PatchEnds`,
`BadgeHeals`, `FlagsHeal`, `EnsureSettles`, `CallsEnd`, `GetEnds`), which is out of the
prover's reach, and with it `EngineBuild`, whose one property is of that kind.

## 5. Plan

Done: all modules of section 2 and their runs and proofs. Left, in this order:

1. `JobStream`: broadcaster, replay and subscription, what a subscriber of a job sees
   in the end (`api/jobs.py`, `core/events.py`);
2. config revisions and the restore of one, beside the requests of `Definitions`;
3. the warnings of preflight and the stale pins of the post-update report.

## 6. Not modelled

The broadcaster and its streams (bounded queues for a display; no part of the
system depends on an event), the file manager, log reading and diagnosis, the A2S
client, authentication, the MCP mirror of the HTTP API, migrations, the post-update
report and the frontend: they keep no shared state or only read it. Of the modelled
components, what travels with a state and decides nothing (texts, timestamps, pids,
exit codes beyond zero, sizes, labels, configuration snapshots) is abstracted away.
The engine, steamcmd, the Workshop, the BattlEye server, the database's unit of work
and the network are modelled from how the code uses them and marked external.
