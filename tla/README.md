# Verification of migration-manager

migration-manager moves virtual machines from a source (VMware) to a target
(Incus). A *batch* of instances is queued; for every queued instance the daemon
creates a VM at the target, a *worker* inside that VM copies the disks of the
running source VM, and then - within a *migration window* - the source VM is
shut down, the rest is copied, the guest is adapted and the target VM takes over.
The code that can lose data, run a machine twice or leave it switched off is the
code that moves a queue entry through its statuses from four sides at once. This
project models that code in TLA+, and with it the data path, the counters, the
updates of batches, the inventory, the guest's adaptation and the database it
relies on; it checks the models with TLC and proves part of what they promise with TLAPS.

## The system

| component | state it keeps | operations | code (below `src/`) |
|---|---|---|---|
| queue entries | `queue` table: status, import stage, secret token, last worker response, window, placement | `UpdateStatusByUUID`, `ProcessWorkerUpdate`, `NewWorkerCommandByInstanceUUID`, `GetNextWindow`, cancel, retry, delete | `internal/migration/queue_service.go`, `queue_model.go` |
| migration windows | start, end, lockout, capacity | begun, ended, fits, earliest | `internal/migration/window_model.go` |
| batches | status, constraints, defaults | start, stop, reset, update, delete | `internal/migration/batch_service.go`, `cmd/migration-managerd/internal/api/api_batch.go` |
| import task | a snapshot of waiting entries | `beginImports`, `createTargetVM` and its reverters, every 10 s | `.../api/workers.go` |
| finalization task | a snapshot of entries in their final steps | `finalizeCompleteInstances`, `finalSourceAndTargetChecks`, `resetQueueEntry`, `configureMigratedInstances`, every 10 s | `.../api/workers.go` |
| worker API | - | `POST :command`, `POST :update` | `.../api/api_worker.go` |
| worker | the command it is at | `Run`: import disks, final import, post-import tasks | `cmd/migration-manager-worker/internal/worker/worker.go` |
| user's queue requests | - | cancel (with cleanup), retry, resolve, delete | `.../api/api_queue.go` |
| sources and targets | power state, VM, disks | `PowerOnVM`, `PowerOffVM`, `CreateNewVM`, `CleanupVM`, `StartVM`, `SetPostMigrationVMConfig` | `internal/source`, `internal/target` |
| target VMs | VM, its maker, worker volume, disks | create, set up volumes, attach, clean up by name | `internal/target/incus.go`, `workers.go` |
| counters | concurrent imports, syncs, creations, in memory, per source, batch and target | record, remove, rebuild at the start of the daemon | `source_service.go`, `target_service.go`, `queue_service.go`, `internal/util/concurrent.go` |
| updates of batches | windows, constraints, filter | `canUpdateRunningBatch`, `ReplaceByBatch`, `DeleteByName` | `batch_service.go`, `window_service.go`, `api_batch.go` |
| sync of sources | instances and networks, `syncLock`, the one database connection | the periodic sync, the sync of one source | `.../api/sync.go`, `api_source.go`, `instance_service.go` |
| data path | snapshot, nbdkit servers, change ids, copied blocks | `MigrationCycle`, `SyncToTarget`, `EnableBackgroundImport` | `internal/migratekit`, `internal/source/vmware*.go` |
| database | one SQLite file, its version, a patch beside it, the backup of it | `Open`, `Ensure`, `execFromFile`, 20 updates, `Transaction` | `internal/db`, `internal/transaction` |
| records | sources, targets, instances, networks, batches, windows, queue, warnings, artifacts | the generated statements of every table, the services on them, the handlers that write them | `internal/migration/repo/sqlite`, `internal/migration/*_service.go`, `.../api/api_*.go` |
| dry run and post-import tasks | mounts, volume groups, device-mapper clones inside the worker VM | `LinuxDoPostMigrationConfig`, `WindowsInjectDrivers`, `ReplaceFortigateBoot` | `internal/worker` |

They interact through the database (each transaction is atomic), through the
machines, and through one lock. `workerLock` is a read-write lock: the two tasks
and the handlers of workers' requests take its **read** side, so they interleave
with each other step by step; cancel, retry, resolve and the stop of a batch take
its **write** side; the **start and the reset of a batch and the deletion of an
entry take no lock at all**. Workers poll for commands and post responses over
HTTP; either direction may be lost.

What is hard here: a task decides from a snapshot and writes back later; source
VMs are powered on by three different handlers while workers copy from them;
reverters undo half of a step that failed; a response is sent once and may be
lost; the daemon's tasks die with it between any two steps; windows end at any
time; goroutines append to shared slices without a lock; counters live in memory
beside the table they count; a sync writes what it read before it waited for a
lock; a disk is copied by differences, across restarts of whoever keeps them; a
worker that is killed in a task leaves mounts and clones to the next one; and an
upgrade rewrites every table of a database that may be nineteen versions old, and
may die anywhere in between.
`PROJECT.json`
("hazards") lists each of these at its line with the property that covers it.

What makes each component right:

- *machines*: the target takes over only a copy made after the source's last
  write (`NoLostWrites`), a machine never runs twice (`NeverBothRunning`), a
  source is only powered off under an entry that is past the point of no return
  (`OnlyCommittedPoweredOff`), a migrated VM is not deleted (`MigratedVMKept`);
- *queue*: the import stage tells the truth about the copy
  (`CompleteMeansCopied`), the status tells of the VM at the target: one that
  imports has a worker's, one that has finished a migrated one (`StatusTellsVM`),
  and finished is final (`FinishedForGood`);
- *windows*: capacity (`CapacityRespected`), held only by committed entries
  (`WindowHeldByCommitted`), final imports only in an open one
  (`StartsInOpenWindow`), given up after its end (`EndedWindowGivenUp`);
- *batches*: finished with its last entry and not before
  (`FinishedBatchIsDone`); every instance gets there (`EveryInstanceMigrates`);
  whatever is updated or deleted, entries keep their window and its place
  (`HeldWindowExists`, `CapacityKept`), belong to a started batch
  (`EntryOfStartedBatch`) and to one only (`ExclusiveControl`), and are not put
  under new constraints (`ConstraintsNotAdded`);
- *counters*: the limits hold but for what the counters were made to forget
  (`LimitsRespected`), and hold nobody back for ever (`HeldBackInTurn`);
- *data path*: a change id never promises too much (`ChangeIdSound`), a cycle
  copies its snapshot (`CycleCopiesSnapshot`), the final import is complete
  (`FinalImportComplete`), every command is answered (`EveryCommandAnswered`), and
  preparing a VM for it leaves the VM as it was (`EnableKeepsPower`);
- *target VMs*: complete when handed to a worker (`CreatedVMComplete`), only the
  program's own are deleted (`ForeignVMKept`), failures leave nothing behind
  (`NothingLeftBehind`), creation succeeds in the end (`CreatedInTheEnd`);
- *inventory*: entries keep their records (`EntriesBacked`), running migrations
  are not disturbed (`MigrationUndisturbed`), a silent source loses nothing
  (`SilentSourceKept`), and the inventory catches up (`SyncCatchesUp`);
- *post-import tasks*: scripts write where they should (`ScriptsHitTheirDisks`),
  what a kill leaves does no harm (`LeftoversHarmless`), the dry run foretells the
  real one (`DryRunTells`);
- *database*: a start changes the file as a whole, with a backup of what it was,
  and never applies a patch twice (`StartIsSafe`); whatever version it has, it says
  the same of sources, batches, members, windows and entries after every upgrade,
  and a request changes it as its name says (`ImplementsCatalog`).

## The modules

| module | models | correspondence |
|---|---|---|
| `Windows` | `window_model.go` | pure operators on a window record; zero is the unset time |
| `QueueEntry` | `queue_model.go`, the updates of `queue_service.go` | `Entry` is the row of the table; one operator per update |
| `MigrationState` | tables, machines, lock | the variables, their types, `SetStatus`, `Machines` (`PowerOnVM`, `CleanupVM`), `MigrationState` (`Handler.GetMigrationState`) |
| `WorkerRequests` | `api_worker.go`, `GetNextWindow`, `NewWorkerCommandByInstanceUUID`, `worker.go` | one action per command handed out, per step of the worker and per response |
| `BeginImports` | `reassessBlockedInstances`, `beginImports`, `createTargetVM` | one action per transaction or call to a target; `imp` is the task's program counter and snapshot |
| `FinalizeInstances` | `finalizeCompleteInstances` and what it calls | as above with `fin`; `fin.step[i]` is where the goroutine of instance i is |
| `UserRequests` | `api_queue.go`, `api_batch.go` | one action per request; a cancel has up to three |
| `Migration` | everything together, the clock, owners, restart | `Next`, `Spec` |
| `MigrationProperties` | - | properties, fairness, the refinement mapping |
| `Cutover` | the promise to the owner of a machine | abstract specification |
| `MCMigration` | - | windows and constraints for TLC |
| `MigrationProofs` | - | theorems about `Migration`: types, windows, machines, statuses, capacities, and the refinement of `Cutover` |
| `DiskSync` | `vmware_nbdkit.go`, `change_id.go`, `target/util.go`, `importDisks`, `PowerOffVM`, `EnableBackgroundImport` | the worker's and the handler's steps as program counters; a disk is a function from blocks to versions, a tracker remembers at which change each block was last written |
| `DiskSyncProofs` | - | theorems about `DiskSync` |
| `Limits`, `MCLimits` | the counters of `source_service.go`, `target_service.go`, `queue_service.go`, `concurrent.go` and where they are moved | `sourceImports`, `targetImports`, `batchImports`, `creations` beside the table; `creating` is how far the creation of a VM is (`lost`: a reset removed the VM); one action per transaction, and one for each that is rolled back after it moved the counters (`RollBack`, `CommandRolledBack`, `ResponseRolledBack`, `ResetBatchFails`); `uncounted` is a history variable: the syncs a batch's counter may have lost |
| `LimitsProofs` | - | theorems about `Limits` |
| `TargetVMs` | `CreateNewVM`, `SetupVM`, `CleanupVM`, `SetPostMigrationVMConfig`, `createTargetVM` | one action per call to Incus; a call may fail, or take effect late |
| `TargetVMsProofs` | - | theorems about `TargetVMs` |
| `Batches`, `MCBatches` | `batch_service.go`, `window_service.go`, `batchPut` and `GetNextWindow` | one action per request or transaction; of an entry only the phase is kept that decides whether it is committed and counted |
| `BatchesProofs` | - | theorems about `Batches` |
| `Inventory`, `MCInventory` | `sync.go`, the deletions and updates of `instance_service.go` and `network_model.go` | two syncs as program counters between the steps at which they wait: for a source, for `syncLock`, for the database |
| `InventoryProofs` | - | theorems about `Inventory` |
| `PostImport`, `MCPostImport` | `internal/worker`, `worker.go` | a task is a program of steps, Go's deferred calls are a stack; mounts, volume group and clones are what the steps do to them |
| `PostImportProofs` | - | theorems about `PostImport` |
| `Tables` | `schema.go`, SQLite | a table is a set of rows; inserts, updates and deletes with UNIQUE, CHECK and FOREIGN KEY, cascades included, whether foreign keys are on or off |
| `Entities` | `repo/sqlite/entities/*.mapper.go`, `repo/sqlite/*.go` | one operator per generated statement, with its joins, sub-selects and filters |
| `Services` | the services of `internal/migration` on those tables | a transaction is an operator on a connection: the tables, the result, the error |
| `Handlers` | `api_source.go`, `api_target.go`, `api_instance.go`, `api_network.go`, `api_warning.go`, `api_artifact.go` | one operator per handler; ETags, what comes of a connection |
| `SchemaUpdates` | `internal/db/update.go` | one operator per update, with the statements it runs |
| `Database`, `MCDatabase` | `db.go`, `schema/`, `transaction/`, the start of the daemon | the phases of a start up to a commit, crashes, requests |
| `DatabaseProperties`, `Catalog` | the promise to the rest of the daemon | `Catalog`: the records by their names, as an abstract specification |
| `DatabaseProofs` | - | theorems about starts of the daemon |

`Cutover` says what a migration promises with no queue or worker in sight: a
machine runs at its source, is shut down there, may be copied while it is down,
and is handed over to the target only with a finished copy, after which it never
comes back; until then it may be rolled back, which voids the copy.
`ImplementsCutover` is the refinement: `place` and `copy` are computed from
`vm`, `queue`, `source` and `disks`.

The modules after `MigrationProofs` each take up one thing that `Migration`
abstracts: what a disk holds, how a VM is made, what a counter says, what an
update of a batch may do, where the inventory comes from, what a task does inside
the worker VM, what a transaction does to the tables. They share `Windows` and `QueueEntry` with it where they speak of
the same records, and keep of the rest only what their properties tell apart.

A step of the daemon is what it does between two points at which another process
may run: one transaction, or one call to a source, target or worker. The stored
data are abstract: the disks are `empty`, `behind` (copied while the source ran),
`current` or `ready` (current and adapted); a secret is one of three tokens,
enough for a new one to differ from those a worker and a task still hold.

## What may go wrong

`Faults` selects the environment, `Requests` the user's requests.

| fault | meaning |
|---|---|
| `source` | a call to a source fails |
| `target` | a call to a target fails |
| `configure` | `SetPostMigrationVMConfig` fails half way |
| `worker` | a command fails, or the worker dies and is started again by systemd |
| `reply`, `update` | a reply to a worker, or its response, is lost |
| `restart` | the daemon restarts between any two steps |
| `block`, `limit`, `change` | instances are blocked, the create limit is reached, the source instance has changed |
| `owner` | the owner starts or stops the source VM before its final import, and the inventory lags behind |

The other modules name their faults in the same way: `Faults` of `DiskSync`
(tracking turned off, a cancel, a failing power-off, preparation, start, copy,
stop or task, a restart of the worker or of its VM, a failing enabling), `Events`
of `Limits` and of `TargetVMs`. In `Inventory` and `PostImport` nothing is switched
off: any source may fall silent, any step may fail or be the last of its worker.

## The runs

Most runs take seconds, `pair`, `disks`, `batches` and `inventory` one to three
minutes.

| run | shows |
|---|---|
| `cutover` | one instance, two windows, all faults but `target`, `configure` and `restart`, cancel, retry, resolve, stop: `NoLostWrites`, `NeverBothRunning`, `CompleteMeansCopied`, and the refinement `ImplementsCutover` |
| `pair` | two instances for two windows of capacity one, with cancel, stop and delete: `CapacityRespected`, `FinishedBatchIsDone`, `MigratedVMKept` |
| `faults` | one instance under every fault but `owner`, with every request but a reset: `TypeOK`, `StatusTellsVM`, `FinishedForGood`, `StartsInOpenWindow` |
| `reset` | resets (forced or not, failing or not) and deletions in the middle of the tasks: `WindowHeldByCommitted` |
| `progress` | two instances, scarce windows, a constraint of one at a time, fairness, workers that fail or die and lost messages: `EveryInstanceMigrates` (once failures cease, unless one stays `Stuck`), `EndedWindowGivenUp`, `OnlyCommittedPoweredOff` |
| `disks` | two disks, a guest that writes, tracking that is lost or set up anew, a worker that fails, restarts, reboots or is deleted at any step: `ChangeIdSound`, `CycleCopiesSnapshot`, `FinalImportComplete`, `EnableKeepsPower`, `EveryCommandAnswered` |
| `limits` | three instances of two batches at one source and one target, two events of eleven kinds (rolled-back transactions, failures, top-ups, ends of windows, cancels, retries, stops, resets, restarts): `LimitsRespected`, `HeldBackInTurn` |
| `target` | two VMs of two volumes, three failures, late successes, restarts or other users: `CreatedVMComplete`, `NothingLeftBehind`, `ForeignVMKept`, `CreatedInTheEnd` |
| `batches` | two batches with shared instances and a window of the same name, any updates and deletions: `HeldWindowExists`, `CapacityKept`, `EntryOfStartedBatch`, `ExclusiveControl`, `ConstraintsNotAdded` |
| `inventory` | two sources with three networks, two VMs that change, move and vanish, two syncs, a batch that is assigned, started, stopped, reset: `EntriesBacked`, `MigrationUndisturbed`, `SilentSourceKept`, `SyncCatchesUp` |
| `tasks` | twenty layouts of Linux, Windows and Fortigate guests, any step failing, two kills: `ScriptsHitTheirDisks`, `LeftoversHarmless`, `DryRunTells` |
| `database` | files of four versions, two releases, a patch, crashes, two requests of any kind: `StartIsSafe`, `ImplementsCatalog` |

The environment of a run is as wide as its properties allow, and the properties
name the exceptions the code makes: see the disagreements below. `reset` has a run
of its own because with resets in `cutover` or `progress` their
properties fail, for the reason given there. Each property comes with a mutant of
the code that violates it in its own run (`PROJECT.json`, "mutants").

## Disagreements between the code and what is said of it

None of these is kept as a run: each was met while modelling, shows within a few
lines, and explains an exception in a property or a fault that a run leaves out.

*Statuses and windows*

- `resetQueueEntry` powers the source VM on before it cleans up at the target: when
  the target then cannot be reached, the entry and its worker stay as they were and
  the migration goes on from a copy that lacks what the source VM wrote since
  (`workers.go:792`; why `cutover` has no `target` fault).
- A reset of a batch races with `configureMigratedInstances`, which then finishes
  the *new* entry of the instance (`workers.go:1422`, `queue.md:17`; why `faults` has
  no reset). A forced reset of a restarted batch deletes the VM that the first run
  finished (`api_batch.go:907` against `:815`), and passes
  `requireWorkerVolume = false` against its own comment at `:904`.
- An entry starts its final import without a window when every window of the batch
  is full, for an empty list reads as a batch without windows
  (`queue_service.go:219`, `window_model.go:158`; `batches.md:25`).
- An entry that failed for good is overwritten with CONFLICT (`workers.go:942` and
  `:1366`; comment at `:1335`). One put into ERROR by the final checks leaves its
  source VM off (`workers.go:1128`; `queue.md:18`).
- An entry that is idle between two final steps is not counted by its constraint
  (`queue_service.go:277`; `batches.md:52`), nor reset when its window ends
  (`workers.go:866`; `batches.md:25`).
- A cancel without cleanup leaves a worker running that may shut the source VM down
  later (`api_queue.go:477`, `queue.md:30`); one with cleanup also deletes a VM of
  the same name that an earlier entry finished (`api_queue.go:459`).
- `ensureISOImagesExistInStoragePool` writes back a batch status that a reset may
  have changed since (`workers.go:567`, `:583`), and `visitedLocations` lets a second
  batch pass over a volume that is still being uploaded for the first.
- The end of a window at which a worker is stopped (`systemctl stop`,
  `workers.go:828`) makes its running task fail, and the worker sends FAILED: the
  entry is ERROR for a moment and IDLE after.
- A window with nothing but a capacity counts as empty and is never assigned;
  `windowsInUse` counts by name over all batches; `Windows.Validate` is called by
  nothing; an assigned window's unlimited end may become one that has passed
  (`window_service.go:120`).

*Batches*

- A committed instance's constraint may be removed or changed in place
  (`batch_service.go:130`; `batches.md`, "can no longer be modified, added, or
  removed"): `ConstraintsNotAdded` states what does hold.
- A STOPPED batch may be deleted with its committed entries, the source VMs being
  down (`batch_service.go:366`), and one whose instances are all queued cannot be
  started again.
- Targets may be renamed or deleted while placements name them.

*Counters*

- A post-import task is not counted, but its end gives back an import slot of
  somebody else (`queue_service.go:584`; `targets/incus.md:19`): `import_limit` may
  be exceeded, so no property claims it. A cancel, the end of a window
  (`resetQueueEntry`) or the deletion of a batch never gives a slot back.
- A creation or a command whose transaction is rolled back leaks its slot
  (`workers.go:479`, `queue_service.go:501`), and an entry that a restart finds in
  CREATING keeps one for ever: the exceptions of `HeldBackInTurn`.
- `sync_limit` ("maximum number of instances in this batch that can concurrently
  perform a background sync", `batches.md:74`) may be exceeded, for the counters are
  not rolled back with the table: by a reset that fails after `ResetBatchByName` gave
  the slots back (`batch_service.go:620`; `Connect`, `SetProject`, `CleanupVM` and
  `PowerOnVM` follow in the same transaction, `api_batch.go:831`), by a response whose
  update of the table fails (`queue_service.go:590`), and by a restart while a STOPPED
  batch syncs (`sync.go:31` counts RUNNING ones). Each leaves syncs that go on
  uncounted, and the next to ask comes on top of them; a slot once forgotten stays
  forgotten when its sync ends, until the batch is reset or the daemon restarts.
  `LimitsRespected` bounds the excess by `uncounted`, what was forgotten in these ways
  since then, and so says that nothing else lets a batch exceed its limit. The
  creation limit has no such exception.
- A reset takes no `workerLock` (`batchResetPost`): it may delete the entry, and remove
  the VM, of a creation that goes on and fails, or writes its status into the entry of
  a batch that was started again meanwhile (`CreatedInVain`, `AgentUp`).

*Target VMs*

- VMs are found by their name: of two same-named instances in one project the cleanup
  of one deletes the other's VM. `SetupVM`'s reverter deletes a volume of the name it
  wanted, also one that was there before. `SetPostMigrationVMConfig` does not ask
  whether the VM is managed.
- A cleanup that keeps failing leaves the VM, the entry BLOCKED; a cancel after a
  restart in CREATING leaves volumes that are attached to nothing
  (the exceptions of `NothingLeftBehind`).

*Data path*

- Without an eligible controller `EnableBackgroundImport` returns success and leaves
  the VM off (`vmware.go:778`; comment at `:691`).
- `SyncToTarget` announces a full copy (`vmware_nbdkit.go:466`), but `NeedsFullCopy`
  returns an error when a valid change id exists and tracking is off.
- Two starts that fail in a row leave two snapshots of one name, which the next
  prune does not delete (`worker.go:223`).

*Inventory*

- `syncOneSource` takes its transaction before `syncLock`, the periodic sync takes
  them the other way round, and there is one database connection: they may wait for
  each other for ever (`sync.go:457`; `SyncCatchesUp` excepts `MutualWait`). Handlers
  keep the connection while they call a source.
- `syncLock` "ensures source syncing is sequential" (`sync.go:28`), but the sources
  are read outside of it.
- `FilterUsedNetworks` remembers one source per network id (`network_model.go:142`,
  comment at `sync.go:633`); networks that nobody uses any more are never pruned; a
  vanished instance's network may go while the record of the instance stays.
- A VM that moves to another source makes the whole sync roll back, UUIDs being
  unique (`sync.go:853`; the exception `Moved`).
- A VM that is not read in time counts as vanished: unassigned instances lose their
  record and overrides (comment at `sync.go:786`).
- Taking the restriction override from a migrating instance makes it "disabled": a
  sync may then delete it with its entry. The instances of a STOPPED batch are not
  protected at all.

*Post-import tasks*

- The real run activates volume groups only for a root on one of them: with a plain
  root and another file system in a volume group the dry run passes and the real run
  fails, with the source VM off (`linux.go:154`; the exception `OnlyExtraInVG`).
- `looksLikeLinuxRootPartition` mounts the target's disks writable, also in a dry run
  (`linux.go:520` against the comment at `:652`).
- `ensureMountIsLoop` says nothing of the clones of a volume group (it takes "loopN"
  for the group's name) and is not asked about additional mounts; that the devices
  are right all the same is `ScriptsHitTheirDisks`.
- `cleanupClones` "Pre-empt[s] cleanup in case of an unclean stop"
  (`setup-root-disk-clone.sh:47`), but not of Windows mounts, nor of what
  `fortigate-replace-boot.sh` leaves: after a kill the retry fails, or overwrites the
  backup. `LeftoversHarmless` is about Linux guests for that reason.
- A worker killed while it probes for the root leaves the target's partition mounted,
  and the reissued import writes to it underneath.

*Database and records*

- The sub-select that finds an entry's window compares `batches.id` with the
  *window's own* `batch_id`, which always holds (`queue.mapper.go:103`, `:108`): an
  entry may get the window of that name of another batch. Deleting that other batch,
  or its window, then fails with a foreign key error. `CapacitiesRespected` is stated
  for schedules whose windows have different names for this reason.
- `updateFromV17` gives the windows new ids, while `queue.migration_window_id` keeps the
  old ones.
- `patch.local.sql` is removed before its statements are committed
  (`schema/query.go:98`): a crash, or an update that fails after it, loses the patch.
  `PatchesOnce` states the half that holds.
- `updateFromV9` makes the entries that need no disk import "final" and leaves the
  windows NULL; `updateFromV2` writes `disable_migration` as a JSON string, which makes
  every later read of the instances fail, and forgets the statuses of migrations under
  way, and the disabling of an instance that has no row of overrides; `updateFromV4`
  drops the rows of the networks.
- A file without tables is not backed up, and patches run with foreign keys off.
- `GetAllNeedingImport` ignores its batch (`repo/sqlite/queue.go:57`);
  `GetBatchesByInstance(nil)` is invalid SQL, `LEFT_JOIN` (`instance_batch.go:94`).
- When `BeginTx` fails, `GetDBTX` returns the database itself (`context.go:113`): the
  writes that follow are outside of any transaction and no rollback undoes them.
- `Emit` makes an acknowledged warning new again.
- `instanceOverrideGet` returns the ETag of the overrides, `instanceOverridePut` compares
  with the one of the whole instance (`api_instance.go`): a client that sends back what
  it got is always refused.
- The OIDC login of a target writes the target back as it was read before the login,
  over what a request has changed since.
- A restore of a backup that dies between the removal of the old files and the unpacking
  of the new ones makes the next start write over the backup it should restore (not
  modelled).

### Bounds

- `MaxTime` bounds the clock; the windows of a run begin, lock and end within
  it, so that each of the tests of a window is met with both outcomes. After the
  last instant only a window without an end is left, or none.
- One instance is enough where a property is about the interleaving of the
  tasks, handlers and workers on the same entry; what couples instances is the
  capacity of windows, the constraint, the status of the batch and the snapshot
  of a task: `pair` and `progress` have two. The properties of `cutover` were also
  checked with two instances, without windows.
- At most one response of a worker is under way (it waits for the reply), and neither
  it nor the handler that answers it outlives the creation of the next VM of its
  instance (`CreateVM`). This is a bound that matters: without it the power-on that
  follows an earlier worker's failure (`RestorePower`) could come as late as during the
  next worker's final copy. The code has no lock against it, only the minutes between.
- `Secret` has three values; `Retries` is 0 or 1.
- The import and sync limits, which only keep a worker waiting, are unlimited in
  `Migration`; `Limits` has them.
- `workerCommandPost` stores FINAL_IMPORT and then asks the source for the power
  state: one step here. A reset of a batch is one transaction around its calls:
  one step too, or a failure that leaves some of the calls done.
- `DiskSync`: two disks, since a cycle may stop between them, of one block each
  (blocks do not interact: changed areas are compared block by block); `MaxWrites`,
  `MaxTrackers` and `MaxNumber` let the guest write before, during and after a copy
  and its tracking be set up once more; `Attempts` is 2 of the code's 5, enough for a
  cycle on what a failed one left.
- `Limits`: limits of one with two competitors, and a third entry of another batch
  that shares the target; `MaxEvents` = 2, so that a slot may be leaked and lost, a
  batch stopped and the daemon restarted, or a reset fail and be repeated. Only one of
  the two batches has a sync limit.
- `TargetVMs`: two volumes, so that one is made and the other is not; `MaxEvents` = 3.
- `Batches`: any of four schedules and two lists of constraints may be given to either
  batch at any moment up to `MaxTime` = 3, which is before, in and after the window.
- `Inventory`: `MaxChanges` = 1 and `MaxRequests` = 2 for each of what the sources, the
  VMs and the users do; with two VMs one may move onto the other's network or source.
- `PostImport`: `MaxKills` = 2, since a kill may hit the task that meets the leftovers
  of another; a guest has a root and one more file system, the two places (partition,
  volume group) and the outcomes of fstab and BitLocker that the code distinguishes.

- `Database`: files of version 0 (none), 1, 9 and 17, so that a start creates the schema,
  runs all updates of an old file, half of them, or the last; `Releases` 17 and 20 (the
  code's), so that a file may be older than a release, as old, or, after a downgrade,
  newer, which a release refuses; `MaxPatches` 1; `MaxRequests` 2, so that a second request
  meets what the first left; `MaxCount` 2 repetitions of a warning; a connection that is
  tried is `OK` or `Unknown`. The tables of a stored file have one or two rows of each kind.

### Fairness

`FairSpec` assumes weak fairness of the two tasks (`runPeriodicTask` starts each
every 10 seconds, and no handler holds the lock for ever), of every worker's
steps and requests (the command loop of `Worker.Run`, restarted by systemd), and
of the clock. It assumes nothing of users, of owners, or of when a fault occurs
- in `progress` a worker may fail or lose its messages each time: `EveryInstanceMigrates`
is about the behaviours in which that ceases, `EndedWindowGivenUp` about all of them.
That one is `[]<>`, "again and again not left with an ended window", because an idle
entry with a whole copy may wait for a window that an entry in ERROR keeps
(`workers.go:866`).

- `DiskSync`: weak fairness of the worker's and of the handler's steps (each is a
  sequential program); the guest and the faults owe nothing.
- `Limits`: weak fairness of the rounds, of every worker's requests and of its
  success: the commands a counter holds back are asked for again and again, and a
  creation that a reset made vain comes to its end (the agent is waited for with a
  timeout).
- `TargetVMs`: weak fairness of the rounds and of a creation's steps.
- `Inventory`: strong fairness of the two syncs, since what they wait for comes and
  goes: a `sync.Mutex` hands itself to a waiter after a millisecond (starvation mode),
  and `database/sql` serves requests for its one connection in their order.

## The proofs

The theorems hold for any values of the constants; the only assumptions are the
named ones on constants in the modules, each of which TLC evaluates in a run, and
the hypotheses that the theorems below name. Every invariant was model-checked
before it was proved.

`MigrationProofs` (for any instances, batches, schedules, constraints, faults and
requests):

- `TypesCorrect`: `Spec => []TypeOK`. `TypeOK` alone is not inductive, since the
  finalization task writes stages and windows of its snapshot into the table;
  `PickedUp` adds that each instance it works on has been read. The proof goes
  action by action, with one lemma per group of actions and the typing lemmas of
  the entry updates below them.
- `WindowsHeldByCommitted`: `Spec => []WindowHeldByCommitted`. Whether an entry
  keeps a window depends on its import stage, so the invariant `WindowInv` adds
  what each status says of the stage (`Consistent`), for the table and for the
  snapshot, and that every instance the task verifies, configures, finishes or
  sends into conflict was read with the stage "complete" (`WorkerDoneStep`):
  that is why a stale write-back never gives a window to an entry that is not
  committed.
- `FinalImportsInOpenWindows`: `Spec => StartsInOpenWindow`. `EntryStep` classifies
  what any step may do to an entry; only the two transactions of a worker's command
  begin a final import, and both have just asked `GetNextWindow`.

The second part of `MigrationProofs` (for any instances, batches, schedules and
constraints) has what the owner of a machine relies on: `WritesAreKept`, `OneOfThemRuns`, `CompleteIsCopied`, the
refinement `MigrationImplementsCutover`, `StatusesTellVMs`, `FinishedStays`,
`OnlyCommittedGoDown`, `FinishedBatchesAreDone`, `MigratedVMsAreKept` and
`CapacitiesRespected`.

- They assume `Reliable`: `Faults` without `target`, `configure` and `restart`, and
  `Requests` without resets and deletions. That is as wide as the code allows for the
  machines: with any one of the five TLC finds them failing. With a failing target an
  entry goes on from a copy that its source has left behind (`resetQueueEntry`), and
  after a restart, or a reset, a worker or a task acts for an entry that is another one by
  then (`CompleteMeansCopied`); a target VM that was configured half-way is taken back
  after it was handed over, and the entry of a finished migration may be deleted, its batch
  stopped and started, and the new entry canceled with its cleanup, which deletes the
  migrated VM (`ImplementsCutover`). The runs `faults` and `pair` check `StatusTellsVM`,
  `FinishedForGood`, `FinishedBatchIsDone`, `CapacityRespected` and `MigratedVMKept` with
  more than that on small instances. `OnlyCommittedGoDown` also excludes
  `owner` and `cancel`: a cancel that leaves the worker running lets it power off the
  source VM of the entry that a retry has started over. `CapacitiesRespected` is for
  finitely many instances, and windows with different names (`NamesDiffer`, see
  "Database and records").
- The invariant `CutoverInv` is `WindowInv`, what the finalization task may rely on of
  its snapshot (`ReadForAStep`), and `Fits(i)` for each instance: what the machines
  allow each other to be (`MachinesFit`), which of cancel, handlers and tasks exclude
  each other (`LocksFit`, the promise of `workerLock`), and what the creation, the
  finalization, the worker and the copy have come to (`CreationFits`,
  `FinalizationFits`, `WorkerFits`, `TargetFits`, `CopyFits`). None of the
  properties is inductive alone: that the copy of a finished entry is current goes
  back to who powered the source VM off and who could have powered it on since.
- Every action changes what `Fits` speaks of for one instance, or for those of a
  snapshot alike; a frame lemma disposes of the others. The refinement argues the
  same way: `Moved` says how `place` and `copy` of an instance may follow from its
  machines and its entry, `PlaceIs` what they are, and each of the moves is an
  action of `Cutover` or a stutter.
- For the capacity, the holders of a window are counted by `WindowAsRead`, because
  `GetNextWindow` counts entries, and finite sets are needed to say that one more is
  one more.

`DiskSyncProofs` (for any disks, blocks, controllers and numbers of failures):
`ChangeIds`, `CyclesCopy` and `FinalImports`, from one inductive invariant `IInv`.
`ChangeIdSound` alone says nothing of a copy under way, so `IInv` adds that a
snapshot froze what its change number says (`SnapshotSound`), that the blocks
copied so far agree with it (`CopySound`), that numbers are never reused
(`Numbered`), which disks of a cycle are done (`Progress`), and that a final import
reads from a source that is off (`FinalReadsAll`). `EnablesKeepPower` needs only that
the VM is off while its tracking is set up (`OffDuringEnable`).

`BatchesProofs` (for any batches, instances, windows, constraints and filters):
`EntriesOfStartedBatches`, `HeldWindowsExist`, `CapacitiesKept`, and the action
properties `BatchesKeepTheirInstances` and `ConstraintsAreNotAdded`, from
`BatchesInv`, the conjunction of `TypeOK` and the three invariants: a window stays
under its holders because an update compares it with the entries, and these are
counted by batch because an entry's batch is the one that queued it.
`CapacitiesKept` needs the finite sets of holders and `FiniteSetTheorems`: one more
holder is admitted only below the capacity, and an update is refused below the
number of holders.

`TargetVMsProofs` (for any instances, disks, targets and events): `CreatedVMsAreComplete`,
`FailuresLeaveNothing` and `ForeignVMsAreKept`, from `TargetInv`. It says, for each step
of a creation and for each status, whether the target has nothing of the entry
(`Clear`), a VM with every disk of this creation (`Whole`), or something that the next
cleanup can remove (`Removable`), and that a round saw free names of waiting entries
only (`RoundFits`): reverters undo exactly what is there when they run. A call that was to
undo something and failed, or was not made, makes the entry `spoilt`, the one exception.

`LimitsProofs` (for any sources, targets, batches, limits, events and finitely many
instances): `LimitsAreRespected`, from `LimitsInv`. Every sync under way is counted or
was forgotten (`SyncsCounted`: the counter of a batch and `uncounted` together are
never less than its syncs), and a step that lowers a counter without ending a sync
raises `uncounted` by as much (`CountKept`, the fact each action is proved to keep for
every batch it leaves syncs to). The creation counter is none of the things that bound
the creations: it is decremented twice for some of them, and a reset takes entries away
under it. The limit holds because rounds do not overlap, and because an entry whose VM
is being created is moved by its creation only, or is one that a reset and a start
made anew (`CreationsHeld`): each round counts its own creations (`CreationsLimited`).

`InventoryProofs` (for any sources, networks, numbers of VMs, syncs, requests and changes):
`EntriesAreBacked`, `SilentSourcesAreKept` and `MigrationsAreUndisturbed`, from
`InventoryInv`: records refer to configured sources and to networks those have, entries
to records, and whoever is about to write holds `syncLock`, whatever it has read and
when. The action properties then follow from what one transaction may do:
a recorded instance is not created again unless the same transaction has deleted it
where it was (`CreatedAnew`, UUIDs are unique), so that a source that was not read loses
nothing, and an instance that migrates is neither deleted nor updated.
`MigrationsAreUndisturbed` assumes that networks of different sources have different
names (`NetworksApart`): `FilterUsedNetworks` keeps one source per name, the last
instance's (see "Inventory" above), and among the users of a name this is the
one with the greatest UUID, which exists because the VMs are finitely many.

`DatabaseProofs` (for any tables, updates, versions and requests): `StartsAreSafe` and
`PatchesOnce`, from `IInv`: what a start has not committed yet is typed (`Typed`) and
differs from the file only once a backup was made (`WorkBackedUp`), a patch is
run but is not removed yet only at the one step between (`WorkPatched`), and no patch is
run twice (`PatchRunsAtMostOnce`).

`PostImportProofs` (for any guests of the layouts in `GuestOS` and any number of kills):
`ScriptsHit`, `LeftoversDoNoHarm` and `DryRunForetells`, from the invariant `Inv`.

- A program is a finite sequence put together from parts, and an invariant has to
  speak of the steps that are left of it. The first part of the module says what is asked
  of such a sequence (`Program`, `Fits`, `Flagged`) - what is opened is used by the next
  step, functions that are entered are left again, clones are made before the work
  begins, and the volume group is active where the root is looked for - and shows it of
  each part, of two sequences one after the other, and of the rest of a sequence. No
  induction over a program is needed.
- `Inv` then has one lemma per conjunct: the deferred unmounts are the last mounts
  (`StackFits`), a function that was entered has its cleanup deferred as long as steps of
  it are left (`Balance`), a root on a volume group is used only while that is active
  (`VGFits`), a task that has its clones step behind it works on clones if it is a dry run
  (`ClonesReady`, `DryRunSparesDisk`), and which file systems are written already
  (`Prepares`).
- None of the three properties is inductive alone. That a dry run spares the disks goes
  back to the mounts of the step before it and to what an earlier task left of the
  clones; that nothing left behind does harm goes back to each deferred call of the task
  that left it; and for `DryRunTells` each step of the real run is compared with what the dry
  run has learnt of the guest (`Learns`, `WhyFails`).
- Two things in the model had to be mended for the proof: the cases of `Respond`
  overlapped for a failed task, where TLC takes the first and a proof may take none, and
  `GuestOS` had Windows guests with volume groups, of which
  `DetermineWindowsPartitions` knows nothing.

What TLC alone shows:

- liveness (`EveryInstanceMigrates`, `EndedWindowGivenUp`, `EveryCommandAnswered`,
  `HeldBackInTurn`, `CreatedInTheEnd`, `SyncCatchesUp`): fairness and ENABLED are beyond
  the prover;
- `ImplementsCatalog`: twenty updates rewrite tables row by row, and what a sub-select
  finds is a computation over the tables of a concrete version; the run does each of
  them on stored files.

## Not modelled

- The vROps monitoring, the verification that background import works, the files of
  artifacts and `HasRequiredArtifactsForInstance`: files that no step of a migration reads
  back, or of which it asks only whether they are there (`ReassessBlocked`).
- The restore of a backup (`validateBackup`, `restoreBackup`), and the request that resets
  background import.
- Scriptlets, filter expressions and the translation of VM properties between VMware
  and Incus: functions of their input; their outcome is the environment's choice.
- Mocks and the wrappers that log: they pass calls on. A transaction is one step.
- What a single script changes in a guest; bind mounts and btrfs subvolumes of the
  post-import tasks; an unmount succeeds within its retries, and the cleanup script,
  which ignores every error, always ends.
- HTTP, authentication other than the worker's token, the system's configuration, the
  command line and the user interface.
- Within what is modelled: the renaming of batches, sources and targets; changes of a
  batch's defaults and placement; `workerCommandPost` in two steps (see "Bounds").

## What is left

1. `workerCommandPost` in its two steps, with the power state read in between, and the
   requests that change sources and targets under a running migration.
2. Properties for the Windows and Fortigate retries once their cleanup is mended, and
   `import_limit` once post-import tasks are counted.
3. Proofs: the refinement of `Catalog` by the requests, apart from the updates.
