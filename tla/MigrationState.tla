--------------------------- MODULE MigrationState ---------------------------
(***************************************************************************)
(* The state of a migration that the daemon's two periodic tasks, the      *)
(* handlers of the user's and of the workers' requests and the worker      *)
(* inside every target VM share, and the calls they all make: the queue    *)
(* and batch tables, the source and target VMs, and the clock that opens   *)
(* and closes migration windows.                                           *)
(*                                                                         *)
(* A step of the daemon is what it does between two points where another   *)
(* process may run: one database transaction, or one call to a source, a   *)
(* target or a worker.  The tasks and the workers' handlers share the read *)
(* side of workerLock, so they interleave; cancel, retry, resolve and stop *)
(* take its write side; start, reset and delete take neither.              *)
(***************************************************************************)
EXTENDS QueueEntry, Windows

CONSTANTS
    Instance,          \* the virtual machines
    Assigned,          \* the instances assigned to each batch
    Schedule,          \* the windows of each batch, by name
    MaxConcurrent,     \* the constraint of each batch (zero: no constraint)
    MinBootTime,       \* the boot time that constraint asks for
    BackgroundImport,  \* the instances that support a background import
    PowerOverride,     \* "started" or "stopped" after migration, or "none"
    Retries,           \* post_migration_retries
    CleanupInstances,  \* beginImports removes a VM whose creation failed
    Faults,            \* what may go wrong in the environment
    Requests,          \* the user's requests that may arrive
    MaxTime            \* the last instant of the clock

ASSUME ConfigAssumption ==
    /\ Assigned \in [Batch -> SUBSET Instance]
    /\ \A b \in Batch : /\ DOMAIN Schedule[b] \subseteq Window
                        /\ \A w \in DOMAIN Schedule[b] : Schedule[b][w] \in WindowConfig
    /\ MaxConcurrent \in [Batch -> Nat]
    /\ MinBootTime \in [Batch -> Nat]
    /\ BackgroundImport \subseteq Instance
    /\ PowerOverride \in [Instance -> {"none", "started", "stopped"}]
    /\ Retries \in Nat
    /\ CleanupInstances \in BOOLEAN
    /\ MaxTime \in Nat \ {0}

VARIABLES
    now,       \* the wall clock
    queue,     \* the queue table: an entry or NoEntry for each instance
    batch,     \* the status of each batch
    source,    \* whether the source VM is powered on
    vm,        \* the target VM
    disks,     \* what the target's disks hold of the source's
    worker,    \* the worker process inside the target VM
    token,     \* the secret the target VM was created with
    mail,      \* the response a worker has posted and the daemon not handled
    handler,   \* an update handler that has yet to power on the source VM
    cancel,    \* what a cancel request has yet to do
    imp,       \* the beginImports task
    fin,       \* the finalizeCompleteInstances task
    retries    \* the post-migration retries counted in memory

database == <<queue, batch>>
machines == <<source, vm, disks, worker, token>>
daemon   == <<mail, handler, cancel, imp, fin, retries>>
vars     == <<now, database, machines, daemon>>

-----------------------------------------------------------------------------
(* The values of the variables *)

BatchStatus == {"DEFINED", "RUNNING", "STOPPED", "FINISHED", "ERROR"}

\* "defined": created and not booted; "worker": it has the worker volume, and
\* runs the worker; "stopped": it has its final configuration; "running": it
\* was started as the migrated machine.
TargetVM == {"none", "defined", "worker", "stopped", "running"}

\* "behind": a copy taken while the source was running; "current": nothing
\* was written to the source since the copy; "ready": current, and the
\* post-import tasks have adapted the guest.
Disks == {"empty", "behind", "current", "ready"}

\* "dirty" is a final copy during which the source VM came back up.
Worker ==
    {"none", "ask", "sync", "shutdown", "copy", "dirty", "tasks", "sent",
     "exiting", "exited"}

CancelStep == {"idle", "cleanup", "cleanupAndPower", "power"}

ImportStep == {"none", "define", "boot", "ready", "cleanup", "revert", "done"}

FinalStep ==
    {"none", "check", "unchanged", "toError", "toConflict",
     "newNetworks", "powerOn", "detach", "rewrite", "restart",
     "configure", "finish", "revert", "powerBack", "failed", "conflict",
     "done"}

\* The state of a task: where it is, what it has read, and how far it has got
\* with each instance.
ImportTaskState == [pc : {"idle", "place", "ensure", "claim", "create"},
                    snapshot : SUBSET (Instance \X Batch),
                    secret : [Instance -> Secret],
                    step : [Instance -> ImportStep]]

FinalTaskState == [pc : {"idle", "check", "run"},
                   snapshot : [Instance -> Entry \cup {NoEntry}],
                   reset : SUBSET Instance,
                   step : [Instance -> FinalStep]]

IdleImport == [pc |-> "idle",
               snapshot |-> {},
               secret |-> [i \in Instance |-> 0],
               step |-> [i \in Instance |-> "none"]]

IdleFinal == [pc |-> "idle",
              snapshot |-> [i \in Instance |-> NoEntry],
              reset |-> {},
              step |-> [i \in Instance |-> "none"]]

TypeOK ==
    /\ now \in 0 .. MaxTime
    /\ queue \in [Instance -> Entry \cup {NoEntry}]
    /\ batch \in [Batch -> BatchStatus]
    /\ source \in [Instance -> BOOLEAN]
    /\ vm \in [Instance -> TargetVM]
    /\ disks \in [Instance -> Disks]
    /\ worker \in [Instance -> Worker]
    /\ token \in [Instance -> Secret]
    /\ mail \in [Instance -> {"none", "SUCCESS", "FAILED"}]
    /\ handler \in [Instance -> BOOLEAN]
    /\ cancel \in [Instance -> CancelStep]
    /\ imp \in ImportTaskState
    /\ fin \in FinalTaskState
    /\ retries \in [Instance -> 0 .. Retries]

Queued(i) == queue[i] # NoEntry

\* checkQueueToken: a request of i's worker carries the secret of i's entry.
Known(i) == Queued(i) /\ token[i] = queue[i].secret

Entries(b) == {i \in Instance : Queued(i) /\ queue[i].batch = b}

\* The entries a periodic task picks up: queue.Handler.GetMigrationState.
MigrationState(statuses) ==
    {i \in Instance : /\ Queued(i)
                      /\ batch[queue[i].batch] = "RUNNING"
                      /\ queue[i].status \in statuses}

\* What a slice holds of the set S when goroutines append to it without a lock:
\* an append may undo a concurrent one.
Appended(S) == {T \in SUBSET S : S # {} => T # {}}

\* UpdateStatusByUUID on the entry of an instance.
SetStatus(i, status, stage, window) ==
    queue' = [queue EXCEPT ![i] = UpdateStatus(@, status, stage, window)]

(* workerLock *)

WriteLocked == \E i \in Instance : cancel[i] # "idle"

ReadLocked == imp.pc # "idle" \/ fin.pc # "idle" \/ \E i \in Instance : handler[i]

(* The machines *)

\* The power state recorded with an entry: the instance record's, which may
\* lag behind the owner of the source VM, unless it is overridden.
InitialRunning(i) ==
    CASE PowerOverride[i] = "started" -> {TRUE}
      [] PowerOverride[i] = "stopped" -> {FALSE}
      [] OTHER -> IF "owner" \in Faults THEN BOOLEAN ELSE {source[i]}

\* CleanupVM of the target VMs of `removed', the worker going with its VM,
\* and PowerOnVM of the source VMs of `woken': nothing happens to one that is
\* on, and one that comes up writes to its disks again.
Machines(removed, woken) ==
    LET asleep == {i \in woken : ~source[i]}
    IN  /\ source' = [i \in Instance |-> source[i] \/ i \in woken]
        /\ vm' = [i \in Instance |-> IF i \in removed THEN "none" ELSE vm[i]]
        /\ disks' = [i \in Instance |->
                        IF i \in removed THEN "empty"
                        ELSE IF i \in asleep /\ disks[i] # "empty" THEN "behind"
                        ELSE disks[i]]
        /\ worker' = [i \in Instance |->
                        IF i \in removed THEN "none"
                        ELSE IF i \in asleep /\ worker[i] = "copy" THEN "dirty"
                        ELSE worker[i]]
        /\ UNCHANGED token

PowerOnVM(i) == Machines({}, {i})
CleanupVM(i) == Machines({i}, {})

HasWorkerVolume(i) == vm[i] \in {"defined", "worker"}
=============================================================================
