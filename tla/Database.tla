----------------------------- MODULE Database ------------------------------
(***************************************************************************)
(* The daemon's database file through starts, upgrades and requests        *)
(* (internal/db, internal/transaction).  A start applies patch.local.sql   *)
(* and the updates the file lacks in one transaction, with foreign keys    *)
(* off, after a backup; it may fail or crash at every step, and the        *)
(* operator may install another release in between.  There is one          *)
(* connection, so that transactions follow one another; one that fails or  *)
(* crashes leaves no trace, and is no step.                                *)
(***************************************************************************)
EXTENDS SchemaUpdates, Handlers

CONSTANTS
    Releases,        \* versions of the schema that the releases expect
    StoredVersions,  \* versions of the file that is found at first
    Stored(_),       \* its tables, by its version
    MaxPatches,      \* bounds: patches placed, requests served, count of a warning
    MaxRequests,
    MaxCount,
    SourceInputs, TargetInputs, BatchInputs, InstanceInputs, NetworkInputs,  \* what requests
    WindowInputs, EntryInputs, WarningInputs, ArtifactInputs,                \* bring
    Connectivity     \* how sources and targets answer when they are tried

ASSUME BoundsAssumption == MaxPatches \in Nat /\ MaxRequests \in Nat
ASSUME VersionsAssumption == Releases \subseteq Nat /\ StoredVersions \subseteq Nat

VARIABLES
    file,      \* local.db: its version, its tables and how many patches it has had
    backup,    \* local.db.bak, Null if there is none
    patch,     \* whether there is a patch.local.sql
    placed,    \* how many there have been
    release,   \* the version that the installed release expects
    daemon,    \* where the daemon is with the file
    requests   \* how many requests have been served

vars == <<file, backup, patch, placed, release, daemon, requests>>

Off == [phase |-> "off"]

\* The phases of a start are "patch", "remove", "update" and "enable".
In(phase) == daemon.phase = phase

Init == /\ \E v \in StoredVersions : file = [version |-> v, tables |-> Stored(v), patches |-> 0]
        /\ backup = Null /\ patch = FALSE /\ placed = 0 /\ requests = 0
        /\ release \in Releases /\ daemon = Off

-----------------------------------------------------------------------------
(* The operator *)

Install(r) == /\ In("off") /\ r # release /\ release' = r
              /\ UNCHANGED <<file, backup, patch, placed, daemon, requests>>

PlacePatch == /\ In("off") /\ ~patch /\ placed < MaxPatches
              /\ patch' = TRUE /\ placed' = placed + 1
              /\ UNCHANGED <<file, backup, release, daemon, requests>>

-----------------------------------------------------------------------------
(* A start: OpenDatabase, EnsureSchema and Ensure *)

\* The transaction starts with what the file has; foreign keys are off.
Start == /\ In("off")
         /\ daemon' = [phase |-> "patch", backupDone |-> FALSE,
                       work |-> file, foreign |-> FALSE]
         /\ UNCHANGED <<file, backup, patch, placed, release, requests>>

\* Mutant: an earlier backup is kept.
MakeFirstBackup == backup' = IF backup # Null THEN backup ELSE file

\* The hook: the file is copied once, before the first change.
MakeBackup == backup' = IF daemon.backupDone THEN backup ELSE file

\* execFromFile: its statements are not told, only that they have been run.
RunPatch == /\ In("patch") /\ patch /\ MakeBackup
            /\ daemon' = [daemon EXCEPT !.phase = "remove", !.backupDone = TRUE,
                                        !.work.patches = @ + 1]
            /\ UNCHANGED <<file, patch, placed, release, requests>>

RemovePatch == /\ In("remove") /\ patch' = FALSE
               /\ daemon' = [daemon EXCEPT !.phase = "update"]
               /\ UNCHANGED <<file, backup, placed, release, requests>>

SkipPatch == /\ In("patch") /\ ~patch
             /\ daemon' = [daemon EXCEPT !.phase = "update"]
             /\ UNCHANGED <<file, backup, patch, placed, release, requests>>

\* Tables of one version, brought to a later one.
Updated(t, from, to) ==
    LET at[v \in from .. to] == IF v = from THEN t ELSE Update(v, at[v - 1])
    IN  at[to]

\* The schema of a release, which is what its updates make of no tables.
FreshTables(r) == Updated(<< >>, 0, r)

\* A file without a version gets the tables of the release, without a backup.
CreateSchema ==
    /\ In("update") /\ daemon.work.version = 0
    /\ daemon' = [daemon EXCEPT !.work.version = release, !.work.tables = FreshTables(release)]
    /\ UNCHANGED <<file, backup, patch, placed, release, requests>>

ApplyUpdate ==
    /\ In("update") /\ daemon.work.version # 0 /\ daemon.work.version < release
    /\ MakeBackup
    /\ daemon' = [daemon EXCEPT !.backupDone = TRUE,
                                !.work.version = @ + 1,
                                !.work.tables = Update(daemon.work.version + 1, @)]
    /\ UNCHANGED <<file, patch, placed, release, requests>>

\* A step of a start returns an error (the version is more recent than the
\* release expects, an update fails, the disk is full) or the daemon is
\* stopped or dies: what is not committed is lost.
Stop == /\ ~In("off") /\ daemon' = Off
        /\ UNCHANGED <<file, backup, patch, placed, release, requests>>

CommitUpdates == /\ In("update") /\ daemon.work.version = release
                 /\ file' = daemon.work
                 /\ daemon' = [daemon EXCEPT !.phase = "enable"]
                 /\ UNCHANGED <<backup, patch, placed, release, requests>>

\* Mutant: the foreign keys stay off.
LeaveForeignKeysOff == /\ In("enable")
                       /\ daemon' = [daemon EXCEPT !.phase = "serving"]
                       /\ UNCHANGED <<file, backup, patch, placed, release, requests>>

EnableForeignKeys == /\ In("enable")
                     /\ daemon' = [daemon EXCEPT !.phase = "serving", !.foreign = TRUE]
                     /\ UNCHANGED <<file, backup, patch, placed, release, requests>>

-----------------------------------------------------------------------------
(* Requests: one transaction each *)

\* The connection as a transaction begins.
conn == [tables |-> file.tables, foreign |-> daemon.foreign, err |-> "none"]
Here == file.tables

Commit(c) == /\ c.err = "none"
             /\ file' = [file EXCEPT !.tables = c.tables]
             /\ requests' = requests + 1
             /\ UNCHANGED <<backup, patch, placed, release, daemon>>

SourceRequest ==
    \E o \in SourceInputs, status \in Connectivity :
        \/ Commit(sourcesPost(conn, o, status))
        \/ \E name \in GetSourceNames(Here, {}) :
               \/ \E seen \in Seen(GetSources(Here, {}).objects) :
                      Commit(sourcePut(conn, name, seen, o, status))
               \/ Commit(sourceDelete(conn, name))

\* The last one is a target as it was before, when a login at it began.
TargetRequest ==
    \E o \in TargetInputs, status \in Connectivity :
        \/ Commit(targetsPost(conn, o, status))
        \/ \E name \in GetTargetNames(Here, {}) :
               \/ \E seen \in Seen(GetTargets(Here, {}).objects) :
                      Commit(targetPut(conn, name, seen, o, status))
               \/ Commit(targetDelete(conn, name))
               \/ Commit(FinishLogin(conn, name, o, status))

\* The sync writes what it has found of instances and networks.
InstanceRequest ==
    \/ \E o \in InstanceInputs : Commit(CreateInstance(conn, o))
    \/ \E uuid \in GetInstanceNames(Here, {}) :
           \/ \E overrides \in {NoOverride, "disabled"},
                  seen \in Seen(GetInstances(Here, {}).objects) :
                  Commit(instanceOverridePut(conn, uuid, seen, overrides))
           \/ Commit(instanceOverrideDelete(conn, uuid))
           \/ Commit(DeleteInstanceByUUID(conn, uuid))

NetworkRequest ==
    \/ \E o \in NetworkInputs : \/ Commit(CreateNetwork(conn, o))
                              \/ Commit(UpdateNetwork(conn, o.source_specific_id, o.source, o))
    \/ \E o \in GetNetworks(Here, {}).objects :
           \/ \E overrides \in {NoOverride, "placed"},
                  seen \in Seen(GetNetworks(Here, {}).objects) :
                  Commit(networkOverridePut(conn, o.uuid, seen, overrides))
           \/ Commit(networkDelete(conn, o.uuid))

BatchRequest ==
    \/ \E o \in BatchInputs : Commit(CreateBatch(conn, o))
    \/ \E name \in GetBatchNames(Here, {}), o \in BatchInputs : Commit(UpdateBatch(conn, name, o))
    \/ \E name \in GetBatchNames(Here, {}) : Commit(DeleteBatch(conn, name))

MemberRequest ==
    \E batch \in GetBatchNames(Here, {}), uuid \in GetInstanceNames(Here, {}) :
        Commit(AssignBatch(conn, batch, uuid)) \/ Commit(UnassignBatch(conn, batch, uuid))

WindowRequest ==
    \E o \in WindowInputs : \/ Commit(CreateMigrationWindow(conn, o))
                           \/ Commit(UpdateMigrationWindow(conn, o.name, o.batch, o))
                           \/ Commit(DeleteMigrationWindow(conn, o.name, o.batch))

\* The windows that an entry of a batch may be assigned, or none.
WindowNames(batch) ==
    {w.name : w \in GetMigrationWindows(Here, {[batch |-> batch]}).objects} \cup {Null}

\* A window of an entry is looked up by its name.
QueueRequest ==
    \/ \E o \in EntryInputs : \E window \in WindowIDs(Here, o.migration_window_name) :
           Commit(CreateQueueEntry(conn, o, window))
    \/ \E o \in GetQueueEntries(Here, {}).objects :
           \/ \E name \in WindowNames(o.batch_name) : \E window \in WindowIDs(Here, name) :
                  Commit(UpdateQueueEntry(conn, o.instance_uuid,
                                          [o EXCEPT !.migration_window_name = name], window))
           \/ Commit(DeleteQueueEntry(conn, o.instance_uuid))
    \/ \E batch \in GetBatchNames(Here, {}) : Commit(DeleteQueueEntries(conn, batch))

WarningRequest ==
    \/ \E w \in WarningInputs : /\ \A o \in GetWarnings(Here, {}).objects : o.count < MaxCount
                              /\ Commit(Emit(conn, w))
    \/ \E w \in WarningInputs, new \in SUBSET WarningInputs :
           Commit(RemoveStale(conn, Only(w, ScopeColumns), new))
    \/ \E o \in GetWarnings(Here, {}).objects :
           \/ \E seen \in Seen(GetWarnings(Here, {}).objects), status \in {"new", "acknowledged"} :
                  Commit(warningPut(conn, o.uuid, seen, status))
           \/ Commit(DeleteWarning(conn, o.uuid))

ArtifactRequest ==
    \E o \in ArtifactInputs :
        \/ Commit(artifactsPost(conn, o))
        \/ \E old \in GetArtifacts(Here, {}).objects :
               \/ Commit(artifactPut(conn, old.uuid, o.properties))
               \/ Commit(artifactDelete(conn, old.uuid))

\* This release serves requests; what others do with the file is not told.
Request == /\ In("serving") /\ file.version = MaxSupportedSchema /\ requests < MaxRequests
           /\ \/ SourceRequest \/ TargetRequest \/ InstanceRequest \/ NetworkRequest
              \/ BatchRequest \/ MemberRequest \/ WindowRequest \/ QueueRequest
              \/ WarningRequest \/ ArtifactRequest

-----------------------------------------------------------------------------
Next == \/ \E r \in Releases : Install(r)
        \/ PlacePatch
        \/ Start \/ RunPatch \/ RemovePatch \/ SkipPatch
        \/ CreateSchema \/ ApplyUpdate \/ CommitUpdates \/ EnableForeignKeys
        \/ Stop
        \/ Request

Spec == Init /\ [][Next]_vars
=============================================================================
