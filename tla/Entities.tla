----------------------------- MODULE Entities ------------------------------
(***************************************************************************)
(* The generated mappers of internal/migration/repo/sqlite/entities: how   *)
(* the daemon reads and writes its records.  A record refers to others by  *)
(* their names, a row by their ids; the mappers translate between them     *)
(* with joins and sub-selects.  t are the tables that a reader sees, c is  *)
(* the connection of a writer.                                             *)
(***************************************************************************)
EXTENDS Tables

\* A query that a filter of the mapper may ask for, or an error if there is no
\* statement for it.  Filters are alternatives, none asks for everything.
Select(objects, filters, statements) ==
    IF \A f \in filters : DOMAIN f \in statements
    THEN [objects |-> {o \in objects : filters = {} \/ \E f \in filters : Matches(o, f)},
          err |-> "none"]
    ELSE [objects |-> {}, err |-> "error"]

\* GetOne: what a filter on the key has found.
One(selected) == CASE selected.err # "none" -> [object |-> Null, err |-> selected.err]
    [] selected.objects = {} -> [object |-> Null, err |-> "not_found"]
    [] Cardinality(selected.objects) = 1 ->
           [object |-> CHOOSE o \in selected.objects : TRUE, err |-> "none"]
    [] OTHER -> [object |-> Null, err |-> "error"]

\* A sub-select: the id of the row with a key, NULL if there is none.
Id(rows, key) == IF Matching(rows, key) = {} THEN Null
                 ELSE (CHOOSE r \in Matching(rows, key) : TRUE).id

\* Update: the row of an id that was asked for before.
UpdateOne(c, table, id, columns) ==
    IF id = Null THEN Result(c, "not_found")
    ELSE Set(c, table, Matching(c.tables[table], [id |-> id]), columns)

Rename(c, table, name, to) ==
    LET rows == Matching(c.tables[table], [name |-> name])
    IN  IF rows = {} THEN Result(c, "error") ELSE Set(c, table, rows, [name |-> to])

DeleteOne(c, table, key) ==
    LET rows == Matching(c.tables[table], key)
    IN  IF rows = {} THEN Result(c, "not_found") ELSE Delete(c, table, rows)

-----------------------------------------------------------------------------
(* Sources *)

SourceColumns == {"id", "name", "source_type", "properties"}
SourceObjects(t) == {Only(r, SourceColumns) : r \in t.sources}
GetSources(t, filters) ==
    Select(SourceObjects(t), filters, {{"name"}, {"source_type"}, {"name", "source_type"}})
GetSource(t, name) == One(GetSources(t, {[name |-> name]}))
GetSourceID(t, name) == Id(t.sources, [name |-> name])
SourceExists(t, name) == GetSourceID(t, name) # Null
GetSourceNames(t, filters) == {o.name : o \in GetSources(t, filters).objects}
SourceRow(o) == Only(o, SourceColumns \ {"id"})
CreateSource(c, o) == Insert(c, "sources", SourceRow(o))
UpdateSource(c, name, o) ==
    UpdateOne(c, "sources", GetSourceID(c.tables, name), SourceRow(o))
RenameSource(c, name, to) == Rename(c, "sources", name, to)
DeleteSource(c, name) == DeleteOne(c, "sources", [name |-> name])

-----------------------------------------------------------------------------
(* Targets *)

TargetColumns == {"id", "name", "target_type", "properties"}
TargetObjects(t) == {Only(r, TargetColumns) : r \in t.targets}
GetTargets(t, filters) == Select(TargetObjects(t), filters, {{"name"}})
GetTarget(t, name) == One(GetTargets(t, {[name |-> name]}))
GetTargetID(t, name) == Id(t.targets, [name |-> name])
TargetExists(t, name) == GetTargetID(t, name) # Null
GetTargetNames(t, filters) == {o.name : o \in GetTargets(t, filters).objects}
TargetRow(o) == Only(o, TargetColumns \ {"id"})
CreateTarget(c, o) == Insert(c, "targets", TargetRow(o))
UpdateTarget(c, name, o) ==
    UpdateOne(c, "targets", GetTargetID(c.tables, name), TargetRow(o))
RenameTarget(c, name, to) == Rename(c, "targets", name, to)
DeleteTarget(c, name) == DeleteOne(c, "targets", [name |-> name])

-----------------------------------------------------------------------------
(* Batches *)

BatchColumns ==
    {"id", "name", "status", "include_expression", "constraints", "start_date", "defaults", "config"}
BatchObjects(t) == {Only(r, BatchColumns) : r \in t.batches}
GetBatches(t, filters) == Select(BatchObjects(t), filters, {{"id"}, {"name"}, {"status"}})
GetBatch(t, name) == One(GetBatches(t, {[name |-> name]}))
GetBatchID(t, name) == Id(t.batches, [name |-> name])
BatchExists(t, name) == GetBatchID(t, name) # Null
GetBatchNames(t, filters) ==
    {o.name : o \in Select(BatchObjects(t), filters, {{"status"}}).objects}
BatchRow(o) == Only(o, BatchColumns \ {"id"})
CreateBatch(c, o) == Insert(c, "batches", BatchRow(o))
UpdateBatch(c, name, o) ==
    UpdateOne(c, "batches", GetBatchID(c.tables, name), BatchRow(o))
RenameBatch(c, name, to) == Rename(c, "batches", name, to)
DeleteBatch(c, name) == DeleteOne(c, "batches", [name |-> name])

-----------------------------------------------------------------------------
(* Instances: their source by its name *)

InstanceColumns ==
    {"id", "uuid", "source", "source_type", "last_update_from_source", "overrides", "properties"}
InstanceObjects(t) == {
    Only(With(p[1], [source |-> p[2].name, source_type |-> p[2].source_type]), InstanceColumns) :
    p \in {p \in t.instances \X t.sources : p[1].source_id = p[2].id}}

\* The overrides are JSON: a row whose overrides cannot be read fails a query.
Readable(selected) ==
    IF \E o \in selected.objects : o.overrides = "unreadable"
    THEN [objects |-> {}, err |-> "error"] ELSE selected

GetInstances(t, filters) ==
    Readable(Select(InstanceObjects(t), filters, {{"id"}, {"uuid"}, {"source"}}))
GetInstance(t, uuid) == One(GetInstances(t, {[uuid |-> uuid]}))
GetInstanceID(t, uuid) == Id(t.instances, [uuid |-> uuid])
GetInstanceNames(t, filters) ==
    {o.uuid : o \in Select(InstanceObjects(t), filters, {{"uuid"}, {"source"}}).objects}
InstanceRow(t, o) ==
    With(Only(o, {"uuid", "last_update_from_source", "overrides", "properties"}),
         [source_id |-> GetSourceID(t, o.source)])
CreateInstance(c, o) == Insert(c, "instances", InstanceRow(c.tables, o))
UpdateInstance(c, uuid, o) ==
    UpdateOne(c, "instances", GetInstanceID(c.tables, uuid), InstanceRow(c.tables, o))
DeleteInstance(c, uuid) == DeleteOne(c, "instances", [uuid |-> uuid])

-----------------------------------------------------------------------------
(* Instances and their batches *)

InstancesOf(t, assigned) ==
    {i.id : i \in {i \in t.instances :
        \E a \in assigned : a.instance_id = i.id}}
GetBatchInstances(t, batchID) ==
    GetInstances(t, {[id |-> i] : i \in InstancesOf(t, Matching(t.instances_batches, [batch_id |-> batchID]))})
GetInstanceBatches(t, instanceID) ==
    {b \in BatchObjects(t) : \E a \in t.instances_batches :
        a.batch_id = b.id /\ a.instance_id = instanceID}
GetInstancesInRunningBatches(t) ==
    Readable([objects |-> {i \in InstanceObjects(t) : \E b \in GetInstanceBatches(t, i.id) :
                               b.status \in {"RUNNING", "ERROR"}},
              err |-> "none"])
\* The instances of a batch, or those of none if batch is Null.
GetInstancesByBatch(t, batch) ==
    Readable([objects |-> {i \in InstanceObjects(t) :
                  IF batch = Null THEN GetInstanceBatches(t, i.id) = {}
                  ELSE \E b \in GetInstanceBatches(t, i.id) : b.name = batch},
              err |-> "none"])
GetBatchesByInstance(t, uuid) == GetInstanceBatches(t, GetInstanceID(t, uuid))
CreateInstanceBatches(c, batchID, instanceID) ==
    Insert(c, "instances_batches", [batch_id |-> batchID, instance_id |-> instanceID])
DeleteInstanceBatches(c, instanceID) ==
    Delete(c, "instances_batches", Matching(c.tables.instances_batches, [instance_id |-> instanceID]))
DeleteInstanceBatch(c, instanceID, batchID) ==
    DeleteOne(c, "instances_batches", [instance_id |-> instanceID, batch_id |-> batchID])

\* With an existing batch and instance.
AssignBatch(c, batch, uuid) ==
    LET b == GetBatch(c.tables, batch)
        i == GetInstance(c.tables, uuid)
    IN  CASE b.err # "none" -> Result(c, b.err)
          [] b.err = "none" /\ i.err # "none" -> Result(c, i.err)
          [] OTHER -> CreateInstanceBatches(c, b.object.id, i.object.id)
UnassignBatch(c, batch, uuid) ==
    LET b == GetBatch(c.tables, batch)
        i == GetInstance(c.tables, uuid)
    IN  CASE b.err # "none" -> Result(c, b.err)
          [] b.err = "none" /\ i.err # "none" -> Result(c, i.err)
          [] OTHER -> DeleteInstanceBatch(c, i.object.id, b.object.id)

-----------------------------------------------------------------------------
(* Networks: by their id at a source *)

NetworkColumns ==
    {"id", "uuid", "type", "source_specific_id", "location", "source", "properties", "overrides"}
NetworkObjects(t) == {Only(With(p[1], [source |-> p[2].name]), NetworkColumns) :
    p \in {p \in t.networks \X t.sources : p[1].source_id = p[2].id}}
GetNetworks(t, filters) ==
    Select(NetworkObjects(t), filters,
           {{"source_specific_id"}, {"source_specific_id", "source"}, {"source"}, {"uuid"}})
NetworkKey(specific, source) == [source_specific_id |-> specific, source |-> source]
GetNetwork(t, specific, source) == One(GetNetworks(t, {NetworkKey(specific, source)}))
GetNetworkByUUID(t, uuid) == One(GetNetworks(t, {[uuid |-> uuid]}))
GetNetworkID(t, specific, source) == Id(NetworkObjects(t), NetworkKey(specific, source))
NetworkExists(t, specific, source) == GetNetworkID(t, specific, source) # Null
NetworkRow(t, o) ==
    With(Only(o, NetworkColumns \ {"id", "source"}), [source_id |-> GetSourceID(t, o.source)])
CreateNetwork(c, o) == Insert(c, "networks", NetworkRow(c.tables, o))
UpdateNetwork(c, specific, source, o) ==
    UpdateOne(c, "networks", GetNetworkID(c.tables, specific, source), NetworkRow(c.tables, o))
DeleteNetwork(c, specific, source) ==
    DeleteOne(c, "networks",
              [source_specific_id |-> specific, source_id |-> GetSourceID(c.tables, source)])

-----------------------------------------------------------------------------
(* Windows: by their name in a batch *)

WindowColumns == {"id", "name", "span", "batch", "config"}
WindowObjects(t) == {Only(With(p[1], [batch |-> p[2].name]), WindowColumns) :
    p \in {p \in t.migration_windows \X t.batches : p[1].batch_id = p[2].id}}
GetMigrationWindows(t, filters) ==
    Select(WindowObjects(t), filters, {{"id"}, {"name"}, {"batch"}, {"name", "batch"}})
WindowKey(name, batch) == [name |-> name, batch |-> batch]
GetMigrationWindow(t, name, batch) == One(GetMigrationWindows(t, {WindowKey(name, batch)}))
GetMigrationWindowID(t, name, batch) == Id(WindowObjects(t), WindowKey(name, batch))
WindowRow(t, o) ==
    With(Only(o, {"name", "span", "config"}), [batch_id |-> GetBatchID(t, o.batch)])
CreateMigrationWindow(c, o) == Insert(c, "migration_windows", WindowRow(c.tables, o))
UpdateMigrationWindow(c, name, batch, o) ==
    UpdateOne(c, "migration_windows", GetMigrationWindowID(c.tables, name, batch), WindowRow(c.tables, o))
DeleteMigrationWindow(c, name, batch) ==
    DeleteOne(c, "migration_windows", [name |-> name, batch_id |-> GetBatchID(c.tables, batch)])

-----------------------------------------------------------------------------
(* The queue: an entry by its instance, its batch and window by their names *)

QueueData == {"secret_token", "import_stage", "migration_status", "last_worker_status",
              "last_background_sync", "placement"}
QueueColumns == {"id", "instance_uuid", "batch_name", "migration_window_name"} \cup QueueData

\* LEFT JOIN migration_windows: an entry without a window, or whose window is
\* gone, has none.
WindowName(t, id) == IF \E w \in t.migration_windows : w.id = id
                     THEN (CHOOSE w \in t.migration_windows : w.id = id).name ELSE Null
QueueObjects(t) == {
    Only(With(e[1], [instance_uuid |-> e[2].uuid, batch_name |-> e[3].name,
                     migration_window_name |-> WindowName(t, e[1].migration_window_id)]),
         QueueColumns) :
    e \in {e \in t.queue \X t.instances \X t.batches :
               e[1].instance_id = e[2].id /\ e[1].batch_id = e[3].id}}
GetQueueEntries(t, filters) ==
    Select(QueueObjects(t), filters,
           {{"instance_uuid"}, {"batch_name"}, {"migration_status"}, {"import_stage"},
            {"batch_name", "migration_status"}, {"batch_name", "import_stage"},
            {"batch_name", "migration_status", "import_stage"}})
GetQueueEntry(t, uuid) == One(GetQueueEntries(t, {[instance_uuid |-> uuid]}))
EntryKey(t, uuid) == [instance_id |-> GetInstanceID(t, uuid)]
GetQueueEntryID(t, uuid) == Id(t.queue, EntryKey(t, uuid))

\* The rows the sub-select of a window may find: those of its name, for the
\* batch_id it compares the batch with is the window's own.  Null if none.
WindowIDs(t, name) ==
    LET found == {w.id : w \in Matching(t.migration_windows, [name |-> name])}
    IN  IF name = Null \/ found = {} THEN {Null} ELSE found

\* window is one of WindowIDs(t, o.migration_window_name).
QueueRow(t, o, window) ==
    With(Only(o, QueueData), [instance_id |-> GetInstanceID(t, o.instance_uuid),
                              batch_id |-> GetBatchID(t, o.batch_name),
                              migration_window_id |-> window])
CreateQueueEntry(c, o, window) == Insert(c, "queue", QueueRow(c.tables, o, window))
UpdateQueueEntry(c, uuid, o, window) ==
    UpdateOne(c, "queue", GetQueueEntryID(c.tables, uuid), QueueRow(c.tables, o, window))
DeleteQueueEntry(c, uuid) == DeleteOne(c, "queue", EntryKey(c.tables, uuid))
DeleteQueueEntries(c, batch) ==
    Delete(c, "queue", Matching(c.tables.queue, [batch_id |-> GetBatchID(c.tables, batch)]))

-----------------------------------------------------------------------------
(* Warnings and artifacts *)

\* (without the dates it was seen at)
WarningColumns ==
    {"id", "uuid", "type", "scope", "entity_type", "entity", "status", "messages", "count"}
WarningObjects(t) == {Only(r, WarningColumns) : r \in t.warnings}
GetWarnings(t, filters) ==
    Select(WarningObjects(t), filters,
           {{"uuid"}, {"type"}, {"type", "scope"}, {"type", "scope", "entity_type"},
            {"type", "scope", "entity_type", "entity"}})
GetWarning(t, uuid) == One(GetWarnings(t, {[uuid |-> uuid]}))
GetWarningID(t, uuid) == Id(t.warnings, [uuid |-> uuid])
WarningRow(o) == Only(o, WarningColumns \ {"id"})
CreateOrReplaceWarning(c, o) == InsertOrReplace(c, "warnings", WarningRow(o))
UpdateWarning(c, uuid, o) ==
    UpdateOne(c, "warnings", GetWarningID(c.tables, uuid), WarningRow(o))
DeleteWarning(c, uuid) == DeleteOne(c, "warnings", [uuid |-> uuid])

ArtifactColumns == {"id", "uuid", "type", "properties", "last_updated"}
ArtifactObjects(t) == {Only(r, ArtifactColumns) : r \in t.artifacts}
GetArtifacts(t, filters) == Select(ArtifactObjects(t), filters, {{"id"}, {"uuid"}, {"type"}})
GetArtifact(t, uuid) == One(GetArtifacts(t, {[uuid |-> uuid]}))
GetArtifactID(t, uuid) == Id(t.artifacts, [uuid |-> uuid])
ArtifactExists(t, uuid) == GetArtifactID(t, uuid) # Null
ArtifactRow(o) == Only(o, ArtifactColumns \ {"id"})
CreateArtifact(c, o) == Insert(c, "artifacts", ArtifactRow(o))
UpdateArtifact(c, uuid, o) ==
    UpdateOne(c, "artifacts", GetArtifactID(c.tables, uuid), ArtifactRow(o))
DeleteArtifact(c, uuid) == DeleteOne(c, "artifacts", [uuid |-> uuid])
=============================================================================
