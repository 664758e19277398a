--------------------------- MODULE SchemaUpdates ---------------------------
(***************************************************************************)
(* internal/db/update.go: the updates that take the tables of one version  *)
(* of the schema to those of the next.  updateFromV3 is applied to tables  *)
(* of version 3 and leaves those of version 4.  Foreign keys are off while *)
(* they run; what an update copies to a new table is written out here, the *)
(* columns it leaves alone are not.                                        *)
(***************************************************************************)
EXTENDS Tables, Sequences

\* t with every row r of a table replaced by New(r).
Rewritten(t, table, New(_)) == [t EXCEPT ![table] = {New(r) : r \in @}]

\* ids for some values.
Numbering(values) ==
    CHOOSE f \in [values -> 1 .. Cardinality(values)] :
        \A v, w \in values : f[v] = f[w] => v = w

updateFromV0(t) ==
    [table \in {"batches", "instances", "instance_overrides", "networks", "sources", "targets"} |-> {}]

updateFromV1(t) ==
    LET NewNetwork(n) == With(n, [location |-> ""])
    IN  Rewritten(t, "networks", NewNetwork)

-----------------------------------------------------------------------------
(* Version 2 to 3: instances leave the columns of their migration to the   *)
(* queue, which is empty, batches their window to a table                  *)

\* What becomes of the row of instance_overrides of an instance.  Its flag
\* disable_migration is written as a string, which cannot be read back.
MergedOverrides(t, i) ==
    CASE Matching(t.instance_overrides, [uuid |-> i.uuid]) = {} -> "{}"
      [] i.migration_status = "User disabled migration"
             /\ Matching(t.instance_overrides, [uuid |-> i.uuid]) # {} -> "disabled"
      [] OTHER -> "unreadable"

NewInstances(t) ==
    {With(Only(i, {"id", "uuid", "last_update_from_source", "source_id", "properties"}),
          [overrides |-> MergedOverrides(t, i)]) : i \in t.instances}

\* One window for all the batches of the same span, without a lockout.
WindowId(t) == Numbering({b.span : b \in t.batches})
NewWindows(t) == {[id |-> WindowId(t)[span], span |-> span] : span \in {b.span : b \in t.batches}}

updateFromV2(t) ==
    LET rowid == Numbering(t.batches)
    IN  [table \in (DOMAIN t \ {"instance_overrides"}) \cup
             {"queue", "migration_windows", "instances_batches", "batches_migration_windows"} |->
            CASE table = "queue" -> {}
              [] table = "migration_windows" -> NewWindows(t)
              [] table = "batches_migration_windows" ->
                     {[id |-> rowid[b], migration_window_id |-> WindowId(t)[b.span],
                       batch_id |-> b.id] : b \in t.batches}
              [] table = "instances_batches" ->
                     {[id |-> i.id, instance_id |-> i.id, batch_id |-> i.batch_id] :
                         i \in {i \in t.instances : \E b \in t.batches : b.id = i.batch_id}}
              [] table = "instances" -> NewInstances(t)
              [] table = "batches" -> {Without(b, {"span"}) : b \in t.batches}
              [] OTHER -> t[table]]

-----------------------------------------------------------------------------
(* Versions 3 to 14 *)

updateFromV3(t) ==
    LET NewBatch(b) == With(b, [constraints |-> "[]"])
    IN  Rewritten(t, "batches", NewBatch)

\* The networks are not copied: the next sync finds them again.
updateFromV4(t) == [t EXCEPT !.networks = {}]

updateFromV5(t) ==
    LET NewNetwork(n) == With(Without(n, {"name", "config"}),
                              [identifier |-> n.name, overrides |-> "{}"])
    IN  Rewritten(t, "networks", NewNetwork)

updateFromV6(t) ==
    LET NewEntry(q) == With(q, [last_worker_status |-> 0])
    IN  Rewritten(t, "queue", NewEntry)

\* Networks go with their source from now on.
updateFromV7(t) == t

updateFromV8(t) ==
    LET NewBatch(b) == With(b, [start_date |-> "zero", post_migration_retries |-> 0])
    IN  Rewritten(t, "batches", NewBatch)

updateFromV9(t) ==
    LET NewEntry(q) ==
            With(Without(q, {"needs_disk_import"}),
                 [import_stage |-> IF q.needs_disk_import THEN "background" ELSE "final",
                  migration_window_id |-> Null])
    IN  Rewritten(t, "queue", NewEntry)

\* A batch names its target.  (A batch without a target would be dropped.)
updateFromV10(t) ==
    LET NewEntry(q) == With(q, [placement |-> "{}"])
        Target(b) == CHOOSE g \in t.targets : g.id = b.target_id
        NewBatch(b) ==
            With(Without(b, {"target_id", "target_project", "storage_pool"}),
                 [default_target |-> Target(b).name,
                  default_target_project |-> b.target_project,
                  default_storage_pool |-> b.storage_pool,
                  rerun_scriptlets |-> FALSE, placement_scriptlet |-> ""])
    IN  [t EXCEPT !.queue = {NewEntry(q) : q \in @},
                  !.batches = {NewBatch(b) : b \in {b \in @ : \E g \in t.targets : g.id = b.target_id}}]

updateFromV11(t) == With(t, [warnings |-> {}])

updateFromV12(t) == With(t, [artifacts |-> {}])

updateFromV13(t) ==
    LET NewBatch(b) == With(b, [restriction_overrides |-> "{}"])
    IN  Rewritten(t, "batches", NewBatch)

-----------------------------------------------------------------------------
(* Versions 14 to 20 *)

\* The placement of a batch moves to its defaults, its options to its config.
Consolidated(b) ==
    With(Without(b, {"default_target", "default_target_project", "default_storage_pool",
                     "post_migration_retries", "rerun_scriptlets", "placement_scriptlet",
                     "restriction_overrides"}),
         [defaults |-> [target |-> b.default_target, project |-> b.default_target_project,
                        pool |-> b.default_storage_pool],
          config |-> [rerun |-> b.rerun_scriptlets, retries |-> b.post_migration_retries,
                      restrictions |-> b.restriction_overrides,
                      scriptlet |-> b.placement_scriptlet,
                      interval |-> "10m", limit |-> "10m"]])

updateFromV14(t) ==
    LET NewEntry(q) == With(q, [last_background_sync |-> "zero"])
    IN  [t EXCEPT !.batches = {Consolidated(b) : b \in @}, !.queue = {NewEntry(q) : q \in @}]

updateFromV15(t) ==
    LET NewArtifact(a) == With(a, [last_updated |-> "now"])
    IN  Rewritten(t, "artifacts", NewArtifact)

\* A network gets a UUID of its own.
updateFromV16(t) ==
    LET NewNetwork(n) == With(Without(n, {"identifier"}),
                              [source_specific_id |-> n.identifier, uuid |-> "network_" \o ToString(n.id)])
    IN  Rewritten(t, "networks", NewNetwork)

\* A window becomes one for each of its batches, under the rowid of the
\* assignment; the entries of the queue keep the id they have.
updateFromV17(t) ==
    [table \in DOMAIN t \ {"batches_migration_windows"} |->
        IF table # "migration_windows" THEN t[table]
        ELSE {[id |-> p[2].id, name |-> "window_" \o ToString(p[1].id), span |-> p[1].span,
               config |-> "{}", batch_id |-> p[2].batch_id] :
              p \in {p \in t.migration_windows \X t.batches_migration_windows :
                         p[2].migration_window_id = p[1].id}}]

updateFromV18(t) ==
    LET NewSource(s) == IF s.source_type = "nsx" THEN With(s, [source_type |-> "nsx-t"]) ELSE s
    IN  Rewritten(t, "sources", NewSource)

\* The keys tag.<category> of an instance's config become its tags.
updateFromV19(t) ==
    LET NewInstance(i) == IF i.properties = "tag.category" THEN With(i, [properties |-> "tags"])
                          ELSE i
    IN  Rewritten(t, "instances", NewInstance)

-----------------------------------------------------------------------------
\* The updates that a release has: version v is reached by Update(v).
MaxSupportedSchema == 20

Update(v, t) ==
    CASE v = 1 -> updateFromV0(t)   [] v = 2 -> updateFromV1(t)
      [] v = 3 -> updateFromV2(t)   [] v = 4 -> updateFromV3(t)
      [] v = 5 -> updateFromV4(t)   [] v = 6 -> updateFromV5(t)
      [] v = 7 -> updateFromV6(t)   [] v = 8 -> updateFromV7(t)
      [] v = 9 -> updateFromV8(t)   [] v = 10 -> updateFromV9(t)
      [] v = 11 -> updateFromV10(t) [] v = 12 -> updateFromV11(t)
      [] v = 13 -> updateFromV12(t) [] v = 14 -> updateFromV13(t)
      [] v = 15 -> updateFromV14(t) [] v = 16 -> updateFromV15(t)
      [] v = 17 -> updateFromV16(t) [] v = 18 -> updateFromV17(t)
      [] v = 19 -> updateFromV18(t) [] v = 20 -> updateFromV19(t)
=============================================================================
