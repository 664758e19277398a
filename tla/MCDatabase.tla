----------------------------- MODULE MCDatabase -----------------------------
(***************************************************************************)
(* A small database, of any of four ages: none, one of version 1 with two  *)
(* batches of the same window, one of version 9 with an entry in the       *)
(* queue, and one of version 17 whose entry has been assigned its window.  *)
(***************************************************************************)
EXTENDS DatabaseProperties

Untried == [config |-> "p", status |-> "Unknown"]

Version1 ==
    [sources |-> {[id |-> 1, name |-> "s1", source_type |-> "nsx", properties |-> Untried]},
     targets |-> {[id |-> 1, name |-> "t1", target_type |-> "incus", properties |-> Untried]},
     networks |-> {[id |-> 1, name |-> "n1", config |-> "c"]},
     batches |-> {[id |-> i, name |-> IF i = 1 THEN "b1" ELSE "b2", target_id |-> 1,
                   target_project |-> "default", storage_pool |-> "local", status |-> "DEFINED",
                   include_expression |-> "true", span |-> "night"] : i \in 1 .. 2},
     instances |-> {[id |-> i, uuid |-> IF i = 1 THEN "i1" ELSE "i2",
                     migration_status |-> IF i = 1 THEN "Assigned" ELSE "User disabled migration",
                     last_update_from_source |-> "then", last_update_from_worker |-> "then",
                     source_id |-> 1, batch_id |-> i, needs_disk_import |-> TRUE,
                     secret_token |-> "secret", properties |-> "tag.category"] : i \in 1 .. 2},
     instance_overrides |-> {[id |-> 1, uuid |-> "i2", last_update |-> "then", comment |-> "",
                              disable_migration |-> 1, properties |-> "{}"]}]

Version9 ==
    With(Updated(Version1, 1, 9),
         [queue |-> {[id |-> 1, instance_id |-> 1, batch_id |-> 1, migration_status |-> "IDLE",
                      needs_disk_import |-> TRUE, secret_token |-> "secret",
                      last_worker_status |-> 0]},
          networks |-> {[id |-> 1, type |-> "nsx", identifier |-> "n1", location |-> "l",
                         properties |-> "p", overrides |-> "{}", source_id |-> 1]}])

Version17 == LET t == Updated(Version9, 9, 17)
             IN  [t EXCEPT !.queue = {With(q, [migration_window_id |-> 1]) : q \in @}]

MCStored(v) == CASE v = 0 -> << >> [] v = 1 -> Version1 [] v = 9 -> Version9 [] v = 17 -> Version17

MCSources == {[name |-> n, source_type |-> "vmware", properties |-> Untried] : n \in {"s1", "s2"}}
MCTargets == {[name |-> "t2", target_type |-> "incus", properties |-> Untried]}
MCBatches ==
    {[name |-> n, status |-> s, include_expression |-> "true", constraints |-> "[]",
      start_date |-> "zero", defaults |-> [target |-> "t1", project |-> "default", pool |-> "local"],
      config |-> [rerun |-> FALSE, retries |-> 0, restrictions |-> "{}", scriptlet |-> "",
                  interval |-> "10m", limit |-> "10m"]] :
     n \in {"b2", "b3"}, s \in {"DEFINED", "RUNNING"}}
MCInstances ==
    {[uuid |-> "i3", source |-> "s1", last_update_from_source |-> "now", overrides |-> "{}",
      properties |-> "p"]}
MCNetworks ==
    {[uuid |-> "net", type |-> "standard", source_specific_id |-> "n1", location |-> "l",
      source |-> "s1", properties |-> "p", overrides |-> "{}"]}
MCWindows ==
    {[name |-> "window_1", span |-> s, batch |-> "b2", config |-> "{}"] : s \in {"night", "day"}}
MCEntries ==
    {[instance_uuid |-> "i2", batch_name |-> b, migration_window_name |-> Null,
      secret_token |-> "secret", import_stage |-> "background", migration_status |-> "WAITING",
      last_worker_status |-> 0, last_background_sync |-> "zero", placement |-> "{}"] :
     b \in {"b1", "b2"}}
MCWarnings ==
    {[uuid |-> u, type |-> "import", scope |-> "sync", entity_type |-> "source", entity |-> "s1",
      status |-> "new", messages |-> {u}, count |-> 1] : u \in {"w1", "w2"}}
MCArtifacts ==
    {[uuid |-> a[1], type |-> "driver", last_updated |-> "now",
      properties |-> [for |-> "windows", architectures |-> a[2], versions |-> {}]] :
     a \in {<<"a1", {}>>, <<"a2", {"x86_64"}>>, <<"a3", {"x86_64", "aarch64"}>>}}

\* The fresh schema is what the updates make of nothing.
ASSUME FreshTables(MaxSupportedSchema) = [table \in DOMAIN UniqueKeys |-> {}]
=============================================================================
