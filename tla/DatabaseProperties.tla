------------------------- MODULE DatabaseProperties -------------------------
(***************************************************************************)
(* What the database guarantees, and what it means to the rest of the      *)
(* daemon.                                                                 *)
(***************************************************************************)
EXTENDS Database

\* A start changes the file only as a whole: to the version its release
\* expects, with a backup of the file as it was (unless it was empty), and
\* with no patch left that has been applied and would be again (Ensure,
\* EnsureSchema's hook and execFromFile).
StartIsSafe == [][file' # file /\ ~In("serving") =>
    /\ file'.version = release
    /\ file.version # 0 => backup = file
    /\ file'.patches > file.patches => ~patch]_vars

-----------------------------------------------------------------------------
(* The catalog that tables of any version hold *)

Table(t, table) == IF table \in DOMAIN t THEN t[table] ELSE {}
Names(t, table) == {r.name : r \in Table(t, table)}

\* What a row refers to, Null if it is not there.
Referred(t, table, id, column) ==
    LET found == Matching(Table(t, table), [id |-> id])
    IN  IF found = {} THEN Null ELSE (CHOOSE r \in found : TRUE)[column]
InstanceOf(t, id) == Referred(t, "instances", id, "uuid")
BatchOf(t, id) == Referred(t, "batches", id, "name")

Sources(t) == {<<i.uuid, Referred(t, "sources", i.source_id, "name")>> : i \in Table(t, "instances")}
Entries(t) == {<<InstanceOf(t, q.instance_id), BatchOf(t, q.batch_id)>> : q \in Table(t, "queue")}

\* Up to version 2 an instance is in one batch at most, and a batch has one
\* window; up to version 17 batches share windows.
Members(t) ==
    IF "instances_batches" \in DOMAIN t
    THEN {<<InstanceOf(t, a.instance_id), BatchOf(t, a.batch_id)>> : a \in t.instances_batches}
    ELSE {<<i.uuid, BatchOf(t, i.batch_id)>> : i \in {i \in Table(t, "instances") : i.batch_id # Null}}
Spans(t) ==
    CASE "migration_windows" \notin DOMAIN t -> {<<b.span, b.name>> : b \in Table(t, "batches")}
      [] "batches_migration_windows" \in DOMAIN t ->
             {<<Referred(t, "migration_windows", a.migration_window_id, "span"),
                BatchOf(t, a.batch_id)>> : a \in t.batches_migration_windows}
      [] OTHER -> {<<w.span, BatchOf(t, w.batch_id)>> : w \in t.migration_windows}

TheCatalog == INSTANCE Catalog WITH
    sources <- Names(file.tables, "sources"),
    targets <- Names(file.tables, "targets"),
    batches <- Names(file.tables, "batches"),
    sourceOf <- Sources(file.tables),
    members <- Members(file.tables),
    entries <- Entries(file.tables),
    windows <- Spans(file.tables),
    warnings <- {<<ScopeAndType(w), w.uuid, w.count>> : w \in Table(file.tables, "warnings")},
    artifacts <- {With(a.properties, [uuid |-> a.uuid, type |-> a.type]) :
                     a \in Table(file.tables, "artifacts")}

\* Every start leaves the catalog as it is, from whatever version the file
\* has, and every request changes it as one by names would: renaming carries
\* everything along, removing takes everything with it, and nothing else does.
ImplementsCatalog == TheCatalog!Spec
=============================================================================
