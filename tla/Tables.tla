------------------------------ MODULE Tables -------------------------------
(***************************************************************************)
(* The tables of the daemon's database, and what SQLite makes of a         *)
(* statement.  Tables are a record with a set of rows for each table; a    *)
(* row is a record of its columns.  An id stands for the row it was given  *)
(* to: it may be given again only when nothing refers to it any more.      *)
(***************************************************************************)
EXTENDS Integers, FiniteSets, TLC

CONSTANT Null

With(r, columns) == columns @@ r
Only(r, columns) == [c \in columns |-> r[c]]
Without(r, columns) == Only(r, DOMAIN r \ columns)
Matches(r, key) == \A c \in DOMAIN key : r[c] = key[c]
Matching(rows, key) == {r \in rows : Matches(r, key)}

-----------------------------------------------------------------------------
(* The constraints of version 20 *)

\* FOREIGN KEY clauses; cascade is ON DELETE CASCADE.
Ref(table, column, to, cascade) ==
    [table |-> table, column |-> column, to |-> to, cascade |-> cascade]

References ==
    {Ref("instances", "source_id", "sources", FALSE),
     Ref("instances_batches", "instance_id", "instances", TRUE),
     Ref("instances_batches", "batch_id", "batches", TRUE),
     Ref("migration_windows", "batch_id", "batches", TRUE),
     Ref("networks", "source_id", "sources", TRUE),
     Ref("queue", "migration_window_id", "migration_windows", FALSE),
     Ref("queue", "instance_id", "instances", TRUE),
     Ref("queue", "batch_id", "batches", TRUE)}

\* UNIQUE clauses; "span" stands for start, end and lockout of a window.
UniqueKeys ==
    [artifacts |-> {{"uuid"}},
     batches |-> {{"name"}},
     instances |-> {{"uuid"}},
     instances_batches |-> {{"batch_id", "instance_id"}},
     migration_windows |-> {{"span", "batch_id"}, {"name", "batch_id"}},
     networks |-> {{"uuid"}, {"source_specific_id", "source_id"}},
     queue |-> {{"instance_id"}},
     sources |-> {{"name"}},
     targets |-> {{"name"}},
     warnings |-> {{"uuid"}, {"type", "scope", "entity_type", "entity"}}]

\* The only column without NOT NULL.
Nullable(table) == IF table = "queue" THEN {"migration_window_id"} ELSE {}

NotNullKept(t) == \A table \in DOMAIN UniqueKeys : \A r \in t[table] :
    \A c \in DOMAIN r \ Nullable(table) : r[c] # Null

UniqueKept(t) == \A table \in DOMAIN UniqueKeys : \A key \in UniqueKeys[table] :
    \A r, s \in t[table] : Matches(r, Only(s, key)) => r = s

\* The references to rows that are not there.
Dangling(t) == UNION {
    {<<ref, r.id>> : r \in {r \in t[ref.table] :
        r[ref.column] # Null /\ \A to \in t[ref.to] : to.id # r[ref.column]}} :
    ref \in References}

-----------------------------------------------------------------------------
(* Statements *)

\* A connection c has the tables as its transaction sees them, and says
\* whether it enforces foreign keys (PRAGMA foreign_keys).  A statement
\* leaves a connection and an error; one that fails changes nothing.
Result(c, err) == [c EXCEPT !.err = err]

\* The statement that makes the tables t of those of c: SQLITE_CONSTRAINT if
\* a constraint is violated, a foreign key by a reference that was not
\* dangling before.
Statement(c, t) ==
    IF /\ NotNullKept(t) /\ UniqueKept(t)
       /\ c.foreign => Dangling(t) \subseteq Dangling(c.tables)
    THEN [c EXCEPT !.tables = t, !.err = "none"]
    ELSE Result(c, "constraint")

FreshId(rows) == CHOOSE i \in 1 .. Cardinality(rows) + 1 : \A r \in rows : r.id # i

\* rows with a new one, whose id is made up.
Plus(rows, columns) == rows \cup {With(columns, [id |-> FreshId(rows)])}

Insert(c, table, columns) ==
    Statement(c, [c.tables EXCEPT ![table] = Plus(@, columns)])

\* INSERT OR REPLACE: the rows in the way of the new one are deleted first.
\* (No table refers to one that is written so.)
InsertOrReplace(c, table, columns) ==
    LET inTheWay == {r \in c.tables[table] :
                        \E key \in UniqueKeys[table] : Matches(r, Only(columns, key))}
    IN  Statement(c, [c.tables EXCEPT ![table] = Plus(@ \ inTheWay, columns)])

\* UPDATE of some rows of a table.
Set(c, table, rows, columns) ==
    Statement(c, [c.tables EXCEPT ![table] = (@ \ rows) \cup {With(r, columns) : r \in rows}])

\* What goes with rows of a table by ON DELETE CASCADE (one level deep: what
\* refers to those rows in turn does not cascade).
Cascaded(table, gone, t) ==
    [other \in DOMAIN t |-> {r \in t[other] : \E ref \in References :
        /\ ref.cascade /\ ref.table = other /\ ref.to = table
        /\ \E g \in gone : r[ref.column] = g.id}]

Delete(c, table, gone) ==
    LET t == [c.tables EXCEPT ![table] = @ \ gone]
        more == Cascaded(table, gone, t)
    IN  Statement(c, IF c.foreign THEN [other \in DOMAIN t |-> t[other] \ more[other]] ELSE t)
=============================================================================
