------------------------------ MODULE Catalog ------------------------------
(***************************************************************************)
(* What the database promises to the rest of the daemon, by names alone:   *)
(* no ids, no joins, no versions.  A start of the daemon, whatever it      *)
(* updates and wherever it fails, is a stuttering step of this module.     *)
(***************************************************************************)
EXTENDS Integers

VARIABLES
    sources, targets, batches,  \* sets of names
    sourceOf,                   \* set of <<instance, source>>
    members,                    \* set of <<instance, batch>>
    entries,                    \* set of <<instance, batch>>: the queue
    windows,                    \* set of <<span, batch>>
    warnings,                   \* set of <<scope and type, uuid, count>>
    artifacts                   \* set of records [uuid, type, for, architectures, versions]

catalog == <<sources, targets, batches, sourceOf, members, entries, windows, warnings, artifacts>>
inventory == <<sources, sourceOf>>
work == <<batches, members, entries, windows>>
other == <<targets, warnings, artifacts>>

Instances == {p[1] : p \in sourceOf}
FirstTells(pairs) == \A p, q \in pairs : p[1] = q[1] => p = q
OfInstances(pairs, gone) == {p \in pairs : p[1] \in gone}
OfBatch(pairs, b) == {p \in pairs : p[2] = b}

\* What names a batch or a source after one that is renamed.
Renamed(pairs, from, to) == {<<p[1], IF p[2] = from THEN to ELSE p[2]>> : p \in pairs}

Add(S, S1, x) == x \notin S /\ S1 = S \cup {x}
Remove(S, S1, x) == x \in S /\ S1 = S \ {x}
Rename(S, S1, from, to) ==
    from \in S /\ (to \notin S \ {from}) /\ S1 = (S \ {from}) \cup {to}

-----------------------------------------------------------------------------
(* Sources and their instances *)

AddSource(s) == Add(sources, sources', s) /\ UNCHANGED <<sourceOf, work, other>>

\* The instances of a source stay with it when it is renamed.
RenameSource(s, n) == /\ Rename(sources, sources', s, n)
                      /\ sourceOf' = Renamed(sourceOf, s, n)
                      /\ UNCHANGED <<work, other>>

\* Instances go with their place in batches and in the queue.
RemoveInstances(gone) == /\ sourceOf' = sourceOf \ OfInstances(sourceOf, gone)
                         /\ members' = members \ OfInstances(members, gone)
                         /\ entries' = entries \ OfInstances(entries, gone)
                         /\ UNCHANGED <<batches, windows, other>>

RemoveSource(s) == /\ Remove(sources, sources', s)
                   /\ RemoveInstances({p[1] : p \in OfBatch(sourceOf, s)})

AddInstance(i, s) == /\ s \in sources /\ i \notin Instances
                     /\ Add(sourceOf, sourceOf', <<i, s>>)
                     /\ UNCHANGED <<sources, work, other>>

RemoveInstance(i) == i \in Instances /\ RemoveInstances({i}) /\ UNCHANGED sources

-----------------------------------------------------------------------------
(* Batches, their members, their windows and the queue *)

AddBatch(b) == Add(batches, batches', b) /\ UNCHANGED <<inventory, members, entries, windows, other>>

RenameBatch(b, n) == /\ Rename(batches, batches', b, n)
                     /\ members' = Renamed(members, b, n)
                     /\ entries' = Renamed(entries, b, n)
                     /\ windows' = Renamed(windows, b, n)
                     /\ UNCHANGED <<inventory, other>>

RemoveBatch(b) == /\ Remove(batches, batches', b)
                  /\ members' = members \ OfBatch(members, b)
                  /\ entries' = entries \ OfBatch(entries, b)
                  /\ windows' = windows \ OfBatch(windows, b)
                  /\ UNCHANGED <<inventory, other>>

Assign(i, b) == /\ i \in Instances /\ b \in batches
                /\ Add(members, members', <<i, b>>)
                /\ UNCHANGED <<inventory, batches, entries, windows, other>>

Unassign(i, b) == /\ Remove(members, members', <<i, b>>)
                  /\ UNCHANGED <<inventory, batches, entries, windows, other>>

\* An instance is queued once, whatever the batches it is in.
Enqueue(i, b) == /\ i \in Instances /\ b \in batches /\ OfInstances(entries, {i}) = {}
                 /\ entries' = entries \cup {<<i, b>>}
                 /\ UNCHANGED <<inventory, batches, members, windows, other>>

Dequeue == /\ entries' \subseteq entries
           /\ UNCHANGED <<inventory, batches, members, windows, other>>

SetWindows(b) == /\ windows' \ OfBatch(windows', b) = windows \ OfBatch(windows, b)
                 /\ UNCHANGED <<inventory, batches, members, entries, other>>

-----------------------------------------------------------------------------
(* Targets, warnings and artifacts *)

AddTarget(g) == Add(targets, targets', g) /\ UNCHANGED <<inventory, work, warnings, artifacts>>
RenameTarget(g, n) ==
    Rename(targets, targets', g, n) /\ UNCHANGED <<inventory, work, warnings, artifacts>>
RemoveTarget(g) ==
    Remove(targets, targets', g) /\ UNCHANGED <<inventory, work, warnings, artifacts>>

\* A warning is counted up under the UUID it was first seen with.
Emit(key, uuid) ==
    /\ \/ /\ \A w \in warnings : w[1] # key /\ w[2] # uuid
          /\ warnings' = warnings \cup {<<key, uuid, 1>>}
       \/ \E w \in warnings :
              w[1] = key /\ warnings' = (warnings \ {w}) \cup {<<key, w[2], w[3] + 1>>}
    /\ UNCHANGED <<inventory, work, targets, artifacts>>

Forget == /\ warnings' \subseteq warnings
          /\ UNCHANGED <<inventory, work, targets, artifacts>>

\* Two artifacts that an instance could take for each other.
Overlap(S, T) == S \cap T # {} \/ S \cup T = {}
Alike(a, o) == /\ a.type = o.type /\ a.for = o.for
               /\ Overlap(a.architectures, o.architectures) /\ Overlap(a.versions, o.versions)

Distinct == \A a, o \in artifacts : a # o => a.uuid # o.uuid /\ ~Alike(a, o)

SetArtifacts == Distinct' /\ UNCHANGED <<inventory, work, targets, warnings>>

-----------------------------------------------------------------------------
\* Whatever refers to something refers to what is there.
Consistent == /\ FirstTells(sourceOf) /\ \A p \in sourceOf : p[2] \in sources
              /\ \A p \in members \cup entries : p[1] \in Instances /\ p[2] \in batches
              /\ FirstTells(entries) /\ \A w \in windows : w[2] \in batches
              /\ FirstTells(warnings) /\ Distinct

Init == Consistent

\* Every name is there before a step or after it.
Next ==
    \/ \E s \in sources' : AddSource(s)
    \/ \E s \in sources : RemoveSource(s) \/ \E n \in sources' : RenameSource(s, n)
    \/ \E p \in sourceOf' : AddInstance(p[1], p[2])
    \/ \E i \in Instances : RemoveInstance(i)
    \/ \E b \in batches' : AddBatch(b) \/ SetWindows(b)
    \/ \E b \in batches : RemoveBatch(b) \/ \E n \in batches' : RenameBatch(b, n)
    \/ \E p \in members \cup members' : Assign(p[1], p[2]) \/ Unassign(p[1], p[2])
    \/ \E p \in entries' : Enqueue(p[1], p[2])
    \/ \E g \in targets' : AddTarget(g)
    \/ \E g \in targets : RemoveTarget(g) \/ \E n \in targets' : RenameTarget(g, n)
    \/ \E w \in warnings' : Emit(w[1], w[2])
    \/ Dequeue \/ Forget \/ SetArtifacts

Spec == Init /\ [][Next]_catalog
=============================================================================
