----------------------------- MODULE Services ------------------------------
(***************************************************************************)
(* The services of internal/migration that keep sources, instances,        *)
(* networks, warnings and artifacts: each operation is one transaction     *)
(* (transaction.Do), told by what it makes of the connection c.  One that  *)
(* leaves an error is rolled back.                                         *)
(***************************************************************************)
EXTENDS Entities, FiniteSetsExt

Refused(c) == Result(c, "not_permitted")

\* The statements of Next(c, x) for every x of a set, up to the first that fails.
ForEach(Next(_, _), c, S) ==
    LET Step(x, d) == IF d.err = "none" THEN Next(d, x) ELSE d
    IN  FoldSet(Step, Result(c, "none"), S)

-----------------------------------------------------------------------------
(* Instances and sources *)

\* An instance that has been disabled by its overrides.
Disabled(o) == o.overrides = "disabled"

\* InstanceService.DeleteByUUID
DeleteInstanceByUUID(c, uuid) ==
    LET found == GetInstance(c.tables, uuid)
    IN  CASE found.err # "none" -> Result(c, found.err)
          [] found.err = "none" /\ GetBatchesByInstance(c.tables, uuid) # {}
                 /\ ~Disabled(found.object) -> Refused(c)
          [] OTHER -> DeleteInstance(c, uuid)

\* InstanceService.UpdateOverride (as far as it disables the migration): an
\* instance that is queued, or in a running batch, is not disabled any more.
UpdateOverride(c, uuid, overrides) ==
    LET found == GetInstance(c.tables, uuid)
        queued == GetQueueEntryID(c.tables, uuid) # Null
        running == \E b \in GetBatchesByInstance(c.tables, uuid) : b.status \in {"RUNNING", "ERROR"}
    IN  CASE found.err # "none" -> Result(c, found.err)
          [] found.err = "none" /\ ~Disabled(found.object)
                 /\ IF queued THEN overrides = "disabled" ELSE running -> Refused(c)
          [] OTHER -> UpdateInstance(c, uuid, [found.object EXCEPT !.overrides = overrides])

\* Whether no instance of a source is in a batch that has been started.
canBeModified(t, name) ==
    \A uuid \in GetInstanceNames(t, {[source |-> name]}) :
        \A b \in GetBatchesByInstance(t, uuid) : b.status \in {"DEFINED", "FINISHED"}

UpdateSourceByName(c, name, o) ==
    IF canBeModified(c.tables, name) THEN UpdateSource(c, name, o) ELSE Refused(c)

DeleteSourceByName(c, name) ==
    CASE ~SourceExists(c.tables, name) -> Result(c, "not_found")
      [] SourceExists(c.tables, name) /\ ~canBeModified(c.tables, name) -> Refused(c)
      [] OTHER -> LET d == ForEach(DeleteInstanceByUUID, c,
                                   GetInstanceNames(c.tables, {[source |-> name]}))
                  IN  IF d.err = "none" THEN DeleteSource(d, name) ELSE d

-----------------------------------------------------------------------------
(* Networks *)

DeleteNetworkByUUID(c, uuid) ==
    LET found == GetNetworkByUUID(c.tables, uuid)
    IN  IF found.err # "none" THEN Result(c, found.err)
        ELSE DeleteNetwork(c, found.object.source_specific_id, found.object.source)

-----------------------------------------------------------------------------
(* Warnings: one for each type and scope *)

ScopeColumns == {"scope", "entity_type", "entity"}
ScopeAndType(w) == Only(w, {"type"} \cup ScopeColumns)

\* Match: an empty entity type or entity of a scope stands for every one.
InScope(scope, w) == /\ w.scope = scope.scope
                     /\ \A c \in ScopeColumns \ {"scope"} : scope[c] \in {"", w[c]}

\* A warning that is there keeps its UUID and its messages, and is counted.
Merged(old, w) == [w EXCEPT !.uuid = old.uuid, !.count = @ + old.count,
                            !.messages = @ \cup old.messages]

Emit(c, w) ==
    LET found == GetWarnings(c.tables, {ScopeAndType(w)})
    IN  CASE found.err # "none" -> Result(c, found.err)
          [] Cardinality(found.objects) > 1 -> Result(c, "error")
          [] Cardinality(found.objects) = 1 ->
                 CreateOrReplaceWarning(c, Merged(One(found).object, w))
          [] OTHER -> CreateOrReplaceWarning(c, w)

\* The messages of a warning that are among those of a new set of warnings.
StillSeen(scope, new, w) == w.messages \cap UNION {
    n.messages : n \in {n \in new : InScope(scope, n) /\ n.type = w.type}}

RemoveStale(c, scope, new) ==
    LET Prune(d, w) ==
            IF StillSeen(scope, new, w) = {} THEN DeleteWarning(d, w.uuid)
            ELSE UpdateWarning(d, w.uuid, [w EXCEPT !.messages = StillSeen(scope, new, w)])
    IN  ForEach(Prune, c, {w \in GetWarnings(c.tables, {}).objects : InScope(scope, w)})

UpdateStatusByUUID(c, uuid, status) ==
    LET found == GetWarning(c.tables, uuid)
    IN  IF found.err # "none" THEN Result(c, found.err)
        ELSE UpdateWarning(c, uuid, [found.object EXCEPT !.status = status])

-----------------------------------------------------------------------------
(* Artifacts: what each is for, its architectures and its versions *)

Overlap(S, T) == S \cap T # {} \/ S \cup T = {}

CollidesWith(a, others) == \E o \in others :
    /\ a.type = o.type /\ a.properties.for = o.properties.for
    /\ Overlap(a.properties.architectures, o.properties.architectures)
    /\ Overlap(a.properties.versions, o.properties.versions)

CreateNewArtifact(c, a) ==
    IF CollidesWith(a, GetArtifacts(c.tables, {[type |-> a.type]}).objects)
    THEN Result(c, "error") ELSE CreateArtifact(c, a)

UpdateArtifactByUUID(c, uuid, a) ==
    LET others == {o \in GetArtifacts(c.tables, {[type |-> a.type]}).objects : o.uuid # uuid}
    IN  IF CollidesWith(a, others) THEN Result(c, "error") ELSE UpdateArtifact(c, uuid, a)
=============================================================================
