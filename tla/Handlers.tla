------------------------------ MODULE Handlers ------------------------------
(***************************************************************************)
(* The handlers of the API that write sources, targets, instances,         *)
(* networks, warnings and artifacts (cmd/migration-managerd/internal/api): *)
(* each is one transaction, told by what it makes of the connection c, and *)
(* changes nothing if it answers with an error.  A client that has seen an *)
(* object may say so with its ETag; seen is that object, or Null.          *)
(***************************************************************************)
EXTENDS Services

\* EtagCheck, and the objects that a client may have seen.
EtagMatches(seen, o) == seen \in {Null, o}
Seen(objects) == {Null} \cup objects

\* An object is looked up, compared with what the client has seen, and written.
Put(c, found, seen, Write(_)) ==
    CASE found.err # "none" -> Result(c, found.err)
      [] found.err = "none" /\ ~EtagMatches(seen, found.object) -> Result(c, "precondition_failed")
      [] OTHER -> Write(found.object)

Remove(c, found, Drop(_)) == Put(c, found, Null, Drop)

-----------------------------------------------------------------------------
(* Sources and targets: what comes of a connection is stored with them *)

WithStatus(o, status) == [o EXCEPT !.properties.status = status]

\* One that is connected already, or says it is, is not tried.
Connected(o, status) == IF o.properties.status = "OK" THEN o ELSE WithStatus(o, status)

\* Update forgets about the connection first.
Reconnected(o, status) == Connected(WithStatus(o, "Unknown"), status)

sourcesPost(c, o, status) == CreateSource(c, Connected(o, status))

\* The type of a source or a target is not what the client says.
sourcePut(c, name, seen, o, status) ==
    LET Update(old) == UpdateSourceByName(c, name,
                           Reconnected([o EXCEPT !.source_type = old.source_type], status))
    IN  Put(c, GetSource(c.tables, name), seen, Update)

sourceDelete(c, name) ==
    LET Drop(old) == DeleteSourceByName(c, name)
    IN  Remove(c, GetSource(c.tables, name), Drop)

CreateConnectedTarget(c, o, status) == CreateTarget(c, Connected(o, status))
UpdateTargetByName(c, name, o, status) == UpdateTarget(c, name, Reconnected(o, status))

targetsPost(c, o, status) == CreateConnectedTarget(c, o, status)

targetPut(c, name, seen, o, status) ==
    LET Update(old) ==
            UpdateTargetByName(c, name, [o EXCEPT !.target_type = old.target_type], status)
    IN  Put(c, GetTarget(c.tables, name), seen, Update)

targetDelete(c, name) ==
    LET Drop(old) == DeleteTarget(c, name)
    IN  Remove(c, GetTarget(c.tables, name), Drop)

\* The user has logged in at the target, or given up: the target is written as
\* it was read then, although it may have been changed while it was tried.
FinishLogin(c, name, read, status) == UpdateTargetByName(c, name, read, status)

-----------------------------------------------------------------------------
(* Instances and networks: clients write their overrides *)

instanceOverridePut(c, uuid, seen, overrides) ==
    LET Override(old) == UpdateOverride(c, uuid, overrides)
    IN  Put(c, GetInstance(c.tables, uuid), seen, Override)

NoOverride == "{}"

instanceOverrideDelete(c, uuid) ==
    LET Override(old) == UpdateOverride(c, uuid, NoOverride)
    IN  Remove(c, GetInstance(c.tables, uuid), Override)

networkOverridePut(c, uuid, seen, overrides) ==
    LET Override(old) == UpdateNetwork(c, old.source_specific_id, old.source,
                                       [old EXCEPT !.overrides = overrides])
    IN  Put(c, GetNetworkByUUID(c.tables, uuid), seen, Override)

networkDelete(c, uuid) ==
    LET Drop(old) == DeleteNetworkByUUID(c, uuid)
    IN  Remove(c, GetNetworkByUUID(c.tables, uuid), Drop)

-----------------------------------------------------------------------------
(* Warnings and artifacts *)

warningPut(c, uuid, seen, status) ==
    LET Acknowledge(old) == UpdateStatusByUUID(c, uuid, status)
    IN  Put(c, GetWarning(c.tables, uuid), seen, Acknowledge)

artifactsPost(c, a) == CreateNewArtifact(c, a)

\* The artifact is read in a transaction of its own, but all that is kept of it
\* is what never changes.
artifactPut(c, uuid, properties) ==
    LET Update(old) == UpdateArtifactByUUID(c, uuid, [old EXCEPT !.properties = properties])
    IN  Put(c, GetArtifact(c.tables, uuid), Null, Update)

\* An artifact with files is not removed unless they may go with it.
artifactDelete(c, uuid) ==
    LET Drop(old) == DeleteArtifact(c, uuid)
    IN  Remove(c, GetArtifact(c.tables, uuid), Drop)
=============================================================================
