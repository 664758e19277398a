------------------------------ MODULE Inventory ------------------------------
(***************************************************************************)
(* The inventory: what the database records of the VMs and networks of the *)
(* sources, and the syncs that keep it up to date while batches migrate    *)
(* the VMs.  The periodic sync of all sources and a sync that a user asks  *)
(* for run side by side: they read the sources without any lock, take      *)
(* syncLock, and write what they have read in one transaction.  The        *)
(* database has a single connection, so that a transaction holds everyone  *)
(* else up.                                                                *)
(*                                                                         *)
(* Of a VM, a sync records the network it is connected to and whether its  *)
(* guest agent reports an IPv4 address, which stands for all that only a   *)
(* running guest tells and that a migration requires.                      *)
(***************************************************************************)
EXTENDS Integers, FiniteSets

CONSTANTS
    Source,
    VM,            \* the UUIDs of the VMs; the database sorts by them
    Network,
    NetworksOf,    \* the networks of each source
    Homes,         \* where the VMs may be at first, and whether they report an address
    AllowNoIPv4,   \* the restriction override of the batch
    Nowhere, NoRecord,
    MaxChanges,    \* bound on the events outside of the program
    MaxRequests    \* bound on the requests of users

ASSUME InventoryAssumption ==
    /\ VM \subseteq Nat /\ IsFiniteSet(VM)
    /\ NetworksOf \in [Source -> SUBSET Network]
    /\ Homes \subseteq [VM -> [source : Source, net : Network, ip : BOOLEAN]]
    /\ \A home \in Homes : \A v \in VM : home[v].net \in NetworksOf[home[v].source]
    /\ AllowNoIPv4 \in BOOLEAN
    /\ Nowhere \notin Source
    /\ MaxChanges \in Nat /\ MaxRequests \in Nat

VARIABLES
    place,       \* the source where each VM is
    guest,       \* what each VM is like
    up,          \* the sources that answer
    nsx,         \* the NSX manager: not recorded, reachable or failing
    configured,  \* the recorded sources
    record,      \* the recorded instances
    networks,    \* the recorded networks of each source
    assigned,    \* the instances assigned to the batch
    entry,       \* their queue entries
    batch,       \* the status of the batch
    sync,        \* the syncs under way
    lock,        \* who holds syncLock
    connection,  \* who holds the connection of the database between two steps
    changes, requests

world == <<place, guest, up, nsx, changes>>
inventory == <<configured, record, networks, assigned, entry>>
vars == <<world, inventory, batch, sync, lock, connection, requests>>

Sync == {"all", "one"}
NoOne == "no one"

Guest == [net : Network, ip : BOOLEAN]
Override == {"none", "disabled", "ignored"}
Record == [source : Source, net : Network, ip : BOOLEAN, override : Override]

ASSUME NoRecordAssumption == NoRecord \notin Record

\* What is recorded of a network: VMware's data only, or its NSX segment too.
Detail == {"plain", "segment"}

Idle == [stage |-> "idle", left |-> {}, data |-> <<>>]

\* All sources have been synced, and a batch of some of their VMs is defined.
Init ==
    /\ \E home \in Homes :
          /\ place = [v \in VM |-> home[v].source]
          /\ guest = [v \in VM |-> [net |-> home[v].net, ip |-> home[v].ip]]
    /\ up = Source /\ nsx = "reachable"
    /\ configured = Source
    /\ record = [v \in VM |-> [source |-> place[v], net |-> guest[v].net, ip |-> guest[v].ip,
                               override |-> "none"]]
    /\ networks = [s \in Source |->
                     [n \in {guest[v].net : v \in {u \in VM : place[u] = s}} |-> "segment"]]
    /\ assigned \in SUBSET VM
    /\ entry = [v \in VM |-> "none"] /\ batch = "DEFINED"
    /\ sync = [p \in Sync |-> Idle]
    /\ lock = NoOne /\ connection = NoOne
    /\ changes = 0 /\ requests = 0

-----------------------------------------------------------------------------
(***************************************************************************)
(* Instances and batches.                                                  *)
(***************************************************************************)
Recorded == {v \in VM : record[v] # NoRecord}
RecordedAt(s) == {v \in Recorded : record[v].source = s}

\* Instance.DisabledReason, given the restriction override of a batch.
Disabled(r, allowed) ==
    \/ r.override = "disabled"
    \/ r.override = "none" /\ ~r.ip /\ ~allowed

\* GetAllInRunningBatches; "RUNNING" stands for a batch in ERROR too.
InRunningBatch == {v \in assigned : batch = "RUNNING"}

\* What instanceService.Update refuses to change and DeleteByUUID to delete.
Frozen == {v \in InRunningBatch : ~Disabled(record[v], AllowNoIPv4)}
Kept == {v \in assigned : ~Disabled(record[v], AllowNoIPv4)}

\* FilterUsedNetworks: of two instances on networks of the same name, the last
\* one decides which source the network is of.
UsedNetworks(s, instances, recorded) ==
    {n \in Network :
        LET users == {v \in instances : recorded[v].net = n}
        IN \E v \in users : recorded[v].source = s /\ \A u \in users : u <= v}

-----------------------------------------------------------------------------
(***************************************************************************)
(* What a sync writes (syncSourceData).  data has what was read of each    *)
(* source that answered: its VMs and their networks.                       *)
(***************************************************************************)
\* Instances that migrate are not compared with what was read.
Omitted(s) ==
    {v \in InRunningBatch : record[v].source = s /\ ~Disabled(record[v], FALSE)}

Existing(s) == RecordedAt(s) \ Omitted(s)
Incoming(data, s) == DOMAIN data[s].vms \ Omitted(s)

Deleted(data, s) == (Existing(s) \ Incoming(data, s)) \ Kept
Updated(data, s) == (Existing(s) \cap Incoming(data, s)) \ Frozen
Created(data, s) == Incoming(data, s) \ Existing(s)

\* Every order in which the loop over the sources may take them.
Orders(S) == {f \in [S -> 1 .. Cardinality(S)] : \A s, t \in S : f[s] = f[t] => s = t}

\* UUIDs are unique: an instance that is recorded at another source can be created
\* only once the loop has deleted it there.
CannotCreate(data, order) ==
    \E t \in DOMAIN data : \E v \in Created(data, t) :
        \/ t \notin configured
        \/ /\ record[v] # NoRecord
           /\ ~\E s \in DOMAIN data : v \in Deleted(data, s) /\ order[s] < order[t]

\* Instance.ApplyUpdates: the address of a NIC outlives the guest that reported it.
ApplyUpdates(r, g) == [r EXCEPT !.net = g.net, !.ip = g.ip \/ (r.ip /\ r.net = g.net)]

NewRecord(s, g) == [source |-> s, net |-> g.net, ip |-> g.ip, override |-> "none"]

\* Mutant: what was read is compared with the instances of all sources.
DeletedAnywhere(data) ==
    {v \in Recorded : ~\E s \in DOMAIN data : v \in DOMAIN data[s].vms \cup Omitted(s)} \ Kept

AllDeleted(data) == UNION {Deleted(data, s) : s \in DOMAIN data}

SyncedRecords(data) ==
    [v \in VM |->
        IF \E s \in DOMAIN data : v \in Created(data, s)
        THEN LET s == CHOOSE t \in DOMAIN data : v \in Created(data, t)
             IN NewRecord(s, data[s].vms[v])
        ELSE IF v \in AllDeleted(data) THEN NoRecord
        ELSE IF \E s \in DOMAIN data : v \in Updated(data, s)
        THEN ApplyUpdates(record[v], data[record[v].source].vms[v])
        ELSE record[v]]

\* Mutant: the networks of migrating instances are synced as any other.
LeftAsUnused(data, s) ==
    LET after == SyncedRecords(data)
        instances == {v \in VM : after[v] # NoRecord /\ after[v].source = s}
    IN {n \in DOMAIN networks[s] :
            \/ n \notin UsedNetworks(s, instances, after)
            \/ /\ n \in DOMAIN data[s].nets
               /\ networks[s][n] = "segment" /\ data[s].nets[n] = "plain"}

\* The recorded networks that a sync leaves alone: those of migrating instances, those
\* that no instance uses, and those it has less of than is recorded.
LeftAlone(data, s) ==
    LET after == SyncedRecords(data)
        instances == {v \in VM : after[v] # NoRecord /\ after[v].source = s}
        migrating == UsedNetworks(s, InRunningBatch, record)
        used == UsedNetworks(s, instances, after)
    IN {n \in DOMAIN networks[s] :
            \/ n \in migrating
            \/ n \notin used
            \/ /\ n \in DOMAIN data[s].nets
               /\ networks[s][n] = "segment" /\ data[s].nets[n] = "plain"}

SyncedNetworks(data, s) ==
    LET nets == data[s].nets
        kept == LeftAlone(data, s)
    IN [n \in kept \cup DOMAIN nets |-> IF n \in kept THEN networks[s][n] ELSE nets[n]]

WriteData(data) ==
    \/ /\ \E order \in Orders(DOMAIN data) : ~CannotCreate(data, order)
       /\ record' = SyncedRecords(data)
       /\ assigned' = assigned \ AllDeleted(data)
       /\ entry' = [v \in VM |-> IF v \in AllDeleted(data) THEN "none" ELSE entry[v]]
       /\ networks' = [s \in Source |->
              IF s \in DOMAIN data THEN SyncedNetworks(data, s) ELSE networks[s]]
    \/ /\ \E order \in Orders(DOMAIN data) : CannotCreate(data, order)
       /\ UNCHANGED <<record, assigned, entry, networks>>

-----------------------------------------------------------------------------
(***************************************************************************)
(* The syncs.                                                              *)
(***************************************************************************)
At(p, stage) == sync[p].stage = stage

Goto(p, stage, left, data) ==
    sync' = [sync EXCEPT ![p] = [stage |-> stage, left |-> left, data |-> data]]

NoLocks == UNCHANGED <<lock, connection>>
OnlySyncs == UNCHANGED <<inventory, batch, requests>>

\* trySyncAllSources takes every source, syncOneSource the one it is asked for.
BeginSyncAll ==
    /\ At("all", "idle") /\ connection = NoOne
    /\ configured # {}
    /\ Goto("all", "fetch", configured, <<>>)
    /\ NoLocks /\ OnlySyncs /\ UNCHANGED world

BeginSyncOne(s) ==
    /\ At("one", "idle") /\ connection = NoOne
    /\ s \in configured /\ requests < MaxRequests
    /\ Goto("one", "fetch", {s}, <<>>)
    /\ requests' = requests + 1
    /\ NoLocks /\ UNCHANGED <<world, inventory, batch>>

\* GetAllVMs leaves out a VM that cannot be read in time, with no more than a warning.
\* Only the networks in use by the VMs it returns are kept.
Read(p, s, answering) ==
    LET vms == [v \in answering |-> guest[v]]
        nets == [n \in {guest[v].net : v \in answering} |-> "plain"]
    IN [t \in DOMAIN sync[p].data \cup {s} |->
            IF t = s THEN [vms |-> vms, nets |-> nets] ELSE sync[p].data[t]]

VMsAt(s) == {v \in VM : place[v] = s}

Fetch(p, s) ==
    /\ At(p, "fetch") /\ s \in sync[p].left \cap up
    /\ Goto(p, "fetch", sync[p].left \ {s}, Read(p, s, VMsAt(s)))
    /\ NoLocks /\ OnlySyncs /\ UNCHANGED world

FetchInPart(p, s) ==
    /\ At(p, "fetch") /\ s \in sync[p].left \cap up
    /\ changes < MaxChanges
    /\ \E answering \in SUBSET VMsAt(s) :
          /\ answering # VMsAt(s)
          /\ Goto(p, "fetch", sync[p].left \ {s}, Read(p, s, answering))
    /\ changes' = changes + 1
    /\ NoLocks /\ OnlySyncs /\ UNCHANGED <<place, guest, up, nsx>>

\* Mutant: a source that fails ends the sync of all as well.
FetchFailsForAll(p, s) ==
    /\ At(p, "fetch") /\ s \in sync[p].left \ up
    /\ Goto(p, "idle", {}, <<>>)
    /\ NoLocks /\ OnlySyncs /\ UNCHANGED world

\* A source that fails is skipped by the sync of all, and ends the other.
FetchFails(p, s) ==
    /\ At(p, "fetch") /\ s \in sync[p].left \ up
    /\ IF p = "all"
       THEN Goto("all", "fetch", sync["all"].left \ {s}, sync["all"].data)
       ELSE Goto("one", "idle", {}, <<>>)
    /\ NoLocks /\ OnlySyncs /\ UNCHANGED world

WithDetail(data, detail) ==
    [s \in DOMAIN data |->
        [data[s] EXCEPT !.nets = [n \in DOMAIN data[s].nets |-> detail]]]

Without(data, dropped) ==
    [s \in DOMAIN data |->
        [data[s] EXCEPT !.vms = [v \in DOMAIN data[s].vms \ dropped[s] |-> data[s].vms[v]]]]

ReadTwice(data) == {v \in VM : Cardinality({s \in DOMAIN data : v \in DOMAIN data[s].vms}) > 1}

\* A UUID that was read of two sources is kept of one of them, whichever comes first.
\* With all it has read, the sync waits for syncLock.
LockAll ==
    /\ At("all", "fetch") /\ sync["all"].left = {} /\ lock = NoOne
    /\ LET read == sync["all"].data
           data == WithDetail(read, IF nsx = "reachable" THEN "segment" ELSE "plain")
       IN \E first \in [ReadTwice(read) -> DOMAIN read] :
             /\ \A v \in ReadTwice(read) : v \in DOMAIN read[first[v]].vms
             /\ Goto("all", "write", {}, Without(data,
                    [s \in DOMAIN read |-> {v \in ReadTwice(read) : first[v] # s}]))
    /\ lock' = "all"
    /\ OnlySyncs /\ UNCHANGED <<world, connection>>

UsesNSX(data) == \E s \in DOMAIN data : DOMAIN data[s].nets # {}

LockOne ==
    /\ At("one", "fetch") /\ sync["one"].left = {} /\ lock = NoOne
    /\ LET data == sync["one"].data
       IN \/ ~UsesNSX(data) /\ Goto("one", "write", {}, data)
          \/ /\ UsesNSX(data) /\ nsx = "reachable"
             /\ Goto("one", "write", {}, WithDetail(data, "segment"))
    /\ lock' = "one"
    /\ OnlySyncs /\ UNCHANGED <<world, connection>>

\* If the NSX manager fails, syncOneSource does.
FailOne ==
    /\ At("one", "fetch") /\ sync["one"].left = {}
    /\ UsesNSX(sync["one"].data) /\ nsx = "failing"
    /\ Goto("one", "idle", {}, <<>>)
    /\ NoLocks /\ OnlySyncs /\ UNCHANGED world

\* If no NSX manager is recorded that it could ask, syncOneSource records the one that
\* vCenter knows of: it opens the transaction before it takes syncLock.
OpenTransaction ==
    /\ At("one", "fetch") /\ sync["one"].left = {} /\ connection = NoOne
    /\ UsesNSX(sync["one"].data) /\ nsx = "unrecorded"
    /\ Goto("one", "lock", {}, sync["one"].data)
    /\ connection' = "one"
    /\ OnlySyncs /\ UNCHANGED <<world, lock>>

LockInTransaction ==
    /\ At("one", "lock") /\ lock = NoOne
    /\ Goto("one", "write", {}, sync["one"].data)
    /\ lock' = "one"
    /\ OnlySyncs /\ UNCHANGED <<world, connection>>

Write(p) ==
    /\ At(p, "write") /\ connection \in {NoOne, p}
    /\ lock' = NoOne /\ connection' = NoOne
    /\ Goto(p, "idle", {}, <<>>)
    /\ UNCHANGED <<world, configured, batch, requests>>
    /\ WriteData(sync[p].data)

-----------------------------------------------------------------------------
(***************************************************************************)
(* The requests of users, one transaction each, and the tasks that go on   *)
(* with the entries of the batch.                                          *)
(***************************************************************************)
Request ==
    /\ requests < MaxRequests /\ requests' = requests + 1
    /\ connection = NoOne
    /\ NoLocks /\ UNCHANGED <<world, sync>>

\* Mutant: the instances of a batch are matched again whatever its status.
MayAssignAlways == TRUE

MayAssign == batch = "DEFINED"

UpdateInstancesAssignedToBatch ==
    /\ Request /\ MayAssign
    /\ \E matching \in SUBSET Recorded : assigned' = matching
    /\ UNCHANGED <<configured, record, networks, entry, batch>>

StartBatchByName ==
    LET started == {v \in assigned : entry[v] = "none"}
        blocked == {v \in started : Disabled(record[v], AllowNoIPv4)}
    IN /\ Request /\ batch \in {"DEFINED", "STOPPED"}
       /\ started # {}
       /\ entry' = [v \in VM |-> IF v \in blocked THEN "blocked"
                                 ELSE IF v \in started THEN "begun" ELSE entry[v]]
       /\ batch' = "RUNNING"
       /\ UNCHANGED <<configured, record, networks, assigned>>

StopBatchByName ==
    /\ Request /\ batch = "RUNNING"
    /\ batch' = "STOPPED"
    /\ UNCHANGED inventory

ResetBatchByName ==
    /\ Request /\ batch # "DEFINED"
    /\ batch' = "DEFINED"
    /\ entry' = [v \in VM |-> "none"]
    /\ UNCHANGED <<configured, record, networks, assigned>>

UpdateOverride(v, override) ==
    /\ Request /\ v \in Recorded /\ record[v].override # override
    /\ IF entry[v] = "none" THEN v \notin Frozen ELSE override # "disabled"
    /\ record' = [record EXCEPT ![v].override = override]
    /\ UNCHANGED <<configured, networks, assigned, entry, batch>>

\* DeleteByName of the source service: not while an active batch has one of its
\* instances, and only if every one of them can be deleted.
DeleteSource(s) ==
    /\ Request /\ s \in configured
    /\ batch \in {"DEFINED", "FINISHED"} \/ RecordedAt(s) \cap assigned = {}
    /\ RecordedAt(s) \cap Kept = {}
    /\ configured' = configured \ {s}
    /\ record' = [v \in VM |-> IF v \in RecordedAt(s) THEN NoRecord ELSE record[v]]
    /\ networks' = [networks EXCEPT ![s] = <<>>]
    /\ assigned' = assigned \ RecordedAt(s)
    /\ entry' = [v \in VM |-> IF v \in RecordedAt(s) THEN "none" ELSE entry[v]]
    /\ UNCHANGED batch

CreateSource(s) ==
    /\ Request /\ s \notin configured
    /\ configured' = configured \cup {s}
    /\ UNCHANGED <<record, networks, assigned, entry, batch>>

\* reassessBlockedInstances.
Unblock(v) ==
    /\ connection = NoOne /\ batch = "RUNNING"
    /\ entry[v] = "blocked" /\ ~Disabled(record[v], AllowNoIPv4)
    /\ entry' = [entry EXCEPT ![v] = "begun"]
    /\ NoLocks /\ UNCHANGED <<world, configured, record, networks, assigned, batch, sync, requests>>

\* The entries migrate, and the batch ends once all of them have.
FinishBatch ==
    /\ connection = NoOne /\ batch = "RUNNING"
    /\ \A v \in assigned : entry[v] # "blocked"
    /\ \E v \in assigned : entry[v] = "begun"
    /\ batch' = "FINISHED"
    /\ NoLocks /\ UNCHANGED <<world, inventory, sync, requests>>

-----------------------------------------------------------------------------
(***************************************************************************)
(* The sources: VMs are reconnected, powered on and off, moved and         *)
(* removed; sources and the NSX manager stop to answer and answer again.   *)
(***************************************************************************)
Change ==
    /\ changes < MaxChanges /\ changes' = changes + 1
    /\ NoLocks /\ OnlySyncs /\ UNCHANGED sync

Connect(v, n) ==
    /\ Change /\ place[v] # Nowhere
    /\ n \in NetworksOf[place[v]] \ {guest[v].net}
    /\ guest' = [guest EXCEPT ![v].net = n]
    /\ UNCHANGED <<place, up, nsx>>

Power(v) ==
    /\ Change /\ place[v] # Nowhere
    /\ guest' = [guest EXCEPT ![v].ip = ~@]
    /\ UNCHANGED <<place, up, nsx>>

Move(v, s) ==
    /\ Change /\ place[v] # s
    /\ place' = [place EXCEPT ![v] = s]
    /\ \E n \in NetworksOf[s] : guest' = [guest EXCEPT ![v].net = n]
    /\ UNCHANGED <<up, nsx>>

Remove(v) ==
    /\ Change /\ place[v] # Nowhere
    /\ place' = [place EXCEPT ![v] = Nowhere]
    /\ UNCHANGED <<guest, up, nsx>>

ChangeSource(s) ==
    /\ Change
    /\ up' = (up \ {s}) \cup ({s} \ up)
    /\ UNCHANGED <<place, guest, nsx>>

ChangeNSX ==
    /\ Change
    /\ nsx' \in {"unrecorded", "reachable", "failing"} \ {nsx}
    /\ UNCHANGED <<place, guest, up>>

\* A step of a sync that reads what it is asked for.
SyncAll ==
    \/ BeginSyncAll \/ LockAll \/ Write("all")
    \/ \E s \in Source : Fetch("all", s) \/ FetchFails("all", s)

ServeSyncOne ==
    \/ LockOne \/ FailOne \/ OpenTransaction \/ LockInTransaction \/ Write("one")
    \/ \E s \in Source : Fetch("one", s) \/ FetchFails("one", s)

Next ==
    \/ SyncAll \/ ServeSyncOne
    \/ \E p \in Sync, s \in Source : FetchInPart(p, s)
    \/ UpdateInstancesAssignedToBatch \/ StartBatchByName \/ StopBatchByName
    \/ ResetBatchByName \/ FinishBatch \/ ChangeNSX
    \/ \E v \in VM : Unblock(v) \/ Power(v) \/ Remove(v)
    \/ \E v \in VM, override \in Override : UpdateOverride(v, override)
    \/ \E s \in Source :
          BeginSyncOne(s) \/ DeleteSource(s) \/ CreateSource(s) \/ ChangeSource(s)
    \/ \E v \in VM, n \in Network : Connect(v, n)
    \/ \E v \in VM, s \in Source : Move(v, s)

Spec == Init /\ [][Next]_vars

\* The task is run every ten minutes, and a request that was accepted is served.  Whoever
\* waits for the connection or for syncLock gets it in the end: the pool of connections is
\* a queue, and a Go mutex is handed over to who has waited too long.
FairSpec == Spec /\ SF_vars(SyncAll) /\ SF_vars(ServeSyncOne)

-----------------------------------------------------------------------------
(***************************************************************************)
(* Properties.                                                             *)
(***************************************************************************)
TypeOK ==
    /\ place \in [VM -> Source \cup {Nowhere}] /\ guest \in [VM -> Guest]
    /\ up \subseteq Source /\ configured \subseteq Source
    /\ nsx \in {"unrecorded", "reachable", "failing"}
    /\ record \in [VM -> Record \cup {NoRecord}]
    /\ \A s \in Source : DOMAIN networks[s] \subseteq Network /\
                         \A n \in DOMAIN networks[s] : networks[s][n] \in Detail
    /\ assigned \subseteq VM /\ entry \in [VM -> {"none", "blocked", "begun"}]
    /\ batch \in {"DEFINED", "RUNNING", "STOPPED", "FINISHED"}
    /\ lock \in Sync \cup {NoOne} /\ connection \in {"one", NoOne}
    /\ changes \in 0 .. MaxChanges /\ requests \in 0 .. MaxRequests

\* A sync writes as it releases syncLock.
Writes(p) == lock = p /\ lock' = NoOne
Migrating == {v \in InRunningBatch : entry[v] = "begun" /\ ~Disabled(record[v], AllowNoIPv4)}

\* No sync touches what a migration under way relies on: the record of its instance, its
\* queue entry, which goes with the record, and the network that the target VM is
\* connected to, whatever became of the VM at the source and however long ago the sync
\* read it.
MigrationUndisturbed ==
    [][(\E p \in Sync : Writes(p)) => \A v \in Migrating :
          /\ record'[v] = record[v] /\ entry'[v] = entry[v] /\ v \in assigned'
          /\ LET s == record[v].source IN
             \A n \in DOMAIN networks[s] \cap {record[v].net} :
                n \in DOMAIN networks'[s] /\ networks'[s][n] = networks[s][n]]_vars

\* A sync in which a source did not answer leaves what is recorded of it as it is.
SilentSourceKept ==
    [][\A p \in Sync : Writes(p) =>
          \A s \in Source \ DOMAIN sync[p].data :
             networks'[s] = networks[s] /\
             \A v \in RecordedAt(s) : record'[v] = record[v]]_vars

\* A queue entry refers to a recorded instance of a configured source, which is assigned
\* to the batch.
EntriesBacked ==
    \A v \in VM : entry[v] # "none" =>
        v \in Recorded /\ v \in assigned /\ record[v].source \in configured

\* The syncs wait for each other: one holds the connection, the other syncLock.
MutualWait == connection = "one" /\ At("one", "lock") /\ lock = "all"

\* A VM has left the source it is recorded at for another one.
Moved == \E v \in Recorded : place[v] \notin {record[v].source, Nowhere}

\* The inventory has the VMs of the sources that answer, with their networks.
CaughtUp ==
    \A s \in configured \cap up :
        /\ \A v \in VMsAt(s) :
              /\ v \in RecordedAt(s)
              /\ v \notin Frozen =>
                    /\ record[v].net = guest[v].net
                    /\ guest[v].ip => record[v].ip
                    /\ guest[v].net \in DOMAIN networks[s]
        /\ RecordedAt(s) \ VMsAt(s) \subseteq Kept

\* In the end the inventory catches up with the sources, unless an instance stays
\* recorded at a source that its VM has left for another one, or the two syncs wait for
\* each other.
SyncCatchesUp == <>[]CaughtUp \/ []<>Moved \/ <>MutualWait
=============================================================================
