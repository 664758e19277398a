-------------------------- MODULE InventoryProofs --------------------------
(***************************************************************************)
(* Proofs about Inventory, for any sources, VMs and networks and any       *)
(* number of syncs, requests and changes of the sources: what the entries  *)
(* of the queue refer to is recorded, and a sync leaves alone the sources  *)
(* it has not read and the instances that migrate.                         *)
(***************************************************************************)
EXTENDS Inventory, WellFoundedInduction, FiniteSetTheorems, TLAPS

\* A VM is connected to a network of the source where it is.
WorldFits ==
    \A v \in VM : place[v] # Nowhere => guest[v].net \in NetworksOf[place[v]]

\* What is recorded of a VM, is recorded of a configured source and its networks.
RecordsFit ==
    /\ \A v \in Recorded : /\ record[v].source \in configured
                           /\ record[v].net \in NetworksOf[record[v].source]
    /\ networks = [s \in Source |-> networks[s]]

\* Only recorded instances are assigned, only assigned ones are queued, and none
\* is while instances may be assigned anew.
EntriesFit ==
    /\ assigned \subseteq Recorded
    /\ \A v \in VM : entry[v] # "none" => v \in assigned
    /\ batch = "DEFINED" => \A v \in VM : entry[v] = "none"

\* What a sync has read of a source.
ReadOf(d, s) ==
    /\ s \in Source
    /\ d = [vms |-> d.vms, nets |-> d.nets]
    /\ \A v \in DOMAIN d.vms :
            v \in VM /\ d.vms[v] \in Guest /\ d.vms[v].net \in NetworksOf[s]
    /\ \A n \in DOMAIN d.nets : n \in Network /\ d.nets[n] \in Detail

DataFits(data) == \A s \in DOMAIN data : ReadOf(data[s], s)

\* A sync that is about to write holds syncLock, and the other one is not.
SyncsFit ==
    /\ \A p \in Sync :
        /\ sync[p] = [stage |-> sync[p].stage, left |-> sync[p].left, data |-> sync[p].data]
        /\ sync[p].stage \in {"idle", "fetch", "lock", "write"}
        /\ sync[p].left \subseteq Source
        /\ DataFits(sync[p].data)
        /\ At(p, "write") <=> lock = p
    /\ sync = [p \in Sync |-> sync[p]]

InventoryInv == TypeOK /\ WorldFits /\ RecordsFit /\ EntriesFit /\ SyncsFit

-----------------------------------------------------------------------------
(* Lemmas about records and reads *)

LEMMA RecordFields ==
    ASSUME NEW r \in Record
    PROVE  /\ r.source \in Source /\ r.net \in Network /\ r.ip \in BOOLEAN
           /\ r.override \in Override
           /\ r # NoRecord
BY NoRecordAssumption DEF Record

LEMMA RecordedTyped ==
    ASSUME TypeOK, NEW v \in Recorded
    PROVE  record[v] \in Record
BY DEF TypeOK, Recorded

LEMMA NewRecords ==
    ASSUME NEW s \in Source, NEW g \in Guest
    PROVE  /\ NewRecord(s, g) \in Record
           /\ NewRecord(s, g).source = s /\ NewRecord(s, g).net = g.net
BY DEF NewRecord, Record, Guest, Override

LEMMA UpdatedRecords ==
    ASSUME NEW r \in Record, NEW g \in Guest
    PROVE  /\ ApplyUpdates(r, g) \in Record
           /\ ApplyUpdates(r, g).source = r.source /\ ApplyUpdates(r, g).net = g.net
BY DEF ApplyUpdates, Record, Guest

\* A VM that is recorded at a source was not omitted there, or left alone.
LEMMA SyncSets ==
    ASSUME NEW data, NEW s
    PROVE  /\ \A v \in Deleted(data, s) : v \in Recorded /\ record[v].source = s
           /\ \A v \in Updated(data, s) :
                  /\ v \in Recorded /\ record[v].source = s
                  /\ v \in DOMAIN data[s].vms
           /\ \A v \in Created(data, s) : v \in DOMAIN data[s].vms
BY DEF Deleted, Updated, Created, Existing, Incoming, RecordedAt

LEMMA ReadGuest ==
    ASSUME NEW data, DataFits(data), NEW s \in DOMAIN data, NEW v \in DOMAIN data[s].vms
    PROVE  /\ v \in VM /\ s \in Source /\ data[s].vms[v] \in Guest
           /\ data[s].vms[v].net \in NetworksOf[s]
BY DEF DataFits, ReadOf

LEMMA NothingRead ==
    DOMAIN <<>> = {} /\ DataFits(<<>>)
<1>1. DOMAIN <<>> = {}
    OBVIOUS
<1> QED
    BY <1>1 DEF DataFits

\* What SyncedRecords comes to: created, deleted, updated or left as it is.
LEMMA SyncedCases ==
    ASSUME NEW data, NEW v \in VM
    PROVE  \/ \E t \in DOMAIN data :
                /\ v \in Created(data, t)
                /\ SyncedRecords(data)[v] = NewRecord(t, data[t].vms[v])
           \/ v \in AllDeleted(data) /\ SyncedRecords(data)[v] = NoRecord
           \/ \E t \in DOMAIN data :
                /\ v \in Updated(data, t) /\ v \notin AllDeleted(data)
                /\ SyncedRecords(data)[v] = ApplyUpdates(record[v], data[t].vms[v])
           \/ v \notin AllDeleted(data) /\ SyncedRecords(data)[v] = record[v]
<1>1. CASE \E t \in DOMAIN data : v \in Created(data, t)
  <2> DEFINE c == CHOOSE t \in DOMAIN data : v \in Created(data, t)
  <2>1. c \in DOMAIN data /\ v \in Created(data, c)
      BY <1>1
  <2>2. SyncedRecords(data)[v] = NewRecord(c, data[c].vms[v])
      BY <1>1 DEF SyncedRecords
  <2> HIDE DEF c
  <2> QED
      BY <2>1, <2>2
<1>2. CASE ~ \E t \in DOMAIN data : v \in Created(data, t)
  <2>1. CASE v \in AllDeleted(data)
      BY <1>2, <2>1 DEF SyncedRecords
  <2>2. CASE v \notin AllDeleted(data) /\ \E t \in DOMAIN data : v \in Updated(data, t)
    <3>1. PICK t \in DOMAIN data : v \in Updated(data, t)
        BY <2>2
    <3>2. record[v].source = t
        BY <3>1, SyncSets
    <3>3. SyncedRecords(data)[v] = ApplyUpdates(record[v], data[record[v].source].vms[v])
        BY <1>2, <2>2 DEF SyncedRecords
    <3> QED
        BY <2>2, <3>1, <3>2, <3>3
  <2>3. CASE v \notin AllDeleted(data) /\ ~ \E t \in DOMAIN data : v \in Updated(data, t)
      BY <1>2, <2>3 DEF SyncedRecords
  <2> QED
      BY <2>1, <2>2, <2>3
<1> QED
    BY <1>1, <1>2

\* An instance is created at a recorded source, and only once it is recorded nowhere.
LEMMA CreatedAnew ==
    ASSUME NEW data, NEW order, ~CannotCreate(data, order),
           NEW t \in DOMAIN data, NEW v \in Created(data, t)
    PROVE  t \in configured /\ (record[v] = NoRecord \/ v \in AllDeleted(data))
BY DEF CannotCreate, AllDeleted

-----------------------------------------------------------------------------
(* What a sync writes *)

LEMMA SyncedRecordsFit ==
    ASSUME TypeOK, RecordsFit, NEW data, DataFits(data),
           NEW order, ~CannotCreate(data, order), NEW v \in VM
    PROVE  LET r == SyncedRecords(data)[v] IN
           /\ r \in Record \cup {NoRecord}
           /\ r # NoRecord => r.source \in configured /\ r.net \in NetworksOf[r.source]
           /\ r = NoRecord => v \in AllDeleted(data) \/ record[v] = NoRecord
<1>1. CASE \E t \in DOMAIN data :
                /\ v \in Created(data, t)
                /\ SyncedRecords(data)[v] = NewRecord(t, data[t].vms[v])
  <2>1. PICK t \in DOMAIN data :
                /\ v \in Created(data, t)
                /\ SyncedRecords(data)[v] = NewRecord(t, data[t].vms[v])
      BY <1>1
  <2>2. v \in DOMAIN data[t].vms
      BY <2>1, SyncSets
  <2>3. t \in Source /\ data[t].vms[v] \in Guest /\ data[t].vms[v].net \in NetworksOf[t]
      BY <2>2, ReadGuest
  <2>4. t \in configured
      BY <2>1, CreatedAnew
  <2>5. SyncedRecords(data)[v] # NoRecord
      BY <2>1, <2>3, NewRecords, RecordFields
  <2> QED
      BY <2>1, <2>3, <2>4, <2>5, NewRecords
<1>2. CASE v \in AllDeleted(data) /\ SyncedRecords(data)[v] = NoRecord
    BY <1>2
<1>3. CASE \E t \in DOMAIN data :
                /\ v \in Updated(data, t) /\ v \notin AllDeleted(data)
                /\ SyncedRecords(data)[v] = ApplyUpdates(record[v], data[t].vms[v])
  <2>1. PICK t \in DOMAIN data :
                /\ v \in Updated(data, t) /\ v \notin AllDeleted(data)
                /\ SyncedRecords(data)[v] = ApplyUpdates(record[v], data[t].vms[v])
      BY <1>3
  <2>2. v \in DOMAIN data[t].vms /\ v \in Recorded /\ record[v].source = t
      BY <2>1, SyncSets
  <2>3. data[t].vms[v] \in Guest /\ data[t].vms[v].net \in NetworksOf[t]
      BY <2>2, ReadGuest
  <2>4. record[v] \in Record /\ t \in configured
      BY <2>2, RecordedTyped DEF RecordsFit
  <2>5. SyncedRecords(data)[v] # NoRecord
      BY <2>1, <2>3, <2>4, UpdatedRecords, RecordFields
  <2> QED
      BY <2>1, <2>2, <2>3, <2>4, <2>5, UpdatedRecords
<1>4. CASE v \notin AllDeleted(data) /\ SyncedRecords(data)[v] = record[v]
    BY <1>4 DEF TypeOK, RecordsFit, Recorded
<1> QED
    BY <1>1, <1>2, <1>3, <1>4, SyncedCases

LEMMA SyncedNetworksFit ==
    ASSUME TypeOK, NEW data, DataFits(data), NEW s \in DOMAIN data
    PROVE  LET nets == SyncedNetworks(data, s) IN
           DOMAIN nets \subseteq Network /\ \A n \in DOMAIN nets : nets[n] \in Detail
<1> DEFINE kept == LeftAlone(data, s)
           nets == data[s].nets
<1>1. s \in Source /\ \A n \in DOMAIN nets : n \in Network /\ nets[n] \in Detail
    BY DEF DataFits, ReadOf
<1>2. kept \subseteq DOMAIN networks[s]
    BY DEF LeftAlone
<1>3. \A n \in DOMAIN networks[s] : n \in Network /\ networks[s][n] \in Detail
    BY <1>1 DEF TypeOK
<1>4. SyncedNetworks(data, s) =
        [n \in kept \cup DOMAIN nets |-> IF n \in kept THEN networks[s][n] ELSE nets[n]]
    BY DEF SyncedNetworks
<1> HIDE DEF kept, nets
<1> QED
    BY <1>1, <1>2, <1>3, <1>4

\* A sync that writes leaves the database in order, whatever it has read.
LEMMA WriteFits ==
    ASSUME TypeOK, RecordsFit, EntriesFit, NEW data, DataFits(data), WriteData(data),
           UNCHANGED <<configured, batch>>
    PROVE  /\ record' \in [VM -> Record \cup {NoRecord}]
           /\ \A s \in Source : /\ DOMAIN networks'[s] \subseteq Network
                                /\ \A n \in DOMAIN networks'[s] : networks'[s][n] \in Detail
           /\ assigned' \subseteq VM /\ entry' \in [VM -> {"none", "blocked", "begun"}]
           /\ RecordsFit' /\ EntriesFit'
<1>1. CASE UNCHANGED <<record, assigned, entry, networks>>
    BY <1>1 DEF TypeOK, RecordsFit, EntriesFit, Recorded
<1>2. CASE /\ \E order \in Orders(DOMAIN data) : ~CannotCreate(data, order)
           /\ record' = SyncedRecords(data)
           /\ assigned' = assigned \ AllDeleted(data)
           /\ entry' = [v \in VM |-> IF v \in AllDeleted(data) THEN "none" ELSE entry[v]]
           /\ networks' = [s \in Source |->
                  IF s \in DOMAIN data THEN SyncedNetworks(data, s) ELSE networks[s]]
  <2>1. PICK order \in Orders(DOMAIN data) : ~CannotCreate(data, order)
      BY <1>2
  <2>2. \A v \in VM :
            /\ record'[v] \in Record \cup {NoRecord}
            /\ record'[v] # NoRecord => /\ record'[v].source \in configured
                                        /\ record'[v].net \in NetworksOf[record'[v].source]
            /\ record'[v] = NoRecord => v \in AllDeleted(data) \/ record[v] = NoRecord
      BY <1>2, <2>1, SyncedRecordsFit
  <2>3. record' = [v \in VM |-> record'[v]]
      BY <1>2 DEF SyncedRecords
  <2>4. record' \in [VM -> Record \cup {NoRecord}]
      BY <2>2, <2>3
  <2>5. \A s \in Source : /\ DOMAIN networks'[s] \subseteq Network
                          /\ \A n \in DOMAIN networks'[s] : networks'[s][n] \in Detail
      BY <1>2, SyncedNetworksFit DEF TypeOK
  <2>6. assigned' \subseteq VM /\ entry' \in [VM -> {"none", "blocked", "begun"}]
      BY <1>2 DEF TypeOK
  <2>7. RecordsFit'
      BY <1>2, <2>2 DEF RecordsFit, Recorded
  <2>8. assigned' \subseteq Recorded'
      BY <1>2, <2>2 DEF EntriesFit, Recorded
  <2>9. EntriesFit'
      BY <1>2, <2>8 DEF EntriesFit
  <2> QED
      BY <2>4, <2>5, <2>6, <2>7, <2>9
<1> QED
    BY <1>1, <1>2 DEF WriteData

-----------------------------------------------------------------------------
(* The steps of a sync *)

LEMMA GotoFits ==
    ASSUME SyncsFit, NEW p \in Sync, NEW stage \in {"idle", "fetch", "lock", "write"},
           NEW left \in SUBSET Source, NEW data, DataFits(data),
           Goto(p, stage, left, data),
           stage = "write" <=> lock' = p,
           \A q \in Sync \ {p} : lock' = q <=> lock = q
    PROVE  SyncsFit'
<1>1. sync' = [sync EXCEPT ![p] = [stage |-> stage, left |-> left, data |-> data]]
    BY DEF Goto
<1>2. sync' = [q \in Sync |-> sync'[q]]
    BY <1>1 DEF SyncsFit
<1>3. sync'[p] = [stage |-> stage, left |-> left, data |-> data]
    BY <1>1 DEF SyncsFit
<1>4. \A q \in Sync \ {p} : sync'[q] = sync[q]
    BY <1>1 DEF SyncsFit
<1>5. ASSUME NEW q \in Sync
      PROVE  /\ sync'[q] = [stage |-> sync'[q].stage, left |-> sync'[q].left,
                            data |-> sync'[q].data]
             /\ sync'[q].stage \in {"idle", "fetch", "lock", "write"}
             /\ sync'[q].left \subseteq Source
             /\ DataFits(sync'[q].data)
             /\ sync'[q].stage = "write" <=> lock' = q
  <2>1. CASE q = p
      BY <1>3, <2>1
  <2>2. CASE q # p
      BY <1>4, <2>2 DEF SyncsFit, At
  <2> QED
      BY <2>1, <2>2
<1> QED
    BY <1>2, <1>5 DEF SyncsFit, At

\* What else a step of a sync may do before it writes.
LEMMA SyncStep ==
    ASSUME InventoryInv, NEW p \in Sync, NEW stage \in {"idle", "fetch", "lock", "write"},
           NEW left \in SUBSET Source, NEW data, DataFits(data),
           Goto(p, stage, left, data),
           stage = "write" <=> lock' = p,
           \A q \in Sync \ {p} : lock' = q <=> lock = q,
           UNCHANGED <<place, guest, up, nsx, inventory, batch>>,
           changes' \in 0 .. MaxChanges, requests' \in 0 .. MaxRequests,
           lock' \in Sync \cup {NoOne}, connection' \in {"one", NoOne}
    PROVE  InventoryInv'
<1>1. SyncsFit'
    BY GotoFits DEF InventoryInv
<1>2. TypeOK' /\ WorldFits' /\ RecordsFit' /\ EntriesFit'
    BY DEF InventoryInv, TypeOK, WorldFits, RecordsFit, EntriesFit, inventory, Recorded
<1> QED
    BY <1>1, <1>2 DEF InventoryInv

\* What is read of a source, with the detail the NSX manager adds, and but for the VMs
\* that are kept of another source.
LEMMA ReadFits ==
    ASSUME TypeOK, WorldFits, SyncsFit, NEW p \in Sync, NEW s \in Source,
           NEW answering \in SUBSET VMsAt(s)
    PROVE  DataFits(Read(p, s, answering))
<1> DEFINE vms == [v \in answering |-> guest[v]]
           nets == [n \in {guest[v].net : v \in answering} |-> "plain"]
           data == Read(p, s, answering)
<1>1. data = [t \in DOMAIN sync[p].data \cup {s} |->
                IF t = s THEN [vms |-> vms, nets |-> nets] ELSE sync[p].data[t]]
    BY DEF Read
<1>2. \A v \in answering : /\ v \in VM /\ guest[v] \in Guest /\ guest[v].net \in Network
                           /\ guest[v].net \in NetworksOf[s]
  <2>1. \A v \in answering : v \in VM /\ place[v] = s /\ place[v] # Nowhere
      BY InventoryAssumption DEF VMsAt
  <2>2. \A v \in VM : guest[v] \in Guest /\ guest[v].net \in Network
      BY DEF TypeOK, Guest
  <2> QED
      BY <2>1, <2>2 DEF WorldFits
<1>3. ReadOf([vms |-> vms, nets |-> nets], s)
    BY <1>2 DEF ReadOf, Detail
<1>4. \A t \in DOMAIN sync[p].data : ReadOf(sync[p].data[t], t)
    BY DEF SyncsFit, DataFits
<1> HIDE DEF vms, nets, data
<1> QED
    BY <1>1, <1>3, <1>4 DEF DataFits, data

LEMMA DetailFits ==
    ASSUME NEW data, DataFits(data), NEW detail \in Detail
    PROVE  DataFits(WithDetail(data, detail))
<1> SUFFICES ASSUME NEW s \in DOMAIN data
             PROVE  ReadOf(WithDetail(data, detail)[s], s)
    BY DEF DataFits, WithDetail
<1> DEFINE nets == [n \in DOMAIN data[s].nets |-> detail]
<1>1. ReadOf(data[s], s)
    BY DEF DataFits
<1>2. WithDetail(data, detail)[s] = [data[s] EXCEPT !.nets = nets]
    BY DEF WithDetail
<1>3. DOMAIN nets = DOMAIN data[s].nets /\ \A n \in DOMAIN nets : nets[n] = detail
    OBVIOUS
<1> HIDE DEF nets
<1>4. data[s] = [vms |-> data[s].vms, nets |-> data[s].nets]
    BY <1>1 DEF ReadOf
<1>5. WithDetail(data, detail)[s] = [vms |-> data[s].vms, nets |-> nets]
    BY <1>2, <1>4
<1> QED
    BY <1>1, <1>3, <1>5 DEF ReadOf

LEMMA WithoutFits ==
    ASSUME NEW data, DataFits(data), NEW dropped
    PROVE  DataFits(Without(data, dropped))
<1> SUFFICES ASSUME NEW s \in DOMAIN data
             PROVE  ReadOf(Without(data, dropped)[s], s)
    BY DEF DataFits, Without
<1> DEFINE vms == [v \in DOMAIN data[s].vms \ dropped[s] |-> data[s].vms[v]]
<1>1. ReadOf(data[s], s)
    BY DEF DataFits
<1>2. Without(data, dropped)[s] = [data[s] EXCEPT !.vms = vms]
    BY DEF Without
<1>3. /\ DOMAIN vms \subseteq DOMAIN data[s].vms
      /\ \A v \in DOMAIN vms : vms[v] = data[s].vms[v]
    OBVIOUS
<1> HIDE DEF vms
<1>4. data[s] = [vms |-> data[s].vms, nets |-> data[s].nets]
    BY <1>1 DEF ReadOf
<1>5. Without(data, dropped)[s] = [vms |-> vms, nets |-> data[s].nets]
    BY <1>2, <1>4
<1> QED
    BY <1>1, <1>3, <1>5 DEF ReadOf

\* A sync that has no more than it read.
LEMMA SyncData ==
    ASSUME InventoryInv, NEW p \in Sync
    PROVE  /\ DataFits(sync[p].data) /\ sync[p].left \subseteq Source
           /\ At(p, "write") <=> lock = p
           /\ {} \in SUBSET Source
           /\ changes \in 0 .. MaxChanges /\ requests \in 0 .. MaxRequests
           /\ lock \in Sync \cup {NoOne} /\ connection \in {"one", NoOne}
           /\ configured \subseteq Source
           /\ p # NoOne
BY DEF InventoryInv, SyncsFit, TypeOK, Sync, NoOne

LEMMA TwoSyncs ==
    "all" \in Sync /\ "one" \in Sync /\ NoOne \notin Sync
BY DEF Sync, NoOne

-----------------------------------------------------------------------------
(* The actions *)

LEMMA RecordMade ==
    ASSUME NEW s \in Source, NEW n \in Network, NEW b \in BOOLEAN, NEW o \in Override
    PROVE  [source |-> s, net |-> n, ip |-> b, override |-> o] \in Record
BY DEF Record

LEMMA InitFits ==
    Init => InventoryInv
<1> SUFFICES ASSUME Init
             PROVE  InventoryInv
    OBVIOUS
<1>1. PICK home \in Homes :
          /\ place = [v \in VM |-> home[v].source]
          /\ guest = [v \in VM |-> [net |-> home[v].net, ip |-> home[v].ip]]
    BY DEF Init
<1>2. \A v \in VM : /\ home[v].source \in Source /\ home[v].net \in Network
                    /\ home[v].ip \in BOOLEAN /\ home[v].net \in NetworksOf[home[v].source]
    BY InventoryAssumption
<1>3. \A v \in VM : place[v] \in Source /\ guest[v] \in Guest
                    /\ guest[v].net \in NetworksOf[place[v]] /\ guest[v].net \in Network
                    /\ guest[v].ip \in BOOLEAN
    BY <1>1, <1>2 DEF Guest
<1>4. \A v \in VM : /\ record[v] \in Record /\ record[v] # NoRecord
                    /\ record[v].source = place[v] /\ record[v].net = guest[v].net
  <2> SUFFICES ASSUME NEW v \in VM
               PROVE  /\ record[v] \in Record /\ record[v] # NoRecord
                      /\ record[v].source = place[v] /\ record[v].net = guest[v].net
      OBVIOUS
  <2>1. record[v] = [source |-> place[v], net |-> guest[v].net, ip |-> guest[v].ip,
                     override |-> "none"]
      BY DEF Init
  <2>2. /\ place[v] \in Source /\ guest[v].net \in Network /\ guest[v].ip \in BOOLEAN
        /\ "none" \in Override
      BY <1>3 DEF Override
  <2>3. record[v] \in Record
      BY <2>1, <2>2, RecordMade, Zenon
  <2> QED
      BY <2>1, <2>3, RecordFields
<1>5. \A s \in Source : /\ DOMAIN networks[s] \subseteq Network
                        /\ \A n \in DOMAIN networks[s] : networks[s][n] \in Detail
  <2> SUFFICES ASSUME NEW s \in Source
               PROVE  /\ DOMAIN networks[s] \subseteq Network
                      /\ \A n \in DOMAIN networks[s] : networks[s][n] \in Detail
      OBVIOUS
  <2> DEFINE used == {guest[v].net : v \in {u \in VM : place[u] = s}}
  <2>1. used \subseteq Network
      BY <1>3
  <2>2. networks[s] = [n \in used |-> "segment"]
      BY DEF Init
  <2> HIDE DEF used
  <2> QED
      BY <2>1, <2>2 DEF Detail
<1>6. record \in [VM -> Record \cup {NoRecord}]
    BY <1>4 DEF Init
<1>7. place \in [VM -> Source \cup {Nowhere}] /\ guest \in [VM -> Guest]
    BY <1>1, <1>3
<1>8. TypeOK
  <2>1. 0 \in 0 .. MaxChanges /\ 0 \in 0 .. MaxRequests
      BY InventoryAssumption
  <2>2. /\ nsx = "reachable" /\ batch = "DEFINED" /\ lock = NoOne /\ connection = NoOne
        /\ up = Source /\ configured = Source /\ assigned \in SUBSET VM
        /\ entry = [v \in VM |-> "none"] /\ changes = 0 /\ requests = 0
      BY DEF Init
  <2> QED
      BY <1>5, <1>6, <1>7, <2>1, <2>2 DEF TypeOK
<1>9. WorldFits /\ RecordsFit /\ EntriesFit
    BY <1>3, <1>4 DEF Init, WorldFits, RecordsFit, EntriesFit, Recorded
<1>10. SyncsFit
  <2>1. \A p \in Sync : sync[p] = Idle /\ ~At(p, "write") /\ lock # p
      BY DEF Init, At, Idle, Sync, NoOne
  <2> QED
      BY <2>1, NothingRead DEF Init, SyncsFit, Idle
<1> QED
    BY <1>8, <1>9, <1>10 DEF InventoryInv

LEMMA BeginFits ==
    ASSUME InventoryInv,
           BeginSyncAll \/ \E s \in Source : BeginSyncOne(s)
    PROVE  InventoryInv'
<1>1. CASE BeginSyncAll
  <2>1. /\ Goto("all", "fetch", configured, <<>>)
        /\ UNCHANGED <<place, guest, up, nsx, changes, inventory, batch, requests, lock,
                       connection>>
        /\ At("all", "idle")
      BY <1>1 DEF BeginSyncAll, NoLocks, OnlySyncs, world
  <2>2. lock # "all"
      BY <2>1, TwoSyncs, SyncData DEF At
  <2> QED
      BY <2>1, <2>2, TwoSyncs, SyncData, NothingRead, SyncStep
<1>2. ASSUME NEW s \in Source, BeginSyncOne(s)
      PROVE  InventoryInv'
  <2>1. /\ Goto("one", "fetch", {s}, <<>>)
        /\ UNCHANGED <<place, guest, up, nsx, changes, inventory, batch, lock, connection>>
        /\ At("one", "idle")
      BY <1>2 DEF BeginSyncOne, NoLocks, world
  <2>2. lock # "one"
      BY <2>1, TwoSyncs, SyncData DEF At
  <2>3. requests' \in 0 .. MaxRequests
      BY <1>2, InventoryAssumption DEF BeginSyncOne, InventoryInv, TypeOK
  <2> QED
      BY <2>1, <2>2, <2>3, TwoSyncs, SyncData, NothingRead, SyncStep
<1> QED
    BY <1>1, <1>2

LEMMA FetchFits ==
    ASSUME InventoryInv, NEW p \in Sync, NEW s \in Source,
           Fetch(p, s) \/ FetchInPart(p, s) \/ FetchFails(p, s)
    PROVE  InventoryInv'
<1>1. InventoryInv /\ lock # p
    BY SyncData DEF At, Fetch, FetchInPart, FetchFails
<1>2. TypeOK /\ WorldFits /\ SyncsFit /\ sync[p].left \ {s} \in SUBSET Source
    BY SyncData DEF InventoryInv
<1>3. CASE Fetch(p, s)
  <2>1. /\ Goto(p, "fetch", sync[p].left \ {s}, Read(p, s, VMsAt(s)))
        /\ UNCHANGED <<place, guest, up, nsx, changes, inventory, batch, requests, lock,
                       connection>>
      BY <1>3 DEF Fetch, NoLocks, OnlySyncs, world
  <2>2. DataFits(Read(p, s, VMsAt(s)))
      BY <1>2, ReadFits
  <2> QED
      BY <1>1, <1>2, <2>1, <2>2, SyncData, SyncStep
<1>4. CASE FetchInPart(p, s)
  <2>1. PICK answering \in SUBSET VMsAt(s) :
            Goto(p, "fetch", sync[p].left \ {s}, Read(p, s, answering))
      BY <1>4 DEF FetchInPart
  <2>2. /\ UNCHANGED <<place, guest, up, nsx, inventory, batch, requests, lock, connection>>
        /\ changes' \in 0 .. MaxChanges
      BY <1>2, <1>4, InventoryAssumption DEF FetchInPart, NoLocks, OnlySyncs, TypeOK
  <2>3. DataFits(Read(p, s, answering))
      BY <1>2, ReadFits
  <2> QED
      BY <1>1, <1>2, <2>1, <2>2, <2>3, SyncData, SyncStep
<1>5. CASE FetchFails(p, s)
  <2>1. UNCHANGED <<place, guest, up, nsx, changes, inventory, batch, requests, lock,
                    connection>>
      BY <1>5 DEF FetchFails, NoLocks, OnlySyncs, world
  <2>2. \/ Goto(p, "fetch", sync[p].left \ {s}, sync[p].data)
        \/ Goto(p, "idle", {}, <<>>)
      BY <1>5 DEF FetchFails, Sync
  <2>3. CASE Goto(p, "fetch", sync[p].left \ {s}, sync[p].data)
      BY <1>1, <1>2, <2>1, <2>3, SyncData, SyncStep
  <2>4. CASE Goto(p, "idle", {}, <<>>)
      BY <1>1, <1>2, <2>1, <2>4, SyncData, NothingRead, SyncStep
  <2> QED
      BY <2>2, <2>3, <2>4
<1> QED
    BY <1>3, <1>4, <1>5

LEMMA LockFits ==
    ASSUME InventoryInv, LockAll \/ LockOne \/ LockInTransaction
    PROVE  InventoryInv'
<1>1. CASE LockAll
  <2> DEFINE read == sync["all"].data
             detail == IF nsx = "reachable" THEN "segment" ELSE "plain"
             data == WithDetail(read, detail)
  <2>1. PICK first \in [ReadTwice(read) -> DOMAIN read] :
            Goto("all", "write", {}, Without(data,
                    [s \in DOMAIN read |-> {v \in ReadTwice(read) : first[v] # s}]))
      BY <1>1 DEF LockAll
  <2> DEFINE dropped == [s \in DOMAIN read |-> {v \in ReadTwice(read) : first[v] # s}]
  <2>2. detail \in Detail /\ DataFits(read)
      BY TwoSyncs, SyncData DEF Detail
  <2>3. Goto("all", "write", {}, Without(data, dropped))
      BY <2>1
  <2> HIDE DEF read, detail, dropped
  <2>4. DataFits(data)
      BY <2>2, DetailFits
  <2> HIDE DEF data
  <2>5. DataFits(Without(data, dropped))
      BY <2>4, WithoutFits
  <2>6. /\ UNCHANGED <<place, guest, up, nsx, changes, inventory, batch, requests, connection>>
        /\ lock = NoOne /\ lock' = "all"
      BY <1>1 DEF LockAll, OnlySyncs, world
  <2> QED
      BY <2>3, <2>5, <2>6, TwoSyncs, SyncData, SyncStep
<1>2. CASE LockOne
  <2> DEFINE data == sync["one"].data
  <2>1. \/ Goto("one", "write", {}, data)
        \/ Goto("one", "write", {}, WithDetail(data, "segment"))
      BY <1>2 DEF LockOne
  <2>2. DataFits(data) /\ "segment" \in Detail
      BY TwoSyncs, SyncData DEF Detail
  <2> HIDE DEF data
  <2>3. DataFits(WithDetail(data, "segment"))
      BY <2>2, DetailFits
  <2>4. /\ UNCHANGED <<place, guest, up, nsx, changes, inventory, batch, requests, connection>>
        /\ lock = NoOne /\ lock' = "one"
      BY <1>2 DEF LockOne, OnlySyncs, world
  <2>5. CASE Goto("one", "write", {}, data)
      BY <2>2, <2>4, <2>5, TwoSyncs, SyncData, SyncStep
  <2>6. CASE Goto("one", "write", {}, WithDetail(data, "segment"))
      BY <2>3, <2>4, <2>6, TwoSyncs, SyncData, SyncStep
  <2> QED
      BY <2>1, <2>5, <2>6
<1>3. CASE LockInTransaction
  <2>1. /\ Goto("one", "write", {}, sync["one"].data)
        /\ UNCHANGED <<place, guest, up, nsx, changes, inventory, batch, requests, connection>>
        /\ lock = NoOne /\ lock' = "one"
      BY <1>3 DEF LockInTransaction, OnlySyncs, world
  <2> QED
      BY <2>1, TwoSyncs, SyncData, SyncStep
<1> QED
    BY <1>1, <1>2, <1>3

LEMMA WaitFits ==
    ASSUME InventoryInv, FailOne \/ OpenTransaction
    PROVE  InventoryInv'
<1>1. lock # "one"
    BY TwoSyncs, SyncData DEF FailOne, OpenTransaction, At
<1>2. CASE FailOne
  <2>1. /\ Goto("one", "idle", {}, <<>>)
        /\ UNCHANGED <<place, guest, up, nsx, changes, inventory, batch, requests, lock,
                       connection>>
      BY <1>2 DEF FailOne, NoLocks, OnlySyncs, world
  <2> QED
      BY <1>1, <2>1, TwoSyncs, SyncData, NothingRead, SyncStep
<1>3. CASE OpenTransaction
  <2>1. /\ Goto("one", "lock", {}, sync["one"].data)
        /\ UNCHANGED <<place, guest, up, nsx, changes, inventory, batch, requests, lock>>
        /\ connection' = "one"
      BY <1>3 DEF OpenTransaction, OnlySyncs, world
  <2> QED
      BY <1>1, <2>1, TwoSyncs, SyncData, SyncStep
<1> QED
    BY <1>2, <1>3

LEMMA WriteStepFits ==
    ASSUME InventoryInv, NEW p \in Sync, Write(p)
    PROVE  InventoryInv'
<1>1. DataFits(sync[p].data) /\ lock = p
    BY SyncData DEF Write
<1>2. /\ Goto(p, "idle", {}, <<>>) /\ WriteData(sync[p].data)
      /\ lock' = NoOne /\ connection' = NoOne
      /\ UNCHANGED <<place, guest, up, nsx, changes, configured, batch, requests>>
    BY DEF Write, world
<1>3. /\ record' \in [VM -> Record \cup {NoRecord}]
      /\ \A s \in Source : /\ DOMAIN networks'[s] \subseteq Network
                           /\ \A n \in DOMAIN networks'[s] : networks'[s][n] \in Detail
      /\ assigned' \subseteq VM /\ entry' \in [VM -> {"none", "blocked", "begun"}]
      /\ RecordsFit' /\ EntriesFit'
    BY <1>1, <1>2, WriteFits DEF InventoryInv
<1>4. TypeOK' /\ WorldFits'
    BY <1>2, <1>3 DEF InventoryInv, TypeOK, WorldFits
<1>5. SyncsFit'
  <2>1. SyncsFit /\ lock' # p /\ {} \in SUBSET Source
      BY <1>2, TwoSyncs DEF InventoryInv
  <2>2. \A q \in Sync \ {p} : lock' = q <=> lock = q
      BY <1>1, <1>2, TwoSyncs
  <2> QED
      BY <1>2, <2>1, <2>2, NothingRead, GotoFits
<1> QED
    BY <1>3, <1>4, <1>5 DEF InventoryInv

\* What a step has to keep that leaves the sources and the syncs alone.
LEMMA RequestFits ==
    ASSUME InventoryInv,
           UNCHANGED <<place, guest, up, nsx, changes, sync, lock, connection>>,
           requests' \in 0 .. MaxRequests,
           configured' \subseteq Source,
           record' \in [VM -> Record \cup {NoRecord}],
           \A s \in Source : /\ DOMAIN networks'[s] \subseteq Network
                             /\ \A n \in DOMAIN networks'[s] : networks'[s][n] \in Detail,
           assigned' \subseteq VM, entry' \in [VM -> {"none", "blocked", "begun"}],
           batch' \in {"DEFINED", "RUNNING", "STOPPED", "FINISHED"},
           RecordsFit', EntriesFit'
    PROVE  InventoryInv'
<1>1. TypeOK'
    BY DEF InventoryInv, TypeOK
<1>2. WorldFits'
    BY DEF InventoryInv, WorldFits
<1>3. SyncsFit'
    BY DEF InventoryInv, SyncsFit, At
<1> QED
    BY <1>1, <1>2, <1>3 DEF InventoryInv

\* What a request, or a step of a task, starts from.
LEMMA RequestState ==
    ASSUME InventoryInv
    PROVE  /\ configured \subseteq Source
           /\ record \in [VM -> Record \cup {NoRecord}]
           /\ \A s \in Source : /\ DOMAIN networks[s] \subseteq Network
                                /\ \A n \in DOMAIN networks[s] : networks[s][n] \in Detail
           /\ assigned \subseteq VM /\ entry \in [VM -> {"none", "blocked", "begun"}]
           /\ batch \in {"DEFINED", "RUNNING", "STOPPED", "FINISHED"}
           /\ requests \in 0 .. MaxRequests
           /\ RecordsFit /\ EntriesFit
           /\ Request => /\ requests' \in 0 .. MaxRequests
                         /\ UNCHANGED <<place, guest, up, nsx, changes, sync, lock, connection>>
<1>1. Request => requests' \in 0 .. MaxRequests
    BY InventoryAssumption DEF InventoryInv, TypeOK, Request
<1> QED
    BY <1>1 DEF InventoryInv, TypeOK, Request, NoLocks, world

LEMMA AssignFits ==
    ASSUME InventoryInv, UpdateInstancesAssignedToBatch
    PROVE  InventoryInv'
<1>1. /\ Request /\ batch = "DEFINED" /\ assigned' \subseteq Recorded
      /\ UNCHANGED <<configured, record, networks, entry, batch>>
    BY DEF UpdateInstancesAssignedToBatch, MayAssign
<1>2. assigned' \subseteq VM /\ RecordsFit'
    BY <1>1, RequestState DEF Recorded, RecordsFit
<1>3. EntriesFit'
    BY <1>1, RequestState DEF EntriesFit, Recorded
<1> QED
    BY <1>1, <1>2, <1>3, RequestState, RequestFits

LEMMA BatchFits ==
    ASSUME InventoryInv,
           StartBatchByName \/ StopBatchByName \/ ResetBatchByName \/ FinishBatch
               \/ \E v \in VM : Unblock(v)
    PROVE  InventoryInv'
<1>1. CASE StartBatchByName
  <2> DEFINE started == {v \in assigned : entry[v] = "none"}
             blocked == {v \in started : Disabled(record[v], AllowNoIPv4)}
  <2>1. /\ Request /\ batch' = "RUNNING"
        /\ entry' = [v \in VM |-> IF v \in blocked THEN "blocked"
                                  ELSE IF v \in started THEN "begun" ELSE entry[v]]
        /\ UNCHANGED <<configured, record, networks, assigned>>
      BY <1>1 DEF StartBatchByName
  <2>2. blocked \subseteq started /\ started \subseteq assigned
      OBVIOUS
  <2> HIDE DEF started, blocked
  <2>3. entry' \in [VM -> {"none", "blocked", "begun"}] /\ RecordsFit' /\ EntriesFit'
      BY <2>1, <2>2, RequestState DEF RecordsFit, EntriesFit, Recorded
  <2> QED
      BY <2>1, <2>3, RequestState, RequestFits
<1>2. CASE StopBatchByName
  <2>1. /\ Request /\ batch' = "STOPPED"
        /\ UNCHANGED <<configured, record, networks, assigned, entry>>
      BY <1>2 DEF StopBatchByName, inventory
  <2>2. RecordsFit' /\ EntriesFit'
      BY <2>1, RequestState DEF RecordsFit, EntriesFit, Recorded
  <2> QED
      BY <2>1, <2>2, RequestState, RequestFits
<1>3. CASE ResetBatchByName
  <2>1. /\ Request /\ batch' = "DEFINED" /\ entry' = [v \in VM |-> "none"]
        /\ UNCHANGED <<configured, record, networks, assigned>>
      BY <1>3 DEF ResetBatchByName
  <2>2. entry' \in [VM -> {"none", "blocked", "begun"}] /\ RecordsFit' /\ EntriesFit'
      BY <2>1, RequestState DEF RecordsFit, EntriesFit, Recorded
  <2> QED
      BY <2>1, <2>2, RequestState, RequestFits
<1>4. CASE FinishBatch
  <2>1. /\ batch' = "FINISHED"
        /\ UNCHANGED <<place, guest, up, nsx, changes, sync, lock, connection, requests>>
        /\ UNCHANGED <<configured, record, networks, assigned, entry>>
      BY <1>4 DEF FinishBatch, NoLocks, world, inventory
  <2>2. RecordsFit' /\ EntriesFit'
      BY <2>1, RequestState DEF RecordsFit, EntriesFit, Recorded
  <2> QED
      BY <2>1, <2>2, RequestState, RequestFits
<1>5. ASSUME NEW v \in VM, Unblock(v)
      PROVE  InventoryInv'
  <2>1. /\ entry' = [entry EXCEPT ![v] = "begun"] /\ entry[v] = "blocked" /\ batch = "RUNNING"
        /\ UNCHANGED <<place, guest, up, nsx, changes, sync, lock, connection, requests>>
        /\ UNCHANGED <<configured, record, networks, assigned, batch>>
      BY <1>5 DEF Unblock, NoLocks, world
  <2>2. entry' \in [VM -> {"none", "blocked", "begun"}] /\ RecordsFit' /\ EntriesFit'
      BY <2>1, RequestState DEF RecordsFit, EntriesFit, Recorded
  <2> QED
      BY <2>1, <2>2, RequestState, RequestFits
<1> QED
    BY <1>1, <1>2, <1>3, <1>4, <1>5

LEMMA OverrideFits ==
    ASSUME InventoryInv, NEW v \in VM, NEW override \in Override, UpdateOverride(v, override)
    PROVE  InventoryInv'
<1>1. /\ Request /\ v \in Recorded
      /\ record' = [record EXCEPT ![v].override = override]
      /\ UNCHANGED <<configured, networks, assigned, entry, batch>>
    BY DEF UpdateOverride
<1> DEFINE r == [record[v] EXCEPT !.override = override]
<1>2. record[v] \in Record
    BY <1>1, RecordedTyped DEF InventoryInv
<1>3. r \in Record /\ r.source = record[v].source /\ r.net = record[v].net
    BY <1>2 DEF Record
<1>4. r # NoRecord
    BY <1>3, RecordFields
<1>5. record' = [record EXCEPT ![v] = r]
    BY <1>1
<1> HIDE DEF r
<1>6. record' \in [VM -> Record \cup {NoRecord}] /\ Recorded' = Recorded
    BY <1>1, <1>3, <1>4, <1>5, RequestState DEF Recorded
<1>7. /\ record'[v].source = record[v].source /\ record'[v].net = record[v].net
      /\ \A u \in VM \ {v} : record'[u] = record[u]
    BY <1>3, <1>5, RequestState
<1>8. RecordsFit' /\ EntriesFit'
  <2>1. \A u \in Recorded : u \in VM /\ record'[u].source = record[u].source
                                     /\ record'[u].net = record[u].net
      BY <1>7 DEF Recorded
  <2> QED
      BY <1>1, <1>6, <2>1, RequestState DEF RecordsFit, EntriesFit
<1> QED
    BY <1>1, <1>6, <1>8, RequestState, RequestFits

\* What refers to a source goes with it.
LEMMA DeleteSourceFits ==
    ASSUME InventoryInv, NEW s \in Source, DeleteSource(s)
    PROVE  InventoryInv'
<1>1. /\ Request /\ UNCHANGED batch
      /\ configured' = configured \ {s}
      /\ record' = [v \in VM |-> IF v \in RecordedAt(s) THEN NoRecord ELSE record[v]]
      /\ networks' = [networks EXCEPT ![s] = <<>>]
      /\ assigned' = assigned \ RecordedAt(s)
      /\ entry' = [v \in VM |-> IF v \in RecordedAt(s) THEN "none" ELSE entry[v]]
    BY DEF DeleteSource
<1>2. /\ record' \in [VM -> Record \cup {NoRecord}]
      /\ entry' \in [VM -> {"none", "blocked", "begun"}]
      /\ assigned' \subseteq VM /\ configured' \subseteq Source
    BY <1>1, RequestState
<1>3. \A t \in Source : /\ DOMAIN networks'[t] \subseteq Network
                        /\ \A n \in DOMAIN networks'[t] : networks'[t][n] \in Detail
  <2>1. \A t \in Source : networks'[t] = IF t = s THEN <<>> ELSE networks[t]
      BY <1>1, RequestState DEF RecordsFit
  <2> QED
      BY <2>1, NothingRead, RequestState
<1>4. Recorded' = Recorded \ RecordedAt(s)
    BY <1>1 DEF Recorded
<1>5. networks' = [t \in Source |-> networks'[t]]
    BY <1>1, RequestState DEF RecordsFit
<1>6. \A v \in Recorded \ RecordedAt(s) :
            record'[v] = record[v] /\ record[v].source # s
    BY <1>1 DEF Recorded, RecordedAt
<1>7. RecordsFit'
  <2>1. \A v \in Recorded' : /\ record'[v].source \in configured'
                            /\ record'[v].net \in NetworksOf[record'[v].source]
    <3>1. \A v \in Recorded : /\ record[v].source \in configured
                             /\ record[v].net \in NetworksOf[record[v].source]
        BY RequestState DEF RecordsFit
    <3> QED
        BY <1>1, <1>4, <1>6, <3>1
  <2> QED
      BY <1>5, <2>1 DEF RecordsFit
<1>8. EntriesFit'
    BY <1>1, <1>4, RequestState DEF EntriesFit
<1> QED
    BY <1>1, <1>2, <1>3, <1>7, <1>8, RequestState, RequestFits

LEMMA CreateSourceFits ==
    ASSUME InventoryInv, NEW s \in Source, CreateSource(s)
    PROVE  InventoryInv'
<1>1. /\ Request /\ configured' = configured \cup {s}
      /\ UNCHANGED <<record, networks, assigned, entry, batch>>
    BY DEF CreateSource
<1>2. RecordsFit' /\ EntriesFit'
    BY <1>1, RequestState DEF RecordsFit, EntriesFit, Recorded
<1> QED
    BY <1>1, <1>2, RequestState, RequestFits

\* Whatever becomes of the sources, a VM is on a network of the source where it is.
LEMMA SourcesFit ==
    ASSUME TypeOK, WorldFits,
           \/ ChangeNSX
           \/ \E v \in VM : Power(v) \/ Remove(v)
           \/ \E s \in Source : ChangeSource(s)
           \/ \E v \in VM, n \in Network : Connect(v, n)
           \/ \E v \in VM, s \in Source : Move(v, s)
    PROVE  /\ place' \in [VM -> Source \cup {Nowhere}] /\ guest' \in [VM -> Guest]
           /\ up' \subseteq Source /\ nsx' \in {"unrecorded", "reachable", "failing"}
           /\ WorldFits'
<1> DEFINE Fit == /\ place' \in [VM -> Source \cup {Nowhere}] /\ guest' \in [VM -> Guest]
                  /\ up' \subseteq Source /\ nsx' \in {"unrecorded", "reachable", "failing"}
                  /\ WorldFits'
<1>1. /\ place \in [VM -> Source \cup {Nowhere}] /\ guest \in [VM -> Guest]
      /\ up \subseteq Source /\ nsx \in {"unrecorded", "reachable", "failing"}
    BY DEF TypeOK
<1>2. \A s \in Source : NetworksOf[s] \subseteq Network
    BY InventoryAssumption
<1>3. CASE ChangeNSX \/ \E s \in Source : ChangeSource(s)
    BY <1>1, <1>3 DEF ChangeNSX, ChangeSource, WorldFits
<1>4. ASSUME NEW v \in VM, Power(v)
      PROVE  Fit
  <2> DEFINE g == [guest[v] EXCEPT !.ip = ~@]
  <2>1. g \in Guest /\ g.net = guest[v].net
      BY <1>1 DEF Guest
  <2>2. guest' = [guest EXCEPT ![v] = g] /\ UNCHANGED <<place, up, nsx>>
      BY <1>4 DEF Power
  <2> HIDE DEF g
  <2>3. guest' \in [VM -> Guest] /\ \A u \in VM : guest'[u].net = guest[u].net
      BY <1>1, <2>1, <2>2
  <2> QED
      BY <1>1, <2>2, <2>3 DEF WorldFits
<1>5. ASSUME NEW v \in VM, Remove(v)
      PROVE  Fit
    BY <1>1, <1>5 DEF Remove, WorldFits
<1>6. ASSUME NEW v \in VM, NEW n \in Network, guest' = [guest EXCEPT ![v].net = n]
      PROVE  /\ guest' \in [VM -> Guest] /\ guest'[v].net = n
             /\ \A u \in VM \ {v} : guest'[u] = guest[u]
  <2> DEFINE g == [guest[v] EXCEPT !.net = n]
  <2>1. g \in Guest /\ g.net = n
      BY <1>1 DEF Guest
  <2>2. guest' = [guest EXCEPT ![v] = g]
      BY <1>6
  <2> HIDE DEF g
  <2> QED
      BY <1>1, <2>1, <2>2
<1>7. ASSUME NEW v \in VM, NEW n \in Network, Connect(v, n)
      PROVE  Fit
  <2>1. /\ n \in NetworksOf[place[v]] /\ UNCHANGED <<place, up, nsx>>
        /\ guest' = [guest EXCEPT ![v].net = n]
      BY <1>7 DEF Connect
  <2>2. /\ guest' \in [VM -> Guest] /\ guest'[v].net = n
        /\ \A u \in VM \ {v} : guest'[u] = guest[u]
      BY <1>6, <2>1
  <2>3. ASSUME NEW u \in VM, place'[u] # Nowhere
        PROVE  guest'[u].net \in NetworksOf[place'[u]]
    <3>1. CASE u = v
        BY <2>1, <2>2, <3>1
    <3>2. CASE u # v
      <4>1. guest'[u] = guest[u] /\ place'[u] = place[u]
          BY <2>1, <2>2, <3>2
      <4> QED
          BY <2>3, <4>1 DEF WorldFits
    <3> QED
        BY <3>1, <3>2
  <2>4. WorldFits'
      BY <2>3 DEF WorldFits
  <2> QED
      BY <1>1, <2>1, <2>2, <2>4
<1>8. ASSUME NEW v \in VM, NEW s \in Source, Move(v, s)
      PROVE  Fit
  <2>1. PICK n \in NetworksOf[s] : guest' = [guest EXCEPT ![v].net = n]
      BY <1>8 DEF Move
  <2>2. place' = [place EXCEPT ![v] = s] /\ UNCHANGED <<up, nsx>> /\ n \in Network
      BY <1>2, <1>8 DEF Move
  <2>3. /\ guest' \in [VM -> Guest] /\ guest'[v].net = n
        /\ \A u \in VM \ {v} : guest'[u] = guest[u]
      BY <1>6, <2>1, <2>2
  <2>4. /\ place' \in [VM -> Source \cup {Nowhere}] /\ place'[v] = s
        /\ \A u \in VM \ {v} : place'[u] = place[u]
      BY <1>1, <2>2
  <2>5. ASSUME NEW u \in VM, place'[u] # Nowhere
        PROVE  guest'[u].net \in NetworksOf[place'[u]]
    <3>1. CASE u = v
        BY <2>3, <2>4, <3>1
    <3>2. CASE u # v
      <4>1. guest'[u] = guest[u] /\ place'[u] = place[u]
          BY <2>3, <2>4, <3>2
      <4> QED
          BY <2>5, <4>1 DEF WorldFits
    <3> QED
        BY <3>1, <3>2
  <2>6. WorldFits'
      BY <2>5 DEF WorldFits
  <2> QED
      BY <1>1, <2>2, <2>3, <2>4, <2>6
<1> QED
    BY <1>3, <1>4, <1>5, <1>7, <1>8

LEMMA ChangeFits ==
    ASSUME InventoryInv,
           \/ ChangeNSX
           \/ \E v \in VM : Power(v) \/ Remove(v)
           \/ \E s \in Source : ChangeSource(s)
           \/ \E v \in VM, n \in Network : Connect(v, n)
           \/ \E v \in VM, s \in Source : Move(v, s)
    PROVE  InventoryInv'
<1>1. /\ Change
      /\ UNCHANGED <<configured, record, networks, assigned, entry, batch, requests, lock,
                     connection, sync>>
    BY DEF ChangeNSX, Power, Remove, ChangeSource, Connect, Move, Change, NoLocks, OnlySyncs,
           inventory
<1>2. changes' \in 0 .. MaxChanges
    BY <1>1, InventoryAssumption DEF InventoryInv, TypeOK, Change
<1>3. RecordsFit' /\ EntriesFit' /\ SyncsFit'
    BY <1>1 DEF InventoryInv, RecordsFit, EntriesFit, SyncsFit, Recorded, At
<1>4. /\ place' \in [VM -> Source \cup {Nowhere}] /\ guest' \in [VM -> Guest]
      /\ up' \subseteq Source /\ nsx' \in {"unrecorded", "reachable", "failing"}
      /\ WorldFits'
    BY SourcesFit DEF InventoryInv
<1>5. TypeOK'
    BY <1>1, <1>2, <1>4 DEF InventoryInv, TypeOK
<1> QED
    BY <1>3, <1>4, <1>5 DEF InventoryInv

-----------------------------------------------------------------------------
\* In every reachable state the database refers to what is recorded, and the syncs take
\* turns at writing what they read of the sources.
THEOREM InventoryInvariant ==
    Spec => []InventoryInv
<1>1. ASSUME InventoryInv, [Next]_vars
      PROVE  InventoryInv'
  <2>1. CASE SyncAll
      BY <1>1, <2>1, TwoSyncs, BeginFits, LockFits, WriteStepFits, FetchFits DEF SyncAll
  <2>2. CASE ServeSyncOne
      BY <1>1, <2>2, TwoSyncs, LockFits, WaitFits, WriteStepFits, FetchFits DEF ServeSyncOne
  <2>3. CASE \E p \in Sync, s \in Source : FetchInPart(p, s)
      BY <1>1, <2>3, FetchFits
  <2>4. CASE \/ UpdateInstancesAssignedToBatch \/ StartBatchByName \/ StopBatchByName
             \/ ResetBatchByName \/ FinishBatch
             \/ \E v \in VM : Unblock(v)
      BY <1>1, <2>4, AssignFits, BatchFits
  <2>5. CASE \E v \in VM, override \in Override : UpdateOverride(v, override)
      BY <1>1, <2>5, OverrideFits
  <2>6. CASE \E s \in Source : BeginSyncOne(s) \/ DeleteSource(s) \/ CreateSource(s)
      BY <1>1, <2>6, BeginFits, DeleteSourceFits, CreateSourceFits
  <2>7. CASE \/ ChangeNSX
             \/ \E v \in VM : Power(v) \/ Remove(v)
             \/ \E s \in Source : ChangeSource(s)
             \/ \E v \in VM, n \in Network : Connect(v, n)
             \/ \E v \in VM, s \in Source : Move(v, s)
      BY <1>1, <2>7, ChangeFits
  <2>8. CASE UNCHANGED vars
    <3>1. /\ UNCHANGED <<place, guest, up, nsx, changes, sync, lock, connection>>
          /\ UNCHANGED <<configured, record, networks, assigned, entry, batch, requests>>
        BY <2>8 DEF vars, world, inventory
    <3>2. RecordsFit' /\ EntriesFit'
        BY <1>1, <3>1, RequestState DEF RecordsFit, EntriesFit, Recorded
    <3> QED
        BY <1>1, <3>1, <3>2, RequestState, RequestFits
  <2> QED
      BY <1>1, <2>1, <2>2, <2>3, <2>4, <2>5, <2>6, <2>7, <2>8 DEF Next
<1> QED
    BY InitFits, <1>1, PTL DEF Spec

\* A queue entry refers to a recorded instance of a configured source, which is assigned
\* to the batch: whatever a sync deletes, or a user with a source, the entries go with it
\* (syncSourceData, DeleteByUUID, DeleteByName).
THEOREM EntriesAreBacked ==
    Spec => []EntriesBacked
<1>1. InventoryInv => EntriesBacked
    BY DEF InventoryInv, RecordsFit, EntriesFit, EntriesBacked
<1> QED
    BY <1>1, InventoryInvariant, PTL

-----------------------------------------------------------------------------
(* What a sync may not touch *)

\* A sync writes in Write alone, and no other sync can then be writing.
LEMMA WritesIsWrite ==
    ASSUME InventoryInv, [Next]_vars, NEW p \in Sync, Writes(p)
    PROVE  Write(p)
<1>1. lock = p /\ lock' = NoOne /\ lock' # lock /\ lock' \notin Sync
    BY TwoSyncs DEF Writes
<1>2. \/ SyncAll \/ ServeSyncOne
    BY <1>1 DEF Next, vars, FetchInPart, NoLocks, Change, Request,
        UpdateInstancesAssignedToBatch, StartBatchByName, StopBatchByName, ResetBatchByName,
        FinishBatch, ChangeNSX, Unblock, Power, Remove, UpdateOverride, BeginSyncOne,
        DeleteSource, CreateSource, ChangeSource, Connect, Move
<1>3. \E q \in Sync : Write(q)
  <2>1. ASSUME SyncAll
        PROVE  Write("all")
      BY <1>1, <2>1, TwoSyncs DEF SyncAll, BeginSyncAll, LockAll, Fetch, FetchFails, NoLocks
  <2>2. ASSUME ServeSyncOne
        PROVE  Write("one")
      BY <1>1, <2>2, TwoSyncs DEF ServeSyncOne, LockOne, FailOne, OpenTransaction,
          LockInTransaction, Fetch, FetchFails, NoLocks
  <2> QED
      BY <1>2, <2>1, <2>2, TwoSyncs
<1>4. PICK q \in Sync : Write(q)
    BY <1>3
<1>5. lock = q
    BY <1>4, SyncData DEF Write
<1> QED
    BY <1>1, <1>4, <1>5

\* The transaction of a sync: it does all or nothing.
LEMMA Written ==
    ASSUME NEW data, WriteData(data)
    PROVE  \/ UNCHANGED <<record, assigned, entry, networks>>
           \/ /\ \E order \in Orders(DOMAIN data) : ~CannotCreate(data, order)
              /\ record' = SyncedRecords(data)
              /\ assigned' = assigned \ AllDeleted(data)
              /\ entry' = [v \in VM |-> IF v \in AllDeleted(data) THEN "none" ELSE entry[v]]
              /\ networks' = [s \in Source |->
                     IF s \in DOMAIN data THEN SyncedNetworks(data, s) ELSE networks[s]]
BY DEF WriteData

\* What a sync does not delete and does not update, it leaves as it is: it cannot create
\* again what is recorded.
LEMMA RecordKept ==
    ASSUME NEW data, NEW order, ~CannotCreate(data, order), NEW v \in Recorded,
           v \notin AllDeleted(data),
           \A t \in DOMAIN data : v \notin Updated(data, t)
    PROVE  SyncedRecords(data)[v] = record[v]
<1>1. v \in VM /\ record[v] # NoRecord
    BY DEF Recorded
<1>2. \A t \in DOMAIN data : v \notin Created(data, t)
    BY <1>1, CreatedAnew
<1> QED
    BY <1>1, <1>2, SyncedCases

LEMMA DeletedWhereRead ==
    ASSUME NEW data, NEW v \in AllDeleted(data)
    PROVE  v \in Recorded /\ record[v].source \in DOMAIN data
<1>1. PICK s \in DOMAIN data : v \in Deleted(data, s)
    BY DEF AllDeleted
<1> QED
    BY <1>1, SyncSets

\* A sync in which a source did not answer leaves what is recorded of it as it is: its
\* instances and its networks, even those whose VMs were read of another source
\* (trySyncAllSources, syncSourceData).
THEOREM SilentSourcesAreKept ==
    Spec => SilentSourceKept
<1>1. ASSUME InventoryInv, [Next]_vars, NEW p \in Sync, Writes(p),
             NEW s \in Source \ DOMAIN sync[p].data
      PROVE  networks'[s] = networks[s] /\ \A v \in RecordedAt(s) : record'[v] = record[v]
  <2> DEFINE data == sync[p].data
  <2>1. WriteData(data) /\ s \in Source /\ s \notin DOMAIN data
      BY <1>1, WritesIsWrite DEF Write
  <2> HIDE DEF data
  <2>2. CASE UNCHANGED <<record, assigned, entry, networks>>
      BY <2>2
  <2>3. CASE /\ \E order \in Orders(DOMAIN data) : ~CannotCreate(data, order)
             /\ record' = SyncedRecords(data)
             /\ networks' = [t \in Source |->
                    IF t \in DOMAIN data THEN SyncedNetworks(data, t) ELSE networks[t]]
    <3>1. PICK order : ~CannotCreate(data, order)
        BY <2>3
    <3>2. ASSUME NEW v \in RecordedAt(s)
          PROVE  record'[v] = record[v]
      <4>1. v \in Recorded /\ record[v].source = s
          BY DEF RecordedAt
      <4>2. v \notin AllDeleted(data) /\ \A t \in DOMAIN data : v \notin Updated(data, t)
          BY <2>1, <4>1, DeletedWhereRead, SyncSets
      <4> QED
          BY <2>3, <3>1, <4>1, <4>2, RecordKept
    <3> QED
        BY <2>1, <2>3, <3>2
  <2> QED
      BY <2>1, <2>2, <2>3, Written
<1>2. InventoryInv /\ [Next]_vars =>
        [\A p \in Sync : Writes(p) =>
            \A s \in Source \ DOMAIN sync[p].data :
                networks'[s] = networks[s] /\
                \A v \in RecordedAt(s) : record'[v] = record[v]]_vars
    BY <1>1
<1> QED
    BY <1>2, InventoryInvariant, PTL DEF Spec, SilentSourceKept

-----------------------------------------------------------------------------
(* The networks of migrating instances *)

LEMMA SmallestNumber ==
    ASSUME NEW S \in SUBSET Nat, S # {}
    PROVE  \E n \in S : \A m \in S : n <= m
<1>1. \E R : IsWellFoundedOn(R, Nat) /\ \A m, n \in Nat : m < n => <<m, n>> \in R
  <2>1. \A m, n \in Nat : m < n => <<m, n>> \in OpToRel(<, Nat)
      BY DEF OpToRel
  <2> QED
      BY <2>1, NatLessThanWellFounded, Zenon
<1>2. PICK R : IsWellFoundedOn(R, Nat) /\ \A m, n \in Nat : m < n => <<m, n>> \in R
    BY <1>1, Zenon
<1>3. S \subseteq Nat /\ S # {} /\ IsWellFoundedOn(R, Nat)
    BY <1>2
<1>4. PICK n \in S : \A m \in S : ~ (<<m, n>> \in R)
    BY <1>3, WFMin
<1>5. ASSUME NEW m \in S
      PROVE  n <= m
  <2>1. m \in Nat /\ n \in Nat /\ ~ (m < n)
      BY <1>2, <1>3, <1>4, Zenon
  <2> QED
      BY <2>1
<1> QED
    BY <1>5

LEMMA LargestNumber ==
    ASSUME NEW S \in SUBSET Nat, S # {}, IsFiniteSet(S)
    PROVE  \E n \in S : \A m \in S : m <= n
<1> DEFINE Above(n) == {m \in S : n < m}
           Count(n) == Cardinality(Above(n))
           counts == {Count(n) : n \in S}
<1>1. \A n \in S : IsFiniteSet(Above(n)) /\ Count(n) \in Nat
    BY FS_Subset, FS_CardinalityType
<1>2. counts \in SUBSET Nat /\ counts # {}
    BY <1>1
<1> HIDE DEF counts
<1>3. PICK least \in counts : \A c \in counts : least <= c
    BY <1>2, SmallestNumber
<1>4. PICK n \in S : least = Count(n)
    BY <1>3 DEF counts
<1>5. ASSUME NEW m \in S, n < m
      PROVE  FALSE
  <2>1. Above(m) \subseteq Above(n) /\ m \in Above(n) /\ m \notin Above(m)
    <3>1. m \in Nat /\ n \in Nat /\ \A u \in S : u \in Nat
        BY <1>4, <1>5
    <3>2. ~ (m < m) /\ \A u \in S : m < u => n < u
        BY <1>5, <3>1
    <3> QED
        BY <1>5, <3>2
  <2> HIDE DEF Above
  <2>2. Count(m) < Count(n)
    <3>1. Above(m) # Above(n)
        BY <2>1
    <3> QED
        BY <1>1, <2>1, <3>1, FS_Subset
  <2>3. Count(n) <= Count(m)
      BY <1>3, <1>4 DEF counts
  <2> QED
      BY <1>1, <2>2, <2>3
<1> QED
    BY <1>5

\* No two sources have networks of the same name.
NetworksApart == \A s, t \in Source : s # t => NetworksOf[s] \cap NetworksOf[t] = {}

\* FilterUsedNetworks finds the network of every instance it is given.
LEMMA NetworkIsUsed ==
    ASSUME NetworksApart, TypeOK, RecordsFit, NEW instances \in SUBSET Recorded,
           NEW v \in instances
    PROVE  record[v].net \in UsedNetworks(record[v].source, instances, record)
<1> DEFINE n == record[v].net
           s == record[v].source
           users == {u \in instances : record[u].net = n}
<1>1. \A u \in instances : /\ u \in VM /\ record[u] \in Record
                           /\ record[u].source \in Source
                           /\ record[u].net \in NetworksOf[record[u].source]
  <2>1. \A u \in instances : u \in Recorded /\ u \in VM
      BY DEF Recorded
  <2>2. \A u \in Recorded : record[u] \in Record /\ record[u].net \in NetworksOf[record[u].source]
      BY RecordedTyped DEF RecordsFit
  <2> QED
      BY <2>1, <2>2, RecordFields
<1>2. n \in Network
    BY <1>1, RecordFields
<1>3. users \in SUBSET Nat /\ users # {} /\ IsFiniteSet(users)
  <2>1. users \subseteq VM /\ v \in users
      BY <1>1
  <2> QED
      BY <2>1, FS_Subset, InventoryAssumption
<1> HIDE DEF n, s, users
<1>4. PICK last \in users : \A u \in users : u <= last
    BY <1>3, LargestNumber
<1>5. last \in instances /\ record[last].net = n /\ v \in instances
    BY DEF users
<1>6. n \in NetworksOf[record[last].source] /\ n \in NetworksOf[s]
    BY <1>1, <1>5 DEF n, s
<1>7. record[last].source = s
    BY <1>1, <1>5, <1>6 DEF NetworksApart, s
<1>8. n \in UsedNetworks(s, instances, record)
    BY <1>2, <1>4, <1>7 DEF UsedNetworks, users
<1> QED
    BY <1>8 DEF n, s

\* No sync touches what a migration under way relies on: the record of its instance, its
\* queue entry and the network its VM is connected to, whatever became of the VM at the
\* source, however long ago the sync read it, and whatever the sync omitted (syncSourceData,
\* instanceService.Update, DeleteByUUID).  That networks of different sources have different
\* names is assumed because FilterUsedNetworks tells networks apart by their names alone.
THEOREM MigrationsAreUndisturbed ==
    ASSUME NetworksApart
    PROVE  Spec => MigrationUndisturbed
<1> DEFINE Undisturbed(v) ==
        /\ record'[v] = record[v] /\ entry'[v] = entry[v] /\ v \in assigned'
        /\ LET s == record[v].source IN
           \A n \in DOMAIN networks[s] \cap {record[v].net} :
                n \in DOMAIN networks'[s] /\ networks'[s][n] = networks[s][n]
<1>1. ASSUME InventoryInv, [Next]_vars, NEW p \in Sync, Writes(p), NEW v \in Migrating
      PROVE  Undisturbed(v)
  <2> DEFINE data == sync[p].data
             s == record[v].source
             n == record[v].net
  <2>1. WriteData(data) /\ TypeOK /\ RecordsFit /\ EntriesFit
      BY <1>1, WritesIsWrite DEF Write, InventoryInv
  <2>2. /\ v \in InRunningBatch /\ v \in assigned /\ v \in VM
        /\ v \in Frozen /\ v \in Kept
      BY <2>1 DEF Migrating, Frozen, Kept, InRunningBatch, TypeOK
  <2>3. v \in Recorded /\ InRunningBatch \in SUBSET Recorded
      BY <2>1, <2>2 DEF EntriesFit, InRunningBatch
  <2>4. s \in Source
      BY <2>3, RecordedTyped, RecordFields, <2>1
  <2>5. n \in UsedNetworks(s, InRunningBatch, record)
      BY <2>1, <2>2, <2>3, NetworkIsUsed
  <2> HIDE DEF data
  <2>6. CASE UNCHANGED <<record, assigned, entry, networks>>
      BY <2>2, <2>6
  <2>7. CASE /\ \E order \in Orders(DOMAIN data) : ~CannotCreate(data, order)
             /\ record' = SyncedRecords(data)
             /\ assigned' = assigned \ AllDeleted(data)
             /\ entry' = [u \in VM |-> IF u \in AllDeleted(data) THEN "none" ELSE entry[u]]
             /\ networks' = [t \in Source |->
                    IF t \in DOMAIN data THEN SyncedNetworks(data, t) ELSE networks[t]]
    <3>1. PICK order : ~CannotCreate(data, order)
        BY <2>7
    <3>2. v \notin AllDeleted(data) /\ \A t \in DOMAIN data : v \notin Updated(data, t)
        BY <2>2 DEF AllDeleted, Deleted, Updated
    <3>3. record'[v] = record[v] /\ entry'[v] = entry[v] /\ v \in assigned'
        BY <2>2, <2>3, <2>7, <3>1, <3>2, RecordKept
    <3>4. ASSUME n \in DOMAIN networks[s]
          PROVE  n \in DOMAIN networks'[s] /\ networks'[s][n] = networks[s][n]
      <4>1. CASE s \notin DOMAIN data
          BY <2>4, <2>7, <3>4, <4>1
      <4>2. CASE s \in DOMAIN data
        <5>1. n \in LeftAlone(data, s)
            BY <2>5, <3>4 DEF LeftAlone
        <5>2. networks'[s] = SyncedNetworks(data, s)
            BY <2>4, <2>7, <4>2
        <5> QED
            BY <5>1, <5>2 DEF SyncedNetworks
      <4> QED
          BY <4>1, <4>2
    <3> QED
        BY <3>3, <3>4
  <2> QED
      BY <2>1, <2>6, <2>7, Written
<1>2. InventoryInv /\ [Next]_vars =>
        [(\E p \in Sync : Writes(p)) => \A v \in Migrating : Undisturbed(v)]_vars
    BY <1>1
<1> QED
    BY <1>2, InventoryInvariant, PTL DEF Spec, MigrationUndisturbed

=============================================================================
