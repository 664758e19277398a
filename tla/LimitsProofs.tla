---------------------------- MODULE LimitsProofs ----------------------------
(***************************************************************************)
(* Proofs about Limits, for any instances, batches, sources, targets,      *)
(* limits and events: no target creates more and no batch syncs more at a  *)
(* time than it may, but for the syncs its counter was made to forget,     *)
(* whatever is canceled, reset, rolled back or restarted.                  *)
(***************************************************************************)
EXTENDS Limits, FiniteSetTheorems, TLAPS

\* The entry of an instance is of the instance's batch.
EntriesBelong == \A i \in Instance : Queued(i) => queue[i].batch = BatchOf[i]

\* Nobody else moves an entry whose target VM is being created, unless its batch is
\* reset and started again.
CreationsHeld ==
    \A i \in Instance : creating[i] # "no" =>
        /\ worker[i] = "none"
        /\ Queued(i) => queue[i].status \in {"CREATING", "WAITING"}

\* Every sync is counted, or its batch's counter was made to forget it.  The
\* converse may fail: a sync that was canceled keeps its slot until the daemon
\* starts anew or the batch is reset.
SyncsCounted ==
    \A b \in Batch : Cardinality(Syncing(b)) <= batchImports[b] + uncounted[b]

SyncsLimited ==
    \A b \in Batch : SyncLimit[b] > 0 => Cardinality(Syncing(b)) <= SyncLimit[b] + uncounted[b]

\* The target VMs that t creates.
CreatedOn(t) == {i \in OnTarget(Instance, t) : creating[i] # "no"}

CreationsLimited ==
    \A t \in Target : CreateLimit[t] > 0 => Cardinality(CreatedOn(t)) <= CreateLimit[t]

LimitsInv ==
    /\ TypeOK /\ EntriesBelong /\ CreationsHeld
    /\ SyncsCounted /\ SyncsLimited /\ CreationsLimited

-----------------------------------------------------------------------------
(* Lemmas about entries and counters *)

LEMMA EntryUpdates ==
    ASSUME NEW e \in Entry, NEW s \in Status, NEW stage \in ImportStage, NEW r \in BOOLEAN
    PROVE  /\ UpdateStatus(e, s, stage, NoWindow) \in Entry
           /\ UpdateStatus(e, s, stage, NoWindow).batch = e.batch
           /\ UpdateStatus(e, s, stage, NoWindow).status = s
           /\ Retry(e, s, r) \in Entry
           /\ Retry(e, s, r).batch = e.batch
           /\ Retry(e, s, r).status = s
<1> DEFINE u == UpdateStatus(e, s, stage, NoWindow)
           v == UpdateStatus(e, s, "background", NoWindow)
<1>1. u \in Entry /\ u.batch = e.batch /\ u.status = s
    BY DEF UpdateStatus, Entry
<1>2. v \in Entry /\ v.batch = e.batch /\ v.status = s
    BY DEF UpdateStatus, Entry, ImportStage
<1>3. Retry(e, s, r) = [v EXCEPT !.running = r]
    BY DEF Retry
<1> HIDE DEF u, v
<1>4. Retry(e, s, r) \in Entry /\ Retry(e, s, r).batch = e.batch /\ Retry(e, s, r).status = s
    BY <1>2, <1>3 DEF Entry
<1> QED
    BY <1>1, <1>4 DEF u

\* What a worker reports never begins a sync; how it ends one.
LEMMA WorkerUpdates ==
    ASSUME NEW e \in Entry, NEW response \in Response
    PROVE  /\ ProcessWorkerUpdate(e, response) \in Entry
           /\ ProcessWorkerUpdate(e, response).batch = e.batch
           /\ ProcessWorkerUpdate(e, response).status = "BACKGROUND_IMPORT" =>
                e.status = "BACKGROUND_IMPORT" /\ response \notin {"SUCCESS", "FAILED"}
<1> DEFINE m == CASE response = "SUCCESS" -> Succeeded(e)
                  [] response = "FAILED"  -> [e EXCEPT !.status = "ERROR"]
                  [] OTHER -> e
<1>1. /\ Succeeded(e) \in Entry /\ Succeeded(e).batch = e.batch
      /\ Succeeded(e).status # "BACKGROUND_IMPORT"
  <2>1. CASE e.status = "BACKGROUND_IMPORT"
      BY <2>1 DEF Succeeded, Entry, Status, ImportStage
  <2>2. CASE e.status = "FINAL_IMPORT"
      BY <2>2 DEF Succeeded, Entry, Status, ImportStage
  <2>3. CASE e.status = "POST_IMPORT"
      BY <2>3 DEF Succeeded, Entry, Status, ImportStage
  <2>4. CASE e.status \notin {"BACKGROUND_IMPORT", "FINAL_IMPORT", "POST_IMPORT"}
      BY <2>4 DEF Succeeded
  <2> QED
      BY <2>1, <2>2, <2>3, <2>4
<1>2. /\ m \in Entry /\ m.batch = e.batch
      /\ m.status = "BACKGROUND_IMPORT" =>
            e.status = "BACKGROUND_IMPORT" /\ response \notin {"SUCCESS", "FAILED"}
  <2>1. CASE response = "SUCCESS"
      BY <1>1, <2>1
  <2>2. CASE response = "FAILED"
      BY <2>2 DEF Entry, Status
  <2>3. CASE response \notin {"SUCCESS", "FAILED"}
      BY <2>3
  <2> QED
      BY <2>1, <2>2, <2>3
<1>3. ProcessWorkerUpdate(e, response) = [m EXCEPT !.lastWorker = response]
    BY DEF ProcessWorkerUpdate
<1> HIDE DEF m
<1> QED
    BY <1>2, <1>3 DEF Entry

LEMMA CountersTyped ==
    ASSUME NEW X, NEW count \in [X -> Nat], NEW x \in X
    PROVE  Record(count, x) \in [X -> Nat] /\ Remove(count, x) \in [X -> Nat]
BY DEF Record, Remove

LEMMA PartOfInstances ==
    ASSUME NEW S, S \subseteq Instance
    PROVE  IsFiniteSet(S) /\ Cardinality(S) \in Nat
BY LimitsAssumption, FS_Subset, FS_CardinalityType

LEMMA FewerInstances ==
    ASSUME NEW S, S \subseteq Instance, NEW T, T \subseteq S
    PROVE  Cardinality(T) <= Cardinality(S)
BY PartOfInstances, FS_Subset

LEMMA SyncingOf ==
    ASSUME NEW b
    PROVE  Syncing(b) = {i \in Instance : /\ Queued(i)
                                          /\ queue[i].status = "BACKGROUND_IMPORT"
                                          /\ queue[i].batch = b}
BY DEF Syncing, InStatus, Entries

-----------------------------------------------------------------------------
(* Steps that begin no sync and no creation *)

\* An entry that is synced after the step was synced before, and nothing else
\* that the limits are about has begun.
NothingBegun ==
    /\ \A i \in Instance :
        Queued(i)' /\ queue'[i].status = "BACKGROUND_IMPORT" =>
            Queued(i) /\ queue[i].status = "BACKGROUND_IMPORT"
    /\ \A i \in Instance : creating'[i] # "no" => creating[i] # "no"

LEMMA FewerSyncs ==
    ASSUME LimitsInv, EntriesBelong', NothingBegun, NEW b \in Batch
    PROVE  Syncing(b)' \subseteq Syncing(b) /\ Syncing(b) \subseteq Instance
BY DEF NothingBegun, LimitsInv, EntriesBelong, Syncing, InStatus, Entries, Queued

\* The counter of b, and what it was made to forget, account for no less than before.
CountKept(b) ==
    /\ uncounted'[b] >= uncounted[b]
    /\ batchImports'[b] + uncounted'[b] >= batchImports[b] + uncounted[b]

LEMMA LimitsKept ==
    ASSUME LimitsInv, TypeOK', EntriesBelong', CreationsHeld', NothingBegun,
           \A b \in Batch : CountKept(b) \/ Syncing(b)' = {}
    PROVE  LimitsInv'
<1>1. ASSUME NEW b \in Batch
      PROVE  /\ Cardinality(Syncing(b)') <= Cardinality(Syncing(b))
             /\ Cardinality(Syncing(b)') \in Nat /\ Cardinality(Syncing(b)) \in Nat
  <2>1. Syncing(b)' \subseteq Syncing(b) /\ Syncing(b) \subseteq Instance
      BY FewerSyncs
  <2> QED
      BY <2>1, FewerInstances, PartOfInstances
<1>2. ASSUME NEW b \in Batch
      PROVE  /\ batchImports'[b] \in Nat /\ batchImports[b] \in Nat
             /\ uncounted'[b] \in Nat /\ uncounted[b] \in Nat /\ SyncLimit[b] \in Nat
    BY LimitsAssumption DEF LimitsInv, TypeOK
<1>3. SyncsCounted' /\ SyncsLimited'
  <2>1. ASSUME NEW b \in Batch
        PROVE  /\ Cardinality(Syncing(b)') <= batchImports'[b] + uncounted'[b]
               /\ SyncLimit[b] > 0 => Cardinality(Syncing(b)') <= SyncLimit[b] + uncounted'[b]
    <3>1. CASE Syncing(b)' = {}
      <4>1. Cardinality(Syncing(b)') = 0
          BY <3>1, FS_EmptySet
      <4> QED
          BY <1>2, <4>1
    <3>2. CASE CountKept(b)
        BY <1>1, <1>2, <3>2 DEF CountKept, LimitsInv, SyncsCounted, SyncsLimited
    <3> QED
        BY <3>1, <3>2
  <2> QED
      BY <2>1 DEF SyncsCounted, SyncsLimited
<1>4. CreationsLimited'
  <2>1. ASSUME NEW t \in Target, CreateLimit[t] > 0
        PROVE  Cardinality(CreatedOn(t)') <= CreateLimit[t]
    <3>1. CreatedOn(t)' \subseteq CreatedOn(t) /\ CreatedOn(t) \subseteq Instance
        BY DEF CreatedOn, OnTarget, NothingBegun
    <3>2. /\ Cardinality(CreatedOn(t)') <= Cardinality(CreatedOn(t))
          /\ Cardinality(CreatedOn(t)') \in Nat /\ Cardinality(CreatedOn(t)) \in Nat
        BY <3>1, FewerInstances, PartOfInstances
    <3>3. Cardinality(CreatedOn(t)) <= CreateLimit[t] /\ CreateLimit[t] \in Nat
        BY <2>1, LimitsAssumption DEF LimitsInv, CreationsLimited
    <3> QED
        BY <3>2, <3>3
  <2> QED
      BY <2>1 DEF CreationsLimited
<1> QED
    BY <1>3, <1>4 DEF LimitsInv

\* Neither the counter nor what it has forgotten changes.
LEMMA CountUnchanged ==
    ASSUME LimitsInv, UNCHANGED <<batchImports, uncounted>>
    PROVE  \A b \in Batch : CountKept(b)
BY DEF CountKept, LimitsInv, TypeOK

\* A rolled-back transaction gives slots back: they are forgotten, not lost.
LEMMA CountForgotten ==
    ASSUME LimitsInv, batchImports' \in [Batch -> Nat], Uncount,
           \A b \in Batch : batchImports'[b] <= batchImports[b]
    PROVE  uncounted' \in [Batch -> Nat] /\ \A b \in Batch : CountKept(b)
<1>1. ASSUME NEW b \in Batch
      PROVE  /\ uncounted'[b] = uncounted[b] + batchImports[b] - batchImports'[b]
             /\ uncounted'[b] \in Nat /\ CountKept(b)
    BY DEF Uncount, CountKept, LimitsInv, TypeOK
<1>2. uncounted' = [b \in Batch |-> uncounted'[b]]
    BY DEF Uncount
<1> QED
    BY <1>1, <1>2

\* An entry changes, and stays one of its batch.
LEMMA EntryWritten ==
    ASSUME LimitsInv, NEW i \in Instance, NEW e \in Entry, e.batch = BatchOf[i],
           queue' = [queue EXCEPT ![i] = e]
    PROVE  /\ queue' \in [Instance -> Entry \cup {NoEntry}]
           /\ EntriesBelong'
           /\ queue'[i] = e /\ Queued(i)'
           /\ \A j \in Instance \ {i} : queue'[j] = queue[j]
<1>1. /\ queue' \in [Instance -> Entry \cup {NoEntry}] /\ queue'[i] = e
      /\ \A j \in Instance \ {i} : queue'[j] = queue[j]
    BY DEF LimitsInv, TypeOK
<1>2. e # NoEntry
    BY EntryAssumption
<1> QED
    BY <1>1, <1>2 DEF LimitsInv, EntriesBelong, Queued

LEMMA StatusWritten ==
    ASSUME LimitsInv, NEW i \in Instance, Queued(i),
           NEW s \in Status, NEW stage \in ImportStage, SetStatus(i, s, stage)
    PROVE  /\ queue' \in [Instance -> Entry \cup {NoEntry}]
           /\ EntriesBelong'
           /\ queue'[i].status = s /\ Queued(i)'
           /\ \A j \in Instance \ {i} : queue'[j] = queue[j]
<1> DEFINE e == UpdateStatus(queue[i], s, stage, NoWindow)
<1>1. queue[i] \in Entry /\ queue[i].batch = BatchOf[i]
    BY DEF LimitsInv, TypeOK, EntriesBelong, Queued
<1>2. e \in Entry /\ e.batch = BatchOf[i] /\ e.status = s
    BY <1>1, EntryUpdates
<1>3. queue' = [queue EXCEPT ![i] = e]
    BY DEF SetStatus
<1> HIDE DEF e
<1> QED
    BY <1>2, <1>3, EntryWritten

LEMMA EventCounted ==
    ASSUME LimitsInv, NEW e, Event(e)
    PROVE  events' \in 0 .. MaxEvents
BY LimitsAssumption DEF LimitsInv, TypeOK, Event

LEMMA BelongsAs ==
    ASSUME LimitsInv
    PROVE  \A i \in Instance :
                /\ BatchOf[i] \in Batch /\ SourceOf[i] \in Source /\ TargetOf[i] \in Target
                /\ Queued(i) => queue[i] \in Entry /\ queue[i].batch = BatchOf[i]
                                /\ queue[i].stage \in ImportStage
                                /\ queue[i].status \in Status
<1>1. \A e \in Entry : e.stage \in ImportStage /\ e.status \in Status
    BY DEF Entry
<1> QED
    BY <1>1, LimitsAssumption DEF LimitsInv, TypeOK, EntriesBelong, Queued

-----------------------------------------------------------------------------
(* The creation of target VMs *)

LEMMA SetUpVMKeeps ==
    ASSUME LimitsInv, NEW i \in Instance, SetUpVM(i)
    PROVE  LimitsInv'
<1>1. Remove(creations, TargetOf[i]) \in [Target -> Nat]
    BY BelongsAs, CountersTyped DEF LimitsInv, TypeOK
<1>2. TypeOK'
    BY <1>1 DEF SetUpVM, importCounters, LimitsInv, TypeOK
<1>3. EntriesBelong' /\ CreationsHeld' /\ NothingBegun
    BY DEF SetUpVM, LimitsInv, TypeOK, EntriesBelong, CreationsHeld, NothingBegun, Queued
<1> QED
    BY <1>2, <1>3, LimitsKept, CountUnchanged DEF SetUpVM, importCounters

LEMMA AgentUpKeeps ==
    ASSUME LimitsInv, NEW i \in Instance, AgentUp(i)
    PROVE  LimitsInv'
<1>1. Queued(i) /\ SetStatus(i, "IDLE", "background")
    BY DEF AgentUp
<1>2. "IDLE" \in Status /\ "background" \in ImportStage
    BY DEF Status, ImportStage
<1>3. /\ queue' \in [Instance -> Entry \cup {NoEntry}]
      /\ EntriesBelong'
      /\ queue'[i].status = "IDLE" /\ Queued(i)'
      /\ \A j \in Instance \ {i} : queue'[j] = queue[j]
    BY <1>1, <1>2, StatusWritten
<1>4. TypeOK'
    BY <1>3 DEF AgentUp, counters, importCounters, LimitsInv, TypeOK
<1>5. CreationsHeld' /\ NothingBegun
    BY <1>3 DEF AgentUp, LimitsInv, TypeOK, CreationsHeld, NothingBegun, Queued
<1> QED
    BY <1>3, <1>4, <1>5, LimitsKept, CountUnchanged DEF AgentUp, counters, importCounters

LEMMA RevertCreationKeeps ==
    ASSUME LimitsInv, NEW i \in Instance, RevertCreation(i), events' \in 0 .. MaxEvents
    PROVE  LimitsInv'
<1>1. Remove(creations, TargetOf[i]) \in [Target -> Nat]
    BY BelongsAs, CountersTyped DEF LimitsInv, TypeOK
<1>2. /\ queue' \in [Instance -> Entry \cup {NoEntry}]
      /\ EntriesBelong'
      /\ Queued(i)' => Queued(i) /\ queue'[i].status = "WAITING"
      /\ \A j \in Instance \ {i} : queue'[j] = queue[j]
  <2>1. CASE Queued(i)
    <3>1. "WAITING" \in Status /\ "background" \in ImportStage
        BY DEF Status, ImportStage
    <3> QED
        BY <2>1, <3>1, StatusWritten DEF RevertCreation
  <2>2. CASE ~Queued(i)
      BY <2>2 DEF RevertCreation, LimitsInv, TypeOK, EntriesBelong, Queued
  <2> QED
      BY <2>1, <2>2
<1>3. TypeOK'
    BY <1>1, <1>2 DEF RevertCreation, importCounters, LimitsInv, TypeOK
<1>4. CreationsHeld' /\ NothingBegun
    BY <1>2 DEF RevertCreation, LimitsInv, TypeOK, CreationsHeld, NothingBegun, Queued
<1> QED
    BY <1>2, <1>3, <1>4, LimitsKept, CountUnchanged DEF RevertCreation, importCounters

LEMMA FailedCreationKeeps ==
    ASSUME LimitsInv, NEW i \in Instance, CreateFails(i) \/ CreatedInVain(i)
    PROVE  LimitsInv'
<1>1. events' \in 0 .. MaxEvents
    BY EventCounted DEF CreateFails, CreatedInVain, LimitsInv, TypeOK
<1> QED
    BY <1>1, RevertCreationKeeps DEF CreateFails, CreatedInVain

\* However many creations were recorded before, a round begins no more than the
\* limit allows.
LEMMA CreationsFit ==
    ASSUME LimitsInv, NEW S \in SUBSET Instance, FitsLimits(S)
    PROVE  /\ \A t \in Target : CreateLimit[t] > 0 =>
                    Cardinality(OnTarget(S, t)) <= CreateLimit[t]
           /\ RecordCreations(S) => creations' \in [Target -> Nat]
<1>1. \A t \in Target : Cardinality(OnTarget(S, t)) \in Nat /\ creations[t] \in Nat
    BY PartOfInstances DEF OnTarget, LimitsInv, TypeOK
<1>2. ASSUME NEW t \in Target, CreateLimit[t] > 0
      PROVE  Cardinality(OnTarget(S, t)) <= CreateLimit[t]
  <2>1. CreateLimit[t] \in Nat
      BY LimitsAssumption
  <2>2. CASE OnTarget(S, t) = {}
      BY <1>2, <2>1, <2>2, FS_EmptySet
  <2>3. CASE OnTarget(S, t) # {}
      BY <1>1, <1>2, <2>1, <2>3 DEF FitsLimits
  <2> QED
      BY <2>2, <2>3
<1>3. RecordCreations(S) => creations' \in [Target -> Nat]
    BY <1>1 DEF RecordCreations
<1> QED
    BY <1>2, <1>3

LEMMA RollBackKeeps ==
    ASSUME LimitsInv, NEW S \in SUBSET Instance, RollBack(S)
    PROVE  LimitsInv'
<1>1. creations' \in [Target -> Nat]
    BY CreationsFit DEF RollBack
<1>2. TypeOK'
    BY <1>1, EventCounted DEF RollBack, importCounters, LimitsInv, TypeOK
<1>3. EntriesBelong' /\ CreationsHeld' /\ NothingBegun
    BY DEF RollBack, LimitsInv, EntriesBelong, CreationsHeld, NothingBegun, Queued
<1> QED
    BY <1>2, <1>3, LimitsKept, CountUnchanged DEF RollBack, importCounters

LEMMA BeginImportsKeeps ==
    ASSUME LimitsInv, NEW S \in SUBSET Instance, BeginImports(S)
    PROVE  LimitsInv'
<1> DEFINE e(i) == UpdateStatus(queue[i], "CREATING", queue[i].stage, NoWindow)
<1>1. ASSUME NEW i \in S
      PROVE  /\ i \in Instance /\ worker[i] = "none"
             /\ e(i) \in Entry /\ e(i).batch = BatchOf[i] /\ e(i).status = "CREATING"
  <2>1. i \in Instance /\ Queued(i) /\ worker[i] = "none"
      BY DEF BeginImports, Picked, Creatable, InStatus
  <2>2. /\ queue[i] \in Entry /\ queue[i].batch = BatchOf[i]
        /\ queue[i].stage \in ImportStage
      BY <2>1, BelongsAs
  <2>3. "CREATING" \in Status
      BY DEF Status
  <2>4. e(i) \in Entry /\ e(i).batch = queue[i].batch /\ e(i).status = "CREATING"
      BY <2>2, <2>3, EntryUpdates
  <2> QED
      BY <2>1, <2>2, <2>4
<1>2. /\ creations' \in [Target -> Nat]
      /\ \A t \in Target : CreateLimit[t] > 0 => Cardinality(OnTarget(S, t)) <= CreateLimit[t]
    BY CreationsFit DEF BeginImports, Picked
<1>3. \A i \in Instance : queue'[i] = IF i \in S THEN e(i) ELSE queue[i]
    BY DEF BeginImports
<1>4. queue' \in [Instance -> Entry \cup {NoEntry}]
    BY <1>1 DEF BeginImports, LimitsInv, TypeOK
<1> HIDE DEF e
<1>5. \A i \in Instance : creating'[i] = IF i \in S THEN "counted" ELSE "no"
    BY DEF BeginImports
<1>6. TypeOK'
    BY <1>2, <1>4 DEF BeginImports, importCounters, LimitsInv, TypeOK
<1>7. EntriesBelong'
    BY <1>1, <1>3 DEF LimitsInv, EntriesBelong, Queued
<1>8. CreationsHeld'
    BY <1>1, <1>3, <1>5 DEF BeginImports, CreationsHeld, Queued
<1>9. ASSUME NEW b \in Batch
      PROVE  Syncing(b)' \subseteq Syncing(b) /\ Syncing(b) \subseteq Instance
    BY <1>1, <1>3 DEF Syncing, InStatus, Entries, Queued
<1>10. ASSUME NEW b \in Batch
       PROVE  /\ Cardinality(Syncing(b)') <= Cardinality(Syncing(b))
              /\ Cardinality(Syncing(b)') \in Nat /\ Cardinality(Syncing(b)) \in Nat
    BY <1>9, FewerInstances, PartOfInstances
<1>11. SyncsCounted' /\ SyncsLimited'
  <2>1. ASSUME NEW b \in Batch
        PROVE  /\ Cardinality(Syncing(b)') <= batchImports'[b] + uncounted'[b]
               /\ SyncLimit[b] > 0 => Cardinality(Syncing(b)') <= SyncLimit[b] + uncounted'[b]
    <3>1. /\ batchImports[b] \in Nat /\ SyncLimit[b] \in Nat /\ uncounted[b] \in Nat
          /\ batchImports' = batchImports /\ uncounted' = uncounted
        BY LimitsAssumption DEF LimitsInv, TypeOK, BeginImports, importCounters
    <3> QED
        BY <1>10, <3>1 DEF LimitsInv, SyncsCounted, SyncsLimited
  <2> QED
      BY <2>1 DEF SyncsCounted, SyncsLimited
<1>12. CreationsLimited'
  <2>1. \A t \in Target : CreatedOn(t)' = OnTarget(S, t)
      BY <1>5 DEF CreatedOn, OnTarget
  <2> QED
      BY <1>2, <2>1 DEF CreationsLimited
<1> QED
    BY <1>6, <1>7, <1>8, <1>11, <1>12 DEF LimitsInv

-----------------------------------------------------------------------------
(* The commands of a worker *)

\* A sync that begins is counted, and found room under the limit.
LEMMA SyncKeeps ==
    ASSUME LimitsInv, NEW i \in Instance, Sync(i), events' \in 0 .. MaxEvents
    PROVE  LimitsInv'
<1> DEFINE b == BatchOf[i]
<1>1. /\ b \in Batch /\ SourceOf[i] \in Source /\ TargetOf[i] \in Target
      /\ Queued(i) /\ queue[i].status = "IDLE" /\ creating[i] = "no"
    BY BelongsAs DEF Sync, MaySync, Asks, LimitsInv, CreationsHeld, TypeOK
<1>2. "BACKGROUND_IMPORT" \in Status /\ "background" \in ImportStage
    BY DEF Status, ImportStage
<1>3. /\ queue' \in [Instance -> Entry \cup {NoEntry}]
      /\ EntriesBelong'
      /\ queue'[i].status = "BACKGROUND_IMPORT" /\ Queued(i)'
      /\ \A j \in Instance \ {i} : queue'[j] = queue[j]
    BY <1>1, <1>2, StatusWritten DEF Sync
<1>4. TypeOK'
  <2>1. /\ Record(sourceImports, SourceOf[i]) \in [Source -> Nat]
        /\ Record(targetImports, TargetOf[i]) \in [Target -> Nat]
        /\ Record(batchImports, b) \in [Batch -> Nat]
      BY <1>1, CountersTyped DEF LimitsInv, TypeOK
  <2> QED
      BY <1>3, <2>1 DEF Sync, RecordSync, RecordImport, Works, LimitsInv, TypeOK
<1>5. CreationsHeld'
    BY <1>1, <1>3 DEF Sync, Works, LimitsInv, TypeOK, CreationsHeld, Queued
<1>6. /\ Syncing(b)' = Syncing(b) \cup {i}
      /\ \A c \in Batch \ {b} : Syncing(c)' = Syncing(c)
  <2>1. queue'[i].batch = b /\ queue[i].batch = b
      BY <1>1, <1>3 DEF LimitsInv, EntriesBelong
  <2> QED
      BY <1>1, <1>3, <2>1 DEF Syncing, InStatus, Entries, Queued
<1>7. /\ batchImports'[b] = batchImports[b] + 1
      /\ \A c \in Batch \ {b} : batchImports'[c] = batchImports[c]
      /\ \A c \in Batch : batchImports[c] \in Nat
      /\ uncounted' = uncounted /\ \A c \in Batch : uncounted[c] \in Nat
    BY <1>1 DEF Sync, RecordSync, RecordImport, Record, LimitsInv, TypeOK
<1>8. Cardinality(Syncing(b)') <= Cardinality(Syncing(b)) + 1 /\ Cardinality(Syncing(b)) \in Nat
      /\ Cardinality(Syncing(b)') \in Nat
  <2>1. IsFiniteSet(Syncing(b)) /\ Cardinality(Syncing(b)) \in Nat
      BY PartOfInstances DEF Syncing, InStatus
  <2>2. Cardinality(Syncing(b) \cup {i}) = IF i \in Syncing(b) THEN Cardinality(Syncing(b))
                                           ELSE Cardinality(Syncing(b)) + 1
      BY <2>1, FS_AddElement
  <2>3. Cardinality(Syncing(b)') = Cardinality(Syncing(b) \cup {i})
      BY <1>6
  <2> QED
      BY <2>1, <2>2, <2>3
<1>9. Cardinality(Syncing(b)) <= batchImports[b] + uncounted[b]
    BY <1>1 DEF LimitsInv, SyncsCounted
<1>10. SyncsCounted'
  <2>1. ASSUME NEW c \in Batch
        PROVE  Cardinality(Syncing(c)') <= batchImports'[c] + uncounted'[c]
    <3>1. CASE c = b
        BY <1>7, <1>8, <1>9, <3>1
    <3>2. CASE c # b
        BY <1>6, <1>7, <3>2 DEF LimitsInv, SyncsCounted
    <3> QED
        BY <3>1, <3>2
  <2> QED
      BY <2>1 DEF SyncsCounted
<1>11. SyncsLimited'
  <2>1. ASSUME NEW c \in Batch, SyncLimit[c] > 0
        PROVE  Cardinality(Syncing(c)') <= SyncLimit[c] + uncounted'[c]
    <3>1. CASE c = b
      <4>1. SyncLimit[b] \in Nat /\ ~(SyncLimit[b] <= batchImports[b])
          BY <1>1, <2>1, <3>1, LimitsAssumption DEF Sync, MaySync, SyncLimitReached, Reached
      <4> QED
          BY <1>1, <1>7, <1>8, <1>9, <3>1, <4>1
    <3>2. CASE c # b
        BY <1>6, <1>7, <2>1, <3>2 DEF LimitsInv, SyncsLimited
    <3> QED
        BY <3>1, <3>2
  <2> QED
      BY <2>1 DEF SyncsLimited
<1>12. CreationsLimited'
    BY DEF Sync, LimitsInv, CreationsLimited, CreatedOn, OnTarget
<1> QED
    BY <1>3, <1>4, <1>5, <1>10, <1>11, <1>12 DEF LimitsInv

LEMMA BackgroundImportKeeps ==
    ASSUME LimitsInv, NEW i \in Instance, BeginBackgroundImport(i) \/ TopUp(i)
    PROVE  LimitsInv'
<1>1. events' \in 0 .. MaxEvents
    BY EventCounted DEF BeginBackgroundImport, TopUp, LimitsInv, TypeOK
<1> QED
    BY <1>1, SyncKeeps DEF BeginBackgroundImport, TopUp

\* Slots that are recorded and not used.
LEMMA CommandRolledBackKeeps ==
    ASSUME LimitsInv, NEW i \in Instance, CommandRolledBack(i)
    PROVE  LimitsInv'
<1>1. BatchOf[i] \in Batch /\ SourceOf[i] \in Source /\ TargetOf[i] \in Target
    BY BelongsAs
<1>2. /\ sourceImports' = Record(sourceImports, SourceOf[i])
      /\ targetImports' = Record(targetImports, TargetOf[i])
      /\ UNCHANGED <<creations, uncounted>>
      /\ batchImports' = Record(batchImports, BatchOf[i]) \/ UNCHANGED batchImports
    BY DEF CommandRolledBack, RecordSync, RecordImport
<1>3. /\ sourceImports' \in [Source -> Nat] /\ targetImports' \in [Target -> Nat]
      /\ batchImports' \in [Batch -> Nat]
  <2>1. /\ Record(sourceImports, SourceOf[i]) \in [Source -> Nat]
        /\ Record(targetImports, TargetOf[i]) \in [Target -> Nat]
        /\ Record(batchImports, BatchOf[i]) \in [Batch -> Nat]
      BY <1>1, CountersTyped DEF LimitsInv, TypeOK
  <2> QED
      BY <1>2, <2>1 DEF LimitsInv, TypeOK
<1>4. TypeOK'
    BY <1>2, <1>3, EventCounted DEF CommandRolledBack, LimitsInv, TypeOK
<1>5. EntriesBelong' /\ CreationsHeld' /\ NothingBegun
    BY DEF CommandRolledBack, LimitsInv, EntriesBelong, CreationsHeld, NothingBegun, Queued
<1>6. \A b \in Batch : CountKept(b)
    BY <1>1, <1>2, <1>3 DEF Record, CountKept, LimitsInv, TypeOK
<1> QED
    BY <1>4, <1>5, <1>6, LimitsKept

\* An entry that goes on with its import, or with its last tasks.
LEMMA GoesOnKeeps ==
    ASSUME LimitsInv, NEW i \in Instance, Queued(i), creating[i] = "no",
           NEW s \in Status \ {"BACKGROUND_IMPORT"}, NEW stage \in ImportStage,
           SetStatus(i, s, stage),
           worker' \in [Instance -> {"none", "ask", "busy"}],
           \A j \in Instance \ {i} : worker'[j] = worker[j],
           sourceImports' \in [Source -> Nat], targetImports' \in [Target -> Nat],
           events' \in 0 .. MaxEvents,
           UNCHANGED <<creating, stopped, batchImports, creations, uncounted>>
    PROVE  LimitsInv'
<1>1. /\ queue' \in [Instance -> Entry \cup {NoEntry}]
      /\ EntriesBelong'
      /\ queue'[i].status = s /\ Queued(i)'
      /\ \A j \in Instance \ {i} : queue'[j] = queue[j]
    BY StatusWritten
<1>2. TypeOK'
    BY <1>1 DEF LimitsInv, TypeOK
<1>3. CreationsHeld' /\ NothingBegun
    BY <1>1 DEF LimitsInv, CreationsHeld, NothingBegun, Queued
<1> QED
    BY <1>1, <1>2, <1>3, LimitsKept, CountUnchanged

LEMMA ImportKeeps ==
    ASSUME LimitsInv, NEW i \in Instance, BeginFinalImport(i) \/ BeginPostImport(i)
    PROVE  LimitsInv'
<1>1. /\ Queued(i) /\ creating[i] = "no" /\ queue[i].stage \in ImportStage
      /\ SourceOf[i] \in Source /\ TargetOf[i] \in Target
    BY BelongsAs DEF BeginFinalImport, BeginPostImport, MayImport, Asks, LimitsInv, CreationsHeld, TypeOK
<1>2. /\ worker' \in [Instance -> {"none", "ask", "busy"}]
      /\ \A j \in Instance \ {i} : worker'[j] = worker[j]
      /\ UNCHANGED <<creating, stopped, batchImports, creations, uncounted>>
      /\ events' \in 0 .. MaxEvents
    BY DEF BeginFinalImport, BeginPostImport, RecordImport, Works, counters, importCounters,
           LimitsInv, TypeOK
<1>3. sourceImports' \in [Source -> Nat] /\ targetImports' \in [Target -> Nat]
    BY <1>1, CountersTyped
    DEF BeginFinalImport, BeginPostImport, RecordImport, counters, importCounters, LimitsInv, TypeOK
<1>4. /\ "FINAL_IMPORT" \in Status \ {"BACKGROUND_IMPORT"}
      /\ "POST_IMPORT" \in Status \ {"BACKGROUND_IMPORT"}
      /\ "complete" \in ImportStage
    BY DEF Status, ImportStage
<1> QED
    BY <1>1, <1>2, <1>3, <1>4, GoesOnKeeps DEF BeginFinalImport, BeginPostImport

\* Only the worker's place in the protocol changes.
LEMMA WorkerMovesKeeps ==
    ASSUME LimitsInv, NEW i \in Instance, ReissueCommand(i) \/ RestartWorker(i)
    PROVE  LimitsInv'
<1>1. TypeOK'
    BY EventCounted
    DEF ReissueCommand, RestartWorker, Works, counters, importCounters, LimitsInv, TypeOK
<1>2. EntriesBelong' /\ CreationsHeld' /\ NothingBegun
    BY DEF ReissueCommand, RestartWorker, Works, counters, LimitsInv, TypeOK, EntriesBelong,
           CreationsHeld, NothingBegun, Queued
<1> QED
    BY <1>1, <1>2, LimitsKept, CountUnchanged
    DEF ReissueCommand, RestartWorker, counters, importCounters

-----------------------------------------------------------------------------
(* The responses of a worker *)

LEMMA ReportProgressKeeps ==
    ASSUME LimitsInv, NEW i \in Instance, ReportProgress(i)
    PROVE  LimitsInv'
<1> DEFINE e == ProcessWorkerUpdate(queue[i], "RUNNING")
<1>1. Queued(i) /\ creating[i] = "no" /\ worker[i] = "busy"
    BY DEF ReportProgress, Accepted, LimitsInv, TypeOK, CreationsHeld
<1>2. "RUNNING" \in Response
    BY DEF Response
<1>3. /\ e \in Entry /\ e.batch = BatchOf[i]
      /\ e.status = "BACKGROUND_IMPORT" => queue[i].status = "BACKGROUND_IMPORT"
    BY <1>1, <1>2, BelongsAs, WorkerUpdates
<1>4. queue' = [queue EXCEPT ![i] = e]
    BY DEF ReportProgress
<1> HIDE DEF e
<1>5. /\ queue' \in [Instance -> Entry \cup {NoEntry}]
      /\ EntriesBelong'
      /\ queue'[i] = e /\ Queued(i)'
      /\ \A j \in Instance \ {i} : queue'[j] = queue[j]
    BY <1>3, <1>4, EntryWritten
<1>6. TypeOK'
    BY <1>5 DEF ReportProgress, counters, importCounters, LimitsInv, TypeOK
<1>7. CreationsHeld' /\ NothingBegun
    BY <1>1, <1>3, <1>5 DEF ReportProgress, LimitsInv, CreationsHeld, NothingBegun, Queued
<1> QED
    BY <1>5, <1>6, <1>7, LimitsKept, CountUnchanged DEF ReportProgress, counters, importCounters

LEMMA AnsweredTyped ==
    ASSUME LimitsInv, NEW i \in Instance, NEW response, Answered(i, response)
    PROVE  /\ worker' \in [Instance -> {"none", "ask", "busy"}]
           /\ \A j \in Instance \ {i} : worker'[j] = worker[j]
BY DEF Answered, LimitsInv, TypeOK

LEMMA RemoveImportTyped ==
    ASSUME LimitsInv, NEW i \in Instance, RemoveImport(i)
    PROVE  /\ sourceImports' \in [Source -> Nat] /\ targetImports' \in [Target -> Nat]
           /\ batchImports' \in [Batch -> Nat]
           /\ \A b \in Batch : batchImports'[b] <= batchImports[b]
<1>1. BatchOf[i] \in Batch /\ SourceOf[i] \in Source /\ TargetOf[i] \in Target
    BY BelongsAs
<1>2. /\ sourceImports' \in [Source -> Nat] /\ targetImports' \in [Target -> Nat]
      /\ batchImports' \in [Batch -> Nat]
    BY <1>1, CountersTyped DEF RemoveImport, LimitsInv, TypeOK
<1>3. \A b \in Batch : Remove(batchImports, BatchOf[i])[b] <= batchImports[b]
    BY <1>1 DEF Remove, LimitsInv, TypeOK
<1>4. \A b \in Batch : batchImports[b] <= batchImports[b]
    BY DEF LimitsInv, TypeOK
<1> QED
    BY <1>2, <1>3, <1>4 DEF RemoveImport

LEMMA ResponseRolledBackKeeps ==
    ASSUME LimitsInv, NEW i \in Instance, NEW response, ResponseRolledBack(i, response)
    PROVE  LimitsInv'
<1>1. /\ Answered(i, response) /\ RemoveImport(i) /\ Uncount
      /\ worker[i] = "busy" /\ events' \in 0 .. MaxEvents
      /\ UNCHANGED <<queue, creating, stopped, creations>>
    BY EventCounted DEF ResponseRolledBack
<1>2. uncounted' \in [Batch -> Nat] /\ \A b \in Batch : CountKept(b)
    BY <1>1, RemoveImportTyped, CountForgotten
<1>3. TypeOK'
    BY <1>1, <1>2, AnsweredTyped, RemoveImportTyped DEF LimitsInv, TypeOK
<1>4. EntriesBelong' /\ CreationsHeld' /\ NothingBegun
  <2>1. creating[i] = "no"
      BY <1>1 DEF LimitsInv, TypeOK, CreationsHeld
  <2> QED
      BY <1>1, <2>1, AnsweredTyped
      DEF LimitsInv, EntriesBelong, CreationsHeld, NothingBegun, Queued
<1> QED
    BY <1>2, <1>3, <1>4, LimitsKept

\* A sync that ends gives its slot back.
LEMMA RespondKeeps ==
    ASSUME LimitsInv, NEW i \in Instance, NEW response \in {"SUCCESS", "FAILED"},
           Respond(i, response), events' \in 0 .. MaxEvents
    PROVE  LimitsInv'
<1> DEFINE e == ProcessWorkerUpdate(queue[i], response)
           b == BatchOf[i]
<1>1. /\ creating[i] = "no" /\ UNCHANGED <<creating, stopped, creations, uncounted>>
      /\ b \in Batch /\ SourceOf[i] \in Source /\ TargetOf[i] \in Target
    BY BelongsAs DEF Respond, LimitsInv, TypeOK, CreationsHeld
<1>2. /\ worker' \in [Instance -> {"none", "ask", "busy"}]
      /\ \A j \in Instance \ {i} : worker'[j] = worker[j]
    BY AnsweredTyped DEF Respond
<1>3. CASE ~Accepted(i)
  <2>1. UNCHANGED <<queue, sourceImports, targetImports, batchImports>>
      BY <1>3 DEF Respond
  <2>2. TypeOK'
      BY <1>1, <1>2, <2>1 DEF LimitsInv, TypeOK
  <2>3. EntriesBelong' /\ CreationsHeld' /\ NothingBegun
      BY <1>1, <1>2, <2>1 DEF LimitsInv, EntriesBelong, CreationsHeld, NothingBegun, Queued
  <2> QED
      BY <1>1, <2>1, <2>2, <2>3, LimitsKept, CountUnchanged
<1>4. CASE Accepted(i)
  <2>1. Queued(i) /\ response \in Response
      BY <1>4 DEF Accepted, Response
  <2>2. e \in Entry /\ e.batch = b /\ e.status # "BACKGROUND_IMPORT"
      BY <2>1, BelongsAs, WorkerUpdates
  <2>3. queue' = [queue EXCEPT ![i] = e]
      BY <1>4 DEF Respond
  <2> HIDE DEF e
  <2>4. /\ queue' \in [Instance -> Entry \cup {NoEntry}]
        /\ EntriesBelong'
        /\ queue'[i] = e /\ Queued(i)'
        /\ \A j \in Instance \ {i} : queue'[j] = queue[j]
      BY <2>2, <2>3, EntryWritten
  <2>5. TypeOK'
    <3>1. RemoveImport(i)
        BY <1>4 DEF Respond
    <3> QED
        BY <1>1, <1>2, <2>4, <3>1, RemoveImportTyped DEF LimitsInv, TypeOK
  <2>6. CreationsHeld' /\ NothingBegun
      BY <1>1, <1>2, <2>2, <2>4 DEF LimitsInv, CreationsHeld, NothingBegun, Queued
  <2>7. CASE queue[i].status # "BACKGROUND_IMPORT"
    <3>1. UNCHANGED batchImports
        BY <1>4, <2>7 DEF Respond, RemoveImport
    <3> QED
        BY <1>1, <2>4, <2>5, <2>6, <3>1, LimitsKept, CountUnchanged
  <2>8. CASE queue[i].status = "BACKGROUND_IMPORT"
    <3>1. /\ i \in Syncing(b)
          /\ Syncing(b)' = Syncing(b) \ {i}
          /\ \A c \in Batch \ {b} : Syncing(c)' = Syncing(c)
      <4>1. queue[i].batch = b
          BY <2>1 DEF LimitsInv, EntriesBelong
      <4> QED
          BY <2>1, <2>2, <2>4, <2>8, <4>1 DEF Syncing, InStatus, Entries, Queued
    <3>2. /\ IsFiniteSet(Syncing(b)) /\ Cardinality(Syncing(b)) \in Nat
          /\ Cardinality(Syncing(b)') = Cardinality(Syncing(b)) - 1
          /\ Cardinality(Syncing(b)') \in Nat
      <4>1. Syncing(b) \subseteq Instance
          BY DEF Syncing, InStatus
      <4>2. Syncing(b) \ {i} \subseteq Instance
          BY <4>1
      <4> QED
          BY <3>1, <4>1, <4>2, PartOfInstances, FS_RemoveElement
    <3>3. /\ batchImports[b] \in Nat /\ uncounted[b] \in Nat /\ SyncLimit[b] \in Nat
          /\ Cardinality(Syncing(b)) <= batchImports[b] + uncounted[b]
          /\ SyncLimit[b] > 0 => Cardinality(Syncing(b)) <= SyncLimit[b] + uncounted[b]
        BY <1>1, LimitsAssumption DEF LimitsInv, TypeOK, SyncsCounted, SyncsLimited
    <3>4. /\ batchImports'[b] = IF batchImports[b] > 0 THEN batchImports[b] - 1 ELSE 0
          /\ \A c \in Batch \ {b} : batchImports'[c] = batchImports[c]
          /\ uncounted' = uncounted
        BY <1>1, <1>4, <2>8, <3>3 DEF Respond, RemoveImport, Remove, LimitsInv, TypeOK
    <3>5. ASSUME NEW c \in Batch
          PROVE  /\ Cardinality(Syncing(c)') <= batchImports'[c] + uncounted'[c]
                 /\ SyncLimit[c] > 0 => Cardinality(Syncing(c)') <= SyncLimit[c] + uncounted'[c]
      <4>1. CASE c = b
          BY <3>2, <3>3, <3>4, <4>1
      <4>2. CASE c # b
          BY <3>1, <3>4, <4>2 DEF LimitsInv, SyncsCounted, SyncsLimited
      <4> QED
          BY <4>1, <4>2
    <3>6. CreationsLimited'
        BY <1>1 DEF LimitsInv, CreationsLimited, CreatedOn, OnTarget
    <3> QED
        BY <2>4, <2>5, <2>6, <3>5, <3>6 DEF LimitsInv, SyncsCounted, SyncsLimited
  <2> QED
      BY <2>7, <2>8
<1> QED
    BY <1>3, <1>4

-----------------------------------------------------------------------------
(* What else moves an entry *)

LEMMA ResetEntryKeeps ==
    ASSUME LimitsInv, NEW i \in Instance, ResetEntry(i)
    PROVE  LimitsInv'
<1>1. Queued(i) /\ creating[i] = "no" /\ UNCHANGED <<creating, stopped, counters>>
    BY DEF ResetEntry, InStatus, LimitsInv, CreationsHeld
<1>2. \E s \in {"IDLE", "WAITING"}, stage \in {"background", "final"} : SetStatus(i, s, stage)
    BY DEF ResetEntry
<1>3. PICK s \in {"IDLE", "WAITING"}, stage \in {"background", "final"} : SetStatus(i, s, stage)
    BY <1>2
<1>4. s \in Status \ {"BACKGROUND_IMPORT"} /\ stage \in ImportStage
    BY DEF Status, ImportStage
<1>5. /\ worker' \in [Instance -> {"none", "ask", "busy"}]
      /\ \A j \in Instance \ {i} : worker'[j] = worker[j]
    BY DEF ResetEntry, LimitsInv, TypeOK
<1>6. events' \in 0 .. MaxEvents
    BY EventCounted DEF ResetEntry
<1>7. sourceImports' \in [Source -> Nat] /\ targetImports' \in [Target -> Nat]
    BY <1>1 DEF counters, importCounters, LimitsInv, TypeOK
<1> QED
    BY <1>1, <1>3, <1>4, <1>5, <1>6, <1>7, GoesOnKeeps DEF counters, importCounters

LEMMA CancelEntryKeeps ==
    ASSUME LimitsInv, NEW i \in Instance, CancelEntry(i)
    PROVE  LimitsInv'
<1>1. Queued(i) /\ creating[i] = "no" /\ UNCHANGED <<creating, stopped, counters>>
    BY DEF CancelEntry, NoRound
<1>2. "CANCELED" \in Status \ {"BACKGROUND_IMPORT"} /\ "background" \in ImportStage
    BY DEF Status, ImportStage
<1>3. SetStatus(i, "CANCELED", "background")
    BY DEF CancelEntry, SetStatus, Cancel
<1>4. /\ worker' \in [Instance -> {"none", "ask", "busy"}]
      /\ \A j \in Instance \ {i} : worker'[j] = worker[j]
    BY DEF CancelEntry, LimitsInv, TypeOK
<1>5. events' \in 0 .. MaxEvents
    BY EventCounted DEF CancelEntry
<1>6. sourceImports' \in [Source -> Nat] /\ targetImports' \in [Target -> Nat]
    BY <1>1 DEF counters, importCounters, LimitsInv, TypeOK
<1> QED
    BY <1>1, <1>2, <1>3, <1>4, <1>5, <1>6, GoesOnKeeps DEF counters, importCounters

LEMMA RetryEntryKeeps ==
    ASSUME LimitsInv, NEW i \in Instance, RetryEntry(i)
    PROVE  LimitsInv'
<1> DEFINE e == Retry(queue[i], "WAITING", FALSE)
<1>1. Queued(i) /\ creating[i] = "no" /\ UNCHANGED <<worker, creating, stopped, counters>>
    BY DEF RetryEntry, InStatus, NoRound
<1>2. "WAITING" \in Status /\ FALSE \in BOOLEAN /\ "background" \in ImportStage
    BY DEF Status, ImportStage
<1>3. e \in Entry /\ e.batch = BatchOf[i] /\ e.status = "WAITING"
    BY <1>1, <1>2, BelongsAs, EntryUpdates
<1>4. queue' = [queue EXCEPT ![i] = e]
    BY DEF RetryEntry
<1> HIDE DEF e
<1>5. /\ queue' \in [Instance -> Entry \cup {NoEntry}]
      /\ EntriesBelong'
      /\ queue'[i] = e /\ Queued(i)'
      /\ \A j \in Instance \ {i} : queue'[j] = queue[j]
    BY <1>3, <1>4, EntryWritten
<1>6. TypeOK'
    BY <1>1, <1>5, EventCounted DEF RetryEntry, counters, importCounters, LimitsInv, TypeOK
<1>7. CreationsHeld' /\ NothingBegun
    BY <1>1, <1>3, <1>5 DEF LimitsInv, CreationsHeld, NothingBegun, Queued
<1> QED
    BY <1>1, <1>5, <1>6, <1>7, LimitsKept, CountUnchanged DEF counters, importCounters

LEMMA RemoveAllTyped ==
    ASSUME NEW X, NEW count \in [X -> Nat], NEW of, NEW S, S \subseteq Instance
    PROVE  RemoveAll(count, of, S) \in [X -> Nat]
<1>1. ASSUME NEW x \in X
      PROVE  Cardinality({i \in S : of[i] = x}) \in Nat
  <2>1. {i \in S : of[i] = x} \subseteq Instance
      OBVIOUS
  <2> QED
      BY <2>1, PartOfInstances
<1> QED
    BY <1>1 DEF RemoveAll

LEMMA ResetCounters ==
    ASSUME LimitsInv, NEW b \in Batch, ResetBatchCounters(b)
    PROVE  /\ sourceImports' \in [Source -> Nat] /\ targetImports' \in [Target -> Nat]
           /\ batchImports' \in [Batch -> Nat]
           /\ \A c \in Batch : batchImports'[c] <= batchImports[c]
           /\ \A c \in Batch \ {b} : batchImports'[c] = batchImports[c]
<1>1. /\ InStatus({"BACKGROUND_IMPORT", "FINAL_IMPORT"}) \cap Entries(b) \subseteq Instance
      /\ Syncing(b) \subseteq Instance
    BY DEF Syncing, InStatus
<1>2. /\ sourceImports' \in [Source -> Nat] /\ targetImports' \in [Target -> Nat]
      /\ batchImports' \in [Batch -> Nat]
    BY <1>1, RemoveAllTyped DEF ResetBatchCounters, LimitsInv, TypeOK
<1>3. ASSUME NEW c \in Batch
      PROVE  batchImports'[c] <= batchImports[c] /\ (c # b => batchImports'[c] = batchImports[c])
  <2> DEFINE held == Cardinality({i \in Syncing(b) : BatchOf[i] = c})
  <2>1. batchImports[c] \in Nat
      BY DEF LimitsInv, TypeOK
  <2>2. held \in Nat
    <3>1. {i \in Syncing(b) : BatchOf[i] = c} \subseteq Instance
        BY <1>1
    <3> QED
        BY <3>1, PartOfInstances
  <2>3. batchImports'[c] = IF batchImports[c] > held THEN batchImports[c] - held ELSE 0
      BY DEF ResetBatchCounters, RemoveAll, LimitsInv, TypeOK
  <2>4. c # b => held = 0
    <3>1. c # b => {i \in Syncing(b) : BatchOf[i] = c} = {}
        BY DEF Syncing, InStatus, Entries, LimitsInv, EntriesBelong
    <3> QED
        BY <3>1, FS_EmptySet
  <2> HIDE DEF held
  <2> QED
      BY <2>1, <2>2, <2>3, <2>4
<1> QED
    BY <1>2, <1>3

\* The creations whose VM is removed go on, to fail.
LEMMA CleanedUp ==
    ASSUME LimitsInv, NEW S \in SUBSET Instance, CleanUpVMs(S)
    PROVE  /\ worker' \in [Instance -> {"none", "ask", "busy"}]
           /\ creating' \in [Instance -> {"no", "counted", "agent", "lost"}]
           /\ \A i \in Instance : /\ creating'[i] # "no" => creating[i] # "no"
                                  /\ worker[i] = "none" => worker'[i] = "none"
<1>1. PICK early \in SUBSET {i \in S : creating[i] = "counted"} :
          creating' = [i \in Instance |->
              IF i \in S \ early /\ creating[i] # "no" THEN "lost" ELSE creating[i]]
    BY DEF CleanUpVMs
<1>2. worker' = [i \in Instance |-> IF i \in S THEN "none" ELSE worker[i]]
    BY DEF CleanUpVMs
<1> QED
    BY <1>1, <1>2 DEF LimitsInv, TypeOK

\* The syncs of the batch are gone, and its slots with them; the slots of other
\* batches are left alone.
LEMMA ResetBatchKeeps ==
    ASSUME LimitsInv, NEW b \in Batch, ResetBatch(b)
    PROVE  LimitsInv'
<1>1. /\ CleanUpVMs(Entries(b)) /\ Entries(b) \in SUBSET Instance
      /\ ResetBatchCounters(b)
      /\ uncounted' = [uncounted EXCEPT ![b] = 0] /\ creations' = creations
    BY DEF ResetBatch, Entries
<1>2. /\ queue' \in [Instance -> Entry \cup {NoEntry}]
      /\ \A i \in Instance : Queued(i)' =>
             queue'[i] = queue[i] /\ Queued(i) /\ queue[i].batch # b
    BY DEF ResetBatch, Entries, Queued, LimitsInv, TypeOK
<1>3. TypeOK'
  <2>1. uncounted' \in [Batch -> Nat] /\ stopped' \subseteq Batch /\ events' \in 0 .. MaxEvents
      BY <1>1, EventCounted DEF ResetBatch, LimitsInv, TypeOK
  <2> QED
      BY <1>1, <1>2, <2>1, CleanedUp, ResetCounters DEF LimitsInv, TypeOK
<1>4. EntriesBelong' /\ CreationsHeld' /\ NothingBegun
    BY <1>1, <1>2, CleanedUp DEF LimitsInv, EntriesBelong, CreationsHeld, NothingBegun
<1>5. Syncing(b)' = {}
    BY <1>2 DEF Syncing, InStatus, Entries
<1>6. \A c \in Batch \ {b} : CountKept(c)
    BY <1>1, ResetCounters DEF CountKept, LimitsInv, TypeOK
<1> QED
    BY <1>3, <1>4, <1>5, <1>6, LimitsKept

LEMMA ResetBatchFailsKeeps ==
    ASSUME LimitsInv, NEW b \in Batch, NEW S \in SUBSET Instance, ResetBatchFails(b, S)
    PROVE  LimitsInv'
<1>1. /\ CleanUpVMs(S) /\ ResetBatchCounters(b) /\ Uncount /\ events' \in 0 .. MaxEvents
      /\ UNCHANGED <<queue, stopped, creations>>
    BY EventCounted DEF ResetBatchFails
<1>2. uncounted' \in [Batch -> Nat] /\ \A c \in Batch : CountKept(c)
    BY <1>1, ResetCounters, CountForgotten
<1>3. TypeOK'
    BY <1>1, <1>2, CleanedUp, ResetCounters DEF LimitsInv, TypeOK
<1>4. EntriesBelong' /\ CreationsHeld' /\ NothingBegun
    BY <1>1, CleanedUp DEF LimitsInv, EntriesBelong, CreationsHeld, NothingBegun, Queued
<1> QED
    BY <1>2, <1>3, <1>4, LimitsKept

LEMMA StopBatchKeeps ==
    ASSUME LimitsInv, NEW b \in Batch, StopBatch(b)
    PROVE  LimitsInv'
<1>1. TypeOK'
    BY EventCounted DEF StopBatch, counters, importCounters, LimitsInv, TypeOK
<1>2. EntriesBelong' /\ CreationsHeld' /\ NothingBegun
    BY DEF StopBatch, LimitsInv, EntriesBelong, CreationsHeld, NothingBegun, Queued
<1> QED
    BY <1>1, <1>2, LimitsKept, CountUnchanged DEF StopBatch, counters, importCounters

LEMMA WaitingEntry ==
    ASSUME NEW i \in Instance
    PROVE  /\ Waiting(i) \in Entry /\ Waiting(i) # NoEntry
           /\ Waiting(i).batch = BatchOf[i] /\ Waiting(i).status = "WAITING"
<1>1. /\ Waiting(i) \in Entry
      /\ Waiting(i).batch = BatchOf[i] /\ Waiting(i).status = "WAITING"
    BY LimitsAssumption
    DEF Waiting, NewEntry, Entry, Secret, Status, ImportStage, Response
<1> QED
    BY <1>1, EntryAssumption

LEMMA StartBatchKeeps ==
    ASSUME LimitsInv, NEW b \in Batch, StartBatch(b)
    PROVE  LimitsInv'
<1>1. ASSUME NEW i \in Instance
      PROVE  /\ BatchOf[i] = b => ~Queued(i) /\ queue'[i] = Waiting(i)
             /\ BatchOf[i] # b => queue'[i] = queue[i]
    BY DEF StartBatch, Entries, LimitsInv, EntriesBelong
<1>2. queue' \in [Instance -> Entry \cup {NoEntry}]
    BY WaitingEntry DEF StartBatch, LimitsInv, TypeOK
<1>3. TypeOK'
    BY <1>2 DEF StartBatch, counters, importCounters, LimitsInv, TypeOK
<1>4. EntriesBelong'
    BY <1>1, WaitingEntry DEF LimitsInv, EntriesBelong, Queued
<1>5. CreationsHeld'
    BY <1>1, WaitingEntry DEF StartBatch, LimitsInv, CreationsHeld, Queued
<1>6. NothingBegun
    BY <1>1, WaitingEntry DEF StartBatch, NothingBegun, Queued
<1> QED
    BY <1>3, <1>4, <1>5, <1>6, LimitsKept, CountUnchanged
    DEF StartBatch, counters, importCounters

\* The counters start anew from what the queue says.
LEMMA RestartDaemonKeeps ==
    ASSUME LimitsInv, RestartDaemon
    PROVE  LimitsInv'
<1> DEFINE running == {i \in Instance : Queued(i) /\ queue[i].batch \notin stopped}
<1>1. /\ \A of, x : Cardinality(Importing(of, x) \cap running) \in Nat
      /\ \A b : Cardinality(Syncing(b) \cap running) \in Nat /\ Cardinality(Syncing(b)) \in Nat
      /\ \A t : Cardinality(OnTarget(InStatus({"CREATING"}), t) \cap running) \in Nat
  <2>1. ASSUME NEW of, NEW x
        PROVE  Cardinality(Importing(of, x) \cap running) \in Nat
      BY PartOfInstances
  <2>2. ASSUME NEW b
        PROVE  Cardinality(Syncing(b) \cap running) \in Nat /\ Cardinality(Syncing(b)) \in Nat
      BY PartOfInstances DEF Syncing, InStatus
  <2>3. ASSUME NEW t
        PROVE  Cardinality(OnTarget(InStatus({"CREATING"}), t) \cap running) \in Nat
      BY PartOfInstances
  <2> QED
      BY <2>1, <2>2, <2>3
<1>2. ASSUME NEW b \in Batch
      PROVE  /\ batchImports'[b] = Cardinality(Syncing(b) \cap running)
             /\ uncounted'[b] = IF b \in stopped THEN Cardinality(Syncing(b))
                                ELSE IF Cardinality(Syncing(b)) > SyncLimit[b]
                                     THEN Cardinality(Syncing(b)) - SyncLimit[b] ELSE 0
             /\ SyncLimit[b] \in Nat
    BY LimitsAssumption DEF RestartDaemon
<1>3. ASSUME NEW b \in Batch
      PROVE  /\ uncounted'[b] \in Nat
             /\ Cardinality(Syncing(b)) <= batchImports'[b] + uncounted'[b]
             /\ SyncLimit[b] > 0 => Cardinality(Syncing(b)) <= SyncLimit[b] + uncounted'[b]
  <2> DEFINE syncs == Cardinality(Syncing(b))
  <2>1. b \notin stopped => Syncing(b) \cap running = Syncing(b)
      BY DEF Syncing, InStatus, Entries
  <2>2. syncs \in Nat /\ batchImports'[b] \in Nat
      BY <1>1, <1>2
  <2>3. b \notin stopped => batchImports'[b] = syncs
      BY <1>2, <2>1
  <2>4. /\ uncounted'[b] = IF b \in stopped THEN syncs
                           ELSE IF syncs > SyncLimit[b] THEN syncs - SyncLimit[b] ELSE 0
        /\ SyncLimit[b] \in Nat
      BY <1>2
  <2> HIDE DEF syncs
  <2>5. /\ uncounted'[b] \in Nat /\ syncs <= batchImports'[b] + uncounted'[b]
        /\ SyncLimit[b] > 0 => syncs <= SyncLimit[b] + uncounted'[b]
      BY <2>2, <2>3, <2>4
  <2> QED
      BY <2>5 DEF syncs
<1>4. TypeOK'
  <2>1. /\ sourceImports' \in [Source -> Nat] /\ targetImports' \in [Target -> Nat]
        /\ batchImports' \in [Batch -> Nat] /\ creations' \in [Target -> Nat]
      BY <1>1 DEF RestartDaemon
  <2>2. uncounted' \in [Batch -> Nat]
    <3>1. uncounted' = [b \in Batch |-> uncounted'[b]]
        BY DEF RestartDaemon
    <3> QED
        BY <1>3, <3>1
  <2>3. /\ creating' \in [Instance -> {"no", "counted", "agent", "lost"}]
        /\ events' \in 0 .. MaxEvents /\ UNCHANGED <<queue, worker, stopped>>
      BY EventCounted DEF RestartDaemon
  <2> QED
      BY <2>1, <2>2, <2>3 DEF LimitsInv, TypeOK
<1>5. UNCHANGED queue /\ creating' = [i \in Instance |-> "no"]
    BY DEF RestartDaemon
<1>6. EntriesBelong' /\ CreationsHeld'
    BY <1>5 DEF LimitsInv, EntriesBelong, CreationsHeld, Queued
<1>7. \A b \in Batch : Syncing(b)' = Syncing(b)
    BY <1>5 DEF Syncing, InStatus, Entries, Queued
<1> HIDE DEF running
<1>8. SyncsCounted' /\ SyncsLimited'
    BY <1>3, <1>7 DEF SyncsCounted, SyncsLimited
<1>9. CreationsLimited'
  <2>1. ASSUME NEW t \in Target, CreateLimit[t] > 0
        PROVE  Cardinality(CreatedOn(t)') <= CreateLimit[t]
    <3>1. CreatedOn(t)' = {}
        BY <1>5 DEF CreatedOn, OnTarget
    <3> QED
        BY <2>1, <3>1, LimitsAssumption, FS_EmptySet
  <2> QED
      BY <2>1 DEF CreationsLimited
<1> QED
    BY <1>4, <1>6, <1>8, <1>9 DEF LimitsInv

-----------------------------------------------------------------------------
(* The theorem *)

LEMMA InitLimits ==
    ASSUME Init
    PROVE  LimitsInv
<1>1. TypeOK
  <2>1. queue \in [Instance -> Entry \cup {NoEntry}]
      BY WaitingEntry DEF Init
  <2> QED
      BY <2>1, LimitsAssumption DEF Init, TypeOK
<1>2. EntriesBelong /\ CreationsHeld
    BY WaitingEntry DEF Init, EntriesBelong, CreationsHeld
<1>3. ASSUME NEW b \in Batch
      PROVE  /\ Cardinality(Syncing(b)) = 0 /\ SyncLimit[b] \in Nat
             /\ batchImports[b] = 0 /\ uncounted[b] = 0
  <2>1. Syncing(b) = {}
      BY WaitingEntry DEF Init, Syncing, InStatus
  <2> QED
      BY <2>1, FS_EmptySet, LimitsAssumption DEF Init
<1>4. ASSUME NEW t \in Target
      PROVE  Cardinality(CreatedOn(t)) = 0 /\ CreateLimit[t] \in Nat
  <2>1. CreatedOn(t) = {}
      BY DEF Init, CreatedOn, OnTarget
  <2> QED
      BY <2>1, FS_EmptySet, LimitsAssumption
<1> QED
    BY <1>1, <1>2, <1>3, <1>4 DEF LimitsInv, SyncsCounted, SyncsLimited, CreationsLimited

LEMMA StutterKeeps ==
    ASSUME LimitsInv, UNCHANGED vars
    PROVE  LimitsInv'
<1>1. TypeOK'
    BY DEF vars, counters, importCounters, LimitsInv, TypeOK
<1>2. EntriesBelong' /\ CreationsHeld' /\ NothingBegun
    BY DEF vars, LimitsInv, EntriesBelong, CreationsHeld, NothingBegun, Queued
<1> QED
    BY <1>1, <1>2, LimitsKept, CountUnchanged DEF vars, counters, importCounters

LEMMA NextKeeps ==
    ASSUME LimitsInv, Next
    PROVE  LimitsInv'
<1>1. CASE Round
    BY <1>1, BeginImportsKeeps, SetUpVMKeeps, AgentUpKeeps, FailedCreationKeeps DEF Round
<1>2. CASE \E S \in SUBSET Instance : RollBack(S)
    BY <1>2, RollBackKeeps
<1>3. ASSUME NEW i \in Instance, Command(i) \/ TopUp(i) \/ CommandRolledBack(i)
      PROVE  LimitsInv'
    BY <1>3, BackgroundImportKeeps, ImportKeeps, WorkerMovesKeeps, CommandRolledBackKeeps
    DEF Command
<1>4. ASSUME NEW i \in Instance,
             \/ ReportProgress(i) \/ Succeed(i) \/ Fail(i)
             \/ \E response \in {"SUCCESS", "FAILED"} : ResponseRolledBack(i, response)
      PROVE  LimitsInv'
  <2>1. CASE ReportProgress(i)
      BY <2>1, ReportProgressKeeps
  <2>2. CASE Succeed(i)
    <3>1. events' \in 0 .. MaxEvents
        BY <2>2 DEF Succeed, LimitsInv, TypeOK
    <3> QED
        BY <2>2, <3>1, RespondKeeps DEF Succeed
  <2>3. CASE Fail(i)
      BY <2>3, EventCounted, RespondKeeps DEF Fail
  <2>4. CASE \E response \in {"SUCCESS", "FAILED"} : ResponseRolledBack(i, response)
      BY <2>4, ResponseRolledBackKeeps
  <2> QED
      BY <1>4, <2>1, <2>2, <2>3, <2>4
<1>5. ASSUME NEW i \in Instance,
             \/ CreateFails(i) \/ RestartWorker(i)
             \/ ResetEntry(i) \/ CancelEntry(i) \/ RetryEntry(i)
      PROVE  LimitsInv'
    BY <1>5, FailedCreationKeeps, WorkerMovesKeeps, ResetEntryKeeps, CancelEntryKeeps,
       RetryEntryKeeps
<1>6. ASSUME NEW b \in Batch,
             \/ ResetBatch(b) \/ StopBatch(b) \/ StartBatch(b)
             \/ \E S \in SUBSET Instance : ResetBatchFails(b, S)
      PROVE  LimitsInv'
    BY <1>6, ResetBatchKeeps, ResetBatchFailsKeeps, StopBatchKeeps, StartBatchKeeps
<1>7. CASE RestartDaemon
    BY <1>7, RestartDaemonKeeps
<1> QED
    BY <1>1, <1>2, <1>3, <1>4, <1>5, <1>6, <1>7 DEF Next

\* Every sync is counted against its batch for as long as it goes on, unless a
\* rolled-back transaction or a start of the daemon has made the counter forget it.
THEOREM LimitsInvariant == Spec => []LimitsInv
<1>1. LimitsInv /\ [Next]_vars => LimitsInv'
    BY NextKeeps, StutterKeeps
<1> QED
    BY InitLimits, <1>1, PTL DEF Spec

\* Any number of instances, batches and targets, any limits, and any number of
\* rolled-back transactions, resets and restarts: no target creates more VMs at a
\* time than its creation limit, and no batch syncs more instances than its sync
\* limit and those that its counter was made to forget, although the counters are
\* moved apart from the queue (NewWorkerCommandByInstanceUUID,
\* ProcessWorkerUpdate, ResetBatchByName, beginImports, syncActiveBatches).
THEOREM LimitsAreRespected == Spec => []LimitsRespected
<1>1. LimitsInv => LimitsRespected
    BY DEF LimitsInv, SyncsLimited, CreationsLimited, CreatedOn, LimitsRespected
<1> QED
    BY LimitsInvariant, <1>1, PTL
=============================================================================
