------------------------------- MODULE Limits -------------------------------
(***************************************************************************)
(* The limits on concurrent work: the import limits of sources and of      *)
(* targets, the sync limit of a batch and the creation limit of a target.  *)
(* Each is compared with a counter the daemon keeps in memory beside the   *)
(* queue, moved inside the transactions that move the queue, and computed  *)
(* anew from the queue when the daemon starts.  A transaction that is      *)
(* rolled back does not roll back what it did to the counters.             *)
(*                                                                         *)
(* Of windows and placement only the outcome is kept: whether a window has *)
(* begun when a worker asks is left open.                                  *)
(***************************************************************************)
EXTENDS QueueEntry, FiniteSetsExt

CONSTANTS
    Instance,          \* the instances of the batches
    Source, Target,
    BatchOf, SourceOf, TargetOf,  \* of every instance
    BackgroundImport,  \* the instances that support it
    SourceLimit, TargetLimit, SyncLimit, CreateLimit,  \* 0: unlimited
    Events,            \* what users and failures do
    MaxEvents          \* bound on how often they do it

ASSUME LimitsAssumption ==
    /\ IsFiniteSet(Instance)
    /\ BatchOf \in [Instance -> Batch]
    /\ SourceOf \in [Instance -> Source] /\ TargetOf \in [Instance -> Target]
    /\ BackgroundImport \subseteq Instance
    /\ SourceLimit \in [Source -> Nat] /\ TargetLimit \in [Target -> Nat]
    /\ SyncLimit \in [Batch -> Nat] /\ CreateLimit \in [Target -> Nat]
    /\ MaxEvents \in Nat

VARIABLES
    queue,          \* the entries in the database
    worker,         \* the worker in the target VM of an instance
    creating,       \* how far beginImports is with an instance's target VM
    stopped,        \* the STOPPED batches
    sourceImports,  \* the counters
    targetImports,
    batchImports,
    creations,
    uncounted,      \* history: the syncs a batch's counter may have lost
    events          \* the events so far

importCounters == <<sourceImports, targetImports, batchImports, uncounted>>
counters == <<importCounters, creations>>
vars == <<queue, worker, creating, stopped, counters, events>>

\* "counted": createTargetVM has not called RemoveCreation; "lost": its VM was
\* removed by a reset.
TypeOK ==
    /\ queue \in [Instance -> Entry \cup {NoEntry}]
    /\ worker \in [Instance -> {"none", "ask", "busy"}]
    /\ creating \in [Instance -> {"no", "counted", "agent", "lost"}]
    /\ stopped \subseteq Batch
    /\ sourceImports \in [Source -> Nat]
    /\ targetImports \in [Target -> Nat]
    /\ batchImports \in [Batch -> Nat]
    /\ creations \in [Target -> Nat]
    /\ uncounted \in [Batch -> Nat]
    /\ events \in 0 .. MaxEvents

Queued(i) == queue[i] # NoEntry
InStatus(S) == {i \in Instance : Queued(i) /\ queue[i].status \in S}
Entries(b) == {i \in Instance : Queued(i) /\ queue[i].batch = b}
Waiting(i) == NewEntry(BatchOf[i], 0, "WAITING", FALSE)

\* The imports syncActiveBatches counts, by what "of" says of an instance.
Importing(of, x) ==
    {i \in InStatus({"BACKGROUND_IMPORT", "FINAL_IMPORT"}) : of[i] = x}
Syncing(b) == InStatus({"BACKGROUND_IMPORT"}) \cap Entries(b)
OnTarget(S, t) == {i \in S : TargetOf[i] = t}

Init ==
    /\ queue = [i \in Instance |-> Waiting(i)]
    /\ worker = [i \in Instance |-> "none"]
    /\ creating = [i \in Instance |-> "no"]
    /\ stopped = {}
    /\ sourceImports = [s \in Source |-> 0]
    /\ targetImports = [t \in Target |-> 0]
    /\ batchImports = [b \in Batch |-> 0]
    /\ creations = [t \in Target |-> 0]
    /\ uncounted = [b \in Batch |-> 0]
    /\ events = 0

-----------------------------------------------------------------------------
(* Util: the counters are a Cache, updated under its lock *)

\* Mutant: the limit is reached one slot too early.
ReachedEarly(limit, count) == limit > 0 /\ limit <= count + 1

Reached(limit, count) == limit > 0 /\ limit <= count

Record(count, x) == [count EXCEPT ![x] = @ + 1]

Remove(count, x) == [count EXCEPT ![x] = IF @ > 0 THEN @ - 1 ELSE @]

Event(e) ==
    /\ e \in Events
    /\ events < MaxEvents
    /\ events' = events + 1

SetStatus(i, status, stage) ==
    queue' = [queue EXCEPT ![i] = UpdateStatus(@, status, stage, NoWindow)]

-----------------------------------------------------------------------------
(* Creation of target VMs: beginImports, createTargetVM *)

NoRound == \A i \in Instance : creating[i] = "no"

\* Waiting instances; one whose target VM exists cannot be placed again.
Creatable == {i \in InStatus({"WAITING"}) : worker[i] = "none" /\ queue[i].batch \notin stopped}

\* Mutant: the limit is checked once, before the instances are counted.
CheckedOnce(S) ==
    \A t \in Target : OnTarget(S, t) # {} => ~Reached(CreateLimit[t], creations[t])

\* The instances may be recorded one by one without passing a limit.
FitsLimits(S) ==
    \A t \in Target :
        OnTarget(S, t) # {} /\ CreateLimit[t] > 0 =>
            creations[t] + Cardinality(OnTarget(S, t)) <= CreateLimit[t]

\* As many instances as the limits allow are picked, in an order left open.
Picked(S) ==
    /\ S \subseteq Creatable /\ S # {}
    /\ FitsLimits(S)
    /\ \A i \in Creatable \ S :
        Reached(CreateLimit[TargetOf[i]],
                creations[TargetOf[i]] + Cardinality(OnTarget(S, TargetOf[i])))

RecordCreations(S) ==
    creations' = [t \in Target |-> creations[t] + Cardinality(OnTarget(S, t))]

BeginImports(S) ==
    /\ NoRound
    /\ Picked(S)
    /\ RecordCreations(S)
    /\ queue' = [i \in Instance |->
                    IF i \in S THEN UpdateStatus(queue[i], "CREATING", queue[i].stage, NoWindow)
                               ELSE queue[i]]
    /\ creating' = [i \in Instance |-> IF i \in S THEN "counted" ELSE "no"]
    /\ UNCHANGED <<worker, stopped, importCounters, events>>

\* The transaction fails after some instances were recorded.
RollBack(S) ==
    /\ Event("rollback")
    /\ NoRound
    /\ S \subseteq Creatable /\ S # {}
    /\ FitsLimits(S)
    /\ RecordCreations(S)
    /\ UNCHANGED <<queue, worker, creating, stopped, importCounters>>

\* The VM is set up and started; createTargetVM waits for its agent.
SetUpVM(i) ==
    /\ creating[i] = "counted"
    /\ creating' = [creating EXCEPT ![i] = "agent"]
    /\ creations' = Remove(creations, TargetOf[i])
    /\ UNCHANGED <<queue, worker, stopped, importCounters, events>>

\* The entry may be another one by now: its batch was reset and started again.
AgentUp(i) ==
    /\ creating[i] = "agent" /\ Queued(i)
    /\ creating' = [creating EXCEPT ![i] = "no"]
    /\ SetStatus(i, "IDLE", "background")
    /\ worker' = [worker EXCEPT ![i] = "ask"]
    /\ UNCHANGED <<stopped, counters, events>>

\* The reverter removes the creation, for a second time if the agent did not
\* come up, and the VM; the instance is to be tried again.
RevertCreation(i) ==
    /\ creating' = [creating EXCEPT ![i] = "no"]
    /\ creations' = Remove(creations, TargetOf[i])
    /\ IF Queued(i) THEN SetStatus(i, "WAITING", "background") ELSE UNCHANGED queue
    /\ UNCHANGED <<worker, stopped, importCounters>>

CreateFails(i) == Event("create") /\ creating[i] # "no" /\ RevertCreation(i)

\* A reset has removed the VM, or the entry that is to become IDLE.
CreatedInVain(i) ==
    /\ creating[i] = "lost" \/ (creating[i] = "agent" /\ ~Queued(i))
    /\ RevertCreation(i)
    /\ UNCHANGED events

-----------------------------------------------------------------------------
(* NewWorkerCommandByInstanceUUID *)

Asks(i) == worker[i] = "ask" /\ Queued(i) /\ queue[i].status = "IDLE"

LimitReached(i) ==
    \/ Reached(SourceLimit[SourceOf[i]], sourceImports[SourceOf[i]])
    \/ Reached(TargetLimit[TargetOf[i]], targetImports[TargetOf[i]])

SyncLimitReached(i) == Reached(SyncLimit[BatchOf[i]], batchImports[BatchOf[i]])

ShouldSync(i) == queue[i].stage = "background" /\ i \in BackgroundImport

\* A sync that was done before may be topped up while no window has begun.
ToppedUp(i) == queue[i].stage = "final" /\ i \in BackgroundImport /\ queue[i].synced

MaySync(i) ==
    /\ Asks(i) /\ ~LimitReached(i) /\ ~SyncLimitReached(i)
    /\ ShouldSync(i) \/ ToppedUp(i)

MayImport(i) ==
    /\ Asks(i) /\ ~LimitReached(i)
    /\ ~ShouldSync(i) /\ queue[i].stage # "complete"

RecordImport(i) ==
    /\ sourceImports' = Record(sourceImports, SourceOf[i])
    /\ targetImports' = Record(targetImports, TargetOf[i])
    /\ UNCHANGED <<creations, uncounted>>

RecordSync(i) == RecordImport(i) /\ batchImports' = Record(batchImports, BatchOf[i])

Works(i) == worker' = [worker EXCEPT ![i] = "busy"]

Sync(i) ==
    /\ MaySync(i)
    /\ SetStatus(i, "BACKGROUND_IMPORT", "background")
    /\ RecordSync(i)
    /\ Works(i)
    /\ UNCHANGED <<creating, stopped>>

BeginBackgroundImport(i) == Sync(i) /\ ShouldSync(i) /\ UNCHANGED events

\* No window has begun, and the last sync is long ago.
TopUp(i) == Event("topup") /\ Sync(i) /\ ~ShouldSync(i)

BeginFinalImport(i) ==
    /\ MayImport(i)
    /\ SetStatus(i, "FINAL_IMPORT", queue[i].stage)
    /\ RecordImport(i)
    /\ Works(i)
    /\ UNCHANGED <<creating, stopped, batchImports, events>>

\* The post-import tasks wait for the limits as well, and are not counted.
BeginPostImport(i) ==
    /\ Asks(i) /\ ~LimitReached(i)
    /\ queue[i].stage = "complete"
    /\ SetStatus(i, "POST_IMPORT", "complete")
    /\ Works(i)
    /\ UNCHANGED <<creating, stopped, counters, events>>

\* The transaction fails after the import was recorded; the slots are lost.
CommandRolledBack(i) ==
    /\ Event("rollback")
    /\ \/ MaySync(i) /\ RecordSync(i)
       \/ MayImport(i) /\ RecordImport(i) /\ UNCHANGED batchImports
    /\ UNCHANGED <<queue, worker, creating, stopped>>

\* A worker that restarted after it had reported RUNNING; nothing is counted.
ReissueCommand(i) ==
    /\ worker[i] = "ask" /\ Queued(i)
    /\ queue[i].status # "IDLE" /\ queue[i].lastWorker = "RUNNING"
    /\ ReissuedCommand(queue[i]) # "none"
    /\ Works(i)
    /\ UNCHANGED <<queue, creating, stopped, counters, events>>

-----------------------------------------------------------------------------
(* ProcessWorkerUpdate, and the worker *)

Accepted(i) == Queued(i) /\ IsMigrating(queue[i])

ReportProgress(i) ==
    /\ worker[i] = "busy" /\ Accepted(i)
    /\ queue[i].lastWorker # "RUNNING"
    /\ queue' = [queue EXCEPT ![i] = ProcessWorkerUpdate(@, "RUNNING")]
    /\ UNCHANGED <<worker, creating, stopped, counters, events>>

\* An import ends: it gives its slots back, and for a post-import task, which
\* has none, somebody else's.
RemoveImport(i) ==
    /\ sourceImports' = Remove(sourceImports, SourceOf[i])
    /\ targetImports' = Remove(targetImports, TargetOf[i])
    /\ batchImports' = IF queue[i].status = "BACKGROUND_IMPORT"
                       THEN Remove(batchImports, BatchOf[i]) ELSE batchImports

\* After the post-import tasks the worker is done.
Answered(i, response) ==
    worker' = [worker EXCEPT ![i] =
                  IF response = "SUCCESS" /\ Queued(i) /\ queue[i].status = "POST_IMPORT"
                  THEN "none" ELSE "ask"]

\* A command ends; a response for an entry that is not migrating is rejected.
Respond(i, response) ==
    /\ worker[i] = "busy"
    /\ Answered(i, response)
    /\ IF Accepted(i)
         THEN /\ queue' = [queue EXCEPT ![i] = ProcessWorkerUpdate(@, response)]
              /\ RemoveImport(i)
         ELSE UNCHANGED <<queue, sourceImports, targetImports, batchImports>>
    /\ UNCHANGED <<creating, stopped, creations, uncounted>>

Succeed(i) == Respond(i, "SUCCESS") /\ UNCHANGED events

Fail(i) == Event("fail") /\ Respond(i, "FAILED")

\* What a rolled-back transaction has taken from a batch's counter.
Uncount == uncounted' = [b \in Batch |-> uncounted[b] + batchImports[b] - batchImports'[b]]

\* The transaction fails after the slots were given back.
ResponseRolledBack(i, response) ==
    /\ Event("rollback")
    /\ worker[i] = "busy" /\ Accepted(i)
    /\ Answered(i, response)
    /\ RemoveImport(i) /\ Uncount
    /\ UNCHANGED <<queue, creating, stopped, creations>>

RestartWorker(i) ==
    /\ Event("worker")
    /\ worker[i] = "busy"
    /\ worker' = [worker EXCEPT ![i] = "ask"]
    /\ UNCHANGED <<queue, creating, stopped, counters>>

-----------------------------------------------------------------------------
(* What else moves an entry *)

\* The window of an entry ends: resetQueueEntry.
ResetEntry(i) ==
    /\ Event("deadline")
    /\ i \in InStatus({"FINAL_IMPORT", "POST_IMPORT", "WORKER_DONE"})
    /\ queue[i].batch \notin stopped
    /\ IF queue[i].status = "FINAL_IMPORT"
         THEN /\ SetStatus(i, "IDLE", "final")
              /\ worker' = [worker EXCEPT ![i] = "ask"]
         ELSE /\ SetStatus(i, "WAITING", "background")
              /\ worker' = [worker EXCEPT ![i] = "none"]
    /\ UNCHANGED <<creating, stopped, counters>>

\* queueCancel, with or without the cleanup of the target VM.
CancelEntry(i) ==
    /\ Event("cancel")
    /\ NoRound
    /\ Queued(i) /\ queue[i].status \notin {"FINISHED", "CANCELED"}
    /\ queue' = [queue EXCEPT ![i] = Cancel(@)]
    /\ worker' \in {worker, [worker EXCEPT ![i] = "none"]}
    /\ UNCHANGED <<creating, stopped, counters>>

RetryEntry(i) ==
    /\ i \in InStatus({"CANCELED"})
    /\ Event("retry")
    /\ NoRound
    /\ queue' = [queue EXCEPT ![i] = Retry(@, "WAITING", FALSE)]
    /\ UNCHANGED <<worker, creating, stopped, counters>>

\* Every entry of S gives its import back.
RemoveAll(count, of, S) ==
    [x \in DOMAIN count |->
        LET held == Cardinality({i \in S : of[i] = x})
        IN  IF count[x] > held THEN count[x] - held ELSE 0]

ResetBatchCounters(b) ==
    LET imports == InStatus({"BACKGROUND_IMPORT", "FINAL_IMPORT"}) \cap Entries(b)
    IN  /\ sourceImports' = RemoveAll(sourceImports, SourceOf, imports)
        /\ targetImports' = RemoveAll(targetImports, TargetOf, imports)
        /\ batchImports' = RemoveAll(batchImports, BatchOf, Syncing(b))

\* CleanupVM removes the VMs of S. Of those being created it removes the ones that
\* are there already; the others come to be, whatever becomes of the entry.
CleanUpVMs(S) ==
    /\ worker' = [i \in Instance |-> IF i \in S THEN "none" ELSE worker[i]]
    /\ \E early \in SUBSET {i \in S : creating[i] = "counted"} :
           creating' = [i \in Instance |->
               IF i \in S \ early /\ creating[i] # "no" THEN "lost" ELSE creating[i]]

\* ResetBatchByName, forced, and the cleanup of the batch's target VMs: without
\* workerLock, thus also in the middle of a round.
ResetBatch(b) ==
    /\ Event("reset")
    /\ Entries(b) # {}
    /\ queue' = [i \in Instance |-> IF i \in Entries(b) THEN NoEntry ELSE queue[i]]
    /\ CleanUpVMs(Entries(b))
    /\ ResetBatchCounters(b)
    /\ stopped' = stopped \ {b}
    /\ uncounted' = [uncounted EXCEPT ![b] = 0]
    /\ UNCHANGED creations

\* A call to a source or target fails, when the VMs of S are gone: the queue is
\* rolled back, and the counters stay lowered.
ResetBatchFails(b, S) ==
    /\ Event("reset")
    /\ Entries(b) # {} /\ S \subseteq Entries(b)
    /\ CleanUpVMs(S)
    /\ ResetBatchCounters(b) /\ Uncount
    /\ UNCHANGED <<queue, stopped, creations>>

StopBatch(b) ==
    /\ Event("stop")
    /\ NoRound
    /\ Entries(b) # {} /\ b \notin stopped
    /\ stopped' = stopped \cup {b}
    /\ UNCHANGED <<queue, worker, creating, counters>>

StartBatch(b) ==
    /\ Entries(b) = {}
    /\ \E i \in Instance : BatchOf[i] = b
    /\ queue' = [i \in Instance |-> IF BatchOf[i] = b THEN Waiting(i) ELSE queue[i]]
    /\ UNCHANGED <<worker, creating, stopped, counters, events>>

\* syncActiveBatches counts the entries of the RUNNING batches; the syncs of a
\* STOPPED one go on uncounted, and so do those that exceed a limit already.
RestartDaemon ==
    LET running == {i \in Instance : Queued(i) /\ queue[i].batch \notin stopped}
    IN  /\ Event("restart")
        /\ creating' = [i \in Instance |-> "no"]
        /\ sourceImports' = [s \in Source |-> Cardinality(Importing(SourceOf, s) \cap running)]
        /\ targetImports' = [t \in Target |-> Cardinality(Importing(TargetOf, t) \cap running)]
        /\ batchImports' = [b \in Batch |-> Cardinality(Syncing(b) \cap running)]
        /\ creations' = [t \in Target |->
                            Cardinality(OnTarget(InStatus({"CREATING"}), t) \cap running)]
        /\ uncounted' = [b \in Batch |->
                            LET syncs == Cardinality(Syncing(b))
                            IN  IF b \in stopped THEN syncs
                                ELSE IF syncs > SyncLimit[b] THEN syncs - SyncLimit[b] ELSE 0]
        /\ UNCHANGED <<queue, worker, stopped>>

-----------------------------------------------------------------------------

Round ==
    \/ \E S \in SUBSET Instance : BeginImports(S)
    \/ \E i \in Instance : SetUpVM(i) \/ AgentUp(i) \/ CreatedInVain(i)

Command(i) ==
    BeginBackgroundImport(i) \/ BeginFinalImport(i) \/ BeginPostImport(i)
    \/ ReissueCommand(i)

Next ==
    \/ Round
    \/ \E S \in SUBSET Instance : RollBack(S)
    \/ \E i \in Instance :
        \/ Command(i) \/ TopUp(i) \/ ReportProgress(i) \/ Succeed(i) \/ Fail(i)
        \/ CommandRolledBack(i)
        \/ \E response \in {"SUCCESS", "FAILED"} : ResponseRolledBack(i, response)
        \/ CreateFails(i) \/ RestartWorker(i)
        \/ ResetEntry(i) \/ CancelEntry(i) \/ RetryEntry(i)
    \/ \E b \in Batch :
        \/ ResetBatch(b) \/ StopBatch(b) \/ StartBatch(b)
        \/ \E S \in SUBSET Instance : ResetBatchFails(b, S)
    \/ RestartDaemon

Spec == Init /\ [][Next]_vars

\* The import task runs again and again, workers poll and end their commands.
FairSpec ==
    /\ Spec
    /\ WF_vars(Round)
    /\ \A i \in Instance : WF_vars(Command(i)) /\ WF_vars(Succeed(i))

-----------------------------------------------------------------------------
(* Properties *)

\* No target creates more VMs at a time than its creation limit, across
\* restarts, resets in the middle of a round and cancellations, although
\* creations are counted outside the transaction and removed twice.
\*
\* No batch has more background syncs at a time than its sync limit
\* (doc/reference/batches.md), but for as many as its counter was made to forget
\* since it was last reset or the daemon started: by a reset or a response
\* whose transaction was rolled back when the slots were given back, or by a
\* start of the daemon, which counts no STOPPED batch.  Nothing else that is
\* canceled, retried, reset or restarted loses count of a sync, and none is
\* lost count of twice.
LimitsRespected ==
    /\ \A b \in Batch : SyncLimit[b] > 0 =>
           Cardinality(Syncing(b)) <= SyncLimit[b] + uncounted[b]
    /\ \A t \in Target : CreateLimit[t] > 0 =>
           Cardinality({i \in OnTarget(Instance, t) : creating[i] # "no"}) <= CreateLimit[t]

\* The counters of i's source, target or batch hold a slot no worker uses.
SlotLost(i) ==
    LET using(S) == Cardinality({j \in S : worker[j] = "busy"})
    IN  \/ sourceImports[SourceOf[i]] > using(Importing(SourceOf, SourceOf[i]))
        \/ targetImports[TargetOf[i]] > using(Importing(TargetOf, TargetOf[i]))
        \/ batchImports[BatchOf[i]] > using(Syncing(BatchOf[i]))
        \/ creations[TargetOf[i]] >
              Cardinality({j \in OnTarget(Instance, TargetOf[i]) : creating[j] = "counted"})

\* An instance the limits hold back, from creation or from its next command.
HeldBack(i) ==
    \/ i \in Creatable
    \/ Asks(i) /\ (LimitReached(i) \/ (ShouldSync(i) /\ SyncLimitReached(i)))

\* The limits hold no instance back for good, unless a counter holds a slot
\* that nobody uses (NewWorkerCommandByInstanceUUID, beginImports).
HeldBackInTurn == \A i \in Instance : HeldBack(i) ~> ~HeldBack(i) \/ SlotLost(i)
=============================================================================
