---------------------------- MODULE UserRequests ----------------------------
(***************************************************************************)
(* The requests of the user that change a migration.  Cancel, retry,       *)
(* resolve and the stop of a batch take the write side of workerLock, so   *)
(* they wait for the periodic tasks and the workers' handlers; the start   *)
(* and reset of a batch and the deletion of an entry do not.               *)
(***************************************************************************)
EXTENDS MigrationState

DuringRequest == <<now, mail, handler, imp, fin, retries>>

\* Mutant: the read side of the lock is taken.
Shared == ~WriteLocked

Exclusive == ~WriteLocked /\ ~ReadLocked

\* The checks of an instance decide the status its entry starts in.
InitialStatus == IF "block" \in Faults THEN {"WAITING", "BLOCKED"} ELSE {"WAITING"}

\* A random token, which neither i's target VM nor the import task has.
FreshSecret(i) == CHOOSE s \in Secret : s \notin {token[i], imp.secret[i]}

\* batchStartPost, StartBatchByName: an instance another batch has queued is
\* left out, and one that no longer matches the batch starts in conflict.
StartBatch(b) ==
    /\ batch[b] \in {"DEFINED", "ERROR", "STOPPED"}
    /\ HasValidWindow(Schedule[b], now)
    /\ LET added == {i \in Assigned[b] : ~Queued(i)}
           statuses == InitialStatus \cup (IF "change" \in Faults THEN {"CONFLICT"} ELSE {})
       IN  /\ added # {}
           /\ \E status \in [added -> statuses], running \in [added -> BOOLEAN] :
                /\ \A i \in added : running[i] \in InitialRunning(i)
                /\ queue' = [i \in Instance |->
                                IF i \in added THEN NewEntry(b, FreshSecret(i), status[i], running[i])
                                ELSE queue[i]]
    /\ batch' = [batch EXCEPT ![b] = "RUNNING"]
    /\ UNCHANGED <<machines, cancel, DuringRequest>>

\* batchStopPost: nothing happens to the entries of the batch.
StopBatch(b) ==
    /\ "stop" \in Requests /\ Exclusive
    /\ batch[b] = "RUNNING"
    /\ batch' = [batch EXCEPT ![b] = "STOPPED"]
    /\ UNCHANGED <<queue, machines, cancel, DuringRequest>>

\* The target VMs and source VMs a reset of batch b deletes and powers on.
ResetVMs(entries, force) == {i \in entries : queue[i].status # "FINISHED"
                                             /\ (force \/ HasWorkerVolume(i))}
ResetSources(entries) == {i \in entries : queue[i].status # "FINISHED" /\ queue[i].running}

MayReset(b, force) ==
    /\ "reset" \in Requests
    /\ batch[b] # "DEFINED"
    /\ force \/ \A i \in Entries(b) : ~IsCommitted(queue[i])

\* batchResetPost: one transaction around the calls to targets and sources.
ResetBatch(b, force) ==
    /\ MayReset(b, force)
    /\ Machines(ResetVMs(Entries(b), force), ResetSources(Entries(b)))
    /\ queue' = [i \in Instance |-> IF i \in Entries(b) THEN NoEntry ELSE queue[i]]
    /\ batch' = [batch EXCEPT ![b] = "DEFINED"]
    /\ UNCHANGED <<cancel, DuringRequest>>

\* A call fails: the transaction is rolled back and the calls before it stay.
ResetBatchFails(b, force) ==
    /\ MayReset(b, force)
    /\ {"source", "target"} \cap Faults # {}
    /\ \E cleaned \in SUBSET Entries(b) : \E woken \in SUBSET cleaned :
        /\ woken # Entries(b)
        /\ Machines(ResetVMs(cleaned, force), ResetSources(woken))
    /\ UNCHANGED <<now, database, daemon>>

\* queueDelete, DeleteByUUID
DeleteEntry(i) ==
    /\ "delete" \in Requests
    /\ Queued(i) /\ ~IsMigrating(queue[i])
    /\ queue' = [queue EXCEPT ![i] = NoEntry]
    /\ UNCHANGED <<batch, machines, cancel, DuringRequest>>

\* Mutant: a finished entry may be canceled.
MayCancelAny(i) == Queued(i)

MayCancel(i) == Queued(i) /\ queue[i].status # "FINISHED"

\* queueCancel, CancelByUUID: the entry is canceled first.  The source VM of a
\* committed one is powered on last, if nothing before it fails.
CancelEntry(i) ==
    /\ "cancel" \in Requests /\ Exclusive
    /\ MayCancel(i)
    /\ queue' = [queue EXCEPT ![i] = Cancel(@)]
    /\ \E cleanup \in BOOLEAN :
        LET power == queue[i].running /\ IsCommitted(queue[i])
        IN  cancel' = [cancel EXCEPT ![i] =
                        CASE cleanup /\ power -> "cleanupAndPower"
                          [] cleanup          -> "cleanup"
                          [] power            -> "power"
                          [] OTHER            -> "idle"]
    /\ UNCHANGED <<batch, machines, DuringRequest>>

CancelCleanup(i) ==
    /\ cancel[i] \in {"cleanup", "cleanupAndPower"}
    /\ \/ /\ CleanupVM(i)
          /\ cancel' = [cancel EXCEPT ![i] = IF @ = "cleanup" THEN "idle" ELSE "power"]
       \/ /\ "target" \in Faults
          /\ UNCHANGED machines
          /\ cancel' = [cancel EXCEPT ![i] = "idle"]
    /\ UNCHANGED <<database, DuringRequest>>

CancelPowerOn(i) ==
    /\ cancel[i] = "power"
    /\ cancel' = [cancel EXCEPT ![i] = "idle"]
    /\ \/ PowerOnVM(i)
       \/ "source" \in Faults /\ UNCHANGED machines
    /\ UNCHANGED <<database, DuringRequest>>

\* queueRetry, RetryByUUID: the placement is determined anew.
RetryEntry(i) ==
    /\ "retry" \in Requests /\ Exclusive
    /\ Queued(i) /\ queue[i].status = "CANCELED"
    /\ \E status \in InitialStatus, running \in InitialRunning(i) :
        queue' = [queue EXCEPT ![i] = Retry(@, status, running)]
    /\ UNCHANGED <<batch, machines, cancel, DuringRequest>>

\* queueResolve
ResolveEntry(i) ==
    /\ "resolve" \in Requests /\ Exclusive
    /\ Queued(i) /\ queue[i].status = "CONFLICT"
    /\ queue' = [queue EXCEPT ![i] = Resolve(@)]
    /\ UNCHANGED <<batch, machines, cancel, DuringRequest>>

BatchRequest(b) ==
    \/ StartBatch(b) \/ StopBatch(b)
    \/ \E force \in BOOLEAN : ResetBatch(b, force) \/ ResetBatchFails(b, force)

EntryRequest(i) ==
    \/ DeleteEntry(i) \/ CancelEntry(i) \/ CancelCleanup(i) \/ CancelPowerOn(i)
    \/ RetryEntry(i) \/ ResolveEntry(i)
=============================================================================
