------------------------- MODULE FinalizeInstances -------------------------
(***************************************************************************)
(* The periodic task finalizeCompleteInstances: it takes a snapshot of the *)
(* entries in their final steps, checks the sources of those whose worker  *)
(* is done (finalSourceAndTargetChecks), then concurrently resets the ones *)
(* whose window has ended (resetQueueEntry) and configures the VMs of the  *)
(* others (configureMigratedInstances), and at last records conflicts and  *)
(* finished batches.  It holds the read side of workerLock throughout.     *)
(***************************************************************************)
EXTENDS MigrationState

DuringFinal == <<now, mail, handler, cancel, imp>>

FinalTo(i, step) == fin' = [fin EXCEPT !.step[i] = step]

InSnapshot == {i \in Instance : fin.snapshot[i] # NoEntry}

\* The window an entry was read with; an entry without one has no end.
WindowEnded(e) == e.window # NoWindow /\ Ended(Schedule[e.batch][e.window], now)

\* Mutant: only the entries whose worker is done are looked at.
DoneStatuses == {"WORKER_DONE"}

FinalStatuses == {"WORKER_DONE", "FINAL_IMPORT", "POST_IMPORT"}

TakeSnapshot ==
    /\ fin.pc = "idle" /\ ~WriteLocked
    /\ LET entries == MigrationState(FinalStatuses)
       IN  /\ entries # {}
           /\ fin' = [pc |-> "check",
                      snapshot |-> [i \in Instance |->
                                        IF i \in entries THEN queue[i] ELSE NoEntry],
                      reset |-> {i \in entries : WindowEnded(queue[i])},
                      step |-> [i \in Instance |->
                                    IF i \notin entries THEN "none"
                                    ELSE IF queue[i].status = "WORKER_DONE" THEN "check"
                                    ELSE "unchanged"]]
    /\ UNCHANGED <<database, machines, retries, DuringFinal>>

-----------------------------------------------------------------------------
(* finalSourceAndTargetChecks *)

\* A source VM that is still on is powered off.  The check then finds the
\* instance unchanged, changed beyond recovery, no longer placeable, or with
\* other networks.
CheckSource(i) ==
    /\ fin.step[i] = "check"
    /\ source' = [source EXCEPT ![i] = FALSE]
    /\ \/ FinalTo(i, "unchanged")
       \/ "change" \in Faults /\ \/ FinalTo(i, "toError")
                                 \/ FinalTo(i, "toConflict")
                                 \/ FinalTo(i, "newNetworks")
    /\ UNCHANGED <<database, vm, disks, worker, token, retries, DuringFinal>>

\* Any failure to reach a source, or the target of an instance that has changed,
\* ends the whole task.
AbortChecks ==
    /\ fin.pc = "check"
    /\ "source" \in Faults \/ {"target", "change"} \subseteq Faults
    /\ fin' = IdleFinal
    /\ UNCHANGED <<database, machines, retries, DuringFinal>>

Judged == {i \in Instance : fin.step[i] \in {"toError", "toConflict", "newNetworks"}}

\* The entry of an instance after the checks, which the task goes on with: a
\* status is stored with the stage and window that were read, a placement with
\* new networks replaces the one of the entry as it is by now.
Checked(i) ==
    LET e == fin.snapshot[i]
    IN  CASE fin.step[i] = "toError"    -> UpdateStatus(queue[i], "ERROR", e.stage, e.window)
          [] fin.step[i] = "toConflict" -> UpdateStatus(queue[i], "CONFLICT", e.stage, e.window)
          [] fin.step[i] = "newNetworks" -> [queue[i] EXCEPT !.running = e.running]
          [] OTHER -> e

\* What happens next to an instance of the snapshot.
AfterChecks(i) ==
    IF i \in fin.reset
    THEN IF Checked(i).running THEN "powerOn" ELSE "detach"
    ELSE IF Checked(i).status = "WORKER_DONE" THEN "configure" ELSE "done"

\* The transaction that stores the verdicts, and fails if an entry is gone.
StoreVerdicts ==
    /\ fin.pc = "check"
    /\ \A i \in Instance : fin.step[i] # "check"
    /\ IF \A i \in Judged : Queued(i)
         THEN /\ queue' = [i \in Instance |-> IF i \in Judged THEN Checked(i) ELSE queue[i]]
              /\ fin' = [fin EXCEPT
                          !.pc = "run",
                          !.snapshot = [i \in Instance |->
                                          IF i \in Judged THEN Checked(i) ELSE @[i]],
                          !.step = [i \in Instance |->
                                      IF i \in InSnapshot THEN AfterChecks(i) ELSE "none"]]
         ELSE /\ UNCHANGED queue
              /\ fin' = IdleFinal
    /\ UNCHANGED <<batch, machines, retries, DuringFinal>>

-----------------------------------------------------------------------------
(* resetQueueEntry: the window ended before the migration *)

InFinalImport(i) == fin.snapshot[i].status = "FINAL_IMPORT"

ResetPowerOn(i) ==
    /\ fin.step[i] = "powerOn"
    /\ \/ PowerOnVM(i) /\ FinalTo(i, "detach")
       \/ "source" \in Faults /\ FinalTo(i, "failed") /\ UNCHANGED machines
    /\ UNCHANGED <<database, mail, retries, now, handler, cancel, imp>>

\* Mutant: the worker goes on.
LeaveWorker(i) == UNCHANGED <<worker, mail, handler>>

\* Stopping a worker ends the request it waits for and what the daemon still
\* does for it.
StopWorker(i) ==
    /\ worker' = [worker EXCEPT ![i] = "none"]
    /\ mail' = [mail EXCEPT ![i] = "none"]
    /\ handler' = [handler EXCEPT ![i] = FALSE]

\* The worker of a final import is stopped; any other target VM is deleted.
DetachTarget(i) ==
    /\ fin.step[i] = "detach"
    /\ \/ /\ ~InFinalImport(i)
          /\ CleanupVM(i)
          /\ FinalTo(i, "rewrite")
          /\ UNCHANGED <<mail, handler>>
       \/ /\ InFinalImport(i) /\ vm[i] = "worker"
          /\ StopWorker(i)
          /\ FinalTo(i, "rewrite")
          /\ UNCHANGED <<source, vm, disks, token>>
       \/ /\ "target" \in Faults \/ (InFinalImport(i) /\ vm[i] # "worker")
          /\ FinalTo(i, "failed")
          /\ UNCHANGED <<machines, mail, handler>>
    /\ UNCHANGED <<now, database, cancel, imp, retries>>

\* Mutant: the import stage is not set back.
StartFinalImportOverAt(e) == UpdateStatus(e, "IDLE", e.stage, NoWindow)

StartFinalImportOver(e) == UpdateStatus(e, "IDLE", "final", NoWindow)

ResetEntry(i) ==
    /\ fin.step[i] = "rewrite"
    /\ IF ~Queued(i)
         THEN UNCHANGED queue /\ FinalTo(i, "failed")
         ELSE IF InFinalImport(i)
         THEN /\ queue' = [queue EXCEPT ![i] = StartFinalImportOver(@)]
              /\ FinalTo(i, "restart")
         ELSE SetStatus(i, "WAITING", "background", NoWindow) /\ FinalTo(i, "done")
    /\ UNCHANGED <<batch, machines, retries, DuringFinal>>

RestartDetached(i) ==
    /\ fin.step[i] = "restart"
    /\ \/ /\ vm[i] = "worker"
          /\ worker' = [worker EXCEPT ![i] = "ask"]
          /\ FinalTo(i, "done")
       \/ /\ vm[i] # "worker" \/ "target" \in Faults
          /\ FinalTo(i, "failed")
          /\ UNCHANGED worker
    /\ UNCHANGED <<database, source, vm, disks, token, retries, DuringFinal>>

-----------------------------------------------------------------------------
(* configureMigratedInstances *)

\* SetPostMigrationVMConfig stops the VM, removes the worker volume and starts
\* it if its source was running.  It may fail after any of these.
ConfigureVM(i) ==
    LET e == fin.snapshot[i]
        final == IF e.running THEN "running" ELSE "stopped"
    IN  /\ fin.step[i] = "configure"
        /\ \/ /\ vm[i] # "none"
              /\ vm' = [vm EXCEPT ![i] = final]
              /\ worker' = [worker EXCEPT ![i] = "none"]
              /\ FinalTo(i, "finish")
           \/ /\ vm[i] = "none" \/ "target" \in Faults
              /\ UNCHANGED <<vm, worker>>
              /\ FinalTo(i, "revert")
           \/ /\ vm[i] # "none" /\ "configure" \in Faults
              /\ \E reached \in {vm[i], "stopped", final} : vm' = [vm EXCEPT ![i] = reached]
              /\ worker' = [worker EXCEPT ![i] = "none"]
              /\ FinalTo(i, "revert")
        /\ UNCHANGED <<database, source, disks, token, retries, DuringFinal>>

\* Mutant: the window of a finished entry is not given up.
FinishEntryInWindow(i) ==
    /\ fin.step[i] = "finish"
    /\ IF Queued(i)
         THEN /\ SetStatus(i, "FINISHED", fin.snapshot[i].stage, fin.snapshot[i].window)
              /\ FinalTo(i, "done")
         ELSE UNCHANGED queue /\ FinalTo(i, "revert")
    /\ UNCHANGED <<batch, machines, retries, DuringFinal>>

FinishEntry(i) ==
    /\ fin.step[i] = "finish"
    /\ IF Queued(i)
         THEN SetStatus(i, "FINISHED", fin.snapshot[i].stage, NoWindow) /\ FinalTo(i, "done")
         ELSE UNCHANGED queue /\ FinalTo(i, "revert")
    /\ UNCHANGED <<batch, machines, retries, DuringFinal>>

\* Mutant: off by one at the limit.
RetryOneMore(i) == retries[i] <= Retries

RetryLeft(i) == retries[i] < Retries

\* The reverter of a failed configuration: while the window is open it counts
\* a retry, and without one left stores the error and restores the source VM.
RevertConfigure(i) ==
    LET e == fin.snapshot[i]
        PowersBack == FinalTo(i, IF e.running THEN "powerBack" ELSE "conflict")
    IN  /\ fin.step[i] = "revert"
        /\ \/ /\ ~WindowEnded(e) /\ RetryLeft(i)
              /\ retries' = [retries EXCEPT ![i] = @ + 1]
              /\ FinalTo(i, "conflict")
              /\ UNCHANGED queue
           \/ /\ ~WindowEnded(e) /\ ~RetryLeft(i)
              /\ IF Queued(i) THEN SetStatus(i, "ERROR", "background", e.window)
                              ELSE UNCHANGED queue
              /\ PowersBack
              /\ UNCHANGED retries
           \/ /\ WindowEnded(e)
              /\ PowersBack
              /\ UNCHANGED <<queue, retries>>
        /\ UNCHANGED <<batch, machines, DuringFinal>>

PowerBack(i) ==
    /\ fin.step[i] = "powerBack"
    /\ FinalTo(i, "conflict")
    /\ \/ PowerOnVM(i)
       \/ "source" \in Faults /\ UNCHANGED machines
    /\ UNCHANGED <<database, retries, DuringFinal>>

-----------------------------------------------------------------------------

\* Mutant: only the entries the task has picked up are looked at.
SnapshotFinished(b) ==
    \A i \in InSnapshot \cap Entries(b) : queue'[i].status = "FINISHED"

AllFinished(b) == \A i \in Entries(b) : queue'[i].status = "FINISHED"

\* The closing transaction, on the database and the snapshot as they are by
\* now: every failed configuration in the list is a conflict, and a batch whose entries
\* are all finished (or gone) is finished.  It fails if an entry is gone.
RecordOutcome ==
    /\ fin.pc = "run"
    /\ \A i \in Instance : fin.step[i] \in {"none", "done", "failed", "conflict"}
    /\ \E conflicts \in Appended({i \in Instance : fin.step[i] = "conflict"}) :
       LET batches == {fin.snapshot[i].batch : i \in InSnapshot}
       IN  IF \A i \in conflicts : Queued(i)
           THEN /\ queue' = [i \in Instance |->
                                IF i \in conflicts
                                THEN UpdateStatus(queue[i], "CONFLICT", fin.snapshot[i].stage,
                                                  fin.snapshot[i].window)
                                ELSE queue[i]]
                /\ batch' = [b \in Batch |->
                                IF b \in batches /\ AllFinished(b) THEN "FINISHED"
                                ELSE batch[b]]
           ELSE UNCHANGED database
    /\ fin' = IdleFinal
    /\ UNCHANGED <<machines, retries, DuringFinal>>

FinalizeInstance(i) ==
    \/ CheckSource(i)
    \/ ResetPowerOn(i) \/ DetachTarget(i) \/ ResetEntry(i) \/ RestartDetached(i)
    \/ ConfigureVM(i) \/ FinishEntry(i) \/ RevertConfigure(i) \/ PowerBack(i)

FinalTask ==
    \/ TakeSnapshot \/ AbortChecks \/ StoreVerdicts \/ RecordOutcome
    \/ \E i \in Instance : FinalizeInstance(i)
=============================================================================
