---------------------------- MODULE BeginImports ----------------------------
(***************************************************************************)
(* The periodic task beginImports: it reassesses blocked entries, places   *)
(* the waiting ones, uploads the worker image to their targets, claims     *)
(* them and creates their target VMs concurrently (createTargetVM).  It    *)
(* holds the read side of workerLock from its first step to its last.      *)
(***************************************************************************)
EXTENDS MigrationState

DuringImport == <<now, mail, handler, cancel, fin, retries>>

ImportTo(pc, snapshot) ==
    imp' = [imp EXCEPT !.pc = pc, !.snapshot = snapshot]

CreateStep(i, step) == imp' = [imp EXCEPT !.step[i] = step]

\* What the checks of an instance may find is up to the environment.
Blockable(instances) == IF "block" \in Faults THEN SUBSET instances ELSE {{}}

\* reassessBlockedInstances, which writes every status it finds changed.
ReassessBlocked ==
    /\ imp.pc = "idle" /\ ~WriteLocked
    /\ LET assessed == MigrationState({"BLOCKED", "WAITING"})
       IN  \E blocked \in Blockable(assessed) :
            queue' = [i \in Instance |->
                        IF i \notin assessed THEN queue[i]
                        ELSE [queue[i] EXCEPT
                                !.status = IF i \in blocked THEN "BLOCKED" ELSE "WAITING"]]
    /\ ImportTo("place", {})
    /\ UNCHANGED <<batch, machines, DuringImport>>

\* The transaction that determines the placement of the waiting entries and
\* blocks those their target cannot take; the task goes on with a snapshot of
\* the others and of their batches.
PlaceWaiting ==
    /\ imp.pc = "place"
    /\ LET waiting == MigrationState({"WAITING"})
       IN  \E blocked \in Blockable(waiting) :
            /\ queue' = [i \in Instance |->
                            IF i \in blocked THEN [queue[i] EXCEPT !.status = "BLOCKED"]
                            ELSE queue[i]]
            /\ IF waiting = blocked THEN imp' = IdleImport
               ELSE imp' = [pc |-> "ensure",
                            snapshot |-> {<<i, queue[i].batch>> : i \in waiting \ blocked},
                            secret |-> [i \in Instance |->
                                IF i \in waiting \ blocked THEN queue[i].secret ELSE 0],
                            step |-> imp.step]
    /\ UNCHANGED <<batch, machines, DuringImport>>

\* ensureISOImagesExistInStoragePool for the storage pools of the snapshot's
\* batches: a batch with a failure is put into ERROR and left out, if it got into
\* the list of those; an upload, also a later one to another pool, writes back
\* the status the batch was read with.
EnsureImages ==
    /\ imp.pc = "ensure"
    /\ LET batches == {s[2] : s \in imp.snapshot}
       IN  \E uploaded \in SUBSET batches :
           \E failed \in IF "target" \in Faults THEN SUBSET batches ELSE {{}} :
           \E ignored \in Appended(failed) :
            /\ batch' = [b \in Batch |-> IF b \in uploaded THEN "RUNNING"
                                         ELSE IF b \in failed THEN "ERROR"
                                         ELSE batch[b]]
            /\ IF ignored = batches THEN imp' = IdleImport
               ELSE ImportTo("claim", {s \in imp.snapshot : s[2] \notin ignored})
    /\ UNCHANGED <<queue, machines, DuringImport>>

\* The transaction that puts the entries of the snapshot into CREATING, those
\* the target's create limit lets through.  It fails if one of them is gone.  The
\* stage and window of a waiting entry, which the code writes back, are always
\* these.
ClaimEntries ==
    /\ imp.pc = "claim"
    /\ \E claimed \in SUBSET {s[1] : s \in imp.snapshot} :
        /\ claimed # {} \/ "limit" \in Faults
        /\ "limit" \notin Faults => claimed = {s[1] : s \in imp.snapshot}
        /\ IF claimed # {} /\ \A i \in claimed : Queued(i)
             THEN /\ queue' = [i \in Instance |->
                                IF i \in claimed
                                THEN UpdateStatus(queue[i], "CREATING", "background", NoWindow)
                                ELSE queue[i]]
                  /\ imp' = [imp EXCEPT
                             !.pc = "create", !.snapshot = {},
                             !.step = [i \in Instance |->
                                        IF i \in claimed THEN "define" ELSE "none"]]
             ELSE /\ UNCHANGED queue
                  /\ imp' = IdleImport
    /\ UNCHANGED <<batch, machines, DuringImport>>

-----------------------------------------------------------------------------
(* createTargetVM, concurrently for every claimed instance *)

DuringCreate == <<now, batch, mail, handler, cancel, fin, retries>>

\* CreateNewVM, which fails if the target has a VM of that name already.  By now
\* a response of an earlier worker has been handled to the end or is lost: no
\* request is under way for as long as a VM takes to be created (a bound of the
\* model).
CreateVM(i) ==
    /\ imp.step[i] = "define"
    /\ \/ /\ vm[i] = "none" /\ ~handler[i]
          /\ vm' = [vm EXCEPT ![i] = "defined"]
          /\ disks' = [disks EXCEPT ![i] = "empty"]
          /\ token' = [token EXCEPT ![i] = imp.secret[i]]
          /\ mail' = [mail EXCEPT ![i] = "none"]
          /\ CreateStep(i, "boot")
       \/ /\ vm[i] # "none" \/ "target" \in Faults
          /\ CreateStep(i, "revert")
          /\ UNCHANGED <<vm, disks, token, mail>>
    /\ UNCHANGED <<now, database, source, worker, handler, cancel, fin, retries>>

\* SetupVM and CheckIncusAgent: the VM boots and its worker starts.  Both may
\* also fail once it has.
BootWorker(i) ==
    /\ imp.step[i] = "boot"
    /\ \/ /\ vm[i] = "defined"
          /\ vm' = [vm EXCEPT ![i] = "worker"]
          /\ worker' = [worker EXCEPT ![i] = "ask"]
          /\ \/ CreateStep(i, "ready")
             \/ "target" \in Faults /\ CreateStep(i, "cleanup")
       \/ /\ vm[i] # "defined" \/ "target" \in Faults
          /\ CreateStep(i, "cleanup")
          /\ UNCHANGED <<vm, worker>>
    /\ UNCHANGED <<queue, source, disks, token, DuringCreate>>

\* The entry of a created VM becomes IDLE, whatever it is by now.
ReadyForWorker(i) ==
    /\ imp.step[i] = "ready"
    /\ IF Queued(i)
         THEN /\ SetStatus(i, "IDLE", "background", NoWindow)
              /\ CreateStep(i, "done")
         ELSE /\ UNCHANGED queue
              /\ CreateStep(i, "cleanup")
    /\ UNCHANGED <<machines, DuringCreate>>

\* The first revert step deletes the VM, if failed instances are cleaned up
\* and it still has its worker volume.
CleanupCreated(i) ==
    /\ imp.step[i] = "cleanup"
    /\ CreateStep(i, "revert")
    /\ IF CleanupInstances /\ HasWorkerVolume(i)
         THEN \/ CleanupVM(i)
              \/ "target" \in Faults /\ UNCHANGED machines
         ELSE UNCHANGED machines
    /\ UNCHANGED <<queue, DuringCreate>>

\* The second one has the creation tried again, or gives up on it.
RevertCreating(i) ==
    /\ imp.step[i] = "revert"
    /\ CreateStep(i, "done")
    /\ IF Queued(i)
         THEN SetStatus(i, IF CleanupInstances THEN "WAITING" ELSE "ERROR",
                        "background", NoWindow)
         ELSE UNCHANGED queue
    /\ UNCHANGED <<machines, DuringCreate>>

EndImports ==
    /\ imp.pc = "create"
    /\ \A i \in Instance : imp.step[i] \in {"none", "done"}
    /\ imp' = IdleImport
    /\ UNCHANGED <<database, machines, DuringImport>>

CreateTargetVM(i) ==
    \/ CreateVM(i) \/ BootWorker(i) \/ ReadyForWorker(i)
    \/ CleanupCreated(i) \/ RevertCreating(i)

ImportTask ==
    \/ ReassessBlocked \/ PlaceWaiting \/ EnsureImages \/ ClaimEntries
    \/ (\E i \in Instance : CreateTargetVM(i)) \/ EndImports
=============================================================================
