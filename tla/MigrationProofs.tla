-------------------------- MODULE MigrationProofs --------------------------
(***************************************************************************)
(* Theorems about Migration, for any instances, batches, windows, faults   *)
(* and requests, and, in the second part, about the machines of a          *)
(* migration: no write of a source VM is lost, it never runs next to the   *)
(* VM it was migrated to, and the system implements Cutover.               *)
(***************************************************************************)
EXTENDS MigrationProperties, FiniteSetTheorems, TLAPS

(***************************************************************************)
(* Types: the updates of an entry and of a task's state.                   *)
(***************************************************************************)

\* UpdateStatus returns an entry.
LEMMA UpdateStatusType ==
    ASSUME NEW e \in Entry, NEW status \in Status, NEW stage \in ImportStage,
           NEW w \in Window \cup {NoWindow}
    PROVE  UpdateStatus(e, status, stage, w) \in Entry
BY DEF UpdateStatus, Entry

\* An entry stays one when its status changes ...
LEMMA StatusType ==
    ASSUME NEW e \in Entry, NEW status \in Status
    PROVE  [e EXCEPT !.status = status] \in Entry
BY DEF Entry

\* ... or the power state it is to restore.
LEMMA RunningType ==
    ASSUME NEW e \in Entry, NEW r \in BOOLEAN
    PROVE  [e EXCEPT !.running = r] \in Entry
BY DEF Entry

\* The types of an entry's fields.
LEMMA EntryFields ==
    ASSUME NEW e \in Entry
    PROVE  /\ e.batch \in Batch /\ e.secret \in Secret /\ e.status \in Status
           /\ e.stage \in ImportStage /\ e.lastWorker \in Response
           /\ e.synced \in BOOLEAN /\ e.window \in Window \cup {NoWindow}
           /\ e.running \in BOOLEAN
BY DEF Entry

\* The start of a batch makes entries.
LEMMA NewEntryType ==
    ASSUME NEW b \in Batch, NEW s \in Secret, NEW status \in Status, NEW r \in BOOLEAN
    PROVE  NewEntry(b, s, status, r) \in Entry
BY DEF NewEntry, Entry, ImportStage, Response

\* A worker's SUCCESS leaves an entry ...
LEMMA SucceededType ==
    ASSUME NEW e \in Entry
    PROVE  Succeeded(e) \in Entry
<1>1. CASE e.status = "BACKGROUND_IMPORT"
  BY <1>1 DEF Succeeded, Entry, Status, ImportStage
<1>2. CASE e.status = "FINAL_IMPORT"
  BY <1>2 DEF Succeeded, Entry, Status, ImportStage
<1>3. CASE e.status = "POST_IMPORT"
  BY <1>3 DEF Succeeded, Entry, Status
<1>4. CASE e.status \notin {"BACKGROUND_IMPORT", "FINAL_IMPORT", "POST_IMPORT"}
  BY <1>4 DEF Succeeded
<1> QED
  BY <1>1, <1>2, <1>3, <1>4

\* ... and so does any response.
LEMMA ProcessWorkerUpdateType ==
    ASSUME NEW e \in Entry, NEW response \in Response
    PROVE  ProcessWorkerUpdate(e, response) \in Entry
<1> DEFINE Responded(f) == [f EXCEPT !.lastWorker = response]
<1>1. \A f \in Entry : Responded(f) \in Entry
  BY DEF Entry
<1>2. Succeeded(e) \in Entry
  BY SucceededType
<1>3. [e EXCEPT !.status = "ERROR"] \in Entry
  BY DEF Entry, Status
<1>4. CASE response = "SUCCESS"
  BY <1>1, <1>2, <1>4 DEF ProcessWorkerUpdate
<1>5. CASE response = "FAILED"
  BY <1>1, <1>3, <1>5 DEF ProcessWorkerUpdate
<1>6. CASE response \notin {"SUCCESS", "FAILED"}
  BY <1>1, <1>6 DEF ProcessWorkerUpdate
<1> QED
  BY <1>4, <1>5, <1>6

\* A step of createTargetVM moves one instance on.
LEMMA CreateStepType ==
    ASSUME TypeOK, NEW i \in Instance, NEW step \in ImportStep, CreateStep(i, step)
    PROVE  imp' \in ImportTaskState
BY DEF TypeOK, ImportTaskState, CreateStep

\* So does a step of the finalization.
LEMMA FinalToType ==
    ASSUME TypeOK, NEW i \in Instance, NEW step \in FinalStep, FinalTo(i, step)
    PROVE  fin' \in FinalTaskState
BY DEF TypeOK, FinalTaskState, FinalTo

\* The tasks between two runs.
LEMMA IdleTypes == IdleImport \in ImportTaskState /\ IdleFinal \in FinalTaskState
BY DEF IdleImport, IdleFinal, ImportTaskState, FinalTaskState, ImportStep, FinalStep, Secret

\* UpdateStatusByUUID keeps the queue table's type.
LEMMA SetStatusType ==
    ASSUME TypeOK, NEW i \in Instance, Queued(i),
           NEW status \in Status, NEW stage \in ImportStage,
           NEW w \in Window \cup {NoWindow}, SetStatus(i, status, stage, w)
    PROVE  queue' \in [Instance -> Entry \cup {NoEntry}]
<1>1. queue[i] \in Entry
  BY DEF TypeOK, Queued
<1>2. UpdateStatus(queue[i], status, stage, w) \in Entry
  BY <1>1, UpdateStatusType
<1> QED
  BY <1>2 DEF SetStatus, TypeOK

\* CleanupVM and PowerOnVM keep the machines' types.
LEMMA MachinesType ==
    ASSUME TypeOK, NEW removed, NEW woken, Machines(removed, woken)
    PROVE  /\ source' \in [Instance -> BOOLEAN]
           /\ vm' \in [Instance -> TargetVM]
           /\ disks' \in [Instance -> Disks]
           /\ worker' \in [Instance -> Worker]
           /\ token' \in [Instance -> Secret]
<1>1. source' \in [Instance -> BOOLEAN]
  BY DEF TypeOK, Machines
<1>2. vm' \in [Instance -> TargetVM]
  BY DEF TypeOK, Machines, TargetVM
<1>3. disks' \in [Instance -> Disks]
  BY DEF TypeOK, Machines, Disks
<1>4. worker' \in [Instance -> Worker]
  BY DEF TypeOK, Machines, Worker
<1>5. token' \in [Instance -> Secret]
  BY DEF TypeOK, Machines
<1> QED
  BY <1>1, <1>2, <1>3, <1>4, <1>5

-----------------------------------------------------------------------------
(***************************************************************************)
(* Every step keeps the types.                                             *)
(***************************************************************************)

\* The steps of beginImports.
LEMMA ImportTypes ==
    ASSUME TypeOK, ImportTask
    PROVE  TypeOK'
<1>1. CASE ReassessBlocked
  <2>1. PICK blocked \in SUBSET Instance :
            queue' = [i \in Instance |->
                        IF i \notin MigrationState({"BLOCKED", "WAITING"}) THEN queue[i]
                        ELSE [queue[i] EXCEPT
                                !.status = IF i \in blocked THEN "BLOCKED" ELSE "WAITING"]]
    BY <1>1 DEF ReassessBlocked, Blockable, MigrationState
  <2>2. ASSUME NEW i \in Instance
        PROVE  queue'[i] \in Entry \cup {NoEntry}
    BY <2>1, StatusType DEF TypeOK, MigrationState, Queued, Status
  <2>3. queue' \in [Instance -> Entry \cup {NoEntry}]
    BY <2>1, <2>2
  <2>4. imp' \in ImportTaskState
    BY <1>1 DEF ReassessBlocked, ImportTo, TypeOK, ImportTaskState
  <2> QED
    BY <1>1, <2>3, <2>4 DEF ReassessBlocked, TypeOK, DuringImport, machines
<1>2. CASE PlaceWaiting
  <2> DEFINE waiting == MigrationState({"WAITING"})
  <2>1. PICK blocked \in SUBSET Instance :
            /\ blocked \subseteq waiting
            /\ queue' = [i \in Instance |->
                            IF i \in blocked THEN [queue[i] EXCEPT !.status = "BLOCKED"]
                            ELSE queue[i]]
            /\ IF waiting = blocked THEN imp' = IdleImport
               ELSE imp' = [pc |-> "ensure",
                            snapshot |-> {<<i, queue[i].batch>> : i \in waiting \ blocked},
                            secret |-> [i \in Instance |->
                                IF i \in waiting \ blocked THEN queue[i].secret ELSE 0],
                            step |-> imp.step]
    BY <1>2 DEF PlaceWaiting, Blockable, MigrationState
  <2>2. ASSUME NEW i \in Instance
        PROVE  queue'[i] \in Entry \cup {NoEntry}
    BY <2>1, StatusType DEF TypeOK, MigrationState, Queued, Status
  <2>3. queue' \in [Instance -> Entry \cup {NoEntry}]
    BY <2>1, <2>2
  <2>4. \A i \in waiting : i \in Instance /\ queue[i].batch \in Batch /\ queue[i].secret \in Secret
    BY EntryFields DEF TypeOK, MigrationState, Queued
  <2>5. imp' \in ImportTaskState
    BY <2>1, <2>4, IdleTypes DEF TypeOK, ImportTaskState, Secret
  <2> QED
    BY <1>2, <2>3, <2>5 DEF PlaceWaiting, TypeOK, DuringImport, machines
<1>3. CASE EnsureImages
  <2>1. PICK kept : kept \subseteq imp.snapshot /\ (imp' = IdleImport \/ ImportTo("claim", kept))
    <3>1. PICK ignored :
            \/ imp' = IdleImport
            \/ ImportTo("claim", {s \in imp.snapshot : s[2] \notin ignored})
      BY <1>3 DEF EnsureImages
    <3> QED
      BY <3>1
  <2>3. imp' \in ImportTaskState
    BY <2>1, IdleTypes DEF ImportTo, TypeOK, ImportTaskState
  <2>2. batch' \in [Batch -> BatchStatus]
    BY <1>3 DEF EnsureImages, TypeOK, BatchStatus
  <2> QED
    BY <1>3, <2>2, <2>3 DEF EnsureImages, TypeOK, DuringImport, machines
<1>4. CASE ClaimEntries
  <2> DEFINE claimable == {s[1] : s \in imp.snapshot}
             Claim(claimed) ==
                 IF claimed # {} /\ \A i \in claimed : Queued(i)
                 THEN /\ queue' = [i \in Instance |->
                                    IF i \in claimed
                                    THEN UpdateStatus(queue[i], "CREATING", "background", NoWindow)
                                    ELSE queue[i]]
                      /\ imp' = [imp EXCEPT
                                 !.pc = "create", !.snapshot = {},
                                 !.step = [i \in Instance |->
                                            IF i \in claimed THEN "define" ELSE "none"]]
                 ELSE /\ UNCHANGED queue
                      /\ imp' = IdleImport
  <2>1. PICK claimed \in SUBSET Instance : Claim(claimed)
    <3>1. ASSUME NEW s \in imp.snapshot
          PROVE  s[1] \in Instance
      <4>1. s \in Instance \X Batch
        BY DEF TypeOK, ImportTaskState
      <4> QED
        BY <4>1
    <3>2. \A claimed \in SUBSET claimable : claimed \in SUBSET Instance
      BY <3>1
    <3>3. \E claimed \in SUBSET claimable : Claim(claimed)
      BY <1>4, Zenon DEF ClaimEntries
    <3> HIDE DEF claimable, Claim
    <3> QED
      BY <3>2, <3>3
  <2>2. imp' \in ImportTaskState
    <3>1. \/ imp' = IdleImport
          \/ imp' = [imp EXCEPT !.pc = "create", !.snapshot = {},
                                !.step = [i \in Instance |->
                                            IF i \in claimed THEN "define" ELSE "none"]]
      BY <2>1, Zenon
    <3> HIDE DEF Claim
    <3>2. [i \in Instance |-> IF i \in claimed THEN "define" ELSE "none"] \in [Instance -> ImportStep]
      BY DEF ImportStep
    <3> QED
      BY <3>1, <3>2, IdleTypes DEF TypeOK, ImportTaskState
  <2>3. ASSUME NEW i \in Instance
        PROVE  queue'[i] \in Entry \cup {NoEntry}
    BY <2>1, UpdateStatusType DEF TypeOK, Queued, Status, ImportStage
  <2>4. queue' \in [Instance -> Entry \cup {NoEntry}]
    BY <2>1, <2>3 DEF TypeOK
  <2> QED
    BY <1>4, <2>2, <2>4 DEF ClaimEntries, TypeOK, DuringImport, machines
<1>5. ASSUME NEW i \in Instance, CreateVM(i)
      PROVE  TypeOK'
  <2>1. imp' \in ImportTaskState
    BY <1>5, CreateStepType DEF CreateVM, ImportStep
  <2>2. /\ vm' \in [Instance -> TargetVM]
        /\ disks' \in [Instance -> Disks]
        /\ token' \in [Instance -> Secret]
        /\ mail' \in [Instance -> {"none", "SUCCESS", "FAILED"}]
    BY <1>5 DEF CreateVM, TypeOK, TargetVM, Disks, ImportTaskState
  <2> QED
    BY <1>5, <2>1, <2>2 DEF CreateVM, TypeOK, database
<1>6. ASSUME NEW i \in Instance, BootWorker(i)
      PROVE  TypeOK'
  <2>1. imp' \in ImportTaskState
    BY <1>6, CreateStepType DEF BootWorker, ImportStep
  <2>2. vm' \in [Instance -> TargetVM] /\ worker' \in [Instance -> Worker]
    BY <1>6 DEF BootWorker, TypeOK, TargetVM, Worker
  <2> QED
    BY <1>6, <2>1, <2>2 DEF BootWorker, TypeOK, DuringCreate
<1>7. ASSUME NEW i \in Instance, ReadyForWorker(i)
      PROVE  TypeOK'
  <2>1. imp' \in ImportTaskState
    BY <1>7, CreateStepType DEF ReadyForWorker, ImportStep
  <2>2. queue' \in [Instance -> Entry \cup {NoEntry}]
    BY <1>7, SetStatusType DEF ReadyForWorker, TypeOK, Status, ImportStage
  <2> QED
    BY <1>7, <2>1, <2>2 DEF ReadyForWorker, TypeOK, DuringCreate, machines
<1>8. ASSUME NEW i \in Instance, CleanupCreated(i)
      PROVE  TypeOK'
  <2>1. imp' \in ImportTaskState
    BY <1>8, CreateStepType DEF CleanupCreated, ImportStep
  <2>2. CASE CleanupVM(i)
    BY <1>8, <2>1, <2>2, MachinesType DEF CleanupVM, CleanupCreated, TypeOK, DuringCreate
  <2>3. CASE UNCHANGED machines
    BY <1>8, <2>1, <2>3 DEF CleanupCreated, TypeOK, DuringCreate, machines
  <2> QED
    BY <1>8, <2>2, <2>3 DEF CleanupCreated
<1>9. ASSUME NEW i \in Instance, RevertCreating(i)
      PROVE  TypeOK'
  <2>1. imp' \in ImportTaskState
    BY <1>9, CreateStepType DEF RevertCreating, ImportStep
  <2>2. queue' \in [Instance -> Entry \cup {NoEntry}]
    BY <1>9, SetStatusType DEF RevertCreating, TypeOK, Status, ImportStage
  <2> QED
    BY <1>9, <2>1, <2>2 DEF RevertCreating, TypeOK, DuringCreate, machines
<1>10. CASE EndImports
  BY <1>10, IdleTypes DEF EndImports, TypeOK, DuringImport, database, machines
<1> QED
  BY <1>1, <1>2, <1>3, <1>4, <1>5, <1>6, <1>7, <1>8, <1>9, <1>10
  DEF ImportTask, CreateTargetVM

(***************************************************************************)
(* TypeOK is not inductive: what finalizeCompleteInstances writes back is  *)
(* of the right type because it read it.                                   *)
(***************************************************************************)
PickedUp == \A i \in Instance : fin.step[i] # "none" => fin.snapshot[i] # NoEntry

\* What the task read of an instance it works on is an entry.
LEMMA SnapshotFields ==
    ASSUME TypeOK, PickedUp, NEW i \in Instance, fin.step[i] # "none"
    PROVE  /\ fin.snapshot[i] \in Entry
           /\ fin.snapshot[i].stage \in ImportStage
           /\ fin.snapshot[i].window \in Window \cup {NoWindow}
<1>1. fin.snapshot[i] \in Entry
  BY DEF TypeOK, FinalTaskState, PickedUp
<1> QED
  BY <1>1, EntryFields

\* The final checks store entries, of instances the task has picked up.
LEMMA CheckedEntryType ==
    ASSUME TypeOK, PickedUp, NEW i \in Judged, Queued(i)
    PROVE  i \in InSnapshot /\ Checked(i) \in Entry
<1>1. /\ i \in Instance /\ queue[i] \in Entry
      /\ fin.step[i] \in {"toError", "toConflict", "newNetworks"}
  BY DEF Judged, TypeOK, Queued
<1>2. fin.snapshot[i] # NoEntry /\ fin.snapshot[i] \in Entry
  BY <1>1 DEF PickedUp, TypeOK, FinalTaskState
<1>3. /\ fin.snapshot[i].stage \in ImportStage
      /\ fin.snapshot[i].window \in Window \cup {NoWindow}
      /\ fin.snapshot[i].running \in BOOLEAN
  BY <1>2, EntryFields
<1>4. CASE fin.step[i] = "toError"
  BY <1>1, <1>2, <1>3, <1>4, UpdateStatusType DEF Checked, Status, InSnapshot
<1>5. CASE fin.step[i] = "toConflict"
  BY <1>1, <1>2, <1>3, <1>5, UpdateStatusType DEF Checked, Status, InSnapshot
<1>6. CASE fin.step[i] = "newNetworks"
  BY <1>1, <1>2, <1>3, <1>6, RunningType DEF Checked, InSnapshot
<1> QED
  BY <1>1, <1>4, <1>5, <1>6

\* The steps of finalizeCompleteInstances.
LEMMA FinalTypes ==
    ASSUME TypeOK, PickedUp, FinalTask
    PROVE  TypeOK'
<1> USE DEF DuringFinal
<1>1. CASE TakeSnapshot
  <2>1. fin' \in FinalTaskState
    BY <1>1 DEF TakeSnapshot, TypeOK, FinalTaskState, FinalStep, MigrationState
  <2> QED
    BY <1>1, <2>1 DEF TakeSnapshot, TypeOK, database, machines
<1>2. CASE AbortChecks
  BY <1>2, IdleTypes DEF AbortChecks, TypeOK, database, machines
<1>3. CASE StoreVerdicts
  <2> DEFINE next == [fin EXCEPT
                        !.pc = "run",
                        !.snapshot = [i \in Instance |->
                                        IF i \in Judged THEN Checked(i) ELSE @[i]],
                        !.step = [i \in Instance |->
                                    IF i \in InSnapshot THEN AfterChecks(i) ELSE "none"]]
  <2>1. CASE \A i \in Judged : Queued(i)
    <3>1. /\ queue' = [i \in Instance |-> IF i \in Judged THEN Checked(i) ELSE queue[i]]
          /\ fin' = next
      BY <1>3, <2>1, Zenon DEF StoreVerdicts
    <3>2. \A i \in Judged : Checked(i) \in Entry
      BY <2>1, CheckedEntryType
    <3>3. \A i \in Instance : AfterChecks(i) \in FinalStep
      BY DEF AfterChecks, FinalStep
    <3>4. queue' \in [Instance -> Entry \cup {NoEntry}]
      BY <3>1, <3>2 DEF TypeOK
    <3>5. /\ next.snapshot \in [Instance -> Entry \cup {NoEntry}]
          /\ next.step \in [Instance -> FinalStep]
      <4>1. [i \in Instance |-> IF i \in Judged THEN Checked(i) ELSE fin.snapshot[i]]
              \in [Instance -> Entry \cup {NoEntry}]
        BY <3>2 DEF TypeOK, FinalTaskState
      <4>2. [i \in Instance |-> IF i \in InSnapshot THEN AfterChecks(i) ELSE "none"]
              \in [Instance -> FinalStep]
        BY <3>3 DEF FinalStep
      <4> QED
        BY <4>1, <4>2 DEF TypeOK, FinalTaskState
    <3>6. next \in FinalTaskState
      BY <3>5 DEF TypeOK, FinalTaskState
    <3> QED
      BY <1>3, <3>1, <3>4, <3>6 DEF StoreVerdicts, TypeOK, machines
  <2>2. CASE ~\A i \in Judged : Queued(i)
    <3>1. UNCHANGED queue /\ fin' = IdleFinal
      BY <1>3, <2>2, Zenon DEF StoreVerdicts
    <3> QED
      BY <1>3, <3>1, IdleTypes DEF StoreVerdicts, TypeOK, machines
  <2> QED
    BY <2>1, <2>2
<1>4. ASSUME NEW i \in Instance, CheckSource(i)
      PROVE  TypeOK'
  <2>1. fin' \in FinalTaskState
    BY <1>4, FinalToType DEF CheckSource, FinalStep
  <2> QED
    BY <1>4, <2>1 DEF CheckSource, TypeOK, database
<1>5. ASSUME NEW i \in Instance, ResetPowerOn(i)
      PROVE  TypeOK'
  <2>1. fin' \in FinalTaskState
    BY <1>5, FinalToType DEF ResetPowerOn, FinalStep
  <2>2. CASE PowerOnVM(i)
    BY <1>5, <2>1, <2>2, MachinesType DEF ResetPowerOn, PowerOnVM, TypeOK, database
  <2>3. CASE UNCHANGED machines
    BY <1>5, <2>1, <2>3 DEF ResetPowerOn, TypeOK, database, machines
  <2> QED
    BY <1>5, <2>2, <2>3 DEF ResetPowerOn
<1>6. ASSUME NEW i \in Instance, DetachTarget(i)
      PROVE  TypeOK'
  <2>1. fin' \in FinalTaskState
    BY <1>6, FinalToType DEF DetachTarget, FinalStep
  <2>2. CASE CleanupVM(i) /\ UNCHANGED <<mail, handler>>
    BY <1>6, <2>1, <2>2, MachinesType DEF DetachTarget, CleanupVM, TypeOK, database
  <2>3. CASE StopWorker(i) /\ UNCHANGED <<source, vm, disks, token>>
    BY <1>6, <2>1, <2>3 DEF DetachTarget, StopWorker, TypeOK, Worker, database
  <2>4. CASE UNCHANGED <<machines, mail, handler>>
    BY <1>6, <2>1, <2>4 DEF DetachTarget, TypeOK, database, machines
  <2> QED
    BY <1>6, <2>2, <2>3, <2>4 DEF DetachTarget
<1>7. ASSUME NEW i \in Instance, ResetEntry(i)
      PROVE  TypeOK'
  <2>1. fin' \in FinalTaskState
    BY <1>7, FinalToType DEF ResetEntry, FinalStep
  <2>2. queue' \in [Instance -> Entry \cup {NoEntry}]
    <3>1. CASE ~Queued(i)
      BY <1>7, <3>1 DEF ResetEntry, TypeOK
    <3>2. CASE Queued(i) /\ InFinalImport(i)
      <4>1. StartFinalImportOver(queue[i]) \in Entry
        BY <3>2, UpdateStatusType DEF StartFinalImportOver, TypeOK, Queued, Status, ImportStage
      <4> QED
        BY <1>7, <3>2, <4>1 DEF ResetEntry, TypeOK
    <3>3. CASE Queued(i) /\ ~InFinalImport(i)
      BY <1>7, <3>3, SetStatusType DEF ResetEntry, Status, ImportStage
    <3> QED
      BY <3>1, <3>2, <3>3
  <2> QED
    BY <1>7, <2>1, <2>2 DEF ResetEntry, TypeOK, machines
<1>8. ASSUME NEW i \in Instance, RestartDetached(i)
      PROVE  TypeOK'
  <2>1. fin' \in FinalTaskState
    BY <1>8, FinalToType DEF RestartDetached, FinalStep
  <2>2. worker' \in [Instance -> Worker]
    BY <1>8 DEF RestartDetached, TypeOK, Worker
  <2> QED
    BY <1>8, <2>1, <2>2 DEF RestartDetached, TypeOK, database
<1>9. ASSUME NEW i \in Instance, ConfigureVM(i)
      PROVE  TypeOK'
  <2>1. fin' \in FinalTaskState
    BY <1>9, FinalToType DEF ConfigureVM, FinalStep
  <2>2. vm' \in [Instance -> TargetVM]
    BY <1>9 DEF ConfigureVM, TypeOK, TargetVM
  <2>3. worker' \in [Instance -> Worker]
    BY <1>9 DEF ConfigureVM, TypeOK, Worker
  <2> QED
    BY <1>9, <2>1, <2>2, <2>3 DEF ConfigureVM, TypeOK, database
<1>10. ASSUME NEW i \in Instance, FinishEntry(i)
       PROVE  TypeOK'
  <2>1. fin' \in FinalTaskState
    BY <1>10, FinalToType DEF FinishEntry, FinalStep
  <2>2. queue' \in [Instance -> Entry \cup {NoEntry}]
    <3>1. CASE Queued(i)
      <4>1. fin.snapshot[i].stage \in ImportStage
        BY <1>10, SnapshotFields DEF FinishEntry
      <4> QED
        BY <1>10, <3>1, <4>1, SetStatusType DEF FinishEntry, Status
    <3>2. CASE ~Queued(i)
      BY <1>10, <3>2 DEF FinishEntry, TypeOK
    <3> QED
      BY <3>1, <3>2
  <2> QED
    BY <1>10, <2>1, <2>2 DEF FinishEntry, TypeOK, machines
<1>11. ASSUME NEW i \in Instance, RevertConfigure(i)
       PROVE  TypeOK'
  <2>1. fin' \in FinalTaskState
    BY <1>11, FinalToType DEF RevertConfigure, FinalStep
  <2>2. retries' \in [Instance -> 0 .. Retries]
    <3>1. \/ retries[i] < Retries /\ retries' = [retries EXCEPT ![i] = @ + 1]
          \/ UNCHANGED retries
      BY <1>11, Zenon DEF RevertConfigure, RetryLeft
    <3>2. Retries \in Nat /\ retries \in [Instance -> 0 .. Retries]
      BY ConfigAssumption DEF TypeOK
    <3> QED
      BY <3>1, <3>2
  <2>3. queue' \in [Instance -> Entry \cup {NoEntry}]
    <3>1. CASE Queued(i) /\ SetStatus(i, "ERROR", "background", fin.snapshot[i].window)
      <4>1. fin.snapshot[i].window \in Window \cup {NoWindow}
        BY <1>11, SnapshotFields DEF RevertConfigure
      <4> QED
        BY <3>1, <4>1, SetStatusType DEF Status, ImportStage
    <3>2. CASE UNCHANGED queue
      BY <3>2 DEF TypeOK
    <3> QED
      BY <1>11, <3>1, <3>2 DEF RevertConfigure
  <2> QED
    BY <1>11, <2>1, <2>2, <2>3 DEF RevertConfigure, TypeOK, machines
<1>12. ASSUME NEW i \in Instance, PowerBack(i)
       PROVE  TypeOK'
  <2>1. fin' \in FinalTaskState
    BY <1>12, FinalToType DEF PowerBack, FinalStep
  <2>2. CASE PowerOnVM(i)
    BY <1>12, <2>1, <2>2, MachinesType DEF PowerBack, PowerOnVM, TypeOK, database
  <2>3. CASE UNCHANGED machines
    BY <1>12, <2>1, <2>3 DEF PowerBack, TypeOK, database, machines
  <2> QED
    BY <1>12, <2>2, <2>3 DEF PowerBack
<1>13. CASE RecordOutcome
  <2> DEFINE Outcome(conflicts, batches) ==
                 IF \A i \in conflicts : Queued(i)
                 THEN /\ queue' = [i \in Instance |->
                                    IF i \in conflicts
                                    THEN UpdateStatus(queue[i], "CONFLICT", fin.snapshot[i].stage,
                                                      fin.snapshot[i].window)
                                    ELSE queue[i]]
                      /\ batch' = [b \in Batch |->
                                    IF b \in batches /\ AllFinished(b) THEN "FINISHED"
                                    ELSE batch[b]]
                 ELSE UNCHANGED database
  <2>1. fin' = IdleFinal /\ UNCHANGED <<machines, retries, DuringFinal>>
    BY <1>13 DEF RecordOutcome
  <2>2. PICK conflicts \in SUBSET {i \in Instance : fin.step[i] = "conflict"} :
            \E batches : Outcome(conflicts, batches)
    <3> HIDE DEF Outcome
    <3>1. \E conflicts \in Appended({i \in Instance : fin.step[i] = "conflict"}) :
            Outcome(conflicts, {fin.snapshot[i].batch : i \in InSnapshot})
      BY <1>13, Zenon DEF RecordOutcome, Outcome
    <3> QED
      BY <3>1 DEF Appended
  <2>3. PICK batches : Outcome(conflicts, batches)
    BY <2>2, Zenon
  <2>4. CASE UNCHANGED database
    BY <2>1, <2>4, IdleTypes DEF TypeOK, database, machines
  <2>5. CASE ~UNCHANGED database
    <3>1. ASSUME NEW i \in conflicts
          PROVE  UpdateStatus(queue[i], "CONFLICT", fin.snapshot[i].stage, fin.snapshot[i].window)
                    \in Entry
      <4>1. Queued(i)
        BY <2>3, <2>5
      <4>2. /\ queue[i] \in Entry /\ fin.snapshot[i].stage \in ImportStage
            /\ fin.snapshot[i].window \in Window \cup {NoWindow}
        BY <4>1, SnapshotFields DEF TypeOK, Queued
      <4> QED
        BY <4>2, UpdateStatusType DEF Status
    <3>2. queue' \in [Instance -> Entry \cup {NoEntry}]
      <4>1. queue' = [i \in Instance |->
                        IF i \in conflicts
                        THEN UpdateStatus(queue[i], "CONFLICT", fin.snapshot[i].stage,
                                          fin.snapshot[i].window)
                        ELSE queue[i]]
        BY <2>3, <2>5, Zenon
      <4> QED
        BY <4>1, <3>1 DEF TypeOK
    <3>3. batch' \in [Batch -> BatchStatus]
      <4>1. batch' = [b \in Batch |->
                        IF b \in batches /\ AllFinished(b) THEN "FINISHED" ELSE batch[b]]
        BY <2>3, <2>5, Zenon
      <4> QED
        BY <4>1 DEF TypeOK, BatchStatus
    <3> QED
      BY <2>1, <3>2, <3>3, IdleTypes DEF TypeOK, machines
  <2> QED
    BY <2>4, <2>5
<1> QED
  BY <1>1, <1>2, <1>3, <1>4, <1>5, <1>6, <1>7, <1>8, <1>9, <1>10, <1>11, <1>12, <1>13
  DEF FinalTask, FinalizeInstance

\* The power check before a final import keeps an entry an entry.
LEMMA CheckedType ==
    ASSUME TypeOK, NEW i \in Instance, NEW e \in Entry
    PROVE  CheckedEntry(i, e) \in Entry
<1>1. (e.running \/ source[i]) \in BOOLEAN
  BY DEF TypeOK, Entry
<1> QED
  BY <1>1, RunningType DEF CheckedEntry

(***************************************************************************)
(* GetNextWindow returns a window of the batch, or the one without times.  *)
(***************************************************************************)
LEMMA NextWindowType ==
    ASSUME TypeOK, NEW i \in Instance, Queued(i), NEW w \in NextWindows(i)
    PROVE  /\ w \in Window \cup {NoWindow}
           /\ Recorded(i, w) \in Window \cup {NoWindow}
<1>1. queue[i] \in Entry /\ queue[i].batch \in Batch
  BY EntryFields DEF TypeOK, Queued
<1>2. DOMAIN Schedule[queue[i].batch] \subseteq Window
  BY <1>1, ConfigAssumption
<1>3. WindowsWithRoom(queue[i]) \subseteq Window
  BY <1>2 DEF WindowsWithRoom
<1>4. w \in Window \cup {NoWindow}
  <2>1. CASE KeepsWindow(queue[i])
    BY <2>1, <1>3 DEF NextWindows, KeepsWindow
  <2>2. CASE ~KeepsWindow(queue[i])
    BY <2>2, <1>3 DEF NextWindows, Earliest
  <2> QED
    BY <2>1, <2>2
<1> QED
  BY <1>1, <1>4, EntryFields DEF Recorded

\* An entry that begins its final import is one.
LEMMA FinalImportEntryType ==
    ASSUME TypeOK, NEW i \in Instance, Queued(i), NEW w \in NextWindows(i)
    PROVE  FinalImportEntry(i, w) \in Entry
<1>1. queue[i] \in Entry
  BY DEF TypeOK, Queued
<1> QED
  BY <1>1, NextWindowType, EntryFields, UpdateStatusType DEF FinalImportEntry, Status

\* The reply to a worker's question.
LEMMA ReplyType ==
    ASSUME TypeOK, NEW i \in Instance, NEW pc \in Worker, Reply(i, pc)
    PROVE  worker' \in [Instance -> Worker] /\ disks' \in [Instance -> Disks]
<1>1. worker' \in [Instance -> Worker]
  BY DEF Reply, TypeOK
<1>2. disks' = [disks EXCEPT ![i] = "behind"] \/ disks' = disks
  BY Zenon DEF Reply
<1>3. disks' \in [Instance -> Disks]
  BY <1>2 DEF TypeOK, Disks
<1> QED
  BY <1>1, <1>3

\* A reply changes the worker and the disks only, next to the entry.
LEMMA ReplyTypes ==
    ASSUME TypeOK, NEW i \in Instance, NEW pc \in Worker, Reply(i, pc),
           queue' \in [Instance -> Entry \cup {NoEntry}]
    PROVE  TypeOK'
BY ReplyType DEF Reply, TypeOK, daemon

\* The worker's own steps.
LEMMA WorkerStepTypes ==
    ASSUME TypeOK, NEW i \in Instance, WorkerStep(i)
    PROVE  TypeOK'
<1> USE DEF DuringPost, database, daemon, Post
<1>1. CASE FinishBackgroundImport(i)
  BY <1>1 DEF FinishBackgroundImport, TypeOK, Worker
<1>2. CASE ShutDownSource(i)
  BY <1>2 DEF ShutDownSource, TypeOK, Worker, Disks
<1>3. CASE FinishFinalImport(i)
  BY <1>3 DEF FinishFinalImport, TypeOK, Worker, Disks
<1>4. CASE FinishPostImport(i)
  BY <1>4 DEF FinishPostImport, TypeOK, Worker, Disks
<1>5. CASE FailCommand(i)
  BY <1>5 DEF FailCommand, TypeOK, Worker
<1>6. CASE RestartWorker(i)
  BY <1>6 DEF RestartWorker, TypeOK, Worker
<1> QED
  BY <1>1, <1>2, <1>3, <1>4, <1>5, <1>6 DEF WorkerStep

\* A worker that has its answer is in one of its states.
LEMMA AnsweredType ==
    ASSUME TypeOK, NEW i \in Instance
    PROVE  Answered(i) \in Worker
BY DEF TypeOK, Answered, Worker

\* The handlers of POST :command and POST :update.
LEMMA WorkerRequestTypes ==
    ASSUME TypeOK, NEW i \in Instance, WorkerRequest(i)
    PROVE  TypeOK'
<1>1. Queued(i) => queue[i] \in Entry /\ queue[i].stage \in ImportStage
                   /\ queue[i].window \in Window \cup {NoWindow}
  BY EntryFields DEF TypeOK, Queued
<1>2. CASE BeginBackgroundImport(i)
  <2>1. queue' \in [Instance -> Entry \cup {NoEntry}]
    BY <1>1, <1>2, SetStatusType DEF BeginBackgroundImport, Asks, Known, Status, ImportStage
  <2> QED
    BY <1>2, <2>1, ReplyTypes DEF BeginBackgroundImport, Worker
<1>3. CASE RepeatBackgroundImport(i)
  <2>1. queue' \in [Instance -> Entry \cup {NoEntry}]
    BY <1>1, <1>3, SetStatusType DEF RepeatBackgroundImport, Asks, Known, Status, ImportStage
  <2> QED
    BY <1>3, <2>1, ReplyTypes DEF RepeatBackgroundImport, Worker
<1>4. CASE BeginFinalImport(i)
  <2>1. PICK w \in NextWindows(i) :
            queue' = [queue EXCEPT ![i] = CheckedEntry(i, FinalImportEntry(i, w))]
    BY <1>4 DEF BeginFinalImport
  <2>2. Queued(i)
    BY <1>4 DEF BeginFinalImport, MayBeginFinalImport, Asks, Known
  <2>3. CheckedEntry(i, FinalImportEntry(i, w)) \in Entry
    BY <2>2, FinalImportEntryType, CheckedType
  <2>4. queue' \in [Instance -> Entry \cup {NoEntry}]
    BY <2>1, <2>3 DEF TypeOK
  <2> QED
    BY <1>4, <2>4, ReplyTypes DEF BeginFinalImport, Worker
<1>5. CASE BeginFinalImportUnchecked(i)
  <2>1. PICK w \in NextWindows(i) : queue' = [queue EXCEPT ![i] = FinalImportEntry(i, w)]
    BY <1>5 DEF BeginFinalImportUnchecked
  <2>2. Queued(i)
    BY <1>5 DEF BeginFinalImportUnchecked, MayBeginFinalImport, Asks, Known
  <2>3. FinalImportEntry(i, w) \in Entry
    BY <2>2, FinalImportEntryType
  <2>4. queue' \in [Instance -> Entry \cup {NoEntry}]
    BY <2>1, <2>3 DEF TypeOK
  <2> QED
    BY <1>5, <2>4 DEF BeginFinalImportUnchecked, ErrorReply, TypeOK, machines, daemon
<1>6. CASE BeginPostImport(i)
  <2>1. Queued(i)
    BY <1>6 DEF BeginPostImport, Asks, Known
  <2>2. queue' \in [Instance -> Entry \cup {NoEntry}]
    BY <1>6, <2>1, NextWindowType, SetStatusType DEF BeginPostImport, Status, ImportStage
  <2> QED
    BY <1>6, <2>2, ReplyTypes DEF BeginPostImport, Worker
<1>7. CASE ReissueCommand(i)
  <2>1. PICK pc \in {"sync", "shutdown", "tasks"} :
            /\ queue' = queue \/ queue' = [queue EXCEPT ![i] = CheckedEntry(i, @)]
            /\ Reply(i, pc)
    BY <1>7 DEF ReissueCommand
  <2>2. Queued(i)
    BY <1>7 DEF ReissueCommand, Asks, Known
  <2>3. CheckedEntry(i, queue[i]) \in Entry
    BY <1>1, <2>2, CheckedType
  <2>4. queue' \in [Instance -> Entry \cup {NoEntry}]
    BY <2>1, <2>3 DEF TypeOK
  <2> QED
    BY <2>1, <2>4, ReplyTypes DEF Worker
<1>8. CASE ReportProgress(i)
  <2>1. ProcessWorkerUpdate(queue[i], "RUNNING") \in Entry
    BY <1>1, <1>8, ProcessWorkerUpdateType DEF ReportProgress, Accepts, Known, Response
  <2> QED
    BY <1>8, <2>1 DEF ReportProgress, TypeOK, machines, daemon
<1>9. CASE HandleUpdate(i)
  <2>1. queue' \in [Instance -> Entry \cup {NoEntry}] /\ handler' \in [Instance -> BOOLEAN]
    <3>1. CASE Accepts(i)
      <4>1. ProcessWorkerUpdate(queue[i], mail[i]) \in Entry
        BY <1>1, <3>1, ProcessWorkerUpdateType DEF Accepts, Known, TypeOK, Response
      <4>2. queue[i].running \in BOOLEAN
        BY <1>1, <3>1, EntryFields DEF Accepts, Known
      <4>3. queue' = [queue EXCEPT ![i] = ProcessWorkerUpdate(@, mail[i])]
            /\ handler' = [handler EXCEPT ![i] = queue'[i].status = "ERROR" /\ queue[i].running]
        BY <1>9, <3>1 DEF HandleUpdate
      <4>4. (queue'[i].status = "ERROR" /\ queue[i].running) \in BOOLEAN
        BY Zenon
      <4> QED
        BY <4>1, <4>3, <4>4 DEF TypeOK
    <3>2. CASE ~Accepts(i)
      BY <1>9, <3>2 DEF HandleUpdate, TypeOK
    <3> QED
      BY <3>1, <3>2
  <2>2. worker' \in [Instance -> Worker] /\ mail' \in [Instance -> {"none", "SUCCESS", "FAILED"}]
    BY <1>9, AnsweredType DEF HandleUpdate, TypeOK
  <2> QED
    BY <1>9, <2>1, <2>2 DEF HandleUpdate, TypeOK
<1>10. CASE RestorePower(i)
  <2>1. handler' \in [Instance -> BOOLEAN]
    BY <1>10 DEF RestorePower, TypeOK
  <2>2. CASE PowerOnVM(i)
    BY <1>10, <2>1, <2>2, MachinesType DEF RestorePower, PowerOnVM, TypeOK, database
  <2>3. CASE UNCHANGED machines
    BY <1>10, <2>1, <2>3 DEF RestorePower, TypeOK, database, machines
  <2> QED
    BY <1>10, <2>2, <2>3 DEF RestorePower
<1>11. CASE LoseUpdate(i)
  BY <1>11, AnsweredType DEF LoseUpdate, DuringPost, TypeOK, database
<1> QED
  BY <1>2, <1>3, <1>4, <1>5, <1>6, <1>7, <1>8, <1>9, <1>10, <1>11 DEF WorkerRequest

(***************************************************************************)
(* Three secrets are enough for one that neither the target VM nor the     *)
(* import task holds.                                                      *)
(***************************************************************************)
LEMMA FreshSecretType ==
    ASSUME NEW i
    PROVE  /\ FreshSecret(i) \in Secret
           /\ FreshSecret(i) \notin {token[i], imp.secret[i]}
<1>1. \E s \in 0 .. 2 : s # token[i] /\ s # imp.secret[i]
  BY 0 # 1, 1 # 2, 0 # 2, 0 \in 0 .. 2, 1 \in 0 .. 2, 2 \in 0 .. 2
<1> QED
  BY <1>1 DEF FreshSecret, Secret

\* The power state recorded with an entry is one.
LEMMA InitialRunningType ==
    ASSUME TypeOK, NEW i \in Instance
    PROVE  InitialRunning(i) \subseteq BOOLEAN
BY DEF InitialRunning, TypeOK

\* Start, stop and reset of a batch.
LEMMA BatchRequestTypes ==
    ASSUME TypeOK, NEW b \in Batch, BatchRequest(b)
    PROVE  TypeOK'
<1> USE DEF DuringRequest
<1>1. CASE StartBatch(b)
  <2> DEFINE added == {i \in Instance : i \in Assigned[b] /\ ~Queued(i)}
  <2>1. PICK status \in [added -> Status], running \in [added -> BOOLEAN] :
            queue' = [i \in Instance |->
                        IF i \in added THEN NewEntry(b, FreshSecret(i), status[i], running[i])
                        ELSE queue[i]]
    <3> DEFINE statuses == InitialStatus \cup (IF "change" \in Faults THEN {"CONFLICT"} ELSE {})
               Started(A, status, running) ==
                   queue' = [i \in Instance |->
                                IF i \in A THEN NewEntry(b, FreshSecret(i), status[i], running[i])
                                ELSE queue[i]]
    <3>1. added = {i \in Assigned[b] : ~Queued(i)}
      BY ConfigAssumption
    <3>2. statuses \subseteq Status
      BY DEF InitialStatus, Status
    <3>3. PICK status \in [{i \in Assigned[b] : ~Queued(i)} -> statuses],
               running \in [{i \in Assigned[b] : ~Queued(i)} -> BOOLEAN] :
                Started({i \in Assigned[b] : ~Queued(i)}, status, running)
      BY <1>1, Zenon DEF StartBatch
    <3> HIDE DEF added, statuses, Started
    <3>4. status \in [added -> Status] /\ running \in [added -> BOOLEAN]
      BY <3>1, <3>2, <3>3
    <3>5. Started(added, status, running)
      BY <3>1, <3>3
    <3> QED
      BY <3>4, <3>5 DEF Started
  <2>2. ASSUME NEW i \in added
        PROVE  NewEntry(b, FreshSecret(i), status[i], running[i]) \in Entry
    BY FreshSecretType, NewEntryType
  <2>3. queue' \in [Instance -> Entry \cup {NoEntry}]
    <3> HIDE DEF added
    <3> QED
      BY <2>1, <2>2 DEF TypeOK
  <2> QED
    BY <1>1, <2>3 DEF StartBatch, TypeOK, BatchStatus, machines
<1>2. CASE StopBatch(b)
  BY <1>2 DEF StopBatch, TypeOK, BatchStatus, machines
<1>3. ASSUME NEW force \in BOOLEAN, ResetBatch(b, force)
      PROVE  TypeOK'
  <2>1. queue' \in [Instance -> Entry \cup {NoEntry}] /\ batch' \in [Batch -> BatchStatus]
    BY <1>3 DEF ResetBatch, TypeOK, BatchStatus
  <2> QED
    BY <1>3, <2>1, MachinesType DEF ResetBatch, TypeOK
<1>4. ASSUME NEW force \in BOOLEAN, ResetBatchFails(b, force)
      PROVE  TypeOK'
  <2>1. PICK removed, woken : Machines(removed, woken)
    BY <1>4 DEF ResetBatchFails
  <2> QED
    BY <1>4, <2>1, MachinesType DEF ResetBatchFails, TypeOK, database, daemon
<1> QED
  BY <1>1, <1>2, <1>3, <1>4 DEF BatchRequest

\* Deletion, cancel, retry and resolution of an entry.
LEMMA EntryRequestTypes ==
    ASSUME TypeOK, NEW i \in Instance, EntryRequest(i)
    PROVE  TypeOK'
<1> USE DEF DuringRequest
<1>1. Queued(i) => queue[i] \in Entry
  BY DEF TypeOK, Queued
<1>2. CASE DeleteEntry(i)
  BY <1>2 DEF DeleteEntry, TypeOK, machines
<1>3. CASE CancelEntry(i)
  <2>1. Cancel(queue[i]) \in Entry
    BY <1>1, <1>3, UpdateStatusType DEF CancelEntry, MayCancel, Cancel, Status, ImportStage
  <2>2. queue' \in [Instance -> Entry \cup {NoEntry}]
    BY <1>3, <2>1 DEF CancelEntry, TypeOK
  <2>3. PICK step \in CancelStep : cancel' = [cancel EXCEPT ![i] = step]
    BY <1>3 DEF CancelEntry, CancelStep
  <2>4. cancel' \in [Instance -> CancelStep]
    BY <2>3 DEF TypeOK
  <2> QED
    BY <1>3, <2>2, <2>4 DEF CancelEntry, TypeOK, machines
<1>4. CASE CancelCleanup(i)
  <2>1. cancel' \in [Instance -> CancelStep]
    BY <1>4 DEF CancelCleanup, TypeOK, CancelStep
  <2>2. CASE CleanupVM(i)
    BY <1>4, <2>1, <2>2, MachinesType DEF CancelCleanup, CleanupVM, TypeOK, database
  <2>3. CASE UNCHANGED machines
    BY <1>4, <2>1, <2>3 DEF CancelCleanup, TypeOK, database, machines
  <2> QED
    BY <1>4, <2>2, <2>3 DEF CancelCleanup
<1>5. CASE CancelPowerOn(i)
  <2>1. cancel' \in [Instance -> CancelStep]
    BY <1>5 DEF CancelPowerOn, TypeOK, CancelStep
  <2>2. CASE PowerOnVM(i)
    BY <1>5, <2>1, <2>2, MachinesType DEF CancelPowerOn, PowerOnVM, TypeOK, database
  <2>3. CASE UNCHANGED machines
    BY <1>5, <2>1, <2>3 DEF CancelPowerOn, TypeOK, database, machines
  <2> QED
    BY <1>5, <2>2, <2>3 DEF CancelPowerOn
<1>6. CASE RetryEntry(i)
  <2>1. PICK status \in InitialStatus, running \in InitialRunning(i) :
            queue' = [queue EXCEPT ![i] = Retry(@, status, running)]
    BY <1>6 DEF RetryEntry
  <2>2. status \in Status /\ running \in BOOLEAN
    BY InitialRunningType DEF InitialStatus, Status
  <2>3. Retry(queue[i], status, running) \in Entry
    BY <1>1, <1>6, <2>2, UpdateStatusType, RunningType DEF RetryEntry, Retry, ImportStage
  <2>4. queue' \in [Instance -> Entry \cup {NoEntry}]
    BY <2>1, <2>3 DEF TypeOK
  <2> QED
    BY <1>6, <2>4 DEF RetryEntry, TypeOK, machines
<1>7. CASE ResolveEntry(i)
  <2>1. Resolve(queue[i]) \in Entry
    BY <1>1, <1>7, StatusType DEF ResolveEntry, Resolve, Status
  <2>2. queue' \in [Instance -> Entry \cup {NoEntry}]
    BY <1>7, <2>1 DEF ResolveEntry, TypeOK
  <2> QED
    BY <1>7, <2>2 DEF ResolveEntry, TypeOK, machines
<1> QED
  BY <1>2, <1>3, <1>4, <1>5, <1>6, <1>7 DEF EntryRequest

\* Time, the restart of the daemon and the owners of the source VMs.
LEMMA SurroundingTypes ==
    ASSUME TypeOK, Tick \/ RestartDaemon \/ \E i \in Instance : SwitchSource(i)
    PROVE  TypeOK'
<1>1. CASE Tick
  BY <1>1, ConfigAssumption DEF Tick, TypeOK, database, machines, daemon
<1>2. CASE RestartDaemon
  <2>1. worker' \in [Instance -> Worker]
    BY <1>2, AnsweredType DEF RestartDaemon
  <2>2. /\ cancel' \in [Instance -> CancelStep]
        /\ handler' \in [Instance -> BOOLEAN]
        /\ mail' \in [Instance -> {"none", "SUCCESS", "FAILED"}]
        /\ retries' \in [Instance -> 0 .. Retries]
    BY <1>2, ConfigAssumption DEF RestartDaemon, CancelStep
  <2> QED
    BY <1>2, <2>1, <2>2, IdleTypes DEF RestartDaemon, TypeOK, database
<1>3. ASSUME NEW i \in Instance, SwitchSource(i)
      PROVE  TypeOK'
  <2>1. CASE PowerOnVM(i)
    BY <1>3, <2>1, MachinesType DEF SwitchSource, PowerOnVM, TypeOK, database, daemon
  <2>2. CASE source' = [source EXCEPT ![i] = FALSE] /\ UNCHANGED <<vm, disks, worker, token>>
    BY <1>3, <2>2 DEF SwitchSource, TypeOK, database, daemon
  <2> QED
    BY <1>3, <2>1, <2>2 DEF SwitchSource
<1> QED
  BY <1>1, <1>2, <1>3

\* The system starts well typed.
LEMMA InitTypes == Init => TypeOK
<1> SUFFICES ASSUME Init PROVE TypeOK
  OBVIOUS
<1>1. source \in [Instance -> BOOLEAN]
  BY DEF Init
<1>2. batch \in [Batch -> BatchStatus] /\ now \in 0 .. MaxTime
  BY ConfigAssumption DEF Init, BatchStatus
<1>3. /\ vm \in [Instance -> TargetVM] /\ disks \in [Instance -> Disks]
      /\ worker \in [Instance -> Worker] /\ token \in [Instance -> Secret]
  BY DEF Init, TargetVM, Disks, Worker, Secret
<1>4. /\ mail \in [Instance -> {"none", "SUCCESS", "FAILED"}]
      /\ cancel \in [Instance -> CancelStep]
      /\ retries \in [Instance -> 0 .. Retries]
  BY ConfigAssumption DEF Init, CancelStep
<1>5. queue \in [Instance -> Entry \cup {NoEntry}] /\ handler \in [Instance -> BOOLEAN]
  BY DEF Init
<1> QED
  BY <1>1, <1>2, <1>3, <1>4, <1>5, IdleTypes DEF Init, TypeOK

-----------------------------------------------------------------------------
(***************************************************************************)
(* The entries finalizeCompleteInstances works on are those it has read.   *)
(***************************************************************************)
LEMMA FinalPickedUp ==
    ASSUME TypeOK, PickedUp, FinalTask
    PROVE  PickedUp'
<1>1. CASE fin' = IdleFinal
  BY <1>1 DEF PickedUp, IdleFinal
<1>2. CASE TakeSnapshot
  BY <1>2 DEF TakeSnapshot, PickedUp, MigrationState, Queued
<1>3. ASSUME NEW i \in Instance, NEW step, fin.step[i] # "none", FinalTo(i, step)
      PROVE  PickedUp'
  BY <1>3 DEF FinalTo, PickedUp, TypeOK, FinalTaskState
<1>4. CASE StoreVerdicts /\ fin' # IdleFinal
  <2>1. /\ \A i \in Judged : Queued(i)
        /\ queue' = [i \in Instance |-> IF i \in Judged THEN Checked(i) ELSE queue[i]]
        /\ fin' = [fin EXCEPT
                    !.pc = "run",
                    !.snapshot = [i \in Instance |->
                                    IF i \in Judged THEN Checked(i) ELSE @[i]],
                    !.step = [i \in Instance |->
                                IF i \in InSnapshot THEN AfterChecks(i) ELSE "none"]]
    BY <1>4, Zenon DEF StoreVerdicts
  <2>2. \A i \in Judged : Checked(i) # NoEntry
    BY <2>1, CheckedEntryType, EntryAssumption
  <2>3. /\ fin'.snapshot = [i \in Instance |-> IF i \in Judged THEN Checked(i) ELSE fin.snapshot[i]]
        /\ fin'.step = [i \in Instance |-> IF i \in InSnapshot THEN AfterChecks(i) ELSE "none"]
    BY <2>1 DEF TypeOK, FinalTaskState
  <2> QED
    BY <2>2, <2>3 DEF PickedUp, InSnapshot
<1> QED
  BY <1>1, <1>2, <1>3, <1>4
  DEF FinalTask, FinalizeInstance, AbortChecks, CheckSource, ResetPowerOn, DetachTarget,
      ResetEntry, RestartDetached, ConfigureVM, FinishEntry, RevertConfigure, PowerBack,
      RecordOutcome

\* Only the task itself, and the restart of the daemon, change its state.
LEMMA OthersLeaveFinal ==
    ASSUME Next, ~FinalTask
    PROVE  fin' = fin \/ fin' = IdleFinal
<1>1. CASE Tick \/ RestartDaemon
  BY <1>1 DEF Tick, RestartDaemon, daemon
<1>2. CASE ImportTask
  BY <1>2 DEF ImportTask, ReassessBlocked, PlaceWaiting, EnsureImages, ClaimEntries, EndImports,
              CreateTargetVM, CreateVM, BootWorker, ReadyForWorker, CleanupCreated,
              RevertCreating, DuringImport, DuringCreate
<1>3. ASSUME NEW i \in Instance, WorkerStep(i)
      PROVE  fin' = fin
  BY <1>3 DEF WorkerStep, FinishBackgroundImport, ShutDownSource, FinishFinalImport,
              FinishPostImport, FailCommand, RestartWorker, DuringPost, daemon
<1>4. ASSUME NEW i \in Instance, WorkerRequest(i)
      PROVE  fin' = fin
  BY <1>4 DEF WorkerRequest, BeginBackgroundImport, RepeatBackgroundImport, BeginFinalImport,
              BeginFinalImportUnchecked, BeginPostImport, ReissueCommand, ReportProgress,
              HandleUpdate, RestorePower, LoseUpdate, Reply, ErrorReply, DuringPost, daemon
<1>5. ASSUME NEW i \in Instance, EntryRequest(i) \/ SwitchSource(i)
      PROVE  fin' = fin
  BY <1>5 DEF EntryRequest, DeleteEntry, CancelEntry, CancelCleanup, CancelPowerOn, RetryEntry,
              ResolveEntry, SwitchSource, DuringRequest, daemon
<1>6. ASSUME NEW b \in Batch, BatchRequest(b)
      PROVE  fin' = fin
  BY <1>6 DEF BatchRequest, StartBatch, StopBatch, ResetBatch, ResetBatchFails, DuringRequest,
              daemon
<1> QED
  BY <1>1, <1>2, <1>3, <1>4, <1>5, <1>6 DEF Next

\* The strengthened invariant is inductive.
LEMMA StepTypes ==
    ASSUME TypeOK, PickedUp, [Next]_vars
    PROVE  TypeOK' /\ PickedUp'
<1>1. CASE Next
  <2>1. TypeOK'
    <3>1. CASE Tick \/ RestartDaemon \/ \E i \in Instance : SwitchSource(i)
      BY <3>1, SurroundingTypes
    <3>2. CASE ImportTask \/ FinalTask
      BY <3>2, ImportTypes, FinalTypes
    <3>3. ASSUME NEW i \in Instance, WorkerStep(i) \/ WorkerRequest(i) \/ EntryRequest(i)
          PROVE  TypeOK'
      BY <3>3, WorkerStepTypes, WorkerRequestTypes, EntryRequestTypes
    <3>4. ASSUME NEW b \in Batch, BatchRequest(b)
          PROVE  TypeOK'
      BY <3>4, BatchRequestTypes
    <3> QED
      BY <1>1, <3>1, <3>2, <3>3, <3>4 DEF Next
  <2>2. PickedUp'
    <3>1. CASE FinalTask
      BY <3>1, FinalPickedUp
    <3>2. CASE fin' = fin
      BY <3>2 DEF PickedUp
    <3>3. CASE fin' = IdleFinal
      BY <3>3 DEF PickedUp, IdleFinal
    <3> QED
      BY <1>1, <3>1, <3>2, <3>3, OthersLeaveFinal
  <2> QED
    BY <2>1, <2>2
<1>2. CASE UNCHANGED vars
  BY <1>2 DEF TypeOK, PickedUp, vars, database, machines, daemon
<1> QED
  BY <1>1, <1>2

\* The task starts idle.
LEMMA InitPickedUp == Init => PickedUp
<1>1. Init => fin = IdleFinal
  BY DEF Init
<1> QED
  BY <1>1 DEF PickedUp, IdleFinal

(***************************************************************************)
(* Whatever the tasks and handlers write back of what they read before,    *)
(* the tables and their own state keep their types.                        *)
(***************************************************************************)
THEOREM TypesCorrect == Spec => []TypeOK
<1>1. Init => TypeOK /\ PickedUp
  BY InitTypes, InitPickedUp
<1>2. TypeOK /\ PickedUp /\ [Next]_vars => TypeOK' /\ PickedUp'
  BY StepTypes
<1> QED
  BY <1>1, <1>2, PTL DEF Spec

-----------------------------------------------------------------------------
(***************************************************************************)
(* Windows.  That only a committed entry holds one needs what the statuses *)
(* say of the import stage, also of the entries as the task read them: it  *)
(* writes their stages and windows back later.                             *)
(***************************************************************************)
Consistent(e) ==
    /\ e.status \in {"POST_IMPORT", "WORKER_DONE"} => e.stage = "complete"
    /\ e.status \in {"BLOCKED", "WAITING"} => e.stage = "background"
    /\ e.status = "CONFLICT" => e.stage # "final"
    /\ e.window # NoWindow => IsCommitted(e) \/ e.status = "ERROR"

\* The steps of the task for an instance whose worker was done.
WorkerDoneStep ==
    {"check", "toError", "toConflict", "configure", "finish", "revert", "powerBack",
     "conflict"}

QueueConsistent == \A i \in Instance : Queued(i) => Consistent(queue[i])

SnapshotConsistent == \A i \in Instance :
    /\ fin.snapshot[i] # NoEntry => Consistent(fin.snapshot[i])
    /\ fin.step[i] \in WorkerDoneStep => fin.snapshot[i].stage = "complete"

WindowInv == TypeOK /\ PickedUp /\ QueueConsistent /\ SnapshotConsistent

\* What UpdateStatus sets.
LEMMA UpdatedFields ==
    ASSUME NEW e \in Entry, NEW status, NEW stage, NEW w
    PROVE  /\ UpdateStatus(e, status, stage, w).status = status
           /\ UpdateStatus(e, status, stage, w).stage = stage
           /\ UpdateStatus(e, status, stage, w).window = w
BY DEF UpdateStatus, Entry

\* The updates that set an entry's status, stage and window to a fixed value.
LEMMA FixedConsistent ==
    ASSUME NEW e \in Entry
    PROVE  /\ \A stage : Consistent(UpdateStatus(e, "CREATING", stage, NoWindow))
           /\ \A stage : Consistent(UpdateStatus(e, "IDLE", stage, NoWindow))
           /\ \A stage : Consistent(UpdateStatus(e, "FINISHED", stage, NoWindow))
           /\ \A stage, w : Consistent(UpdateStatus(e, "ERROR", stage, w))
           /\ \A stage, w : Consistent(UpdateStatus(e, "FINAL_IMPORT", stage, w))
           /\ \A w : Consistent(UpdateStatus(e, "POST_IMPORT", "complete", w))
           /\ \A w : Consistent(UpdateStatus(e, "CONFLICT", "complete", w))
           /\ Consistent(UpdateStatus(e, "WAITING", "background", NoWindow))
           /\ Consistent(UpdateStatus(e, "BLOCKED", "background", NoWindow))
           /\ Consistent(UpdateStatus(e, "BACKGROUND_IMPORT", "background", NoWindow))
           /\ Consistent(UpdateStatus(e, "CANCELED", "background", NoWindow))
BY UpdatedFields DEF Consistent, IsCommitted

\* Replacing one entry by a consistent one keeps the table consistent.
LEMMA EntryReplaced ==
    ASSUME TypeOK, QueueConsistent, NEW i \in Instance, NEW e, Consistent(e),
           queue' = [queue EXCEPT ![i] = e]
    PROVE  QueueConsistent'
BY DEF TypeOK, QueueConsistent, Queued

\* So does UpdateStatusByUUID.
LEMMA SetStatusConsistent ==
    ASSUME TypeOK, QueueConsistent, NEW i \in Instance,
           NEW status, NEW stage, NEW w, SetStatus(i, status, stage, w),
           Consistent(UpdateStatus(queue[i], status, stage, w))
    PROVE  QueueConsistent'
BY EntryReplaced DEF SetStatus

\* A waiting entry holds no window and is at the background stage.
LEMMA WaitingConsistent ==
    ASSUME NEW e \in Entry, Consistent(e), e.status \in {"BLOCKED", "WAITING"},
           NEW status \in {"BLOCKED", "WAITING"}
    PROVE  Consistent([e EXCEPT !.status = status])
BY DEF Consistent, IsCommitted, Entry

\* The steps of beginImports.
LEMMA ImportConsistent ==
    ASSUME TypeOK, QueueConsistent, ImportTask
    PROVE  QueueConsistent'
<1>1. CASE UNCHANGED queue
  BY <1>1 DEF QueueConsistent, Queued
<1>2. CASE ReassessBlocked
  <2>1. PICK blocked :
            queue' = [i \in Instance |->
                        IF i \notin MigrationState({"BLOCKED", "WAITING"}) THEN queue[i]
                        ELSE [queue[i] EXCEPT
                                !.status = IF i \in blocked THEN "BLOCKED" ELSE "WAITING"]]
    BY <1>2, Zenon DEF ReassessBlocked
  <2>2. ASSUME NEW i \in Instance, queue'[i] # NoEntry
        PROVE  Consistent(queue'[i])
    BY <2>1, <2>2, WaitingConsistent DEF TypeOK, QueueConsistent, MigrationState, Queued
  <2> QED
    BY <2>2 DEF QueueConsistent, Queued
<1>3. CASE PlaceWaiting
  <2>1. PICK blocked \in SUBSET MigrationState({"WAITING"}) :
            queue' = [i \in Instance |->
                        IF i \in blocked THEN [queue[i] EXCEPT !.status = "BLOCKED"]
                        ELSE queue[i]]
    BY <1>3 DEF PlaceWaiting, Blockable
  <2>2. ASSUME NEW i \in Instance, queue'[i] # NoEntry
        PROVE  Consistent(queue'[i])
    BY <2>1, <2>2, WaitingConsistent DEF TypeOK, QueueConsistent, MigrationState, Queued
  <2> QED
    BY <2>2 DEF QueueConsistent, Queued
<1>4. CASE ClaimEntries /\ queue' # queue
  <2>1. PICK claimed :
            /\ \A i \in claimed : Queued(i)
            /\ queue' = [i \in Instance |->
                            IF i \in claimed
                            THEN UpdateStatus(queue[i], "CREATING", "background", NoWindow)
                            ELSE queue[i]]
    BY <1>4, Zenon DEF ClaimEntries
  <2>2. ASSUME NEW i \in Instance, queue'[i] # NoEntry
        PROVE  Consistent(queue'[i])
    BY <2>1, <2>2, FixedConsistent DEF TypeOK, QueueConsistent, Queued
  <2> QED
    BY <2>2 DEF QueueConsistent, Queued
<1>5. ASSUME NEW i \in Instance, ReadyForWorker(i), queue' # queue
      PROVE  QueueConsistent'
  <2>1. Queued(i) /\ SetStatus(i, "IDLE", "background", NoWindow)
    BY <1>5 DEF ReadyForWorker
  <2> QED
    BY <2>1, FixedConsistent, SetStatusConsistent DEF TypeOK, Queued
<1>6. ASSUME NEW i \in Instance, RevertCreating(i), queue' # queue
      PROVE  QueueConsistent'
  <2>1. /\ Queued(i)
        /\ \/ SetStatus(i, "WAITING", "background", NoWindow)
           \/ SetStatus(i, "ERROR", "background", NoWindow)
    BY <1>6 DEF RevertCreating
  <2> QED
    BY <2>1, FixedConsistent, SetStatusConsistent DEF TypeOK, Queued
<1>7. ASSUME NEW i \in Instance, CreateTargetVM(i), queue' # queue
      PROVE  ReadyForWorker(i) \/ RevertCreating(i)
  BY <1>7 DEF CreateTargetVM, CreateVM, BootWorker, CleanupCreated, database
<1>8. EnsureImages \/ EndImports => UNCHANGED queue
  BY DEF EnsureImages, EndImports, database
<1> QED
  BY <1>1, <1>2, <1>3, <1>4, <1>5, <1>6, <1>7, <1>8 DEF ImportTask

\* A worker's SUCCESS moves status and stage on together ...
LEMMA SucceededConsistent ==
    ASSUME NEW e \in Entry, Consistent(e), IsMigrating(e)
    PROVE  Consistent(Succeeded(e))
<1>1. CASE e.status = "BACKGROUND_IMPORT"
  BY <1>1 DEF Succeeded, Entry, Consistent, IsCommitted
<1>2. CASE e.status = "FINAL_IMPORT"
  BY <1>2 DEF Succeeded, Entry, Consistent, IsCommitted
<1>3. CASE e.status = "POST_IMPORT"
  BY <1>3 DEF Succeeded, Entry, Consistent, IsCommitted
<1>4. CASE e.status \notin {"BACKGROUND_IMPORT", "FINAL_IMPORT", "POST_IMPORT"}
  BY <1>4 DEF Succeeded
<1> QED
  BY <1>1, <1>2, <1>3, <1>4

\* ... and any response keeps an entry consistent.
LEMMA ResponseConsistent ==
    ASSUME NEW e \in Entry, Consistent(e), IsMigrating(e), NEW response
    PROVE  Consistent(ProcessWorkerUpdate(e, response))
<1> DEFINE Responded(f) == [f EXCEPT !.lastWorker = response]
<1>1. \A f \in Entry : Consistent(f) => Consistent(Responded(f))
  BY DEF Entry, Consistent, IsCommitted
<1>2. Succeeded(e) \in Entry /\ Consistent(Succeeded(e))
  BY SucceededType, SucceededConsistent
<1>3. [e EXCEPT !.status = "ERROR"] \in Entry /\ Consistent([e EXCEPT !.status = "ERROR"])
  BY DEF Entry, Status, Consistent
<1> HIDE DEF Responded
<1>4. ProcessWorkerUpdate(e, response) = Responded(CASE response = "SUCCESS" -> Succeeded(e)
        [] response = "FAILED" -> [e EXCEPT !.status = "ERROR"] [] OTHER -> e)
  BY DEF ProcessWorkerUpdate, Responded
<1>5. CASE response = "SUCCESS"
  BY <1>1, <1>2, <1>4, <1>5
<1>6. CASE response = "FAILED"
  BY <1>1, <1>3, <1>4, <1>6
<1>7. CASE response \notin {"SUCCESS", "FAILED"}
  BY <1>1, <1>4, <1>7
<1> QED
  BY <1>5, <1>6, <1>7

\* The power check changes neither status, stage nor window.
LEMMA CheckedConsistent ==
    ASSUME NEW i, NEW e \in Entry, Consistent(e)
    PROVE  Consistent(CheckedEntry(i, e))
BY DEF CheckedEntry, Entry, Consistent, IsCommitted

\* The worker's steps and the handlers of its requests.
LEMMA WorkerConsistent ==
    ASSUME TypeOK, QueueConsistent, NEW i \in Instance, WorkerStep(i) \/ WorkerRequest(i)
    PROVE  QueueConsistent'
<1>1. CASE UNCHANGED queue
  BY <1>1 DEF QueueConsistent, Queued
<1>2. Queued(i) => queue[i] \in Entry /\ Consistent(queue[i])
  BY DEF TypeOK, QueueConsistent, Queued
<1>3. CASE BeginBackgroundImport(i) \/ RepeatBackgroundImport(i)
  <2>1. /\ Queued(i) /\ queue[i].window = NoWindow
        /\ SetStatus(i, "BACKGROUND_IMPORT", "background", queue[i].window)
    BY <1>2, <1>3
    DEF BeginBackgroundImport, RepeatBackgroundImport, Asks, Known, Consistent, IsCommitted
  <2> QED
    BY <1>2, <2>1, FixedConsistent, SetStatusConsistent
<1>4. CASE BeginFinalImport(i) \/ BeginFinalImportUnchecked(i)
  <2>1. Queued(i)
    BY <1>4 DEF BeginFinalImport, BeginFinalImportUnchecked, MayBeginFinalImport, Asks, Known
  <2>2. PICK w \in NextWindows(i) :
            \/ queue' = [queue EXCEPT ![i] = FinalImportEntry(i, w)]
            \/ queue' = [queue EXCEPT ![i] = CheckedEntry(i, FinalImportEntry(i, w))]
    BY <1>4 DEF BeginFinalImport, BeginFinalImportUnchecked
  <2>3. FinalImportEntry(i, w) \in Entry /\ Consistent(FinalImportEntry(i, w))
    BY <1>2, <2>1, FinalImportEntryType, FixedConsistent DEF FinalImportEntry
  <2> QED
    BY <2>2, <2>3, CheckedConsistent, EntryReplaced
<1>5. CASE BeginPostImport(i)
  <2>1. PICK w : Queued(i) /\ SetStatus(i, "POST_IMPORT", "complete", w)
    BY <1>5 DEF BeginPostImport, Asks, Known
  <2> QED
    BY <1>2, <2>1, FixedConsistent, SetStatusConsistent
<1>6. CASE ReissueCommand(i) /\ queue' # queue
  <2>1. Queued(i) /\ queue' = [queue EXCEPT ![i] = CheckedEntry(i, @)]
    BY <1>6 DEF ReissueCommand, Asks, Known
  <2> QED
    BY <1>2, <2>1, CheckedConsistent, EntryReplaced
<1>7. CASE (ReportProgress(i) \/ HandleUpdate(i)) /\ queue' # queue
  <2>1. PICK response : /\ Queued(i) /\ IsMigrating(queue[i])
                        /\ queue' = [queue EXCEPT ![i] = ProcessWorkerUpdate(@, response)]
    BY <1>7 DEF ReportProgress, HandleUpdate, Accepts, Known
  <2> QED
    BY <1>2, <2>1, ResponseConsistent, EntryReplaced
<1>8. WorkerStep(i) => UNCHANGED queue
  BY DEF WorkerStep, FinishBackgroundImport, ShutDownSource, FinishFinalImport,
         FinishPostImport, FailCommand, RestartWorker, DuringPost, database
<1>9. RestorePower(i) \/ LoseUpdate(i) => UNCHANGED queue
  BY DEF RestorePower, LoseUpdate, DuringPost, database
<1> QED
  BY <1>1, <1>3, <1>4, <1>5, <1>6, <1>7, <1>8, <1>9 DEF WorkerRequest

\* The requests about an entry.
LEMMA RequestConsistent ==
    ASSUME TypeOK, QueueConsistent, NEW i \in Instance, EntryRequest(i)
    PROVE  QueueConsistent'
<1>1. CASE UNCHANGED queue
  BY <1>1 DEF QueueConsistent, Queued
<1>2. Queued(i) => queue[i] \in Entry /\ Consistent(queue[i])
  BY DEF TypeOK, QueueConsistent, Queued
<1>3. CASE DeleteEntry(i)
  BY <1>3 DEF DeleteEntry, TypeOK, QueueConsistent, Queued
<1>4. CASE CancelEntry(i)
  <2>1. Consistent(Cancel(queue[i]))
    BY <1>2, <1>4, FixedConsistent DEF CancelEntry, MayCancel, Cancel
  <2> QED
    BY <1>4, <2>1, EntryReplaced DEF CancelEntry
<1>5. CASE RetryEntry(i)
  <2>1. PICK status \in {"WAITING", "BLOCKED"}, running \in InitialRunning(i) :
            Queued(i) /\ queue' = [queue EXCEPT ![i] = Retry(@, status, running)]
    BY <1>5 DEF RetryEntry, InitialStatus
  <2>2. Consistent(Retry(queue[i], status, running))
    <3>1. UpdateStatus(queue[i], status, "background", NoWindow) \in Entry
      BY <1>2, <2>1, UpdateStatusType DEF Status, ImportStage
    <3>2. Consistent(UpdateStatus(queue[i], status, "background", NoWindow))
      BY <1>2, <2>1, FixedConsistent
    <3> QED
      BY <3>1, <3>2 DEF Retry, Consistent, IsCommitted, Entry
  <2> QED
    BY <2>1, <2>2, EntryReplaced
<1>6. CASE ResolveEntry(i)
  <2>1. Queued(i) /\ queue[i].status = "CONFLICT"
        /\ queue' = [queue EXCEPT ![i] = Resolve(@)]
    BY <1>6 DEF ResolveEntry
  <2>2. Consistent(Resolve(queue[i]))
    <3>1. CASE queue[i].stage = "complete"
      BY <1>2, <2>1, <3>1 DEF Resolve, Consistent, IsCommitted, Entry
    <3>2. CASE queue[i].stage # "complete"
      <4>1. queue[i].stage = "background" /\ queue[i].window = NoWindow
        BY <1>2, <2>1, <3>2, EntryFields DEF Consistent, IsCommitted, ImportStage
      <4> QED
        BY <1>2, <2>1, <3>2, <4>1 DEF Resolve, Consistent, Entry
    <3> QED
      BY <3>1, <3>2
  <2> QED
    BY <2>1, <2>2, EntryReplaced
<1>7. CancelCleanup(i) \/ CancelPowerOn(i) => UNCHANGED queue
  BY DEF CancelCleanup, CancelPowerOn, database
<1> QED
  BY <1>1, <1>3, <1>4, <1>5, <1>6, <1>7 DEF EntryRequest

\* The requests about a batch.
LEMMA BatchConsistent ==
    ASSUME TypeOK, QueueConsistent, NEW b \in Batch, BatchRequest(b)
    PROVE  QueueConsistent'
<1>1. CASE UNCHANGED queue
  BY <1>1 DEF QueueConsistent, Queued
<1>2. CASE StartBatch(b)
  <2>1. PICK added, status, running :
            /\ \A i \in added : status[i] \in {"WAITING", "BLOCKED", "CONFLICT"}
            /\ queue' = [i \in Instance |->
                            IF i \in added THEN NewEntry(b, FreshSecret(i), status[i], running[i])
                            ELSE queue[i]]
    <3> DEFINE added == {i \in Assigned[b] : ~Queued(i)}
               statuses == InitialStatus \cup (IF "change" \in Faults THEN {"CONFLICT"} ELSE {})
               Started(status, running) ==
                   queue' = [i \in Instance |->
                                IF i \in added
                                THEN NewEntry(b, FreshSecret(i), status[i], running[i])
                                ELSE queue[i]]
    <3>1. PICK status \in [added -> statuses], running \in [added -> BOOLEAN] : Started(status, running)
      BY <1>2, Zenon DEF StartBatch
    <3>2. \A i \in added : status[i] \in {"WAITING", "BLOCKED", "CONFLICT"}
      BY DEF InitialStatus
    <3> QED
      BY <3>1, <3>2
  <2>2. \A i \in added : Consistent(NewEntry(b, FreshSecret(i), status[i], running[i]))
    BY <2>1 DEF NewEntry, Consistent
  <2>3. ASSUME NEW i \in Instance, queue'[i] # NoEntry
        PROVE  Consistent(queue'[i])
    BY <2>1, <2>2, <2>3 DEF QueueConsistent, Queued
  <2> QED
    BY <2>3 DEF QueueConsistent, Queued
<1>3. ASSUME NEW force \in BOOLEAN, ResetBatch(b, force)
      PROVE  QueueConsistent'
  BY <1>3 DEF ResetBatch, QueueConsistent, Queued
<1>4. StopBatch(b) \/ (\E force \in BOOLEAN : ResetBatchFails(b, force)) => UNCHANGED queue
  BY DEF StopBatch, ResetBatchFails, database
<1> QED
  BY <1>1, <1>2, <1>3, <1>4 DEF BatchRequest

\* What the final checks store is consistent: only a change of the power state
\* to restore leaves the rest of the entry as it is by then.
LEMMA VerdictConsistent ==
    ASSUME WindowInv, NEW i \in Judged, Queued(i)
    PROVE  Consistent(Checked(i))
<1>1. /\ i \in Instance /\ queue[i] \in Entry
      /\ fin.step[i] \in {"toError", "toConflict", "newNetworks"}
  BY DEF Judged, WindowInv, TypeOK, Queued
<1>2. CASE fin.step[i] = "toError"
  BY <1>1, <1>2, FixedConsistent DEF Checked
<1>3. CASE fin.step[i] = "toConflict"
  <2>1. fin.snapshot[i].stage = "complete"
    BY <1>1, <1>3 DEF WindowInv, SnapshotConsistent, WorkerDoneStep
  <2> QED
    BY <1>1, <1>3, <2>1, FixedConsistent DEF Checked
<1>4. CASE fin.step[i] = "newNetworks"
  <2>1. Consistent(queue[i])
    BY <1>1 DEF WindowInv, QueueConsistent
  <2>2. Checked(i) = [queue[i] EXCEPT !.running = fin.snapshot[i].running]
    BY <1>4 DEF Checked
  <2>3. /\ Checked(i).status = queue[i].status /\ Checked(i).stage = queue[i].stage
        /\ Checked(i).window = queue[i].window
    BY <1>1, <2>2 DEF Entry
  <2> QED
    BY <2>1, <2>3 DEF Consistent, IsCommitted
<1> QED
  BY <1>1, <1>2, <1>3, <1>4

\* An idle task has read nothing.
LEMMA IdleConsistent ==
    ASSUME NEW i \in Instance
    PROVE  IdleFinal.snapshot[i] = NoEntry /\ IdleFinal.step[i] \notin WorkerDoneStep
BY DEF IdleFinal, WorkerDoneStep


\* The steps of finalizeCompleteInstances, which write back what they read.
LEMMA FinalConsistent ==
    ASSUME WindowInv, FinalTask
    PROVE  QueueConsistent' /\ SnapshotConsistent'
<1> USE DEF WindowInv
<1>1. ASSUME NEW i \in Instance, NEW step \in FinalStep,
             fin.step[i] \in WorkerDoneStep \/ step \notin WorkerDoneStep, FinalTo(i, step)
      PROVE  SnapshotConsistent'
  BY <1>1 DEF FinalTo, TypeOK, FinalTaskState, SnapshotConsistent
<1>2. fin' = IdleFinal => SnapshotConsistent'
  BY IdleConsistent DEF SnapshotConsistent
<1>3. UNCHANGED queue => QueueConsistent'
  BY DEF QueueConsistent, Queued
<1>4. \A i \in Instance : Queued(i) => queue[i] \in Entry
  BY DEF TypeOK, Queued
<1>5. CASE TakeSnapshot
  <2>1. ASSUME NEW i \in Instance
        PROVE  /\ fin'.snapshot[i] # NoEntry => Consistent(fin'.snapshot[i])
               /\ fin'.step[i] \in WorkerDoneStep => fin'.snapshot[i].stage = "complete"
    BY <1>5 DEF TakeSnapshot, MigrationState, QueueConsistent, Consistent, Queued, WorkerDoneStep
  <2> QED
    BY <1>3, <1>5, <2>1 DEF TakeSnapshot, SnapshotConsistent, database
<1>6. CASE AbortChecks
  BY <1>2, <1>3, <1>6 DEF AbortChecks, database
<1>7. CASE StoreVerdicts /\ fin' # IdleFinal
  <2>1. /\ \A i \in Judged : Queued(i)
        /\ queue' = [i \in Instance |-> IF i \in Judged THEN Checked(i) ELSE queue[i]]
        /\ fin' = [fin EXCEPT
                    !.pc = "run",
                    !.snapshot = [i \in Instance |->
                                    IF i \in Judged THEN Checked(i) ELSE @[i]],
                    !.step = [i \in Instance |->
                                IF i \in InSnapshot THEN AfterChecks(i) ELSE "none"]]
    BY <1>7, Zenon DEF StoreVerdicts
  <2>2. \A i \in Judged : Consistent(Checked(i))
    BY <2>1, VerdictConsistent
  <2>3. /\ fin'.snapshot = [i \in Instance |-> IF i \in Judged THEN Checked(i) ELSE fin.snapshot[i]]
        /\ fin'.step = [i \in Instance |-> IF i \in InSnapshot THEN AfterChecks(i) ELSE "none"]
    BY <2>1 DEF TypeOK, FinalTaskState
  <2>4. QueueConsistent'
    BY <2>1, <2>2 DEF QueueConsistent, Queued
  <2>5. \A i \in Instance : i \notin Judged => Checked(i) = fin.snapshot[i]
    BY DEF Judged, Checked
  <2>6. SnapshotConsistent'
    <3>1. ASSUME NEW i \in Instance
          PROVE  /\ fin'.snapshot[i] = IF i \in InSnapshot THEN Checked(i) ELSE NoEntry
                 /\ i \in InSnapshot => Consistent(Checked(i))
      BY <2>1, <2>2, <2>3, <2>5, CheckedEntryType DEF InSnapshot, SnapshotConsistent
    <3>2. ASSUME NEW i \in Instance, fin'.step[i] \in WorkerDoneStep
          PROVE  i \in InSnapshot /\ Checked(i).status = "WORKER_DONE"
      BY <2>3, <3>2 DEF AfterChecks, WorkerDoneStep
    <3> QED
      BY <3>1, <3>2 DEF SnapshotConsistent, Consistent
  <2> QED
    BY <2>4, <2>6
<1>8. CASE StoreVerdicts /\ fin' = IdleFinal
  <2>1. UNCHANGED queue
    BY <1>8, Zenon DEF StoreVerdicts, IdleFinal
  <2> QED
    BY <1>2, <1>3, <1>8, <2>1
<1>9. ASSUME NEW i \in Instance, CheckSource(i)
      PROVE  QueueConsistent' /\ SnapshotConsistent'
  BY <1>1, <1>3, <1>9 DEF CheckSource, WorkerDoneStep, FinalStep, database
<1>10. ASSUME NEW i \in Instance, ResetPowerOn(i) \/ DetachTarget(i) \/ RestartDetached(i)
       PROVE  QueueConsistent' /\ SnapshotConsistent'
  BY <1>1, <1>3, <1>10
  DEF ResetPowerOn, DetachTarget, RestartDetached, WorkerDoneStep, FinalStep, database
<1>11. ASSUME NEW i \in Instance, ResetEntry(i)
       PROVE  QueueConsistent' /\ SnapshotConsistent'
  <2>1. SnapshotConsistent'
    BY <1>1, <1>11 DEF ResetEntry, WorkerDoneStep, FinalStep
  <2>2. CASE Queued(i) /\ queue' = [queue EXCEPT ![i] = StartFinalImportOver(@)]
    BY <1>4, <2>1, <2>2, FixedConsistent, EntryReplaced DEF StartFinalImportOver
  <2>3. CASE Queued(i) /\ SetStatus(i, "WAITING", "background", NoWindow)
    BY <1>4, <2>1, <2>3, FixedConsistent, SetStatusConsistent
  <2>4. UNCHANGED queue \/ <2>2!1 \/ <2>3!1
    BY <1>11 DEF ResetEntry
  <2> QED
    BY <1>3, <2>1, <2>2, <2>3, <2>4
<1>12. ASSUME NEW i \in Instance, ConfigureVM(i) \/ PowerBack(i)
       PROVE  QueueConsistent' /\ SnapshotConsistent'
  BY <1>1, <1>3, <1>12 DEF ConfigureVM, PowerBack, WorkerDoneStep, FinalStep, database
<1>13. ASSUME NEW i \in Instance, FinishEntry(i)
       PROVE  QueueConsistent' /\ SnapshotConsistent'
  <2>1. SnapshotConsistent'
    BY <1>1, <1>13 DEF FinishEntry, WorkerDoneStep, FinalStep
  <2>2. CASE Queued(i) /\ SetStatus(i, "FINISHED", fin.snapshot[i].stage, NoWindow)
    BY <1>4, <2>1, <2>2, FixedConsistent, SetStatusConsistent
  <2>3. UNCHANGED queue \/ <2>2!1
    BY <1>13 DEF FinishEntry
  <2> QED
    BY <1>3, <2>1, <2>2, <2>3
<1>14. ASSUME NEW i \in Instance, RevertConfigure(i)
       PROVE  QueueConsistent' /\ SnapshotConsistent'
  <2>1. SnapshotConsistent'
    BY <1>1, <1>14 DEF RevertConfigure, WorkerDoneStep, FinalStep
  <2>2. CASE Queued(i) /\ SetStatus(i, "ERROR", "background", fin.snapshot[i].window)
    BY <1>4, <2>1, <2>2, FixedConsistent, SetStatusConsistent
  <2>3. UNCHANGED queue \/ <2>2!1
    BY <1>14 DEF RevertConfigure
  <2> QED
    BY <1>3, <2>1, <2>2, <2>3
<1>15. CASE RecordOutcome
  <2>1. fin' = IdleFinal
    BY <1>15 DEF RecordOutcome
  <2>2. CASE queue' # queue
    <3>1. PICK conflicts \in Appended({i \in Instance : fin.step[i] = "conflict"}) :
            /\ \A i \in conflicts : Queued(i)
            /\ queue' = [i \in Instance |->
                            IF i \in conflicts
                            THEN UpdateStatus(queue[i], "CONFLICT", fin.snapshot[i].stage,
                                              fin.snapshot[i].window)
                            ELSE queue[i]]
      BY <1>15, <2>2, Zenon DEF RecordOutcome, database
    <3>2. ASSUME NEW i \in conflicts
          PROVE  Consistent(UpdateStatus(queue[i], "CONFLICT", fin.snapshot[i].stage,
                                         fin.snapshot[i].window))
      <4>1. i \in Instance /\ fin.step[i] = "conflict" /\ Queued(i)
        BY <3>1 DEF Appended
      <4>2. fin.snapshot[i].stage = "complete"
        BY <4>1 DEF SnapshotConsistent, WorkerDoneStep
      <4> QED
        BY <1>4, <4>1, <4>2, FixedConsistent
    <3> QED
      BY <1>2, <2>1, <3>1, <3>2 DEF QueueConsistent, Queued
  <2> QED
    BY <1>2, <1>3, <2>1, <2>2
<1> QED
  BY <1>5, <1>6, <1>7, <1>8, <1>9, <1>10, <1>11, <1>12, <1>13, <1>14, <1>15
  DEF FinalTask, FinalizeInstance

\* The invariant of the windows is inductive.
LEMMA StepWindowInv ==
    ASSUME WindowInv, [Next]_vars
    PROVE  WindowInv'
<1> USE DEF WindowInv
<1>1. TypeOK' /\ PickedUp'
  BY StepTypes
<1>2. CASE UNCHANGED vars
  BY <1>1, <1>2 DEF vars, database, daemon, QueueConsistent, SnapshotConsistent, Queued
<1>3. CASE FinalTask
  BY <1>1, <1>3, FinalConsistent
<1>4. CASE Next /\ ~FinalTask
  <2>1. SnapshotConsistent'
    <3>1. CASE fin' = fin
      BY <3>1 DEF SnapshotConsistent
    <3>2. CASE fin' = IdleFinal
      BY <3>2, IdleConsistent DEF SnapshotConsistent
    <3> QED
      BY <1>4, <3>1, <3>2, OthersLeaveFinal
  <2>2. QueueConsistent'
    <3>1. CASE UNCHANGED queue
      BY <3>1 DEF QueueConsistent, Queued
    <3>2. Tick \/ RestartDaemon \/ (\E i \in Instance : SwitchSource(i)) => UNCHANGED queue
      BY DEF Tick, RestartDaemon, SwitchSource, database
    <3>3. CASE ImportTask
      BY <3>3, ImportConsistent
    <3>4. ASSUME NEW i \in Instance, WorkerStep(i) \/ WorkerRequest(i) \/ EntryRequest(i)
          PROVE  QueueConsistent'
      BY <3>4, WorkerConsistent, RequestConsistent
    <3>5. ASSUME NEW b \in Batch, BatchRequest(b)
          PROVE  QueueConsistent'
      BY <3>5, BatchConsistent
    <3> QED
      BY <1>4, <3>1, <3>2, <3>3, <3>4, <3>5 DEF Next
  <2> QED
    BY <1>1, <2>1, <2>2
<1> QED
  BY <1>2, <1>3, <1>4

\* The first state.
LEMMA InitWindowInv == Init => WindowInv
<1>1. Init => QueueConsistent
  BY DEF Init, QueueConsistent, Queued
<1>2. Init => fin = IdleFinal
  BY DEF Init
<1>3. fin = IdleFinal => SnapshotConsistent
  BY IdleConsistent DEF SnapshotConsistent
<1> QED
  BY <1>1, <1>2, <1>3, InitTypes, InitPickedUp DEF WindowInv

(***************************************************************************)
(* No entry that starts over, waits or is canceled keeps a window occupied *)
(* - in any environment, with any requests.                                *)
(***************************************************************************)
THEOREM WindowsHeldByCommitted == Spec => []WindowHeldByCommitted
<1>1. Init => WindowInv
  BY InitWindowInv
<1>2. WindowInv /\ [Next]_vars => WindowInv'
  BY StepWindowInv
<1>3. WindowInv => WindowHeldByCommitted
  BY DEF WindowInv, QueueConsistent, Consistent, WindowHeldByCommitted
<1> QED
  BY <1>1, <1>2, <1>3, PTL DEF Spec

-----------------------------------------------------------------------------
(***************************************************************************)
(* What one step may do to an entry.  It is left alone, removed or added;  *)
(* it keeps its batch, and its window or none; only a command of its       *)
(* worker takes a window, and the closing steps of the finalization write  *)
(* back the one that was read.                                             *)
(***************************************************************************)

\* The entry takes the window w it is offered, if that one is to be recorded.
TakesWindow(i) ==
    /\ queue[i].status = "IDLE"
    /\ queue'[i].status = "FINAL_IMPORT" => queue[i].stage # "complete"
    /\ \E w \in NextWindows(i) : HasBegun(i, w) /\ queue'[i].window = Recorded(i, w)
    /\ \A j \in Instance \ {i} : queue'[j] = queue[j]

WritesBack(i) ==
    /\ fin.step[i] \in {"toError", "toConflict", "revert", "conflict"}
    /\ queue'[i].window = fin.snapshot[i].window
    /\ queue'[i].status # "FINAL_IMPORT"

\* What it had is kept or given up.
KeepsOrGivesUp(e, f) ==
    /\ \/ f.window = e.window
       \/ f.window = NoWindow /\ f.status # "WORKER_DONE"
    /\ f.status = "FINAL_IMPORT" => e.status = "FINAL_IMPORT"

EntryStep(i) ==
    \/ queue'[i] \in {queue[i], NoEntry}
    \/ /\ ~Queued(i)
       /\ queue'[i].window = NoWindow /\ batch'[queue'[i].batch] = "RUNNING"
    \/ /\ Queued(i) /\ queue'[i].batch = queue[i].batch
       /\ KeepsOrGivesUp(queue[i], queue'[i]) \/ TakesWindow(i) \/ WritesBack(i)

\* A step that changes one entry, or none.
LEMMA OneEntryStep ==
    ASSUME TypeOK, NEW i \in Instance, NEW e \in Entry, Queued(i),
           queue' = [queue EXCEPT ![i] = e], e.batch = queue[i].batch,
           KeepsOrGivesUp(queue[i], e)
    PROVE  \A j \in Instance : EntryStep(j)
BY DEF TypeOK, EntryStep

\* UpdateStatus keeps the batch.
LEMMA BatchUpdated ==
    ASSUME NEW e \in Entry, NEW status, NEW stage, NEW w
    PROVE  UpdateStatus(e, status, stage, w).batch = e.batch
BY DEF UpdateStatus, Entry

LEMMA NoEntryStep ==
    ASSUME UNCHANGED queue
    PROVE  \A j \in Instance : EntryStep(j)
BY DEF EntryStep

\* UpdateStatusByUUID with the window of the entry or none.
LEMMA SetStatusStep ==
    ASSUME TypeOK, NEW i \in Instance, Queued(i), NEW stage \in ImportStage,
           NEW status \in Status \ {"WORKER_DONE", "FINAL_IMPORT"},
           NEW w \in {queue[i].window, NoWindow}, SetStatus(i, status, stage, w)
    PROVE  \A j \in Instance : EntryStep(j)
<1> DEFINE e == UpdateStatus(queue[i], status, stage, w)
<1>1. queue[i] \in Entry
  BY DEF TypeOK, Queued
<1>2. w \in Window \cup {NoWindow}
  BY <1>1, EntryFields
<1>3. e \in Entry /\ e.batch = queue[i].batch /\ KeepsOrGivesUp(queue[i], e)
  BY <1>1, <1>2, UpdateStatusType, UpdatedFields DEF KeepsOrGivesUp, UpdateStatus, Entry
<1>4. queue' = [queue EXCEPT ![i] = e]
  BY DEF SetStatus
<1> HIDE DEF e
<1> QED
  BY <1>3, <1>4, OneEntryStep

LEMMA ImportEntryStep ==
    ASSUME TypeOK, ImportTask
    PROVE  \A j \in Instance : EntryStep(j)
<1>1. CASE UNCHANGED queue
  BY <1>1, NoEntryStep
<1>2. \A i \in Instance : Queued(i) => queue[i] \in Entry
  BY DEF TypeOK, Queued
<1>3. \A e \in Entry : \A status \in {"BLOCKED", "WAITING"} :
        LET f == [e EXCEPT !.status = status]
        IN  f.batch = e.batch /\ KeepsOrGivesUp(e, f)
  BY DEF Entry, KeepsOrGivesUp
<1>4. CASE ReassessBlocked
  <2>1. PICK blocked :
            queue' = [i \in Instance |->
                        IF i \notin MigrationState({"BLOCKED", "WAITING"}) THEN queue[i]
                        ELSE [queue[i] EXCEPT
                                !.status = IF i \in blocked THEN "BLOCKED" ELSE "WAITING"]]
    BY <1>4, Zenon DEF ReassessBlocked
  <2> QED
    BY <1>2, <1>3, <2>1 DEF EntryStep, MigrationState
<1>5. CASE PlaceWaiting
  <2>1. PICK blocked \in SUBSET MigrationState({"WAITING"}) :
            queue' = [i \in Instance |->
                        IF i \in blocked THEN [queue[i] EXCEPT !.status = "BLOCKED"]
                        ELSE queue[i]]
    BY <1>5 DEF PlaceWaiting, Blockable
  <2> QED
    BY <1>2, <1>3, <2>1 DEF EntryStep, MigrationState
<1>6. CASE ClaimEntries /\ queue' # queue
  <2>1. PICK claimed :
            /\ \A i \in claimed : Queued(i)
            /\ queue' = [i \in Instance |->
                            IF i \in claimed
                            THEN UpdateStatus(queue[i], "CREATING", "background", NoWindow)
                            ELSE queue[i]]
    BY <1>6, Zenon DEF ClaimEntries
  <2>2. \A e \in Entry : LET f == UpdateStatus(e, "CREATING", "background", NoWindow)
                         IN  f.batch = e.batch /\ KeepsOrGivesUp(e, f)
    BY UpdatedFields DEF UpdateStatus, Entry, KeepsOrGivesUp
  <2> QED
    BY <1>2, <2>1, <2>2 DEF EntryStep
<1>7. ASSUME NEW i \in Instance, CreateTargetVM(i), queue' # queue
      PROVE  \E status \in {"IDLE", "WAITING", "ERROR"} :
                Queued(i) /\ SetStatus(i, status, "background", NoWindow)
  BY <1>7 DEF CreateTargetVM, CreateVM, BootWorker, CleanupCreated, ReadyForWorker,
              RevertCreating, database
<1>8. ASSUME NEW i \in Instance, CreateTargetVM(i), queue' # queue
      PROVE  \A j \in Instance : EntryStep(j)
  BY <1>7, <1>8, SetStatusStep DEF Status, ImportStage
<1>9. EnsureImages \/ EndImports => UNCHANGED queue
  BY DEF EnsureImages, EndImports, database
<1> QED
  BY <1>1, <1>4, <1>5, <1>6, <1>8, <1>9 DEF ImportTask

\* Neither a response nor the power check touches the batch or the window.
LEMMA ResponseKeeps ==
    ASSUME NEW e \in Entry, NEW response \in Response
    PROVE  LET f == ProcessWorkerUpdate(e, response)
           IN  f.batch = e.batch /\ KeepsOrGivesUp(e, f)
<1> DEFINE Responded(f) == [f EXCEPT !.lastWorker = response]
           Good(f) == f.batch = e.batch /\ KeepsOrGivesUp(e, f)
<1>1. \A f \in Entry : Good(f) => Good(Responded(f))
  BY DEF Entry, KeepsOrGivesUp
<1>2. Succeeded(e) \in Entry /\ Good(Succeeded(e))
  <2>1. CASE e.status = "BACKGROUND_IMPORT"
    BY <2>1, SucceededType DEF Succeeded, Entry, KeepsOrGivesUp
  <2>2. CASE e.status = "FINAL_IMPORT"
    BY <2>2, SucceededType DEF Succeeded, Entry, KeepsOrGivesUp
  <2>3. CASE e.status = "POST_IMPORT"
    BY <2>3, SucceededType DEF Succeeded, Entry, KeepsOrGivesUp
  <2>4. CASE e.status \notin {"BACKGROUND_IMPORT", "FINAL_IMPORT", "POST_IMPORT"}
    BY <2>4, SucceededType DEF Succeeded, KeepsOrGivesUp
  <2> QED
    BY <2>1, <2>2, <2>3, <2>4
<1>3. [e EXCEPT !.status = "ERROR"] \in Entry /\ Good([e EXCEPT !.status = "ERROR"])
  BY DEF Entry, Status, KeepsOrGivesUp
<1>4. e \in Entry /\ Good(e)
  BY DEF KeepsOrGivesUp
<1> HIDE DEF Responded, Good
<1>5. ProcessWorkerUpdate(e, response) = Responded(CASE response = "SUCCESS" -> Succeeded(e)
        [] response = "FAILED" -> [e EXCEPT !.status = "ERROR"] [] OTHER -> e)
  BY DEF ProcessWorkerUpdate, Responded
<1>6. CASE response = "SUCCESS"
  BY <1>1, <1>2, <1>5, <1>6 DEF Good
<1>7. CASE response = "FAILED"
  BY <1>1, <1>3, <1>5, <1>7 DEF Good
<1>8. CASE response \notin {"SUCCESS", "FAILED"}
  BY <1>1, <1>4, <1>5, <1>8 DEF Good
<1> QED
  BY <1>6, <1>7, <1>8

LEMMA CheckedKeeps ==
    ASSUME NEW i, NEW e \in Entry
    PROVE  /\ CheckedEntry(i, e).batch = e.batch /\ CheckedEntry(i, e).window = e.window
           /\ CheckedEntry(i, e).status = e.status
BY DEF CheckedEntry, Entry

LEMMA WorkerEntryStep ==
    ASSUME WindowInv, NEW i \in Instance, WorkerStep(i) \/ WorkerRequest(i)
    PROVE  \A j \in Instance : EntryStep(j)
<1>1. CASE UNCHANGED queue
  BY <1>1, NoEntryStep
<1>2. TypeOK /\ (Queued(i) => queue[i] \in Entry /\ Consistent(queue[i]))
  BY DEF WindowInv, TypeOK, QueueConsistent, Queued
<1>3. CASE BeginBackgroundImport(i) \/ RepeatBackgroundImport(i)
  <2>1. Queued(i) /\ SetStatus(i, "BACKGROUND_IMPORT", "background", queue[i].window)
    BY <1>3 DEF BeginBackgroundImport, RepeatBackgroundImport, Asks, Known
  <2> QED
    BY <1>2, <2>1, SetStatusStep DEF Status, ImportStage
<1>4. ASSUME NEW e \in Entry, NEW w \in NextWindows(i), Queued(i), HasBegun(i, w),
             queue' = [queue EXCEPT ![i] = e], e.batch = queue[i].batch,
             queue[i].status = "IDLE", e.window = Recorded(i, w),
             e.status = "FINAL_IMPORT" => queue[i].stage # "complete"
      PROVE  \A j \in Instance : EntryStep(j)
  BY <1>2, <1>4 DEF TypeOK, EntryStep, TakesWindow
<1>5. CASE BeginFinalImport(i) \/ BeginFinalImportUnchecked(i)
  <2>1. Queued(i) /\ queue[i].status = "IDLE" /\ queue[i].stage # "complete"
    BY <1>5 DEF BeginFinalImport, BeginFinalImportUnchecked, MayBeginFinalImport, Asks, Known
  <2>2. PICK w \in NextWindows(i) :
            /\ HasBegun(i, w)
            /\ \/ queue' = [queue EXCEPT ![i] = FinalImportEntry(i, w)]
               \/ queue' = [queue EXCEPT ![i] = CheckedEntry(i, FinalImportEntry(i, w))]
    BY <1>5 DEF BeginFinalImport, BeginFinalImportUnchecked
  <2>3. /\ FinalImportEntry(i, w) \in Entry
        /\ FinalImportEntry(i, w).window = Recorded(i, w)
        /\ FinalImportEntry(i, w).batch = queue[i].batch
    BY <1>2, <2>1, FinalImportEntryType, UpdatedFields
    DEF FinalImportEntry, UpdateStatus, Entry
  <2>4. CheckedEntry(i, FinalImportEntry(i, w)) \in Entry
    BY <1>2, <2>3, CheckedType
  <2> QED
    BY <1>4, <2>1, <2>2, <2>3, <2>4, CheckedKeeps
<1>6. CASE BeginPostImport(i)
  <2>1. PICK w \in NextWindows(i) :
            /\ Queued(i) /\ queue[i].status = "IDLE" /\ HasBegun(i, w)
            /\ SetStatus(i, "POST_IMPORT", "complete", Recorded(i, w))
    BY <1>6 DEF BeginPostImport, Asks, Known
  <2>2. PICK v \in Window \cup {NoWindow} : v = Recorded(i, w)
    BY <1>2, <2>1, NextWindowType
  <2> DEFINE e == UpdateStatus(queue[i], "POST_IMPORT", "complete", v)
  <2>3. e \in Entry /\ e.window = v /\ e.batch = queue[i].batch /\ e.status = "POST_IMPORT"
    <3>1. queue[i] \in Entry /\ "POST_IMPORT" \in Status /\ "complete" \in ImportStage
      BY <1>2, <2>1 DEF Status, ImportStage
    <3>2. e \in Entry
      BY <3>1, UpdateStatusType
    <3>3. e.window = v /\ e.batch = queue[i].batch /\ e.status = "POST_IMPORT"
      BY <3>1, UpdatedFields, BatchUpdated
    <3> QED
      BY <3>2, <3>3
  <2>4. queue' = [queue EXCEPT ![i] = e]
    BY <2>1, <2>2 DEF SetStatus
  <2> HIDE DEF e
  <2> QED
    BY <1>4, <2>1, <2>2, <2>3, <2>4
<1>7. CASE ReissueCommand(i) /\ queue' # queue
  <2>1. Queued(i) /\ queue' = [queue EXCEPT ![i] = CheckedEntry(i, queue[i])]
    BY <1>7 DEF ReissueCommand, Asks, Known
  <2> QED
    BY <1>2, <2>1, CheckedType, CheckedKeeps, OneEntryStep DEF KeepsOrGivesUp
<1>8. CASE (ReportProgress(i) \/ HandleUpdate(i)) /\ queue' # queue
  <2>1. PICK response \in Response :
            /\ Queued(i)
            /\ queue' = [queue EXCEPT ![i] = ProcessWorkerUpdate(queue[i], response)]
    BY <1>2, <1>8 DEF ReportProgress, HandleUpdate, Accepts, Known, Response, TypeOK
  <2> QED
    BY <1>2, <2>1, ResponseKeeps, ProcessWorkerUpdateType, OneEntryStep
<1>9. WorkerStep(i) => UNCHANGED queue
  BY DEF WorkerStep, FinishBackgroundImport, ShutDownSource, FinishFinalImport,
         FinishPostImport, FailCommand, RestartWorker, DuringPost, database
<1>10. RestorePower(i) \/ LoseUpdate(i) => UNCHANGED queue
  BY DEF RestorePower, LoseUpdate, DuringPost, database
<1> QED
  BY <1>1, <1>3, <1>5, <1>6, <1>7, <1>8, <1>9, <1>10 DEF WorkerRequest

LEMMA RequestEntryStep ==
    ASSUME TypeOK, NEW i \in Instance, EntryRequest(i)
    PROVE  \A j \in Instance : EntryStep(j)
<1>1. CASE UNCHANGED queue
  BY <1>1, NoEntryStep
<1>2. Queued(i) => queue[i] \in Entry
  BY DEF TypeOK, Queued
<1>3. CASE DeleteEntry(i)
  BY <1>3 DEF DeleteEntry, TypeOK, EntryStep
<1>4. CASE CancelEntry(i)
  <2>1. Queued(i) /\ SetStatus(i, "CANCELED", "background", NoWindow)
    BY <1>4 DEF CancelEntry, MayCancel, Cancel, SetStatus
  <2> QED
    BY <2>1, SetStatusStep DEF Status, ImportStage
<1>5. CASE RetryEntry(i)
  <2>1. PICK status \in {"WAITING", "BLOCKED"}, running \in InitialRunning(i) :
            Queued(i) /\ queue' = [queue EXCEPT ![i] = Retry(queue[i], status, running)]
    BY <1>5 DEF RetryEntry, InitialStatus
  <2> DEFINE e == UpdateStatus(queue[i], status, "background", NoWindow)
  <2>2. /\ e \in Entry /\ e.status = status /\ e.window = NoWindow
        /\ e.batch = queue[i].batch
    BY <1>2, <2>1, UpdateStatusType, UpdatedFields, BatchUpdated DEF Status, ImportStage
  <2>3. Retry(queue[i], status, running) = [e EXCEPT !.running = running]
    BY DEF Retry
  <2> HIDE DEF e
  <2>4. running \in BOOLEAN
    BY InitialRunningType
  <2>5. /\ Retry(queue[i], status, running) \in Entry
        /\ Retry(queue[i], status, running).status = status
        /\ Retry(queue[i], status, running).window = NoWindow
        /\ Retry(queue[i], status, running).batch = queue[i].batch
    BY <2>2, <2>3, <2>4, RunningType DEF Entry
  <2> QED
    BY <2>1, <2>5, OneEntryStep DEF KeepsOrGivesUp
<1>6. CASE ResolveEntry(i)
  <2>1. Queued(i) /\ queue' = [queue EXCEPT ![i] = Resolve(queue[i])]
    BY <1>6 DEF ResolveEntry
  <2>2. /\ Resolve(queue[i]) \in Entry /\ Resolve(queue[i]).batch = queue[i].batch
        /\ Resolve(queue[i]).window = queue[i].window
        /\ Resolve(queue[i]).status # "FINAL_IMPORT"
    BY <1>2, <2>1 DEF Resolve, Entry, Status
  <2> QED
    BY <2>1, <2>2, OneEntryStep DEF KeepsOrGivesUp
<1>7. CancelCleanup(i) \/ CancelPowerOn(i) => UNCHANGED queue
  BY DEF CancelCleanup, CancelPowerOn, database
<1> QED
  BY <1>1, <1>3, <1>4, <1>5, <1>6, <1>7 DEF EntryRequest

LEMMA BatchEntryStep ==
    ASSUME TypeOK, NEW b \in Batch, BatchRequest(b)
    PROVE  \A j \in Instance : EntryStep(j)
<1>1. CASE UNCHANGED queue
  BY <1>1, NoEntryStep
<1>2. CASE StartBatch(b)
  <2> DEFINE added == {i \in Assigned[b] : ~Queued(i)}
             statuses == InitialStatus \cup (IF "change" \in Faults THEN {"CONFLICT"} ELSE {})
             Started(status, running) ==
                 queue' = [i \in Instance |->
                              IF i \in added
                              THEN NewEntry(b, FreshSecret(i), status[i], running[i])
                              ELSE queue[i]]
  <2>1. PICK status \in [added -> statuses], running \in [added -> BOOLEAN] :
            Started(status, running)
    BY <1>2, Zenon DEF StartBatch
  <2>2. ASSUME NEW j \in Instance
        PROVE  \/ queue'[j] = queue[j]
               \/ ~Queued(j) /\ \E s, t, r : queue'[j] = NewEntry(b, s, t, r)
    BY <2>1
  <2>3. batch'[b] = "RUNNING"
    BY <1>2 DEF StartBatch, TypeOK
  <2>4. \A s, t, r : NewEntry(b, s, t, r).batch = b /\ NewEntry(b, s, t, r).window = NoWindow
    BY DEF NewEntry
  <2> QED
    BY <2>2, <2>3, <2>4 DEF EntryStep
<1>3. ASSUME NEW force \in BOOLEAN, ResetBatch(b, force)
      PROVE  \A j \in Instance : EntryStep(j)
  BY <1>3 DEF ResetBatch, EntryStep
<1>4. StopBatch(b) \/ (\E force \in BOOLEAN : ResetBatchFails(b, force)) => UNCHANGED queue
  BY DEF StopBatch, ResetBatchFails, database
<1> QED
  BY <1>1, <1>2, <1>3, <1>4 DEF BatchRequest

LEMMA FinalEntryStep ==
    ASSUME WindowInv, FinalTask
    PROVE  \A j \in Instance : EntryStep(j)
<1> USE DEF WindowInv
<1>1. CASE UNCHANGED queue
  BY <1>1, NoEntryStep
<1>2. \A i \in Instance : Queued(i) => queue[i] \in Entry
  BY DEF TypeOK, Queued
<1>3. TakeSnapshot \/ AbortChecks => UNCHANGED queue
  BY DEF TakeSnapshot, AbortChecks, database
<1>4. CASE StoreVerdicts /\ queue' # queue
  <2>1. /\ \A i \in Judged : Queued(i)
        /\ queue' = [i \in Instance |-> IF i \in Judged THEN Checked(i) ELSE queue[i]]
    BY <1>4, Zenon DEF StoreVerdicts
  <2>2. ASSUME NEW i \in Judged
        PROVE  /\ Checked(i).batch = queue[i].batch
               /\ KeepsOrGivesUp(queue[i], Checked(i)) \/
                  (/\ fin.step[i] \in {"toError", "toConflict", "revert", "conflict"}
                   /\ Checked(i).window = fin.snapshot[i].window
                   /\ Checked(i).status # "FINAL_IMPORT")
    <3>1. /\ i \in Instance /\ queue[i] \in Entry
          /\ fin.step[i] \in {"toError", "toConflict", "newNetworks"}
      BY <1>2, <2>1 DEF Judged
    <3>2. CASE fin.step[i] = "toError"
      BY <3>1, <3>2, UpdatedFields DEF Checked, UpdateStatus, Entry
    <3>3. CASE fin.step[i] = "toConflict"
      BY <3>1, <3>3, UpdatedFields DEF Checked, UpdateStatus, Entry
    <3>4. CASE fin.step[i] = "newNetworks"
      <4>1. Checked(i) = [queue[i] EXCEPT !.running = fin.snapshot[i].running]
        BY <3>4 DEF Checked
      <4> QED
        BY <3>1, <4>1 DEF Entry, KeepsOrGivesUp
    <3> QED
      BY <3>1, <3>2, <3>3, <3>4
  <2> QED
    BY <2>1, <2>2 DEF EntryStep, WritesBack, Judged
<1>5. ASSUME NEW i \in Instance, ResetEntry(i), queue' # queue
      PROVE  \A j \in Instance : EntryStep(j)
  <2>1. \/ Queued(i) /\ SetStatus(i, "IDLE", "final", NoWindow)
        \/ Queued(i) /\ SetStatus(i, "WAITING", "background", NoWindow)
    BY <1>5 DEF ResetEntry, StartFinalImportOver, SetStatus
  <2> QED
    BY <2>1, SetStatusStep DEF Status, ImportStage
<1>6. ASSUME NEW i \in Instance, FinishEntry(i), queue' # queue
      PROVE  \A j \in Instance : EntryStep(j)
  <2>1. Queued(i) /\ SetStatus(i, "FINISHED", fin.snapshot[i].stage, NoWindow)
    BY <1>6 DEF FinishEntry
  <2>2. fin.snapshot[i].stage \in ImportStage
    BY <1>6 DEF FinishEntry, SnapshotConsistent, WorkerDoneStep, ImportStage
  <2> QED
    BY <2>1, <2>2, SetStatusStep DEF Status
<1>7. ASSUME NEW i \in Instance, RevertConfigure(i), queue' # queue
      PROVE  \A j \in Instance : EntryStep(j)
  <2>1. Queued(i) /\ SetStatus(i, "ERROR", "background", fin.snapshot[i].window)
    BY <1>7 DEF RevertConfigure
  <2> DEFINE e == UpdateStatus(queue[i], "ERROR", "background", fin.snapshot[i].window)
  <2>2. queue' = [queue EXCEPT ![i] = e]
    BY <2>1 DEF SetStatus
  <2>3. e.batch = queue[i].batch /\ e.window = fin.snapshot[i].window /\ e.status = "ERROR"
    BY <1>2, <2>1, UpdatedFields DEF UpdateStatus, Entry
  <2>4. fin.step[i] = "revert"
    BY <1>7 DEF RevertConfigure
  <2> HIDE DEF e
  <2> QED
    BY <2>1, <2>2, <2>3, <2>4 DEF EntryStep, WritesBack, TypeOK
<1>8. CASE RecordOutcome /\ queue' # queue
  <2>1. PICK conflicts \in Appended({i \in Instance : fin.step[i] = "conflict"}) :
          /\ \A i \in conflicts : Queued(i)
          /\ queue' = [i \in Instance |->
                          IF i \in conflicts
                          THEN UpdateStatus(queue[i], "CONFLICT", fin.snapshot[i].stage,
                                            fin.snapshot[i].window)
                          ELSE queue[i]]
    BY <1>8, Zenon DEF RecordOutcome, database
  <2>2. \A i \in conflicts : fin.step[i] = "conflict"
    BY DEF Appended
  <2>3. \A e \in Entry : \A stage, w :
            LET f == UpdateStatus(e, "CONFLICT", stage, w)
            IN  f.batch = e.batch /\ f.window = w /\ f.status = "CONFLICT"
    BY UpdatedFields DEF UpdateStatus, Entry
  <2> QED
    BY <1>2, <2>1, <2>2, <2>3 DEF EntryStep, WritesBack
<1>9. ASSUME NEW i \in Instance, FinalizeInstance(i)
      PROVE  ResetEntry(i) \/ FinishEntry(i) \/ RevertConfigure(i) \/ UNCHANGED queue
  BY <1>9 DEF FinalizeInstance, CheckSource, ResetPowerOn, DetachTarget, RestartDetached,
              ConfigureVM, PowerBack, database
<1> QED
  BY <1>1, <1>3, <1>4, <1>5, <1>6, <1>7, <1>8, <1>9 DEF FinalTask

\* Every step is one of those.
LEMMA NextEntryStep ==
    ASSUME WindowInv, Next
    PROVE  \A j \in Instance : EntryStep(j)
<1>1. Tick \/ RestartDaemon \/ (\E i \in Instance : SwitchSource(i)) => UNCHANGED queue
  BY DEF Tick, RestartDaemon, SwitchSource, database
<1> QED
  BY <1>1, NoEntryStep, ImportEntryStep, FinalEntryStep, WorkerEntryStep, RequestEntryStep,
     BatchEntryStep DEF Next, WindowInv

(***************************************************************************)
(* Only an instance whose window is open, or that has none to wait for,    *)
(* starts its final import - in any environment, with any requests.        *)
(***************************************************************************)
THEOREM FinalImportsInOpenWindows == Spec => StartsInOpenWindow
<1> DEFINE InWindow(i) ==
        /\ Queued(i) /\ queue'[i] # NoEntry
        /\ queue[i].status = "IDLE" /\ queue'[i].status = "FINAL_IMPORT"
        => LET w == queue'[i].window
           IN  w # NoWindow => ~Locked(Schedule[queue[i].batch][w], now)
                               /\ Begun(Schedule[queue[i].batch][w], now)
<1>1. WindowInv /\ Next => \A i \in Instance : InWindow(i)
  <2> SUFFICES ASSUME WindowInv, Next, NEW i \in Instance, Queued(i), queue'[i] # NoEntry,
                      queue[i].status = "IDLE", queue'[i].status = "FINAL_IMPORT",
                      queue'[i].window # NoWindow
               PROVE  /\ ~Locked(Schedule[queue[i].batch][queue'[i].window], now)
                      /\ Begun(Schedule[queue[i].batch][queue'[i].window], now)
    OBVIOUS
  <2>1. TakesWindow(i)
    BY NextEntryStep DEF EntryStep, KeepsOrGivesUp, WritesBack
  <2>2. PICK w \in NextWindows(i) : HasBegun(i, w) /\ queue'[i].window = Recorded(i, w)
    BY <2>1 DEF TakesWindow
  <2>3. queue[i].window = NoWindow
    BY <2>1 DEF TakesWindow, WindowInv, QueueConsistent, Consistent, IsCommitted
  <2>4. w # NoWindow /\ queue'[i].window = w
    BY <2>2, <2>3 DEF Recorded
  <2>5. w \in Earliest(Schedule[queue[i].batch], WindowsWithRoom(queue[i]),
                       MinBootTime[queue[i].batch], now)
    BY <2>2, <2>3, <2>4 DEF NextWindows
  <2>6. ~Locked(Schedule[queue[i].batch][w], now)
    BY <2>5 DEF Earliest, FitsDuration
  <2> QED
    BY <2>2, <2>4, <2>6 DEF HasBegun
<1>2. WindowInv /\ [Next]_vars => [\A i \in Instance : InWindow(i)]_vars
  BY <1>1
<1>3. Spec => []WindowInv
  BY InitWindowInv, StepWindowInv, PTL DEF Spec
<1> QED
  BY <1>2, <1>3, PTL DEF Spec, StartsInOpenWindow

-----------------------------------------------------------------------------
(***************************************************************************)
(* The machines of a migration                                             *)
(***************************************************************************)

\* The environment in which that is so: the calls to the targets succeed, the
\* daemon is not restarted, and nobody resets a batch or deletes an entry.
\* Owners, sources, workers and their messages, checks and limits may do what
\* they like, and entries be canceled, retried and resolved.
Reliable ==
    /\ Faults \cap {"target", "configure", "restart"} = {}
    /\ Requests \cap {"reset", "delete"} = {}

(***************************************************************************)
(* The inductive invariant.  It is about one instance at a time: what the  *)
(* status of its entry, the steps of the tasks, the requests under way and *)
(* its machines allow each other to be.                                    *)
(***************************************************************************)

Now(i) == IF Queued(i) THEN queue[i].status ELSE "NONE"
Stage(i) == IF Queued(i) THEN queue[i].stage ELSE "NONE"

\* The task beginImports is about to claim the entry.
Placed(i) == \E b \in Batch : <<i, b>> \in imp.snapshot

\* The status that finalizeCompleteInstances goes by.
Read(i) == fin.snapshot[i].status

\* The worker has reported the end of the post-import tasks.
Imported(i) == Now(i) = "WORKER_DONE" \/ (Now(i) = "CONFLICT" /\ Stage(i) = "complete")

TakenBack(i) == fin.step[i] \in {"detach", "rewrite"}

\* A worker runs inside its VM and waits for the reply to what it posted, and a
\* copy that is whole was taken of a source VM that is down and stayed down.
MachinesFit(i) ==
    /\ worker[i] # "none" => vm[i] = "worker"
    /\ mail[i] # "none" => worker[i] \in {"sent", "exiting"} \/ vm[i] = "none"
    /\ worker[i] = "copy" \/ disks[i] \in {"current", "ready"} => ~source[i]

\* What a cancel and the handler of an error have yet to do concerns an entry
\* that is canceled, or that failed and at most starts over.
LocksFit(i) ==
    /\ cancel[i] # "idle" =>
        imp.pc = "idle" /\ fin.pc = "idle" /\ ~handler[i] /\ Now(i) = "CANCELED"
    /\ handler[i] => Now(i) \in {"BLOCKED", "WAITING", "CREATING", "ERROR"}

\* An entry stays as it was claimed while its VM is created, except that a late
\* response of an earlier worker may fail it.
CreationFits(i) ==
    /\ Placed(i) => imp.pc \in {"ensure", "claim"} /\ Now(i) = "WAITING"
    /\ imp.step[i] \notin {"none", "done"} =>
        imp.pc = "create" /\ Now(i) \in {"CREATING", "ERROR"}
    /\ imp.step[i] # "cleanup"
    /\ imp.step[i] = "boot" => vm[i] = "defined" /\ ~handler[i]
    /\ imp.step[i] = "ready" => worker[i] = "ask" /\ ~handler[i]

CheckSteps == {"check", "unchanged", "toError", "toConflict", "newNetworks"}

\* An entry finalizeCompleteInstances works on moves only forward from the
\* status it was read with, or fails.
Followed(i) ==
    /\ imp.step[i] \in {"none", "done"}
    /\ \/ /\ Read(i) = "FINAL_IMPORT" /\ vm[i] = "worker"
          /\ Now(i) \in {"FINAL_IMPORT", "IDLE", "POST_IMPORT", "WORKER_DONE", "ERROR"}
          /\ Now(i) = "IDLE" /\ fin.step[i] # "restart" => Stage(i) = "complete"
       \/ Read(i) = "POST_IMPORT" /\ Now(i) \in {"POST_IMPORT", "WORKER_DONE", "ERROR"}
       \/ Read(i) \in {"WORKER_DONE", "ERROR", "CONFLICT"} /\ Now(i) = Read(i)

FinalizationFits(i) ==
    /\ fin.pc = "idle" => fin.step[i] = "none"
    /\ fin.pc = "check" => fin.step[i] \in CheckSteps \/ fin.step[i] = "none"
    /\ fin.pc = "run" => fin.step[i] \notin CheckSteps
    /\ fin.step[i] \notin {"revert", "powerBack", "conflict"}
    /\ fin.step[i] \notin {"none", "done", "failed"} => Followed(i)
    /\ fin.step[i] \in {"check", "toError", "toConflict", "newNetworks",
                       "configure", "finish"} =>
        Read(i) = "WORKER_DONE"
    /\ fin.step[i] = "finish" => disks[i] = "ready" /\ vm[i] \in {"stopped", "running"}
    /\ fin.step[i] = "restart" => Read(i) = "FINAL_IMPORT" /\ Now(i) = "IDLE"
    /\ fin.step[i] \in {"rewrite", "restart"} /\ Read(i) = "FINAL_IMPORT" =>
        worker[i] = "none" /\ ~handler[i]

\* The worker does what the status of the entry says.
WorkerFits(i) ==
    /\ Now(i) = "IDLE" => worker[i] \in {"none", "ask"}
    /\ Now(i) = "BACKGROUND_IMPORT" => worker[i] \in {"none", "ask", "sync", "sent"}
    /\ Now(i) = "FINAL_IMPORT" =>
        worker[i] \in {"none", "ask", "shutdown", "copy", "dirty", "sent"}
    /\ Now(i) = "POST_IMPORT" =>
        worker[i] \in {"none", "ask", "tasks", "sent", "exiting", "exited"}
    /\ Imported(i) => /\ worker[i] \in {"none", "ask", "sent", "exiting", "exited"}
                      /\ mail[i] = "none"
    /\ worker[i] = "shutdown" => Now(i) = "FINAL_IMPORT" \/ "cancel" \in Requests

\* The target VM is where the status of the entry says.
TargetFits(i) ==
    /\ Now(i) \in {"IDLE", "BACKGROUND_IMPORT", "FINAL_IMPORT", "POST_IMPORT"} \/ Imported(i) =>
        vm[i] = "worker" \/ fin.step[i] \in {"rewrite", "finish"}
    /\ vm[i] \in {"stopped", "running"} => Now(i) = "FINISHED" \/ fin.step[i] = "finish"
    /\ Now(i) = "FINISHED" => vm[i] \in {"stopped", "running"} /\ disks[i] = "ready"

\* Unless the migration is being taken back, the target's disks hold what the
\* entry says has been copied.
CopyFits(i) ==
    /\ Now(i) = "FINAL_IMPORT" => Stage(i) # "complete"
    /\ ~TakenBack(i) =>
        /\ Now(i) = "FINAL_IMPORT" =>
            worker[i] # "dirty" /\ (mail[i] = "SUCCESS" => disks[i] = "current")
        /\ Now(i) = "IDLE" /\ Stage(i) = "complete" => disks[i] \in {"current", "ready"}
        /\ Now(i) = "POST_IMPORT" =>
            disks[i] \in {"current", "ready"} /\ (mail[i] = "SUCCESS" => disks[i] = "ready")
        /\ Imported(i) => disks[i] = "ready"

Fits(i) ==
    /\ MachinesFit(i) /\ LocksFit(i) /\ CreationFits(i) /\ FinalizationFits(i)
    /\ WorkerFits(i) /\ TargetFits(i) /\ CopyFits(i)

\* During the checks the task has something to do for every entry it has read.
ReadForAStep ==
    fin.pc = "check" => \A i \in InSnapshot : fin.step[i] # "none"

CutoverInv == WindowInv /\ ReadForAStep /\ \A i \in Instance : Fits(i)

-----------------------------------------------------------------------------
(***************************************************************************)
(* What a step leaves alone.                                               *)
(***************************************************************************)

\* Nothing of what the invariant says about i changes: its entry, its machines,
\* the requests under way and the two tasks.
EntrySame(i) == Now(i)' = Now(i) /\ Stage(i)' = Stage(i)

MachinesSame(i) ==
    /\ source'[i] = source[i] /\ vm'[i] = vm[i] /\ disks'[i] = disks[i]
    /\ worker'[i] = worker[i] /\ mail'[i] = mail[i]

LocksSame(i) == handler'[i] = handler[i] /\ cancel'[i] = cancel[i]

ImportSame(i) ==
    imp'.pc = imp.pc /\ (Placed(i)' <=> Placed(i)) /\ imp'.step[i] = imp.step[i]

FinalSame(i) ==
    /\ fin'.pc = fin.pc /\ fin'.step[i] = fin.step[i]
    /\ fin'.snapshot[i] = fin.snapshot[i]

\* The target VM of i is the migrated machine: Migrated, of the status Now.
HandedOver(i) == vm[i] \in {"stopped", "running"} \/ Now(i) = "FINISHED"

\* What a step may do to the machine: hand it over, once and for good, with a
\* finished copy of a source VM that is off, and never shut down one that is
\* copied.
Moved(i) ==
    /\ HandedOver(i) => HandedOver(i)'
    /\ Now(i) = "FINISHED" => Now(i)' = "FINISHED"
    /\ HandedOver(i)' => HandedOver(i) \/ (~source[i] /\ disks[i] = "ready")
    /\ source[i] /\ ~source'[i] => disks'[i] # "ready"
    /\ source[i] /\ ~source'[i] =>
        \/ Now(i) \in {"FINAL_IMPORT", "WORKER_DONE"}
        \/ "cancel" \in Requests \/ "owner" \in Faults

Keeps(i) == Fits(i)' /\ Moved(i)

Same(i) ==
    EntrySame(i) /\ MachinesSame(i) /\ LocksSame(i) /\ ImportSame(i) /\ FinalSame(i)

\* So what it says stays true.
LEMMA SameFits ==
    ASSUME NEW i \in Instance, Fits(i), Same(i)
    PROVE  Keeps(i)
<1> USE DEF Same, EntrySame, MachinesSame, LocksSame, ImportSame, FinalSame
<1>1. (Imported(i)' <=> Imported(i)) /\ (TakenBack(i)' <=> TakenBack(i)) /\ Read(i)' = Read(i)
  BY DEF Imported, TakenBack, Read
<1>2. MachinesFit(i)' /\ LocksFit(i)' /\ CreationFits(i)'
  BY DEF Fits, MachinesFit, LocksFit, CreationFits
<1>3. FinalizationFits(i)'
  BY <1>1 DEF Fits, FinalizationFits, Followed
<1>4. WorkerFits(i)' /\ TargetFits(i)' /\ CopyFits(i)'
  BY <1>1 DEF Fits, WorkerFits, TargetFits, CopyFits
<1>5. Moved(i)
  BY DEF Moved, HandedOver
<1> QED
  BY <1>2, <1>3, <1>4, <1>5 DEF Keeps, Fits

\* A step of one instance.
LEMMA OneFits ==
    ASSUME CutoverInv, NEW i \in Instance, Keeps(i),
           \A j \in Instance \ {i} : Same(j)
    PROVE  \A j \in Instance : Keeps(j)
BY SameFits DEF CutoverInv

\* An unchanged table.
LEMMA QueueSame ==
    ASSUME UNCHANGED queue, NEW i \in Instance
    PROVE  EntrySame(i)
BY DEF EntrySame, Now, Stage, Queued

\* The tasks' own state.
LEMMA TasksSame ==
    ASSUME NEW i \in Instance
    PROVE  (imp' = imp => ImportSame(i)) /\ (fin' = fin => FinalSame(i))
BY DEF ImportSame, FinalSame, Placed

\* A step of createTargetVM, and one of the finalization.
LEMMA CreateStepOf ==
    ASSUME TypeOK, NEW i \in Instance, NEW step, CreateStep(i, step)
    PROVE  /\ imp'.pc = imp.pc /\ imp'.step[i] = step /\ (Placed(i)' <=> Placed(i))
           /\ \A j \in Instance \ {i} : ImportSame(j)
BY DEF TypeOK, ImportTaskState, CreateStep, ImportSame, Placed

LEMMA FinalToOf ==
    ASSUME TypeOK, NEW i \in Instance, NEW step, FinalTo(i, step)
    PROVE  /\ fin'.pc = fin.pc /\ fin'.step[i] = step /\ Read(i)' = Read(i)
           /\ \A j \in Instance \ {i} : FinalSame(j)
BY DEF TypeOK, FinalTaskState, FinalTo, FinalSame, Read

\* CleanupVM of one target VM, and PowerOnVM of one source VM.
OnlyMachines(i) == \A j \in Instance \ {i} :
    /\ source'[j] = source[j] /\ vm'[j] = vm[j] /\ disks'[j] = disks[j]
    /\ worker'[j] = worker[j]

LEMMA CleanupOf ==
    ASSUME TypeOK, NEW i \in Instance, CleanupVM(i)
    PROVE  /\ source'[i] = source[i] /\ vm'[i] = "none" /\ disks'[i] = "empty"
           /\ worker'[i] = "none"
           /\ OnlyMachines(i)
BY DEF CleanupVM, Machines, OnlyMachines, TypeOK

LEMMA PowerOnOf ==
    ASSUME TypeOK, NEW i \in Instance, PowerOnVM(i)
    PROVE  /\ source'[i] /\ vm'[i] = vm[i]
           /\ disks'[i] = IF ~source[i] /\ disks[i] # "empty" THEN "behind" ELSE disks[i]
           /\ worker'[i] = IF ~source[i] /\ worker[i] = "copy" THEN "dirty" ELSE worker[i]
           /\ OnlyMachines(i)
BY DEF PowerOnVM, Machines, OnlyMachines, TypeOK

-----------------------------------------------------------------------------
(***************************************************************************)
(* The steps of a worker and the requests it makes.                        *)
(***************************************************************************)

\* A step of a worker changes its own machines and mailbox only.
LEMMA WorkerStepLocal ==
    ASSUME TypeOK, NEW i \in Instance, WorkerStep(i)
    PROVE  /\ UNCHANGED <<queue, vm, cancel, imp, fin>>
           /\ \A j \in Instance \ {i} : Same(j)
<1>1. UNCHANGED <<queue, vm, cancel, imp, fin>>
  BY DEF WorkerStep, FinishBackgroundImport, ShutDownSource, FinishFinalImport,
         FinishPostImport, FailCommand, RestartWorker, DuringPost, database, daemon
<1>2. ASSUME NEW j \in Instance \ {i}
      PROVE  MachinesSame(j) /\ LocksSame(j)
  BY <1>1 DEF WorkerStep, FinishBackgroundImport, ShutDownSource, FinishFinalImport,
              FinishPostImport, FailCommand, RestartWorker, Post, DuringPost, daemon, TypeOK,
              MachinesSame, LocksSame
<1> QED
  BY <1>1, <1>2, QueueSame, TasksSame DEF Same

LEMMA WorkerStepFits ==
    ASSUME CutoverInv, NEW i \in Instance, WorkerStep(i)
    PROVE  \A j \in Instance : Keeps(j)
<1>1. Fits(i) /\ TypeOK
  BY DEF CutoverInv, WindowInv
<1>2. /\ EntrySame(i) /\ ImportSame(i) /\ FinalSame(i)
      /\ vm'[i] = vm[i] /\ cancel'[i] = cancel[i]
  BY <1>1, WorkerStepLocal, QueueSame, TasksSame
<1> SUFFICES Keeps(i)
  BY <1>1, WorkerStepLocal, OneFits
<1>3. CASE FinishBackgroundImport(i)
  <2>1. /\ worker[i] = "sync" /\ worker'[i] = "sent" /\ mail'[i] = "SUCCESS"
        /\ source'[i] = source[i] /\ disks'[i] = disks[i] /\ handler'[i] = handler[i]
    BY <1>1, <1>3 DEF FinishBackgroundImport, Post, DuringPost, TypeOK
  <2>2. MachinesFit(i)' /\ LocksFit(i)' /\ CreationFits(i)'
    BY <1>1, <1>2, <2>1 DEF Fits, MachinesFit, LocksFit, CreationFits, EntrySame, ImportSame,
        FinalSame
  <2>3. FinalizationFits(i)'
    BY <1>1, <1>2, <2>1 DEF Fits, FinalizationFits, Followed, Read, CheckSteps, EntrySame,
        ImportSame, FinalSame
  <2>4. WorkerFits(i)' /\ TargetFits(i)' /\ CopyFits(i)'
    BY <1>1, <1>2, <2>1 DEF Fits, WorkerFits, Imported, TargetFits, CopyFits, TakenBack,
        EntrySame, ImportSame, FinalSame
  <2>5. Moved(i)
    BY <1>1, <1>2, <2>1 DEF Moved, HandedOver, EntrySame, ImportSame, FinalSame
  <2> QED
    BY <2>2, <2>3, <2>4, <2>5 DEF Keeps, Fits
<1>4. CASE ShutDownSource(i)
  <2>1. /\ worker[i] = "shutdown" /\ worker'[i] = "copy" /\ disks'[i] = "behind" /\ ~source'[i]
        /\ mail'[i] = mail[i] /\ handler'[i] = handler[i]
    BY <1>1, <1>4 DEF ShutDownSource, daemon, TypeOK
  <2>2. MachinesFit(i)' /\ LocksFit(i)' /\ CreationFits(i)'
    BY <1>1, <1>2, <2>1 DEF Fits, MachinesFit, LocksFit, CreationFits, EntrySame, ImportSame,
        FinalSame
  <2>3. FinalizationFits(i)'
    BY <1>1, <1>2, <2>1 DEF Fits, MachinesFit, FinalizationFits, Followed, Read, CheckSteps,
        EntrySame, ImportSame, FinalSame
  <2>4. WorkerFits(i)' /\ TargetFits(i)' /\ CopyFits(i)'
    BY <1>1, <1>2, <2>1 DEF Fits, MachinesFit, WorkerFits, Imported, TargetFits, CopyFits,
        TakenBack, EntrySame, ImportSame, FinalSame
  <2>5. Moved(i)
    BY <1>1, <1>2, <2>1 DEF Moved, HandedOver, Fits, WorkerFits, EntrySame, ImportSame, FinalSame
  <2> QED
    BY <2>2, <2>3, <2>4, <2>5 DEF Keeps, Fits
<1>5. CASE FinishFinalImport(i)
  <2>1. /\ worker[i] \in {"copy", "dirty"} /\ worker'[i] = "sent" /\ mail'[i] = "SUCCESS"
        /\ disks'[i] = IF worker[i] = "copy" THEN "current" ELSE "behind"
        /\ source'[i] = source[i] /\ handler'[i] = handler[i]
    BY <1>1, <1>5 DEF FinishFinalImport, Post, DuringPost, TypeOK
  <2>2. MachinesFit(i)' /\ LocksFit(i)' /\ CreationFits(i)'
    BY <1>1, <1>2, <2>1 DEF Fits, MachinesFit, LocksFit, CreationFits, EntrySame, ImportSame,
        FinalSame
  <2>3. FinalizationFits(i)'
    BY <1>1, <1>2, <2>1 DEF Fits, MachinesFit, FinalizationFits, Followed, Read, CheckSteps,
        EntrySame, ImportSame, FinalSame
  <2>4. WorkerFits(i)' /\ TargetFits(i)' /\ CopyFits(i)'
    BY <1>1, <1>2, <2>1 DEF Fits, MachinesFit, WorkerFits, Imported, TargetFits, CopyFits,
        TakenBack, EntrySame, ImportSame, FinalSame
  <2>5. Moved(i)
    BY <1>1, <1>2, <2>1 DEF Moved, HandedOver, EntrySame, ImportSame, FinalSame
  <2> QED
    BY <2>2, <2>3, <2>4, <2>5 DEF Keeps, Fits
<1>6. CASE FinishPostImport(i)
  <2>1. /\ worker[i] = "tasks" /\ worker'[i] = "exiting" /\ mail'[i] = "SUCCESS"
        /\ disks'[i] = IF disks[i] = "current" THEN "ready" ELSE disks[i]
        /\ source'[i] = source[i] /\ handler'[i] = handler[i]
    BY <1>1, <1>6 DEF FinishPostImport, Post, DuringPost, TypeOK
  <2>2. MachinesFit(i)' /\ LocksFit(i)' /\ CreationFits(i)'
    BY <1>1, <1>2, <2>1 DEF Fits, MachinesFit, LocksFit, CreationFits, EntrySame, ImportSame,
        FinalSame
  <2>3. FinalizationFits(i)'
    BY <1>1, <1>2, <2>1 DEF Fits, FinalizationFits, Followed, Read, CheckSteps, EntrySame,
        ImportSame, FinalSame
  <2>4. WorkerFits(i)' /\ TargetFits(i)' /\ CopyFits(i)'
    BY <1>1, <1>2, <2>1 DEF Fits, WorkerFits, Imported, TargetFits, CopyFits, TakenBack,
        EntrySame, ImportSame, FinalSame
  <2>5. Moved(i)
    BY <1>1, <1>2, <2>1 DEF Moved, HandedOver, EntrySame, ImportSame, FinalSame
  <2> QED
    BY <2>2, <2>3, <2>4, <2>5 DEF Keeps, Fits
<1>7. CASE FailCommand(i)
  <2>1. /\ worker[i] \in {"sync", "shutdown", "copy", "dirty", "tasks"} /\ worker'[i] = "sent"
        /\ mail'[i] = "FAILED"
        /\ source'[i] = source[i] \/ (worker[i] = "shutdown" /\ ~source'[i])
        /\ disks'[i] = disks[i] /\ handler'[i] = handler[i]
    BY <1>1, <1>7 DEF FailCommand, Post, DuringPost, TypeOK
  <2>2. MachinesFit(i)' /\ LocksFit(i)' /\ CreationFits(i)'
    BY <1>1, <1>2, <2>1 DEF Fits, MachinesFit, LocksFit, CreationFits, EntrySame, ImportSame,
        FinalSame
  <2>3. FinalizationFits(i)'
    BY <1>1, <1>2, <2>1 DEF Fits, FinalizationFits, Followed, Read, CheckSteps, EntrySame,
        ImportSame, FinalSame
  <2>4. WorkerFits(i)' /\ TargetFits(i)' /\ CopyFits(i)'
    BY <1>1, <1>2, <2>1 DEF Fits, WorkerFits, Imported, TargetFits, CopyFits, TakenBack,
        EntrySame, ImportSame, FinalSame
  <2>5. Moved(i)
    BY <1>1, <1>2, <2>1 DEF Moved, HandedOver, Fits, MachinesFit, WorkerFits, EntrySame,
        ImportSame, FinalSame
  <2> QED
    BY <2>2, <2>3, <2>4, <2>5 DEF Keeps, Fits
<1>8. CASE RestartWorker(i)
  <2>1. /\ worker[i] # "none" /\ worker'[i] = "ask" /\ mail'[i] = "none" /\ ~handler'[i]
        /\ source'[i] = source[i] /\ disks'[i] = disks[i]
    BY <1>1, <1>8 DEF RestartWorker, TypeOK
  <2>2. MachinesFit(i)' /\ LocksFit(i)' /\ CreationFits(i)'
    BY <1>1, <1>2, <2>1 DEF Fits, MachinesFit, LocksFit, CreationFits, EntrySame, ImportSame,
        FinalSame
  <2>3. FinalizationFits(i)'
    BY <1>1, <1>2, <2>1 DEF Fits, FinalizationFits, Followed, Read, CheckSteps, EntrySame,
        ImportSame, FinalSame
  <2>4. WorkerFits(i)' /\ TargetFits(i)' /\ CopyFits(i)'
    BY <1>1, <1>2, <2>1 DEF Fits, WorkerFits, Imported, TargetFits, CopyFits, TakenBack,
        EntrySame, ImportSame, FinalSame
  <2>5. Moved(i)
    BY <1>1, <1>2, <2>1 DEF Moved, HandedOver, EntrySame, ImportSame, FinalSame
  <2> QED
    BY <2>2, <2>3, <2>4, <2>5 DEF Keeps, Fits
<1> QED
  BY <1>3, <1>4, <1>5, <1>6, <1>7, <1>8 DEF WorkerStep

\* An entry that changes, the entries that do not, and the reply to a command.
LEMMA EntryOf ==
    ASSUME TypeOK, NEW i \in Instance
    PROVE  /\ Queued(i) => queue[i] \in Entry /\ Now(i) = queue[i].status
                           /\ Now(i) # "NONE" /\ Stage(i) = queue[i].stage
           /\ ~Queued(i) => Now(i) = "NONE" /\ Stage(i) = "NONE"
BY DEF TypeOK, Queued, Now, Stage, Entry, Status

LEMMA Rewritten ==
    ASSUME TypeOK, NEW i \in Instance, NEW e \in Entry, queue' = [queue EXCEPT ![i] = e]
    PROVE  Now(i)' = e.status /\ Stage(i)' = e.stage
BY EntryAssumption DEF TypeOK, Now, Stage, Queued

LEMMA StatusSet ==
    ASSUME TypeOK, NEW i \in Instance, Queued(i), NEW status \in Status,
           NEW stage \in ImportStage, NEW w \in Window \cup {NoWindow},
           SetStatus(i, status, stage, w)
    PROVE  Now(i)' = status /\ Stage(i)' = stage
<1> DEFINE e == UpdateStatus(queue[i], status, stage, w)
<1>1. queue[i] \in Entry
  BY EntryOf
<1>2. e \in Entry /\ e.status = status /\ e.stage = stage
  BY <1>1, UpdateStatusType, UpdatedFields
<1>3. queue' = [queue EXCEPT ![i] = e]
  BY DEF SetStatus
<1> HIDE DEF e
<1> QED
  BY <1>2, <1>3, Rewritten

LEMMA OtherEntries ==
    ASSUME TypeOK, NEW i \in Instance, NEW e, queue' = [queue EXCEPT ![i] = e]
    PROVE  \A j \in Instance \ {i} : EntrySame(j)
BY DEF TypeOK, EntrySame, Now, Stage, Queued

LEMMA ReplyOf ==
    ASSUME TypeOK, NEW i \in Instance, NEW pc, Reply(i, pc)
    PROVE  /\ worker'[i] \in {worker[i], pc}
           /\ disks'[i] \in {disks[i], "behind"} /\ (worker'[i] # "sync" => disks'[i] = disks[i])
           /\ source'[i] = source[i] /\ vm'[i] = vm[i] /\ mail'[i] = mail[i]
           /\ LocksSame(i) /\ ImportSame(i) /\ FinalSame(i)
           /\ \A j \in Instance \ {i} :
                MachinesSame(j) /\ LocksSame(j) /\ ImportSame(j) /\ FinalSame(j)
<1>1. worker' = [worker EXCEPT ![i] = pc] \/ worker' = worker
  BY DEF Reply
<1>2. disks' = IF worker'[i] = "sync" THEN [disks EXCEPT ![i] = "behind"] ELSE disks
  BY DEF Reply
<1>3. UNCHANGED <<source, vm, mail, handler, cancel, imp, fin>>
  BY DEF Reply, daemon
<1>4. \A j \in Instance : LocksSame(j) /\ ImportSame(j) /\ FinalSame(j)
  BY <1>3, TasksSame DEF LocksSame
<1>5. worker'[i] \in {worker[i], pc} /\ \A j \in Instance \ {i} : worker'[j] = worker[j]
  BY <1>1 DEF TypeOK
<1>6. /\ disks'[i] \in {disks[i], "behind"} /\ (worker'[i] # "sync" => disks'[i] = disks[i])
      /\ \A j \in Instance \ {i} : disks'[j] = disks[j]
  BY <1>2 DEF TypeOK
<1> QED
  BY <1>3, <1>4, <1>5, <1>6 DEF MachinesSame

\* A request of one worker leaves the other instances alone.
LEMMA CommandLocal ==
    ASSUME TypeOK, NEW i \in Instance, NEW e, NEW pc,
           queue' = [queue EXCEPT ![i] = e] \/ UNCHANGED queue,
           Reply(i, pc) \/ ErrorReply
    PROVE  \A j \in Instance \ {i} : Same(j)
<1>1. \A j \in Instance \ {i} : EntrySame(j)
  BY OtherEntries, QueueSame
<1>2. CASE Reply(i, pc)
  BY <1>1, <1>2, ReplyOf DEF Same
<1>3. CASE ErrorReply
  BY <1>1, <1>3, TasksSame DEF ErrorReply, machines, daemon, Same, MachinesSame, LocksSame
<1> QED
  BY <1>2, <1>3

\* The entry a final import starts with.
LEMMA FinalImportBegins ==
    ASSUME TypeOK, NEW i \in Instance, MayBeginFinalImport(i), NEW w \in NextWindows(i),
           queue' = [queue EXCEPT ![i] = CheckedEntry(i, FinalImportEntry(i, w))] \/
           queue' = [queue EXCEPT ![i] = FinalImportEntry(i, w)]
    PROVE  /\ Now(i) = "IDLE" /\ Stage(i) # "complete"
           /\ Now(i)' = "FINAL_IMPORT" /\ Stage(i)' = Stage(i)
<1> DEFINE e == FinalImportEntry(i, w)
<1> DEFINE f == CheckedEntry(i, e)
<1>1. /\ Queued(i) /\ queue[i] \in Entry /\ Now(i) = "IDLE" /\ Stage(i) = queue[i].stage
      /\ Stage(i) # "complete"
  BY EntryOf DEF MayBeginFinalImport, Asks, Known
<1>2. e \in Entry /\ e.status = "FINAL_IMPORT" /\ e.stage = Stage(i)
  BY <1>1, FinalImportEntryType, UpdatedFields DEF FinalImportEntry
<1>3. f \in Entry /\ f.status = e.status /\ f.stage = e.stage
  <2> HIDE DEF e
  <2> QED
    BY <1>2, CheckedType DEF CheckedEntry, Entry
<1>4. queue' = [queue EXCEPT ![i] = e] \/ queue' = [queue EXCEPT ![i] = f]
  OBVIOUS
<1> HIDE DEF e, f
<1> QED
  BY <1>1, <1>2, <1>3, <1>4, Rewritten

\* The commands that start an import.
LEMMA BeginBackgroundFits ==
    ASSUME CutoverInv, NEW i \in Instance, BeginBackgroundImport(i) \/ RepeatBackgroundImport(i)
    PROVE  \A j \in Instance : Keeps(j)
<1>1. Fits(i) /\ TypeOK
  BY DEF CutoverInv, WindowInv
<1>2. Queued(i) /\ queue[i] \in Entry /\ Now(i) = "IDLE" /\ Stage(i) = queue[i].stage
  BY <1>1, EntryOf DEF BeginBackgroundImport, RepeatBackgroundImport, Asks, Known
<1>3. SetStatus(i, "BACKGROUND_IMPORT", "background", queue[i].window) /\ Reply(i, "sync")
  BY DEF BeginBackgroundImport, RepeatBackgroundImport
<1>4. Now(i)' = "BACKGROUND_IMPORT" /\ Stage(i)' = "background"
  <2> "BACKGROUND_IMPORT" \in Status /\ "background" \in ImportStage
    BY DEF Status, ImportStage
  <2> QED
    BY <1>1, <1>2, <1>3, EntryFields, StatusSet
<1>5. Stage(i) # "complete" /\ worker[i] = "ask"
  BY <1>2 DEF BeginBackgroundImport, RepeatBackgroundImport, Asks
<1> SUFFICES Keeps(i)
  BY <1>1, <1>3, CommandLocal, OneFits DEF SetStatus
<1>6. /\ Now(i) = "IDLE" /\ Stage(i) # "complete" /\ Now(i)' = "BACKGROUND_IMPORT"
      /\ Stage(i)' = "background" /\ worker[i] = "ask" /\ worker'[i] \in {"ask", "sync"}
      /\ disks'[i] \in {disks[i], "behind"} /\ source'[i] = source[i] /\ vm'[i] = vm[i]
      /\ mail'[i] = mail[i] /\ LocksSame(i) /\ ImportSame(i) /\ FinalSame(i)
  BY <1>1, <1>2, <1>3, <1>4, <1>5, ReplyOf
<1>7. MachinesFit(i)' /\ LocksFit(i)' /\ CreationFits(i)'
  BY <1>1, <1>6 DEF Fits, MachinesFit, LocksFit, CreationFits, LocksSame, ImportSame, FinalSame
<1>8. FinalizationFits(i)'
  BY <1>1, <1>6 DEF Fits, FinalizationFits, Followed, Read, CheckSteps, LocksSame, ImportSame,
      FinalSame
<1>9. WorkerFits(i)' /\ TargetFits(i)' /\ CopyFits(i)'
  BY <1>1, <1>6 DEF Fits, WorkerFits, Imported, TargetFits, CopyFits, TakenBack, LocksSame,
      ImportSame, FinalSame
<1>10. Moved(i)
  BY <1>1, <1>6 DEF Moved, HandedOver, LocksSame, ImportSame, FinalSame
<1> QED
  BY <1>7, <1>8, <1>9, <1>10 DEF Keeps, Fits

LEMMA BeginFinalFits ==
    ASSUME CutoverInv, NEW i \in Instance, BeginFinalImport(i) \/ BeginFinalImportUnchecked(i)
    PROVE  \A j \in Instance : Keeps(j)
<1>1. Fits(i) /\ TypeOK
  BY DEF CutoverInv, WindowInv
<1>2. PICK w \in NextWindows(i) :
          queue' = [queue EXCEPT ![i] = CheckedEntry(i, FinalImportEntry(i, w))] \/
          queue' = [queue EXCEPT ![i] = FinalImportEntry(i, w)]
  BY DEF BeginFinalImport, BeginFinalImportUnchecked
<1>3. MayBeginFinalImport(i) /\ (Reply(i, "shutdown") \/ ErrorReply)
  BY DEF BeginFinalImport, BeginFinalImportUnchecked
<1>4. /\ Now(i) = "IDLE" /\ Stage(i) # "complete"
      /\ Now(i)' = "FINAL_IMPORT" /\ Stage(i)' = Stage(i)
  BY <1>1, <1>2, <1>3, FinalImportBegins
<1>5. worker[i] = "ask"
  BY <1>3 DEF MayBeginFinalImport, Asks
<1>6. ErrorReply => MachinesSame(i) /\ LocksSame(i) /\ ImportSame(i) /\ FinalSame(i)
  BY TasksSame DEF ErrorReply, machines, daemon, MachinesSame, LocksSame
<1> SUFFICES Keeps(i)
  BY <1>1, <1>2, <1>3, CommandLocal, OneFits
<1>7. /\ Now(i) = "IDLE" /\ Stage(i) # "complete" /\ Now(i)' = "FINAL_IMPORT"
      /\ worker[i] = "ask" /\ worker'[i] \in {"ask", "shutdown"} /\ Stage(i)' = Stage(i)
      /\ source'[i] = source[i] /\ vm'[i] = vm[i] /\ disks'[i] = disks[i] /\ mail'[i] = mail[i]
      /\ LocksSame(i) /\ ImportSame(i) /\ FinalSame(i)
  BY <1>1, <1>3, <1>4, <1>5, <1>6, ReplyOf DEF MachinesSame
<1>8. MachinesFit(i)' /\ LocksFit(i)' /\ CreationFits(i)'
  BY <1>1, <1>7 DEF Fits, MachinesFit, LocksFit, CreationFits, LocksSame, ImportSame, FinalSame
<1>9. FinalizationFits(i)'
  BY <1>1, <1>7 DEF Fits, FinalizationFits, Followed, Read, CheckSteps, LocksSame, ImportSame,
      FinalSame
<1>10. WorkerFits(i)' /\ TargetFits(i)' /\ CopyFits(i)'
  BY <1>1, <1>7 DEF Fits, MachinesFit, WorkerFits, Imported, TargetFits, CopyFits, TakenBack,
      LocksSame, ImportSame, FinalSame
<1>11. Moved(i)
  BY <1>1, <1>7 DEF Moved, HandedOver, LocksSame, ImportSame, FinalSame
<1> QED
  BY <1>8, <1>9, <1>10, <1>11 DEF Keeps, Fits

LEMMA BeginPostFits ==
    ASSUME CutoverInv, NEW i \in Instance, BeginPostImport(i)
    PROVE  \A j \in Instance : Keeps(j)
<1>1. Fits(i) /\ TypeOK
  BY DEF CutoverInv, WindowInv
<1>2. Queued(i) /\ queue[i] \in Entry /\ Now(i) = "IDLE" /\ Stage(i) = queue[i].stage
  BY <1>1, EntryOf DEF BeginPostImport, Asks, Known
<1>3. PICK w \in NextWindows(i) : SetStatus(i, "POST_IMPORT", "complete", Recorded(i, w))
  BY DEF BeginPostImport
<1>4. Now(i)' = "POST_IMPORT" /\ Stage(i)' = "complete"
  <2> "POST_IMPORT" \in Status /\ "complete" \in ImportStage
    BY DEF Status, ImportStage
  <2> QED
    BY <1>1, <1>2, <1>3, NextWindowType, StatusSet
<1>5. Stage(i) = "complete" /\ worker[i] = "ask" /\ Reply(i, "tasks")
  BY <1>2 DEF BeginPostImport, Asks
<1> SUFFICES Keeps(i)
  BY <1>1, <1>3, <1>5, CommandLocal, OneFits DEF SetStatus
<1>6. /\ Now(i) = "IDLE" /\ Stage(i) = "complete" /\ Now(i)' = "POST_IMPORT"
      /\ Stage(i)' = "complete" /\ worker[i] = "ask" /\ worker'[i] \in {"ask", "tasks"}
      /\ source'[i] = source[i] /\ vm'[i] = vm[i] /\ disks'[i] = disks[i] /\ mail'[i] = mail[i]
      /\ LocksSame(i) /\ ImportSame(i) /\ FinalSame(i)
  BY <1>1, <1>2, <1>4, <1>5, ReplyOf
<1>7. MachinesFit(i)' /\ LocksFit(i)' /\ CreationFits(i)'
  BY <1>1, <1>6 DEF Fits, MachinesFit, LocksFit, CreationFits, LocksSame, ImportSame, FinalSame
<1>8. FinalizationFits(i)'
  BY <1>1, <1>6 DEF Fits, FinalizationFits, Followed, Read, CheckSteps, LocksSame, ImportSame,
      FinalSame
<1>9. WorkerFits(i)' /\ TargetFits(i)' /\ CopyFits(i)'
  BY <1>1, <1>6 DEF Fits, MachinesFit, WorkerFits, Imported, TargetFits, CopyFits, TakenBack,
      LocksSame, ImportSame, FinalSame
<1>10. Moved(i)
  BY <1>1, <1>6 DEF Moved, HandedOver, LocksSame, ImportSame, FinalSame
<1> QED
  BY <1>7, <1>8, <1>9, <1>10 DEF Keeps, Fits

\* A command that is sent again.
LEMMA ReissueFits ==
    ASSUME CutoverInv, NEW i \in Instance, ReissueCommand(i)
    PROVE  \A j \in Instance : Keeps(j)
<1>1. Fits(i) /\ TypeOK
  BY DEF CutoverInv, WindowInv
<1>2. /\ Queued(i) /\ queue[i] \in Entry /\ Now(i) = queue[i].status /\ Stage(i) = queue[i].stage
      /\ worker[i] = "ask"
  BY <1>1, EntryOf DEF ReissueCommand, Asks, Known
<1>3. CheckedEntry(i, queue[i]) \in Entry /\ CheckedEntry(i, queue[i]).status = queue[i].status
      /\ CheckedEntry(i, queue[i]).stage = queue[i].stage
  BY <1>1, <1>2, CheckedType DEF CheckedEntry, Entry
<1>4. \/ Now(i) = "BACKGROUND_IMPORT" /\ UNCHANGED queue /\ Reply(i, "sync")
      \/ /\ Now(i) = "FINAL_IMPORT" /\ Reply(i, "shutdown")
         /\ queue' = [queue EXCEPT ![i] = CheckedEntry(i, queue[i])]
      \/ Now(i) = "POST_IMPORT" /\ UNCHANGED queue /\ Reply(i, "tasks")
  BY <1>2 DEF ReissueCommand, ReissuedCommand
<1>5. EntrySame(i)
  BY <1>1, <1>2, <1>3, <1>4, Rewritten, QueueSame DEF EntrySame
<1> SUFFICES Keeps(i)
  BY <1>1, <1>4, CommandLocal, OneFits
<1>6. /\ worker[i] = "ask"
      /\ \/ /\ Now(i) = "BACKGROUND_IMPORT" /\ worker'[i] \in {"ask", "sync"}
            /\ disks'[i] \in {disks[i], "behind"}
         \/ Now(i) = "FINAL_IMPORT" /\ worker'[i] \in {"ask", "shutdown"} /\ disks'[i] = disks[i]
         \/ Now(i) = "POST_IMPORT" /\ worker'[i] \in {"ask", "tasks"} /\ disks'[i] = disks[i]
      /\ source'[i] = source[i] /\ vm'[i] = vm[i] /\ mail'[i] = mail[i] /\ EntrySame(i)
      /\ LocksSame(i) /\ ImportSame(i) /\ FinalSame(i)
  BY <1>1, <1>2, <1>4, <1>5, ReplyOf
<1>7. MachinesFit(i)' /\ LocksFit(i)' /\ CreationFits(i)'
  BY <1>1, <1>6 DEF Fits, MachinesFit, LocksFit, CreationFits, EntrySame, LocksSame, ImportSame,
      FinalSame
<1>8. FinalizationFits(i)'
  BY <1>1, <1>6 DEF Fits, FinalizationFits, Followed, Read, CheckSteps, EntrySame, LocksSame,
      ImportSame, FinalSame
<1>9. WorkerFits(i)' /\ TargetFits(i)' /\ CopyFits(i)'
  BY <1>1, <1>6 DEF Fits, WorkerFits, Imported, TargetFits, CopyFits, TakenBack, EntrySame,
      LocksSame, ImportSame, FinalSame
<1>10. Moved(i)
  BY <1>1, <1>6 DEF Moved, HandedOver, EntrySame, LocksSame, ImportSame, FinalSame
<1> QED
  BY <1>7, <1>8, <1>9, <1>10 DEF Keeps, Fits

\* What a response makes of the status and stage of an entry.
LEMMA ResponseFields ==
    ASSUME NEW e \in Entry
    PROVE  /\ LET f == ProcessWorkerUpdate(e, "RUNNING")
              IN  f.status = e.status /\ f.stage = e.stage
           /\ LET f == ProcessWorkerUpdate(e, "FAILED")
              IN  f.status = "ERROR" /\ f.stage = e.stage
           /\ LET f == ProcessWorkerUpdate(e, "SUCCESS")
              IN  \/ e.status = "BACKGROUND_IMPORT" /\ f.status = "IDLE" /\ f.stage = "final"
                  \/ e.status = "FINAL_IMPORT" /\ f.status = "IDLE" /\ f.stage = "complete"
                  \/ e.status = "POST_IMPORT" /\ f.status = "WORKER_DONE" /\ f.stage = e.stage
                  \/ /\ e.status \notin {"BACKGROUND_IMPORT", "FINAL_IMPORT", "POST_IMPORT"}
                     /\ f.status = e.status /\ f.stage = e.stage
<1>1. /\ ProcessWorkerUpdate(e, "RUNNING").status = e.status
      /\ ProcessWorkerUpdate(e, "RUNNING").stage = e.stage
  BY DEF ProcessWorkerUpdate, Entry
<1>2. /\ ProcessWorkerUpdate(e, "FAILED").status = "ERROR"
      /\ ProcessWorkerUpdate(e, "FAILED").stage = e.stage
  BY DEF ProcessWorkerUpdate, Entry
<1>3. /\ ProcessWorkerUpdate(e, "SUCCESS").status = Succeeded(e).status
      /\ ProcessWorkerUpdate(e, "SUCCESS").stage = Succeeded(e).stage
  BY SucceededType DEF ProcessWorkerUpdate, Entry
<1>4. \/ /\ e.status = "BACKGROUND_IMPORT"
         /\ Succeeded(e).status = "IDLE" /\ Succeeded(e).stage = "final"
      \/ /\ e.status = "FINAL_IMPORT"
         /\ Succeeded(e).status = "IDLE" /\ Succeeded(e).stage = "complete"
      \/ /\ e.status = "POST_IMPORT"
         /\ Succeeded(e).status = "WORKER_DONE" /\ Succeeded(e).stage = e.stage
      \/ /\ e.status \notin {"BACKGROUND_IMPORT", "FINAL_IMPORT", "POST_IMPORT"}
         /\ Succeeded(e) = e
  BY DEF Succeeded, Entry
<1> QED
  BY <1>1, <1>2, <1>3, <1>4

\* An update changes the entry, mailbox, worker and handler of its instance only.
LEMMA UpdateLocal ==
    ASSUME TypeOK, NEW i \in Instance, HandleUpdate(i) \/ LoseUpdate(i)
    PROVE  /\ \A j \in Instance \ {i} : Same(j)
           /\ UNCHANGED <<source, vm, disks, cancel, imp, fin>>
           /\ worker'[i] = Answered(i) /\ mail'[i] = "none"
<1>1. UNCHANGED <<source, vm, disks, cancel, imp, fin>>
  BY DEF HandleUpdate, LoseUpdate, DuringPost
<1>2. /\ mail' = [mail EXCEPT ![i] = "none"]
      /\ worker' = [worker EXCEPT ![i] = Answered(i)]
      /\ handler' = [handler EXCEPT ![i] = queue'[i].status = "ERROR" /\ queue[i].running]
         \/ handler' = handler
      /\ queue' = [queue EXCEPT ![i] = ProcessWorkerUpdate(queue[i], mail[i])] \/ queue' = queue
  BY DEF HandleUpdate, LoseUpdate, DuringPost, database
<1>3. \A j \in Instance \ {i} : EntrySame(j)
  BY <1>2, OtherEntries, QueueSame
<1>4. \A j \in Instance \ {i} : MachinesSame(j) /\ LocksSame(j)
  BY <1>1, <1>2 DEF TypeOK, MachinesSame, LocksSame
<1>5. \A j \in Instance : ImportSame(j) /\ FinalSame(j)
  BY <1>1, TasksSame
<1>6. worker'[i] = Answered(i) /\ mail'[i] = "none"
  BY <1>2 DEF TypeOK
<1> QED
  BY <1>1, <1>3, <1>4, <1>5, <1>6 DEF Same

LEMMA UpdateFits ==
    ASSUME CutoverInv, NEW i \in Instance, HandleUpdate(i) \/ LoseUpdate(i)
    PROVE  \A j \in Instance : Keeps(j)
<1>1. Fits(i) /\ TypeOK
  BY DEF CutoverInv, WindowInv
<1>2. /\ UNCHANGED <<source, vm, disks, cancel, imp, fin>>
      /\ worker'[i] = Answered(i) /\ mail'[i] = "none" /\ mail[i] # "none"
  BY <1>1, UpdateLocal DEF HandleUpdate, LoseUpdate
<1>3. ImportSame(i) /\ FinalSame(i)
  BY <1>2, TasksSame
<1> SUFFICES Keeps(i)
  BY <1>1, UpdateLocal, OneFits
<1>4. CASE LoseUpdate(i) \/ ~Accepts(i)
  <2>1. /\ mail[i] # "none" /\ mail'[i] = "none" /\ worker'[i] = Answered(i)
        /\ source'[i] = source[i] /\ vm'[i] = vm[i] /\ disks'[i] = disks[i] /\ EntrySame(i)
        /\ LocksSame(i) /\ ImportSame(i) /\ FinalSame(i)
    BY <1>1, <1>2, <1>3, <1>4, QueueSame DEF HandleUpdate, LoseUpdate, DuringPost, database,
        LocksSame, EntrySame
  <2>2. MachinesFit(i)' /\ LocksFit(i)' /\ CreationFits(i)'
    BY <1>1, <2>1 DEF Fits, MachinesFit, LocksFit, CreationFits, Answered, EntrySame, LocksSame,
        ImportSame, FinalSame
  <2>3. FinalizationFits(i)'
    BY <1>1, <2>1 DEF Fits, FinalizationFits, Followed, Read, CheckSteps, Answered, EntrySame,
        LocksSame, ImportSame, FinalSame
  <2>4. WorkerFits(i)' /\ TargetFits(i)' /\ CopyFits(i)'
    BY <1>1, <2>1 DEF Fits, WorkerFits, Imported, TargetFits, CopyFits, TakenBack, Answered,
        EntrySame, LocksSame, ImportSame, FinalSame
  <2>5. Moved(i)
    BY <1>1, <2>1 DEF Moved, HandedOver, Answered, EntrySame, LocksSame, ImportSame, FinalSame
  <2> QED
    BY <2>2, <2>3, <2>4, <2>5 DEF Keeps, Fits
<1>5. CASE HandleUpdate(i) /\ Accepts(i) /\ mail[i] = "SUCCESS"
  <2>1. /\ Queued(i) /\ queue[i] \in Entry /\ Now(i) = queue[i].status
        /\ Stage(i) = queue[i].stage /\ Now(i) \in Migrating /\ cancel[i] = "idle"
    BY <1>1, <1>5, EntryOf DEF HandleUpdate, Accepts, Known, IsMigrating, WriteLocked
  <2>2. /\ queue' = [queue EXCEPT ![i] = ProcessWorkerUpdate(queue[i], "SUCCESS")]
        /\ handler'[i] = (queue'[i].status = "ERROR" /\ queue[i].running)
    BY <1>1, <1>5 DEF HandleUpdate, TypeOK
  <2>3. ProcessWorkerUpdate(queue[i], "SUCCESS") \in Entry
    BY <2>1, ProcessWorkerUpdateType DEF Response
  <2>4. /\ Now(i)' = ProcessWorkerUpdate(queue[i], "SUCCESS").status
        /\ Stage(i)' = ProcessWorkerUpdate(queue[i], "SUCCESS").stage
        /\ queue'[i].status = Now(i)'
    BY <1>1, <2>2, <2>3, Rewritten DEF TypeOK
  <2>5. /\ mail[i] = "SUCCESS" /\ mail'[i] = "none" /\ worker'[i] = Answered(i) /\ ~handler'[i]
        /\ \/ Now(i) = "BACKGROUND_IMPORT" /\ Now(i)' = "IDLE" /\ Stage(i)' = "final"
           \/ Now(i) = "FINAL_IMPORT" /\ Now(i)' = "IDLE" /\ Stage(i)' = "complete"
           \/ Now(i) = "POST_IMPORT" /\ Now(i)' = "WORKER_DONE" /\ Stage(i)' = Stage(i)
           \/ /\ Now(i) \notin {"BACKGROUND_IMPORT", "FINAL_IMPORT", "POST_IMPORT"}
              /\ Now(i)' = Now(i) /\ Stage(i)' = Stage(i)
        /\ source'[i] = source[i] /\ vm'[i] = vm[i] /\ disks'[i] = disks[i]
        /\ cancel'[i] = cancel[i] /\ ImportSame(i) /\ FinalSame(i)
    <3>1. mail[i] = "SUCCESS" /\ mail'[i] = "none" /\ worker'[i] = Answered(i)
        BY <1>1, <1>2, <1>3, <1>5
    <3>2. \/ Now(i) = "BACKGROUND_IMPORT" /\ Now(i)' = "IDLE" /\ Stage(i)' = "final"
          \/ Now(i) = "FINAL_IMPORT" /\ Now(i)' = "IDLE" /\ Stage(i)' = "complete"
          \/ Now(i) = "POST_IMPORT" /\ Now(i)' = "WORKER_DONE" /\ Stage(i)' = Stage(i)
          \/ /\ Now(i) \notin {"BACKGROUND_IMPORT", "FINAL_IMPORT", "POST_IMPORT"}
             /\ Now(i)' = Now(i) /\ Stage(i)' = Stage(i)
        BY <2>1, <2>4, ResponseFields
    <3>3. Now(i)' # "ERROR"
        BY <2>1, <3>2 DEF Migrating
    <3>4. ~handler'[i]
        BY <2>2, <2>4, <3>3
    <3> QED
        BY <1>1, <1>2, <1>3, <1>5, <2>1, <3>1, <3>2, <3>4
  <2>6. MachinesFit(i)' /\ LocksFit(i)' /\ CreationFits(i)'
    BY <1>1, <2>5 DEF Fits, MachinesFit, LocksFit, CreationFits, Answered, ImportSame, FinalSame
  <2>7. FinalizationFits(i)'
    BY <1>1, <2>5 DEF Fits, FinalizationFits, Followed, Read, CheckSteps, Answered, ImportSame,
        FinalSame
  <2>8. WorkerFits(i)' /\ TargetFits(i)'
    BY <1>1, <2>5 DEF Fits, MachinesFit, WorkerFits, Imported, TargetFits, Answered, ImportSame,
        FinalSame
  <2>9. CopyFits(i)'
    BY <1>1, <2>5 DEF Fits, CopyFits, Imported, TakenBack, Answered, ImportSame, FinalSame
  <2>10. Moved(i)
    BY <1>1, <2>5 DEF Moved, HandedOver, Answered, ImportSame, FinalSame
  <2> QED
    BY <2>6, <2>7, <2>8, <2>9, <2>10 DEF Keeps, Fits
<1>6. CASE HandleUpdate(i) /\ Accepts(i) /\ mail[i] = "FAILED"
  <2>1. /\ Queued(i) /\ queue[i] \in Entry /\ Now(i) = queue[i].status
        /\ Stage(i) = queue[i].stage /\ Now(i) \in Migrating /\ cancel[i] = "idle"
    BY <1>1, <1>6, EntryOf DEF HandleUpdate, Accepts, Known, IsMigrating, WriteLocked
  <2>2. /\ queue' = [queue EXCEPT ![i] = ProcessWorkerUpdate(queue[i], "FAILED")]
        /\ handler'[i] = (queue'[i].status = "ERROR" /\ queue[i].running)
    BY <1>1, <1>6 DEF HandleUpdate, TypeOK
  <2>3. ProcessWorkerUpdate(queue[i], "FAILED") \in Entry
    BY <2>1, ProcessWorkerUpdateType DEF Response
  <2>4. /\ Now(i)' = ProcessWorkerUpdate(queue[i], "FAILED").status
        /\ Stage(i)' = ProcessWorkerUpdate(queue[i], "FAILED").stage
        /\ queue'[i].status = Now(i)'
    BY <1>1, <2>2, <2>3, Rewritten DEF TypeOK
  <2>5. /\ mail[i] = "FAILED" /\ mail'[i] = "none" /\ worker'[i] = Answered(i)
        /\ Now(i) \in Migrating /\ Now(i)' = "ERROR" /\ cancel[i] = "idle"
        /\ Stage(i)' = Stage(i) /\ source'[i] = source[i] /\ vm'[i] = vm[i]
        /\ disks'[i] = disks[i] /\ cancel'[i] = cancel[i] /\ ImportSame(i) /\ FinalSame(i)
    BY <1>1, <1>2, <1>3, <1>6, <2>1, <2>4, ResponseFields
  <2>6. MachinesFit(i)' /\ LocksFit(i)' /\ CreationFits(i)'
    BY <1>1, <2>5 DEF Fits, MachinesFit, LocksFit, CreationFits, Answered, Migrating,
        ImportSame, FinalSame
  <2>7. FinalizationFits(i)'
    BY <1>1, <2>5 DEF Fits, MachinesFit, FinalizationFits, Followed, Read, CheckSteps,
        WorkerFits, Imported, Answered, Migrating, ImportSame, FinalSame
  <2>8. WorkerFits(i)' /\ TargetFits(i)' /\ CopyFits(i)'
    BY <1>1, <2>5 DEF Fits, MachinesFit, WorkerFits, Imported, TargetFits, CopyFits,
        TakenBack, Answered, Migrating, ImportSame, FinalSame
  <2>9. Moved(i)
    BY <1>1, <2>5 DEF Moved, HandedOver, Answered, Migrating, ImportSame, FinalSame
  <2> QED
    BY <2>6, <2>7, <2>8, <2>9 DEF Keeps, Fits
<1> QED
  BY <1>1, <1>2, <1>4, <1>5, <1>6 DEF TypeOK

\* A progress report changes nothing of it.
LEMMA ProgressFits ==
    ASSUME CutoverInv, NEW i \in Instance, ReportProgress(i)
    PROVE  \A j \in Instance : Keeps(j)
<1> DEFINE e == ProcessWorkerUpdate(queue[i], "RUNNING")
<1>1. TypeOK /\ \A j \in Instance : Fits(j)
  BY DEF CutoverInv, WindowInv
<1>2. /\ queue[i] \in Entry /\ Now(i) = queue[i].status /\ Stage(i) = queue[i].stage
      /\ queue' = [queue EXCEPT ![i] = e] /\ UNCHANGED <<machines, daemon>>
  BY <1>1, EntryOf DEF ReportProgress, Accepts, Known
<1>3. e \in Entry /\ e.status = Now(i) /\ e.stage = Stage(i)
  BY <1>2, ResponseFields, ProcessWorkerUpdateType DEF Response
<1> HIDE DEF e
<1>4. \A j \in Instance : EntrySame(j)
  BY <1>1, <1>2, <1>3, Rewritten, OtherEntries DEF EntrySame
<1> QED
  BY <1>1, <1>2, <1>4, TasksSame, SameFits DEF Same, MachinesSame, LocksSame, machines, daemon

\* The source VM of an entry that failed is powered on.
LEMMA RestorePowerFits ==
    ASSUME CutoverInv, NEW i \in Instance, RestorePower(i)
    PROVE  \A j \in Instance : Keeps(j)
<1>1. Fits(i) /\ TypeOK
  BY DEF CutoverInv, WindowInv
<1>2. /\ UNCHANGED <<queue, mail, cancel, imp, fin>>
      /\ handler' = [handler EXCEPT ![i] = FALSE] /\ handler[i] /\ ~handler'[i]
  BY <1>1 DEF RestorePower, database, TypeOK
<1>3. \A j \in Instance : EntrySame(j) /\ ImportSame(j) /\ FinalSame(j)
  BY <1>2, TasksSame, QueueSame
<1>4. CASE PowerOnVM(i)
  <2>1. \A j \in Instance \ {i} : Same(j)
    BY <1>1, <1>2, <1>3, <1>4, PowerOnOf DEF OnlyMachines, Same, MachinesSame, LocksSame, TypeOK
  <2> SUFFICES Keeps(i)
    BY <1>1, <2>1, OneFits
  <2>2. /\ handler[i] /\ ~handler'[i] /\ vm'[i] = vm[i] /\ source'[i]
        /\ disks'[i] = IF ~source[i] /\ disks[i] # "empty" THEN "behind" ELSE disks[i]
        /\ worker'[i] = IF ~source[i] /\ worker[i] = "copy" THEN "dirty" ELSE worker[i]
        /\ vm'[i] = vm[i] /\ mail'[i] = mail[i] /\ cancel'[i] = cancel[i] /\ EntrySame(i)
        /\ ImportSame(i) /\ FinalSame(i)
    BY <1>1, <1>2, <1>3, <1>4, PowerOnOf
  <2>3. MachinesFit(i)' /\ LocksFit(i)' /\ CreationFits(i)'
    BY <1>1, <2>2 DEF Fits, MachinesFit, LocksFit, CreationFits, EntrySame, ImportSame,
        FinalSame
  <2>4. FinalizationFits(i)'
    BY <1>1, <2>2 DEF Fits, LocksFit, FinalizationFits, Followed, Read, CheckSteps, EntrySame,
        ImportSame, FinalSame
  <2>5. WorkerFits(i)' /\ TargetFits(i)' /\ CopyFits(i)'
    BY <1>1, <2>2 DEF Fits, LocksFit, WorkerFits, Imported, TargetFits, CopyFits, TakenBack,
        EntrySame, ImportSame, FinalSame
  <2>6. Moved(i)
    BY <1>1, <2>2 DEF Moved, HandedOver, EntrySame, ImportSame, FinalSame
  <2> QED
    BY <2>3, <2>4, <2>5, <2>6 DEF Keeps, Fits
<1>5. CASE UNCHANGED machines
  <2>1. \A j \in Instance \ {i} : Same(j)
    BY <1>1, <1>2, <1>3, <1>5 DEF machines, Same, MachinesSame, LocksSame, TypeOK
  <2> SUFFICES Keeps(i)
    BY <1>1, <2>1, OneFits
  <2>2. /\ handler[i] /\ ~handler'[i] /\ cancel'[i] = cancel[i] /\ EntrySame(i)
        /\ MachinesSame(i) /\ ImportSame(i) /\ FinalSame(i)
    BY <1>1, <1>2, <1>3, <1>5 DEF machines, MachinesSame
  <2>3. MachinesFit(i)' /\ LocksFit(i)' /\ CreationFits(i)'
    BY <1>1, <2>2 DEF Fits, MachinesFit, LocksFit, CreationFits, EntrySame, MachinesSame,
        ImportSame, FinalSame
  <2>4. FinalizationFits(i)'
    BY <1>1, <2>2 DEF Fits, FinalizationFits, Followed, Read, CheckSteps, EntrySame,
        MachinesSame, ImportSame, FinalSame
  <2>5. WorkerFits(i)' /\ TargetFits(i)' /\ CopyFits(i)'
    BY <1>1, <2>2 DEF Fits, WorkerFits, Imported, TargetFits, CopyFits, TakenBack, EntrySame,
        MachinesSame, ImportSame, FinalSame
  <2>6. Moved(i)
    BY <1>1, <2>2 DEF Moved, HandedOver, EntrySame, MachinesSame, ImportSame, FinalSame
  <2> QED
    BY <2>3, <2>4, <2>5, <2>6 DEF Keeps, Fits
<1> QED
  BY <1>4, <1>5 DEF RestorePower

LEMMA WorkerRequestFits ==
    ASSUME CutoverInv, NEW i \in Instance, WorkerRequest(i)
    PROVE  \A j \in Instance : Keeps(j)
BY BeginBackgroundFits, BeginFinalFits, BeginPostFits, ReissueFits, ProgressFits, UpdateFits,
   RestorePowerFits DEF WorkerRequest

-----------------------------------------------------------------------------
(***************************************************************************)
(* The requests of the user, the owners of the source VMs and the clock.   *)
(***************************************************************************)

\* A request that waits for the tasks and handlers finds none at work.
LEMMA ExclusiveOf ==
    ASSUME Exclusive, NEW i \in Instance
    PROVE  imp.pc = "idle" /\ fin.pc = "idle" /\ ~handler[i] /\ cancel[i] = "idle"
BY DEF Exclusive, WriteLocked, ReadLocked

\* A request that only changes an entry.
LEMMA RequestLocal ==
    ASSUME TypeOK, NEW i \in Instance, NEW e, queue' = [queue EXCEPT ![i] = e],
           UNCHANGED <<machines, DuringRequest>>,
           \A j \in Instance \ {i} : cancel'[j] = cancel[j]
    PROVE  /\ \A j \in Instance \ {i} : Same(j)
           /\ MachinesSame(i) /\ ImportSame(i) /\ FinalSame(i) /\ handler'[i] = handler[i]
BY OtherEntries, TasksSame DEF Same, MachinesSame, LocksSame, machines, DuringRequest

LEMMA CancelFits ==
    ASSUME CutoverInv, NEW i \in Instance, CancelEntry(i)
    PROVE  \A j \in Instance : Keeps(j)
<1> DEFINE e == Cancel(queue[i])
<1>1. Fits(i) /\ TypeOK
  BY DEF CutoverInv, WindowInv
<1>2. /\ queue[i] \in Entry /\ Now(i) = queue[i].status /\ Now(i) # "FINISHED"
      /\ queue' = [queue EXCEPT ![i] = e]
  BY <1>1, EntryOf DEF CancelEntry, MayCancel
<1>3. e \in Entry /\ e.status = "CANCELED" /\ e.stage = "background"
  BY <1>2, UpdateStatusType, UpdatedFields DEF Cancel, Status, ImportStage
<1>4. UNCHANGED <<machines, DuringRequest>> /\ \A j \in Instance \ {i} : cancel'[j] = cancel[j]
  BY <1>1 DEF CancelEntry, TypeOK
<1> HIDE DEF e
<1>5. Exclusive /\ "cancel" \in Requests
  BY DEF CancelEntry
<1> SUFFICES Keeps(i)
  BY <1>1, <1>2, <1>4, RequestLocal, OneFits
<1>6. /\ imp.pc = "idle" /\ fin.pc = "idle" /\ ~handler[i] /\ Now(i) # "FINISHED"
      /\ Now(i)' = "CANCELED" /\ Stage(i)' = "background" /\ handler'[i] = handler[i]
      /\ MachinesSame(i) /\ ImportSame(i) /\ FinalSame(i)
  BY <1>1, <1>2, <1>3, <1>4, <1>5, ExclusiveOf, RequestLocal, Rewritten
<1>7. MachinesFit(i)' /\ LocksFit(i)' /\ CreationFits(i)'
  BY <1>1, <1>6 DEF Fits, MachinesFit, LocksFit, CreationFits, MachinesSame, ImportSame,
      FinalSame
<1>8. FinalizationFits(i)'
  BY <1>1, <1>6 DEF Fits, FinalizationFits, Followed, Read, CheckSteps, MachinesSame,
      ImportSame, FinalSame
<1>9. WorkerFits(i)' /\ TargetFits(i)' /\ CopyFits(i)'
  BY <1>1, <1>5, <1>6 DEF Fits, WorkerFits, Imported, TargetFits, CopyFits, TakenBack, MachinesSame,
      ImportSame, FinalSame
<1>10. Moved(i)
  BY <1>1, <1>6 DEF Moved, HandedOver, MachinesSame, ImportSame, FinalSame
<1> QED
  BY <1>7, <1>8, <1>9, <1>10 DEF Keeps, Fits

\* The rest of a cancel: the deletion of the target VM ...
LEMMA CancelCleanupFits ==
    ASSUME CutoverInv, Reliable, NEW i \in Instance, CancelCleanup(i)
    PROVE  \A j \in Instance : Keeps(j)
<1>1. Fits(i) /\ TypeOK
  BY DEF CutoverInv, WindowInv
<1>2. /\ CleanupVM(i) /\ cancel[i] # "idle" /\ UNCHANGED <<database, DuringRequest>>
      /\ \A j \in Instance \ {i} : cancel'[j] = cancel[j]
  BY <1>1 DEF CancelCleanup, Reliable, TypeOK
<1>3. \A j \in Instance : /\ EntrySame(j) /\ ImportSame(j) /\ FinalSame(j)
                          /\ mail'[j] = mail[j] /\ handler'[j] = handler[j]
  BY <1>2, TasksSame, QueueSame DEF DuringRequest, database
<1>4. \A j \in Instance \ {i} : Same(j)
  BY <1>1, <1>2, <1>3, CleanupOf DEF OnlyMachines, Same, MachinesSame, LocksSame
<1> SUFFICES Keeps(i)
  BY <1>1, <1>4, OneFits
<1>5. /\ cancel[i] # "idle" /\ source'[i] = source[i] /\ vm'[i] = "none" /\ disks'[i] = "empty"
      /\ worker'[i] = "none" /\ mail'[i] = mail[i] /\ handler'[i] = handler[i] /\ EntrySame(i)
      /\ ImportSame(i) /\ FinalSame(i)
  BY <1>1, <1>2, <1>3, CleanupOf
<1>6. MachinesFit(i)' /\ LocksFit(i)' /\ CreationFits(i)'
  BY <1>1, <1>5 DEF Fits, MachinesFit, LocksFit, CreationFits, EntrySame, ImportSame, FinalSame
<1>7. FinalizationFits(i)'
  BY <1>1, <1>5 DEF Fits, LocksFit, FinalizationFits, Followed, Read, CheckSteps, EntrySame,
      ImportSame, FinalSame
<1>8. WorkerFits(i)' /\ TargetFits(i)' /\ CopyFits(i)'
  BY <1>1, <1>5 DEF Fits, LocksFit, WorkerFits, Imported, TargetFits, CopyFits, TakenBack,
      EntrySame, ImportSame, FinalSame
<1>9. Moved(i)
  BY <1>1, <1>5 DEF Moved, HandedOver, Fits, LocksFit, FinalizationFits, Followed, Read,
      CheckSteps, TargetFits, Imported, EntrySame, ImportSame, FinalSame
<1> QED
  BY <1>6, <1>7, <1>8, <1>9 DEF Keeps, Fits

\* ... and the start of the source VM.
LEMMA CancelPowerOnFits ==
    ASSUME CutoverInv, NEW i \in Instance, CancelPowerOn(i)
    PROVE  \A j \in Instance : Keeps(j)
<1>1. Fits(i) /\ TypeOK
  BY DEF CutoverInv, WindowInv
<1>2. /\ cancel[i] # "idle" /\ cancel'[i] = "idle" /\ UNCHANGED <<database, DuringRequest>>
      /\ \A j \in Instance \ {i} : cancel'[j] = cancel[j]
  BY <1>1 DEF CancelPowerOn, TypeOK
<1>3. \A j \in Instance : /\ EntrySame(j) /\ ImportSame(j) /\ FinalSame(j)
                          /\ mail'[j] = mail[j] /\ handler'[j] = handler[j]
  BY <1>2, TasksSame, QueueSame DEF DuringRequest, database
<1>4. CASE PowerOnVM(i)
  <2>1. \A j \in Instance \ {i} : Same(j)
    BY <1>1, <1>2, <1>3, <1>4, PowerOnOf DEF OnlyMachines, Same, MachinesSame, LocksSame
  <2> SUFFICES Keeps(i)
    BY <1>1, <2>1, OneFits
  <2>2. /\ cancel[i] # "idle" /\ cancel'[i] = "idle" /\ vm'[i] = vm[i] /\ source'[i]
        /\ disks'[i] = IF ~source[i] /\ disks[i] # "empty" THEN "behind" ELSE disks[i]
        /\ worker'[i] = IF ~source[i] /\ worker[i] = "copy" THEN "dirty" ELSE worker[i]
        /\ mail'[i] = mail[i] /\ handler'[i] = handler[i] /\ EntrySame(i) /\ ImportSame(i)
        /\ FinalSame(i)
    BY <1>1, <1>2, <1>3, <1>4, PowerOnOf
  <2>3. MachinesFit(i)' /\ LocksFit(i)' /\ CreationFits(i)'
    BY <1>1, <2>2 DEF Fits, MachinesFit, LocksFit, CreationFits, EntrySame, ImportSame,
        FinalSame
  <2>4. FinalizationFits(i)'
    BY <1>1, <2>2 DEF Fits, LocksFit, FinalizationFits, Followed, Read, CheckSteps, EntrySame,
        ImportSame, FinalSame
  <2>5. WorkerFits(i)' /\ TargetFits(i)' /\ CopyFits(i)'
    BY <1>1, <2>2 DEF Fits, LocksFit, WorkerFits, Imported, TargetFits, CopyFits, TakenBack,
        EntrySame, ImportSame, FinalSame
  <2>6. Moved(i)
    BY <1>1, <2>2 DEF Moved, HandedOver, EntrySame, ImportSame, FinalSame
  <2> QED
    BY <2>3, <2>4, <2>5, <2>6 DEF Keeps, Fits
<1>5. CASE UNCHANGED machines
  <2>1. \A j \in Instance \ {i} : Same(j)
    BY <1>2, <1>3, <1>5 DEF machines, Same, MachinesSame, LocksSame
  <2> SUFFICES Keeps(i)
    BY <1>1, <2>1, OneFits
  <2>2. /\ cancel[i] # "idle" /\ cancel'[i] = "idle" /\ handler'[i] = handler[i]
        /\ EntrySame(i) /\ MachinesSame(i) /\ ImportSame(i) /\ FinalSame(i)
    BY <1>2, <1>3, <1>5 DEF machines, MachinesSame
  <2>3. MachinesFit(i)' /\ LocksFit(i)' /\ CreationFits(i)'
    BY <1>1, <2>2 DEF Fits, MachinesFit, LocksFit, CreationFits, EntrySame, MachinesSame,
        ImportSame, FinalSame
  <2>4. FinalizationFits(i)'
    BY <1>1, <2>2 DEF Fits, FinalizationFits, Followed, Read, CheckSteps, EntrySame,
        MachinesSame, ImportSame, FinalSame
  <2>5. WorkerFits(i)' /\ TargetFits(i)' /\ CopyFits(i)'
    BY <1>1, <2>2 DEF Fits, WorkerFits, Imported, TargetFits, CopyFits, TakenBack, EntrySame,
        MachinesSame, ImportSame, FinalSame
  <2>6. Moved(i)
    BY <1>1, <2>2 DEF Moved, HandedOver, EntrySame, MachinesSame, ImportSame, FinalSame
  <2> QED
    BY <2>3, <2>4, <2>5, <2>6 DEF Keeps, Fits
<1> QED
  BY <1>4, <1>5 DEF CancelPowerOn

\* A canceled entry starts over.
LEMMA RetryFits ==
    ASSUME CutoverInv, NEW i \in Instance, RetryEntry(i)
    PROVE  \A j \in Instance : Keeps(j)
<1>1. Fits(i) /\ TypeOK
  BY DEF CutoverInv, WindowInv
<1>2. PICK status \in InitialStatus, running \in InitialRunning(i) :
          queue' = [queue EXCEPT ![i] = Retry(queue[i], status, running)]
  BY DEF RetryEntry
<1> DEFINE e == Retry(queue[i], status, running)
<1>3. queue[i] \in Entry /\ Now(i) = "CANCELED"
  BY <1>1, EntryOf DEF RetryEntry
<1>4. e \in Entry /\ e.status \in {"WAITING", "BLOCKED"}
  <2>1. status \in {"WAITING", "BLOCKED"} /\ running \in BOOLEAN
    BY <1>1, <1>2, InitialRunningType DEF InitialStatus
  <2> DEFINE f == UpdateStatus(queue[i], status, "background", NoWindow)
  <2>2. f \in Entry /\ f.status = status
    BY <1>3, <2>1, UpdateStatusType, UpdatedFields DEF Status, ImportStage
  <2>3. e = [f EXCEPT !.running = running]
    BY DEF Retry
  <2> HIDE DEF e, f
  <2> QED
    BY <2>1, <2>2, <2>3, RunningType DEF Entry
<1>5. UNCHANGED <<machines, DuringRequest>> /\ UNCHANGED cancel /\ Exclusive
  BY DEF RetryEntry
<1>6. queue' = [queue EXCEPT ![i] = e]
  BY <1>2
<1> HIDE DEF e
<1> SUFFICES Keeps(i)
  BY <1>1, <1>5, <1>6, RequestLocal, OneFits
<1>7. /\ imp.pc = "idle" /\ fin.pc = "idle" /\ ~handler[i] /\ cancel[i] = "idle"
      /\ Now(i) = "CANCELED" /\ Now(i)' \in {"WAITING", "BLOCKED"} /\ MachinesSame(i)
      /\ LocksSame(i) /\ ImportSame(i) /\ FinalSame(i)
  BY <1>1, <1>3, <1>4, <1>5, <1>6, ExclusiveOf, RequestLocal, Rewritten DEF LocksSame
<1>8. MachinesFit(i)' /\ LocksFit(i)' /\ CreationFits(i)'
  BY <1>1, <1>7 DEF Fits, MachinesFit, LocksFit, CreationFits, MachinesSame, LocksSame,
      ImportSame, FinalSame
<1>9. FinalizationFits(i)'
  BY <1>1, <1>7 DEF Fits, FinalizationFits, Followed, Read, CheckSteps, MachinesSame, LocksSame,
      ImportSame, FinalSame
<1>10. WorkerFits(i)' /\ TargetFits(i)' /\ CopyFits(i)'
  BY <1>1, <1>7 DEF Fits, WorkerFits, Imported, TargetFits, CopyFits, TakenBack, MachinesSame,
      LocksSame, ImportSame, FinalSame
<1>11. Moved(i)
  BY <1>1, <1>7 DEF Moved, HandedOver, MachinesSame, LocksSame, ImportSame, FinalSame
<1> QED
  BY <1>8, <1>9, <1>10, <1>11 DEF Keeps, Fits

\* The user settles a conflict.
LEMMA ResolveFits ==
    ASSUME CutoverInv, NEW i \in Instance, ResolveEntry(i)
    PROVE  \A j \in Instance : Keeps(j)
<1> DEFINE e == Resolve(queue[i])
<1>1. Fits(i) /\ TypeOK
  BY DEF CutoverInv, WindowInv
<1>2. /\ queue[i] \in Entry /\ Now(i) = "CONFLICT" /\ Stage(i) = queue[i].stage
      /\ queue' = [queue EXCEPT ![i] = e]
  BY <1>1, EntryOf DEF ResolveEntry
<1>3. /\ e \in Entry /\ e.stage = Stage(i)
      /\ e.status = IF Stage(i) = "complete" THEN "WORKER_DONE" ELSE "WAITING"
  BY <1>2 DEF Resolve, Entry, Status
<1>4. UNCHANGED <<machines, DuringRequest>> /\ UNCHANGED cancel /\ Exclusive
  BY DEF ResolveEntry
<1> HIDE DEF e
<1> SUFFICES Keeps(i)
  BY <1>1, <1>2, <1>4, RequestLocal, OneFits
<1>5. /\ imp.pc = "idle" /\ fin.pc = "idle" /\ ~handler[i] /\ cancel[i] = "idle"
      /\ Now(i) = "CONFLICT"
      /\ Now(i)' = IF Stage(i) = "complete" THEN "WORKER_DONE" ELSE "WAITING"
      /\ Stage(i)' = Stage(i) /\ MachinesSame(i) /\ LocksSame(i) /\ ImportSame(i)
      /\ FinalSame(i)
  BY <1>1, <1>2, <1>3, <1>4, ExclusiveOf, RequestLocal, Rewritten DEF LocksSame
<1>6. MachinesFit(i)' /\ LocksFit(i)' /\ CreationFits(i)'
  BY <1>1, <1>5 DEF Fits, MachinesFit, LocksFit, CreationFits, MachinesSame, LocksSame,
      ImportSame, FinalSame
<1>7. FinalizationFits(i)'
  BY <1>1, <1>5 DEF Fits, FinalizationFits, Followed, Read, CheckSteps, MachinesSame, LocksSame,
      ImportSame, FinalSame
<1>8. WorkerFits(i)' /\ TargetFits(i)' /\ CopyFits(i)'
  BY <1>1, <1>5 DEF Fits, WorkerFits, Imported, TargetFits, CopyFits, TakenBack, MachinesSame,
      LocksSame, ImportSame, FinalSame
<1>9. Moved(i)
  BY <1>1, <1>5 DEF Moved, HandedOver, MachinesSame, LocksSame, ImportSame, FinalSame
<1> QED
  BY <1>6, <1>7, <1>8, <1>9 DEF Keeps, Fits

LEMMA EntryRequestFits ==
    ASSUME CutoverInv, Reliable, NEW i \in Instance, EntryRequest(i)
    PROVE  \A j \in Instance : Keeps(j)
<1>1. ~DeleteEntry(i)
  BY DEF Reliable, DeleteEntry
<1> QED
  BY <1>1, CancelFits, CancelCleanupFits, CancelPowerOnFits, RetryFits, ResolveFits
     DEF EntryRequest

\* The start of a batch queues instances that are not queued.
LEMMA StartFits ==
    ASSUME CutoverInv, NEW b \in Batch, StartBatch(b), NEW i \in Instance
    PROVE  Keeps(i)
<1>1. Fits(i) /\ TypeOK
  BY DEF CutoverInv, WindowInv
<1> DEFINE added == {j \in Assigned[b] : ~Queued(j)}
<1> DEFINE statuses == InitialStatus \cup (IF "change" \in Faults THEN {"CONFLICT"} ELSE {})
<1> DEFINE Started(status, running) ==
            queue' = [j \in Instance |->
                        IF j \in added THEN NewEntry(b, FreshSecret(j), status[j], running[j])
                        ELSE queue[j]]
<1>2. PICK status \in [added -> {"WAITING", "BLOCKED", "CONFLICT"}],
           running \in [added -> BOOLEAN] : Started(status, running)
  <2>1. PICK status \in [added -> statuses], running \in [added -> BOOLEAN] :
            Started(status, running)
    BY Zenon DEF StartBatch
  <2>2. statuses \subseteq {"WAITING", "BLOCKED", "CONFLICT"}
    BY DEF InitialStatus
  <2> HIDE DEF added, statuses, Started
  <2>3. status \in [added -> {"WAITING", "BLOCKED", "CONFLICT"}]
    BY <2>1, <2>2
  <2> QED
    BY <2>1, <2>3
<1>3. MachinesSame(i) /\ LocksSame(i) /\ ImportSame(i) /\ FinalSame(i)
  BY TasksSame DEF StartBatch, machines, DuringRequest, MachinesSame, LocksSame
<1>4. CASE i \in added
  <2>1. /\ ~Queued(i) /\ queue'[i] # NoEntry
        /\ queue'[i].status \in {"WAITING", "BLOCKED", "CONFLICT"} /\ queue'[i].stage = "background"
    <3> DEFINE e == NewEntry(b, FreshSecret(i), status[i], running[i])
    <3>1. e \in Entry /\ e.status = status[i] /\ e.stage = "background"
      BY <1>4, FreshSecretType, NewEntryType DEF Status, NewEntry
    <3>2. queue'[i] = e
      BY <1>2, <1>4
    <3> HIDE DEF e
    <3> QED
      BY <1>4, <3>1, <3>2, EntryAssumption
  <2>2. /\ Now(i) = "NONE" /\ Now(i)' \in {"WAITING", "BLOCKED", "CONFLICT"}
        /\ Stage(i)' = "background" /\ MachinesSame(i) /\ LocksSame(i) /\ ImportSame(i)
        /\ FinalSame(i)
    BY <1>1, <1>3, <2>1, EntryOf DEF Now, Stage, Queued
  <2>3. MachinesFit(i)' /\ LocksFit(i)' /\ CreationFits(i)'
    BY <1>1, <2>2 DEF Fits, MachinesFit, LocksFit, CreationFits, MachinesSame, LocksSame,
        ImportSame, FinalSame
  <2>4. FinalizationFits(i)'
    BY <1>1, <2>2 DEF Fits, FinalizationFits, Followed, Read, CheckSteps, MachinesSame,
        LocksSame, ImportSame, FinalSame
  <2>5. WorkerFits(i)' /\ TargetFits(i)' /\ CopyFits(i)'
    BY <1>1, <2>2 DEF Fits, WorkerFits, Imported, TargetFits, CopyFits, TakenBack, MachinesSame,
        LocksSame, ImportSame, FinalSame
  <2>6. Moved(i)
    BY <1>1, <2>2 DEF Moved, HandedOver, MachinesSame, LocksSame, ImportSame, FinalSame
  <2> QED
    BY <2>3, <2>4, <2>5, <2>6 DEF Keeps, Fits
<1>5. CASE i \notin added
  <2>1. queue'[i] = queue[i]
    BY <1>2, <1>5
  <2>2. Same(i)
    BY <1>3, <2>1 DEF Same, EntrySame, Now, Stage, Queued
  <2> QED
    BY <1>1, <2>2, SameFits
<1> QED
  BY <1>4, <1>5


\* The owner of a source VM that starts or stops it before the final import.
LEMMA SwitchFits ==
    ASSUME CutoverInv, NEW i \in Instance, SwitchSource(i)
    PROVE  \A j \in Instance : Keeps(j)
<1>1. Fits(i) /\ TypeOK
  BY DEF CutoverInv, WindowInv
<1>2. \A j \in Instance : /\ EntrySame(j) /\ LocksSame(j) /\ ImportSame(j) /\ FinalSame(j)
                          /\ mail'[j] = mail[j]
  BY TasksSame, QueueSame DEF SwitchSource, database, daemon, LocksSame
<1>3. CASE PowerOnVM(i)
  <2>1. \A j \in Instance \ {i} : Same(j)
    BY <1>1, <1>2, <1>3, PowerOnOf DEF OnlyMachines, Same, MachinesSame
  <2> SUFFICES Keeps(i)
    BY <1>1, <2>1, OneFits
  <2>2. /\ Now(i) \notin {"NONE", "FINISHED", "ERROR", "CANCELED",
                       "FINAL_IMPORT", "POST_IMPORT", "WORKER_DONE"}
        /\ Now(i) \in {"IDLE", "CONFLICT"} => Stage(i) # "complete"
        /\ vm'[i] = vm[i] /\ source'[i]
        /\ disks'[i] = IF ~source[i] /\ disks[i] # "empty" THEN "behind" ELSE disks[i]
        /\ worker'[i] = IF ~source[i] /\ worker[i] = "copy" THEN "dirty" ELSE worker[i]
        /\ vm'[i] = vm[i] /\ mail'[i] = mail[i] /\ EntrySame(i) /\ LocksSame(i)
        /\ ImportSame(i) /\ FinalSame(i)
    BY <1>1, <1>2, <1>3, PowerOnOf, EntryOf DEF SwitchSource, IsCommitted
  <2>3. MachinesFit(i)' /\ LocksFit(i)' /\ CreationFits(i)'
    BY <1>1, <2>2 DEF Fits, MachinesFit, LocksFit, CreationFits, EntrySame, LocksSame,
        ImportSame, FinalSame
  <2>4. FinalizationFits(i)'
    BY <1>1, <2>2 DEF Fits, FinalizationFits, Followed, Read, CheckSteps, EntrySame, LocksSame,
        ImportSame, FinalSame
  <2>5. WorkerFits(i)' /\ TargetFits(i)' /\ CopyFits(i)'
    BY <1>1, <2>2 DEF Fits, WorkerFits, Imported, TargetFits, CopyFits, TakenBack, EntrySame,
        LocksSame, ImportSame, FinalSame
  <2>6. Moved(i)
    BY <1>1, <2>2 DEF Moved, HandedOver, EntrySame, LocksSame, ImportSame, FinalSame
  <2> QED
    BY <2>3, <2>4, <2>5, <2>6 DEF Keeps, Fits
<1>4. CASE source' = [source EXCEPT ![i] = FALSE] /\ UNCHANGED <<vm, disks, worker>>
  <2>1. \A j \in Instance \ {i} : Same(j)
    BY <1>1, <1>2, <1>4 DEF Same, MachinesSame, TypeOK
  <2> SUFFICES Keeps(i)
    BY <1>1, <2>1, OneFits
  <2>2. /\ ~source'[i] /\ vm'[i] = vm[i] /\ disks'[i] = disks[i] /\ worker'[i] = worker[i]
        /\ mail'[i] = mail[i] /\ EntrySame(i) /\ LocksSame(i) /\ ImportSame(i) /\ FinalSame(i)
    BY <1>1, <1>2, <1>4 DEF TypeOK
  <2>3. MachinesFit(i)' /\ LocksFit(i)' /\ CreationFits(i)'
    BY <1>1, <2>2 DEF Fits, MachinesFit, LocksFit, CreationFits, EntrySame, LocksSame,
        ImportSame, FinalSame
  <2>4. FinalizationFits(i)'
    BY <1>1, <2>2 DEF Fits, FinalizationFits, Followed, Read, CheckSteps, EntrySame, LocksSame,
        ImportSame, FinalSame
  <2>5. WorkerFits(i)' /\ TargetFits(i)' /\ CopyFits(i)'
    BY <1>1, <2>2 DEF Fits, WorkerFits, Imported, TargetFits, CopyFits, TakenBack, EntrySame,
        LocksSame, ImportSame, FinalSame
  <2>6. Moved(i)
    BY <1>1, <2>2 DEF SwitchSource, Moved, HandedOver, Fits, MachinesFit, EntrySame, LocksSame,
        ImportSame, FinalSame
  <2> QED
    BY <2>3, <2>4, <2>5, <2>6 DEF Keeps, Fits
<1> QED
  BY <1>3, <1>4 DEF SwitchSource

\* The clock, and the stop of a batch.
LEMMA IdleFits ==
    ASSUME CutoverInv, UNCHANGED <<queue, machines, daemon>>
    PROVE  \A j \in Instance : Keeps(j)
<1>1. \A j \in Instance : Same(j)
  BY TasksSame, QueueSame DEF Same, MachinesSame, LocksSame, machines, daemon
<1> QED
  BY <1>1, SameFits DEF CutoverInv

LEMMA BatchRequestFits ==
    ASSUME CutoverInv, Reliable, NEW b \in Batch, BatchRequest(b)
    PROVE  \A j \in Instance : Keeps(j)
<1>1. StartBatch(b) \/ StopBatch(b)
  BY DEF BatchRequest, Reliable, ResetBatch, ResetBatchFails, MayReset
<1>2. StopBatch(b) => UNCHANGED <<queue, machines, daemon>>
  BY DEF StopBatch, DuringRequest, daemon
<1> QED
  BY <1>1, <1>2, StartFits, IdleFits

-----------------------------------------------------------------------------
(***************************************************************************)
(* The steps of beginImports.                                              *)
(***************************************************************************)

\* A new status of an entry, and the end of a run.
LEMMA Restated ==
    ASSUME TypeOK, NEW i \in Instance, Queued(i), NEW status \in Status,
           queue'[i] = [queue[i] EXCEPT !.status = status]
    PROVE  Now(i)' = status /\ Stage(i)' = Stage(i)
<1> DEFINE e == [queue[i] EXCEPT !.status = status]
<1>1. queue[i] \in Entry
  BY EntryOf
<1>2. e \in Entry /\ e.status = status /\ e.stage = queue[i].stage
  BY <1>1, StatusType DEF Entry
<1>3. queue'[i] = e
  OBVIOUS
<1> HIDE DEF e
<1> QED
  BY <1>2, <1>3, EntryOf, EntryAssumption DEF Now, Stage, Queued

LEMMA ImportIdles ==
    ASSUME NEW i \in Instance, imp' = IdleImport
    PROVE  imp'.pc = "idle" /\ imp'.step[i] = "none" /\ ~Placed(i)'
BY DEF IdleImport, Placed

\* What most steps of the task leave alone.
LEMMA DuringImportSame ==
    ASSUME UNCHANGED <<machines, DuringImport>>, NEW i \in Instance
    PROVE  MachinesSame(i) /\ LocksSame(i) /\ FinalSame(i)
BY TasksSame DEF machines, DuringImport, MachinesSame, LocksSame

LEMMA ReassessFits ==
    ASSUME CutoverInv, ReassessBlocked, NEW i \in Instance
    PROVE  Keeps(i)
<1>1. Fits(i) /\ TypeOK
  BY DEF CutoverInv, WindowInv
<1> DEFINE assessed == MigrationState({"BLOCKED", "WAITING"})
<1>2. PICK blocked :
          queue' = [j \in Instance |->
                      IF j \notin assessed THEN queue[j]
                      ELSE [queue[j] EXCEPT
                              !.status = IF j \in blocked THEN "BLOCKED" ELSE "WAITING"]]
  BY Zenon DEF ReassessBlocked
<1>3. \/ queue'[i] = queue[i]
      \/ /\ Now(i) \in {"BLOCKED", "WAITING"} /\ Queued(i)
         /\ \E status \in {"BLOCKED", "WAITING"} :
                queue'[i] = [queue[i] EXCEPT !.status = status]
  <2>1. CASE i \notin assessed
    BY <1>2, <2>1
  <2>2. CASE i \in assessed
    <3>1. queue[i].status \in {"BLOCKED", "WAITING"} /\ Queued(i)
      BY <2>2 DEF MigrationState
    <3> HIDE DEF assessed
    <3> QED
      BY <1>1, <1>2, <2>2, <3>1, EntryOf
  <2> QED
    BY <2>1, <2>2
<1>4. /\ Stage(i)' = Stage(i)
      /\ \/ Now(i)' = Now(i)
         \/ Now(i) \in {"BLOCKED", "WAITING"} /\ Now(i)' \in {"BLOCKED", "WAITING"}
  <2>1. CASE queue'[i] = queue[i]
    BY <2>1 DEF Now, Stage, Queued
  <2> QED
    BY <1>1, <1>3, <2>1, Restated DEF Status
<1>5. /\ imp.pc = "idle" /\ imp'.pc = "place" /\ ~Placed(i)' /\ imp'.step[i] = imp.step[i]
      /\ cancel[i] = "idle"
  BY <1>1 DEF ReassessBlocked, ImportTo, TypeOK, ImportTaskState, Placed, WriteLocked
<1>6. MachinesSame(i) /\ LocksSame(i) /\ FinalSame(i)
  BY DuringImportSame DEF ReassessBlocked
<1>7. /\ imp.pc = "idle" /\ imp'.pc = "place" /\ cancel[i] = "idle" /\ ~Placed(i)'
      /\ \/ Now(i)' = Now(i)
         \/ Now(i) \in {"BLOCKED", "WAITING"} /\ Now(i)' \in {"BLOCKED", "WAITING"}
      /\ Stage(i)' = Stage(i) /\ imp'.step[i] = imp.step[i] /\ MachinesSame(i) /\ LocksSame(i)
      /\ FinalSame(i)
  BY <1>4, <1>5, <1>6
<1>8. MachinesFit(i)' /\ LocksFit(i)' /\ CreationFits(i)'
  BY <1>1, <1>7 DEF Fits, MachinesFit, LocksFit, CreationFits, MachinesSame, LocksSame,
      FinalSame
<1>9. FinalizationFits(i)'
  BY <1>1, <1>7 DEF Fits, FinalizationFits, Followed, Read, CheckSteps, MachinesSame, LocksSame,
      FinalSame
<1>10. WorkerFits(i)' /\ TargetFits(i)' /\ CopyFits(i)'
  BY <1>1, <1>7 DEF Fits, WorkerFits, Imported, TargetFits, CopyFits, TakenBack, MachinesSame,
      LocksSame, FinalSame
<1>11. Moved(i)
  BY <1>1, <1>7 DEF Moved, HandedOver, MachinesSame, LocksSame, FinalSame
<1> QED
  BY <1>8, <1>9, <1>10, <1>11 DEF Keeps, Fits

LEMMA PlaceFits ==
    ASSUME CutoverInv, PlaceWaiting, NEW i \in Instance
    PROVE  Keeps(i)
<1>1. Fits(i) /\ TypeOK
  BY DEF CutoverInv, WindowInv
<1> DEFINE waiting == MigrationState({"WAITING"})
<1>2. PICK blocked \in Blockable(waiting) :
        /\ queue' = [j \in Instance |->
                        IF j \in blocked THEN [queue[j] EXCEPT !.status = "BLOCKED"]
                        ELSE queue[j]]
        /\ \/ imp' = IdleImport
           \/ imp' = [pc |-> "ensure",
                      snapshot |-> {<<j, queue[j].batch>> : j \in waiting \ blocked},
                      secret |-> [j \in Instance |->
                          IF j \in waiting \ blocked THEN queue[j].secret ELSE 0],
                      step |-> imp.step]
  BY Zenon DEF PlaceWaiting
<1>3. blocked \subseteq waiting
  BY <1>2 DEF Blockable
<1>4. i \in waiting => Queued(i) /\ Now(i) = "WAITING"
  BY <1>1, EntryOf DEF MigrationState
<1> HIDE DEF waiting
<1>5. /\ Stage(i)' = Stage(i)
      /\ i \in blocked => Now(i) = "WAITING" /\ Now(i)' = "BLOCKED"
      /\ i \notin blocked => Now(i)' = Now(i)
  <2>1. CASE i \in blocked
    <3>1. Queued(i) /\ queue'[i] = [queue[i] EXCEPT !.status = "BLOCKED"]
      BY <1>2, <1>3, <1>4, <2>1
    <3> QED
      BY <1>1, <1>3, <1>4, <2>1, <3>1, Restated DEF Status
  <2>2. CASE i \notin blocked
    <3>1. queue'[i] = queue[i]
      BY <1>2, <2>2
    <3> QED
      BY <2>2, <3>1 DEF Now, Stage, Queued
  <2> QED
    BY <2>1, <2>2
<1>6. MachinesSame(i) /\ LocksSame(i) /\ FinalSame(i) /\ imp.pc = "place"
  BY DuringImportSame DEF PlaceWaiting
<1>7. CASE imp' = IdleImport
  <2>1. /\ imp.pc = "place" /\ imp'.pc = "idle" /\ imp'.step[i] = "none" /\ ~Placed(i)'
        /\ Now(i)' = Now(i) \/ (Now(i) = "WAITING" /\ Now(i)' = "BLOCKED")
        /\ Stage(i)' = Stage(i) /\ MachinesSame(i) /\ LocksSame(i) /\ FinalSame(i)
    BY <1>5, <1>6, <1>7, ImportIdles
  <2>2. MachinesFit(i)' /\ LocksFit(i)' /\ CreationFits(i)'
    BY <1>1, <2>1 DEF Fits, MachinesFit, LocksFit, CreationFits, MachinesSame, LocksSame,
        FinalSame
  <2>3. FinalizationFits(i)'
    BY <1>1, <2>1 DEF Fits, FinalizationFits, Followed, Read, CheckSteps, MachinesSame,
        LocksSame, FinalSame
  <2>4. WorkerFits(i)' /\ TargetFits(i)' /\ CopyFits(i)'
    BY <1>1, <2>1 DEF Fits, WorkerFits, Imported, TargetFits, CopyFits, TakenBack, MachinesSame,
        LocksSame, FinalSame
  <2>5. Moved(i)
    BY <1>1, <2>1 DEF Moved, HandedOver, MachinesSame, LocksSame, FinalSame
  <2> QED
    BY <2>2, <2>3, <2>4, <2>5 DEF Keeps, Fits
<1>8. CASE imp' = [pc |-> "ensure",
                   snapshot |-> {<<j, queue[j].batch>> : j \in waiting \ blocked},
                   secret |-> [j \in Instance |->
                       IF j \in waiting \ blocked THEN queue[j].secret ELSE 0],
                   step |-> imp.step]
  <2>1. imp'.pc = "ensure" /\ imp'.step = imp.step
        /\ imp'.snapshot = {<<j, queue[j].batch>> : j \in waiting \ blocked}
    BY <1>8
  <2>2. Placed(i)' => i \in waiting \ blocked
    BY <2>1 DEF Placed
  <2>3. /\ imp.pc = "place" /\ imp'.pc = "ensure"
        /\ Placed(i)' => Now(i)' = "WAITING"
        /\ Now(i)' = Now(i) \/ (Now(i) = "WAITING" /\ Now(i)' = "BLOCKED")
        /\ Stage(i)' = Stage(i) /\ imp'.step[i] = imp.step[i] /\ MachinesSame(i)
        /\ LocksSame(i) /\ FinalSame(i)
    BY <1>4, <1>5, <1>6, <2>1, <2>2
  <2>4. MachinesFit(i)' /\ LocksFit(i)' /\ CreationFits(i)'
    BY <1>1, <2>3 DEF Fits, MachinesFit, LocksFit, CreationFits, MachinesSame, LocksSame,
        FinalSame
  <2>5. FinalizationFits(i)'
    BY <1>1, <2>3 DEF Fits, FinalizationFits, Followed, Read, CheckSteps, MachinesSame,
        LocksSame, FinalSame
  <2>6. WorkerFits(i)' /\ TargetFits(i)' /\ CopyFits(i)'
    BY <1>1, <2>3 DEF Fits, WorkerFits, Imported, TargetFits, CopyFits, TakenBack, MachinesSame,
        LocksSame, FinalSame
  <2>7. Moved(i)
    BY <1>1, <2>3 DEF Moved, HandedOver, MachinesSame, LocksSame, FinalSame
  <2> QED
    BY <2>4, <2>5, <2>6, <2>7 DEF Keeps, Fits
<1> QED
  BY <1>2, <1>7, <1>8

\* The last step of a run.
LEMMA EndsImportFits ==
    ASSUME CutoverInv, imp' = IdleImport, UNCHANGED <<queue, machines, DuringImport>>,
           NEW i \in Instance
    PROVE  Keeps(i)
<1>1. Fits(i)
  BY DEF CutoverInv
<1>2. /\ imp'.pc = "idle" /\ imp'.step[i] = "none" /\ ~Placed(i)' /\ EntrySame(i)
      /\ MachinesSame(i) /\ LocksSame(i) /\ FinalSame(i)
  BY ImportIdles, QueueSame, DuringImportSame
<1>3. MachinesFit(i)' /\ LocksFit(i)' /\ CreationFits(i)'
  BY <1>1, <1>2 DEF Fits, MachinesFit, LocksFit, CreationFits, EntrySame, MachinesSame,
      LocksSame, FinalSame
<1>4. FinalizationFits(i)'
  BY <1>1, <1>2 DEF Fits, FinalizationFits, Followed, Read, CheckSteps, EntrySame, MachinesSame,
      LocksSame, FinalSame
<1>5. WorkerFits(i)' /\ TargetFits(i)' /\ CopyFits(i)'
  BY <1>1, <1>2 DEF Fits, WorkerFits, Imported, TargetFits, CopyFits, TakenBack, EntrySame,
      MachinesSame, LocksSame, FinalSame
<1>6. Moved(i)
  BY <1>1, <1>2 DEF Moved, HandedOver, EntrySame, MachinesSame, LocksSame, FinalSame
<1> QED
  BY <1>3, <1>4, <1>5, <1>6 DEF Keeps, Fits

LEMMA EnsureFits ==
    ASSUME CutoverInv, EnsureImages, NEW i \in Instance
    PROVE  Keeps(i)
<1>1. Fits(i) /\ TypeOK
  BY DEF CutoverInv, WindowInv
<1>2. UNCHANGED <<queue, machines, DuringImport>> /\ imp.pc = "ensure"
  BY DEF EnsureImages
<1>3. CASE imp' = IdleImport
  BY <1>2, <1>3, EndsImportFits
<1>4. CASE \E ignored : ImportTo("claim", {s \in imp.snapshot : s[2] \notin ignored})
  <2>1. /\ imp.pc = "ensure" /\ imp'.pc = "claim"
        /\ Placed(i)' => Placed(i)
        /\ imp'.step[i] = imp.step[i] /\ EntrySame(i) /\ MachinesSame(i) /\ LocksSame(i)
        /\ FinalSame(i)
    BY <1>1, <1>2, <1>4, QueueSame, DuringImportSame DEF ImportTo, TypeOK, ImportTaskState, Placed
  <2>2. MachinesFit(i)' /\ LocksFit(i)' /\ CreationFits(i)'
    BY <1>1, <2>1 DEF Fits, MachinesFit, LocksFit, CreationFits, EntrySame, MachinesSame,
        LocksSame, FinalSame
  <2>3. FinalizationFits(i)'
    BY <1>1, <2>1 DEF Fits, FinalizationFits, Followed, Read, CheckSteps, EntrySame,
        MachinesSame, LocksSame, FinalSame
  <2>4. WorkerFits(i)' /\ TargetFits(i)' /\ CopyFits(i)'
    BY <1>1, <2>1 DEF Fits, WorkerFits, Imported, TargetFits, CopyFits, TakenBack, EntrySame,
        MachinesSame, LocksSame, FinalSame
  <2>5. Moved(i)
    BY <1>1, <2>1 DEF Moved, HandedOver, EntrySame, MachinesSame, LocksSame, FinalSame
  <2> QED
    BY <2>2, <2>3, <2>4, <2>5 DEF Keeps, Fits
<1> QED
  BY <1>3, <1>4 DEF EnsureImages

LEMMA ClaimFits ==
    ASSUME CutoverInv, ClaimEntries, NEW i \in Instance
    PROVE  Keeps(i)
<1>1. Fits(i) /\ TypeOK
  BY DEF CutoverInv, WindowInv
<1>2. MachinesSame(i) /\ LocksSame(i) /\ FinalSame(i) /\ imp.pc = "claim"
  BY DuringImportSame DEF ClaimEntries
<1>3. CASE imp' = IdleImport /\ UNCHANGED queue
  BY <1>3, EndsImportFits DEF ClaimEntries
<1>4. ASSUME NEW claimed \in SUBSET {s[1] : s \in imp.snapshot},
             \A j \in claimed : Queued(j),
             queue' = [j \in Instance |->
                        IF j \in claimed
                        THEN UpdateStatus(queue[j], "CREATING", "background", NoWindow)
                        ELSE queue[j]],
             imp' = [imp EXCEPT !.pc = "create", !.snapshot = {},
                                !.step = [j \in Instance |->
                                            IF j \in claimed THEN "define" ELSE "none"]]
      PROVE  Keeps(i)
  <2>1. /\ imp'.pc = "create" /\ ~Placed(i)'
        /\ imp'.step[i] = IF i \in claimed THEN "define" ELSE "none"
    BY <1>1, <1>4 DEF TypeOK, ImportTaskState, Placed
  <2>2. CASE i \in claimed
    <3> DEFINE e == UpdateStatus(queue[i], "CREATING", "background", NoWindow)
    <3>1. Placed(i)
      <4>1. PICK s \in imp.snapshot : s[1] = i
        BY <1>4, <2>2
      <4>2. s \in Instance \X Batch
        BY <1>1, <4>1 DEF TypeOK, ImportTaskState
      <4>3. s = <<i, s[2]>> /\ s[2] \in Batch
        BY <4>1, <4>2
      <4> QED
        BY <4>1, <4>3 DEF Placed
    <3>2. queue[i] \in Entry
      BY <1>1, <1>4, <2>2, EntryOf
    <3>3. e \in Entry /\ e.status = "CREATING" /\ e.stage = "background"
      BY <3>2, UpdateStatusType, UpdatedFields DEF Status, ImportStage
    <3>4. queue'[i] = e
      BY <1>4, <2>2
    <3> HIDE DEF e
    <3>5. Now(i)' = "CREATING"
      BY <3>3, <3>4, EntryAssumption DEF Now, Queued
    <3>6. /\ imp.pc = "claim" /\ imp'.pc = "create" /\ ~Placed(i)' /\ Placed(i)
          /\ Now(i)' = "CREATING" /\ imp'.step[i] = "define" /\ MachinesSame(i) /\ LocksSame(i)
          /\ FinalSame(i)
      BY <1>2, <2>1, <2>2, <3>1, <3>5
    <3>7. MachinesFit(i)' /\ LocksFit(i)' /\ CreationFits(i)'
      BY <1>1, <3>6 DEF Fits, MachinesFit, LocksFit, CreationFits, MachinesSame, LocksSame,
          FinalSame
    <3>8. FinalizationFits(i)'
      BY <1>1, <3>6 DEF Fits, CreationFits, FinalizationFits, Followed, Read, CheckSteps,
          MachinesSame, LocksSame, FinalSame
    <3>9. WorkerFits(i)' /\ TargetFits(i)' /\ CopyFits(i)'
      BY <1>1, <3>6 DEF Fits, CreationFits, WorkerFits, Imported, TargetFits, CopyFits,
          TakenBack, MachinesSame, LocksSame, FinalSame
    <3>10. Moved(i)
      BY <1>1, <3>6 DEF Moved, HandedOver, Fits, CreationFits, MachinesSame, LocksSame,
          FinalSame
    <3> QED
      BY <3>7, <3>8, <3>9, <3>10 DEF Keeps, Fits
  <2>3. CASE i \notin claimed
    <3>1. queue'[i] = queue[i]
      BY <1>4, <2>3
    <3>2. EntrySame(i)
      BY <3>1 DEF EntrySame, Now, Stage, Queued
    <3>3. /\ imp.pc = "claim" /\ imp'.pc = "create" /\ ~Placed(i)' /\ imp'.step[i] = "none"
          /\ EntrySame(i) /\ MachinesSame(i) /\ LocksSame(i) /\ FinalSame(i)
      BY <1>2, <2>1, <2>3, <3>2
    <3>4. MachinesFit(i)' /\ LocksFit(i)' /\ CreationFits(i)'
      BY <1>1, <3>3 DEF Fits, MachinesFit, LocksFit, CreationFits, EntrySame, MachinesSame,
          LocksSame, FinalSame
    <3>5. FinalizationFits(i)'
      BY <1>1, <3>3 DEF Fits, FinalizationFits, Followed, Read, CheckSteps, EntrySame,
          MachinesSame, LocksSame, FinalSame
    <3>6. WorkerFits(i)' /\ TargetFits(i)' /\ CopyFits(i)'
      BY <1>1, <3>3 DEF Fits, WorkerFits, Imported, TargetFits, CopyFits, TakenBack, EntrySame,
          MachinesSame, LocksSame, FinalSame
    <3>7. Moved(i)
      BY <1>1, <3>3 DEF Moved, HandedOver, EntrySame, MachinesSame, LocksSame, FinalSame
    <3> QED
      BY <3>4, <3>5, <3>6, <3>7 DEF Keeps, Fits
  <2> QED
    BY <2>2, <2>3
<1> QED
  BY <1>3, <1>4, Zenon DEF ClaimEntries

\* A step of createTargetVM changes its entry, target VM and mailbox only.
LEMMA CreateLocal ==
    ASSUME TypeOK, NEW i \in Instance, NEW step, CreateStep(i, step), NEW e,
           queue' = [queue EXCEPT ![i] = e] \/ UNCHANGED queue,
           UNCHANGED <<source, handler, cancel, fin>>,
           \A j \in Instance \ {i} : /\ vm'[j] = vm[j] /\ disks'[j] = disks[j]
                                     /\ worker'[j] = worker[j] /\ mail'[j] = mail[j]
    PROVE  \A j \in Instance \ {i} : Same(j)
<1>1. \A j \in Instance \ {i} : EntrySame(j)
  BY OtherEntries, QueueSame
<1>2. \A j \in Instance \ {i} : ImportSame(j) /\ FinalSame(j)
  BY CreateStepOf, TasksSame
<1> QED
  BY <1>1, <1>2 DEF Same, MachinesSame, LocksSame

LEMMA CreateVMFits ==
    ASSUME CutoverInv, NEW i \in Instance, CreateVM(i)
    PROVE  \A j \in Instance : Keeps(j)
<1>1. Fits(i) /\ TypeOK
  BY DEF CutoverInv, WindowInv
<1>2. UNCHANGED <<queue, source, worker, handler, cancel, fin>>
  BY DEF CreateVM, database
<1>3. \A j \in Instance : EntrySame(j) /\ LocksSame(j) /\ FinalSame(j)
  BY <1>2, TasksSame, QueueSame DEF LocksSame
<1>4. CASE CreateStep(i, "boot")
  <2>1. /\ vm' = [vm EXCEPT ![i] = "defined"] /\ disks' = [disks EXCEPT ![i] = "empty"]
        /\ mail' = [mail EXCEPT ![i] = "none"] /\ vm[i] = "none" /\ ~handler[i]
        /\ imp.step[i] = "define"
    <3>1. imp'.step[i] = "boot"
      BY <1>1, <1>4, CreateStepOf
    <3>2. ~CreateStep(i, "revert")
      BY <1>1, <3>1, CreateStepOf
    <3> QED
      BY <3>2 DEF CreateVM
  <2>2. \A j \in Instance \ {i} : Same(j)
    BY <1>1, <1>2, <1>4, <2>1, CreateLocal DEF TypeOK
  <2> SUFFICES Keeps(i)
    BY <1>1, <2>2, OneFits
  <2>3. /\ imp.step[i] = "define" /\ imp'.step[i] = "boot" /\ vm[i] = "none" /\ ~handler[i]
        /\ vm'[i] = "defined" /\ disks'[i] = "empty" /\ mail'[i] = "none"
        /\ source'[i] = source[i] /\ worker'[i] = worker[i] /\ imp'.pc = imp.pc
        /\ (Placed(i)' <=> Placed(i)) /\ EntrySame(i) /\ LocksSame(i) /\ FinalSame(i)
    BY <1>1, <1>2, <1>3, <1>4, <2>1, CreateStepOf DEF TypeOK
  <2>4. MachinesFit(i)' /\ LocksFit(i)' /\ CreationFits(i)'
    BY <1>1, <2>3 DEF Fits, MachinesFit, LocksFit, CreationFits, EntrySame, LocksSame, FinalSame
  <2>5. FinalizationFits(i)'
    BY <1>1, <2>3 DEF Fits, FinalizationFits, Followed, Read, CheckSteps, EntrySame, LocksSame,
        FinalSame
  <2>6. WorkerFits(i)' /\ TargetFits(i)' /\ CopyFits(i)'
    BY <1>1, <2>3 DEF Fits, CreationFits, WorkerFits, Imported, TargetFits, CopyFits, TakenBack,
        EntrySame, LocksSame, FinalSame
  <2>7. Moved(i)
    BY <1>1, <2>3 DEF Moved, HandedOver, EntrySame, LocksSame, FinalSame
  <2> QED
    BY <2>4, <2>5, <2>6, <2>7 DEF Keeps, Fits
<1>5. CASE CreateStep(i, "revert") /\ UNCHANGED <<vm, disks, mail>>
  <2>1. \A j \in Instance \ {i} : Same(j)
    BY <1>1, <1>2, <1>5, CreateLocal
  <2> SUFFICES Keeps(i)
    BY <1>1, <2>1, OneFits
  <2>2. imp.step[i] = "define" /\ MachinesSame(i)
    BY <1>2, <1>5 DEF CreateVM, MachinesSame
  <2>3. /\ imp.step[i] = "define" /\ imp'.step[i] = "revert" /\ imp'.pc = imp.pc
        /\ (Placed(i)' <=> Placed(i)) /\ EntrySame(i) /\ MachinesSame(i) /\ LocksSame(i)
        /\ FinalSame(i)
    BY <1>1, <1>3, <1>5, <2>2, CreateStepOf
  <2>4. MachinesFit(i)' /\ LocksFit(i)' /\ CreationFits(i)'
    BY <1>1, <2>3 DEF Fits, MachinesFit, LocksFit, CreationFits, EntrySame, MachinesSame,
        LocksSame, FinalSame
  <2>5. FinalizationFits(i)'
    BY <1>1, <2>3 DEF Fits, FinalizationFits, Followed, Read, CheckSteps, EntrySame,
        MachinesSame, LocksSame, FinalSame
  <2>6. WorkerFits(i)' /\ TargetFits(i)' /\ CopyFits(i)'
    BY <1>1, <2>3 DEF Fits, WorkerFits, Imported, TargetFits, CopyFits, TakenBack, EntrySame,
        MachinesSame, LocksSame, FinalSame
  <2>7. Moved(i)
    BY <1>1, <2>3 DEF Moved, HandedOver, EntrySame, MachinesSame, LocksSame, FinalSame
  <2> QED
    BY <2>4, <2>5, <2>6, <2>7 DEF Keeps, Fits
<1> QED
  BY <1>4, <1>5 DEF CreateVM

LEMMA BootFits ==
    ASSUME CutoverInv, Reliable, NEW i \in Instance, BootWorker(i)
    PROVE  \A j \in Instance : Keeps(j)
<1>1. Fits(i) /\ TypeOK
  BY DEF CutoverInv, WindowInv
<1>2. /\ UNCHANGED <<queue, source, disks, mail, handler, cancel, fin>> /\ imp.step[i] = "boot"
      /\ vm[i] = "defined"
  BY <1>1 DEF BootWorker, DuringCreate, Fits, CreationFits
<1>3. /\ vm' = [vm EXCEPT ![i] = "worker"] /\ worker' = [worker EXCEPT ![i] = "ask"]
      /\ CreateStep(i, "ready")
  BY <1>2 DEF BootWorker, Reliable
<1>4. \A j \in Instance : EntrySame(j) /\ LocksSame(j) /\ FinalSame(j)
  BY <1>2, TasksSame, QueueSame DEF LocksSame
<1>5. \A j \in Instance \ {i} : Same(j)
  BY <1>1, <1>2, <1>3, CreateLocal DEF TypeOK
<1> SUFFICES Keeps(i)
  BY <1>1, <1>5, OneFits
<1>6. /\ imp.step[i] = "boot" /\ imp'.step[i] = "ready" /\ vm[i] = "defined"
      /\ vm'[i] = "worker" /\ worker'[i] = "ask" /\ source'[i] = source[i]
      /\ disks'[i] = disks[i] /\ mail'[i] = mail[i] /\ imp'.pc = imp.pc
      /\ (Placed(i)' <=> Placed(i)) /\ EntrySame(i) /\ LocksSame(i) /\ FinalSame(i)
  BY <1>1, <1>2, <1>3, <1>4, CreateStepOf DEF TypeOK
<1>7. MachinesFit(i)' /\ LocksFit(i)' /\ CreationFits(i)'
  BY <1>1, <1>6 DEF Fits, MachinesFit, LocksFit, CreationFits, EntrySame, LocksSame, FinalSame
<1>8. FinalizationFits(i)'
  BY <1>1, <1>6 DEF Fits, FinalizationFits, Followed, Read, CheckSteps, EntrySame, LocksSame,
      FinalSame
<1>9. WorkerFits(i)' /\ TargetFits(i)' /\ CopyFits(i)'
  BY <1>1, <1>6 DEF Fits, WorkerFits, Imported, TargetFits, CopyFits, TakenBack, EntrySame,
      LocksSame, FinalSame
<1>10. Moved(i)
  BY <1>1, <1>6 DEF Moved, HandedOver, EntrySame, LocksSame, FinalSame
<1> QED
  BY <1>7, <1>8, <1>9, <1>10 DEF Keeps, Fits

LEMMA ReadyFits ==
    ASSUME CutoverInv, NEW i \in Instance, ReadyForWorker(i)
    PROVE  \A j \in Instance : Keeps(j)
<1>1. Fits(i) /\ TypeOK
  BY DEF CutoverInv, WindowInv
<1>2. imp.step[i] = "ready" /\ UNCHANGED <<machines, DuringCreate>>
  BY DEF ReadyForWorker
<1>3. Queued(i)
  BY <1>1, <1>2, EntryOf DEF Fits, CreationFits
<1>4. SetStatus(i, "IDLE", "background", NoWindow) /\ CreateStep(i, "done")
  BY <1>3 DEF ReadyForWorker
<1>5. Now(i)' = "IDLE" /\ Stage(i)' = "background"
  BY <1>1, <1>3, <1>4, StatusSet DEF Status, ImportStage
<1>6. MachinesSame(i) /\ LocksSame(i) /\ FinalSame(i)
  BY <1>2, TasksSame DEF machines, DuringCreate, MachinesSame, LocksSame
<1>7. \A j \in Instance \ {i} : Same(j)
  BY <1>1, <1>2, <1>4, CreateLocal DEF machines, DuringCreate, SetStatus
<1> SUFFICES Keeps(i)
  BY <1>1, <1>7, OneFits
<1>8. /\ imp.step[i] = "ready" /\ imp'.step[i] = "done" /\ Now(i)' = "IDLE"
      /\ Stage(i)' = "background" /\ imp'.pc = imp.pc /\ (Placed(i)' <=> Placed(i))
      /\ MachinesSame(i) /\ LocksSame(i) /\ FinalSame(i)
  BY <1>1, <1>2, <1>4, <1>5, <1>6, CreateStepOf
<1>9. MachinesFit(i)' /\ LocksFit(i)' /\ CreationFits(i)'
  BY <1>1, <1>8 DEF Fits, MachinesFit, LocksFit, CreationFits, MachinesSame, LocksSame,
      FinalSame
<1>10. FinalizationFits(i)'
  BY <1>1, <1>8 DEF Fits, FinalizationFits, Followed, Read, CheckSteps, MachinesSame, LocksSame,
      FinalSame
<1>11. WorkerFits(i)' /\ TargetFits(i)' /\ CopyFits(i)'
  BY <1>1, <1>8 DEF Fits, MachinesFit, CreationFits, WorkerFits, Imported, TargetFits, CopyFits,
      TakenBack, MachinesSame, LocksSame, FinalSame
<1>12. Moved(i)
  BY <1>1, <1>8 DEF Moved, HandedOver, Fits, CreationFits, MachinesSame, LocksSame, FinalSame
<1> QED
  BY <1>9, <1>10, <1>11, <1>12 DEF Keeps, Fits

LEMMA RevertFits ==
    ASSUME CutoverInv, NEW i \in Instance, RevertCreating(i)
    PROVE  \A j \in Instance : Keeps(j)
<1>1. Fits(i) /\ TypeOK
  BY DEF CutoverInv, WindowInv
<1>2. imp.step[i] = "revert" /\ UNCHANGED <<machines, DuringCreate>> /\ CreateStep(i, "done")
  BY DEF RevertCreating
<1>3. Queued(i)
  BY <1>1, <1>2, EntryOf DEF Fits, CreationFits
<1>4. PICK status \in {"WAITING", "ERROR"} : SetStatus(i, status, "background", NoWindow)
  BY <1>3 DEF RevertCreating
<1>5. Now(i)' \in {"WAITING", "ERROR"} /\ Stage(i)' = "background"
  BY <1>1, <1>3, <1>4, StatusSet DEF Status, ImportStage
<1>6. MachinesSame(i) /\ LocksSame(i) /\ FinalSame(i)
  BY <1>2, TasksSame DEF machines, DuringCreate, MachinesSame, LocksSame
<1>7. \A j \in Instance \ {i} : Same(j)
  BY <1>1, <1>2, <1>4, CreateLocal DEF machines, DuringCreate, SetStatus
<1> SUFFICES Keeps(i)
  BY <1>1, <1>7, OneFits
<1>8. /\ imp.step[i] = "revert" /\ imp'.step[i] = "done" /\ Now(i)' \in {"WAITING", "ERROR"}
      /\ imp'.pc = imp.pc /\ (Placed(i)' <=> Placed(i)) /\ MachinesSame(i) /\ LocksSame(i)
      /\ FinalSame(i)
  BY <1>1, <1>2, <1>5, <1>6, CreateStepOf
<1>9. MachinesFit(i)' /\ LocksFit(i)' /\ CreationFits(i)'
  BY <1>1, <1>8 DEF Fits, MachinesFit, LocksFit, CreationFits, MachinesSame, LocksSame,
      FinalSame
<1>10. FinalizationFits(i)'
  BY <1>1, <1>8 DEF Fits, FinalizationFits, Followed, Read, CheckSteps, MachinesSame, LocksSame,
      FinalSame
<1>11. WorkerFits(i)' /\ TargetFits(i)' /\ CopyFits(i)'
  BY <1>1, <1>8 DEF Fits, CreationFits, WorkerFits, Imported, TargetFits, CopyFits, TakenBack,
      MachinesSame, LocksSame, FinalSame
<1>12. Moved(i)
  BY <1>1, <1>8 DEF Moved, HandedOver, Fits, CreationFits, MachinesSame, LocksSame, FinalSame
<1> QED
  BY <1>9, <1>10, <1>11, <1>12 DEF Keeps, Fits

LEMMA ImportFits ==
    ASSUME CutoverInv, Reliable, ImportTask
    PROVE  \A j \in Instance : Keeps(j)
<1>1. ASSUME NEW i \in Instance
      PROVE  ~CleanupCreated(i)
  BY DEF CutoverInv, Fits, CreationFits, CleanupCreated
<1>2. EndImports => imp' = IdleImport /\ UNCHANGED <<queue, machines, DuringImport>>
  BY DEF EndImports, database
<1> QED
  BY <1>1, <1>2, ReassessFits, PlaceFits, EnsureFits, ClaimFits, CreateVMFits, BootFits,
     ReadyFits, RevertFits, EndsImportFits DEF ImportTask, CreateTargetVM

-----------------------------------------------------------------------------
(***************************************************************************)
(* The steps of finalizeCompleteInstances.                                 *)
(***************************************************************************)

\* What most steps of the task leave alone, and the end of a run.
LEMMA DuringFinalSame ==
    ASSUME UNCHANGED <<machines, DuringFinal>>, NEW i \in Instance
    PROVE  MachinesSame(i) /\ LocksSame(i) /\ ImportSame(i)
BY TasksSame DEF machines, DuringFinal, MachinesSame, LocksSame

LEMMA FinalIdles ==
    ASSUME NEW i \in Instance, fin' = IdleFinal
    PROVE  fin'.pc = "idle" /\ fin'.step[i] = "none"
BY DEF IdleFinal

LEMMA TakeSnapshotFits ==
    ASSUME CutoverInv, TakeSnapshot, NEW i \in Instance
    PROVE  Keeps(i)
<1>1. Fits(i) /\ TypeOK
  BY DEF CutoverInv, WindowInv
<1>2. EntrySame(i) /\ MachinesSame(i) /\ LocksSame(i) /\ ImportSame(i)
  BY DuringFinalSame, QueueSame DEF TakeSnapshot, database
<1>3. fin.pc = "idle" /\ cancel[i] = "idle" /\ fin'.pc = "check"
  BY DEF TakeSnapshot, WriteLocked
<1> DEFINE entries == MigrationState(FinalStatuses)
<1>4. /\ fin'.snapshot[i] = IF i \in entries THEN queue[i] ELSE NoEntry
      /\ fin'.step[i] = IF i \notin entries THEN "none"
                        ELSE IF queue[i].status = "WORKER_DONE" THEN "check" ELSE "unchanged"
  BY DEF TakeSnapshot
<1>5. i \in entries => Queued(i) /\ queue[i].status \in FinalStatuses
  BY DEF MigrationState
<1> HIDE DEF entries
<1>6. CASE i \in entries
  <2>1. /\ fin.pc = "idle" /\ fin'.pc = "check" /\ cancel[i] = "idle"
        /\ Now(i) \in FinalStatuses /\ Read(i)' = Now(i)
        /\ fin'.step[i] = IF Now(i) = "WORKER_DONE" THEN "check" ELSE "unchanged"
        /\ EntrySame(i) /\ MachinesSame(i) /\ LocksSame(i) /\ ImportSame(i)
    BY <1>1, <1>2, <1>3, <1>4, <1>5, <1>6, EntryOf DEF Read
  <2>2. MachinesFit(i)' /\ LocksFit(i)' /\ CreationFits(i)'
    BY <1>1, <2>1 DEF Fits, MachinesFit, LocksFit, CreationFits, FinalStatuses, EntrySame,
        MachinesSame, LocksSame, ImportSame
  <2>3. FinalizationFits(i)'
    BY <1>1, <2>1 DEF Fits, CreationFits, FinalizationFits, Followed, Read, CheckSteps,
        TargetFits, Imported, FinalStatuses, EntrySame, MachinesSame, LocksSame, ImportSame
  <2>4. WorkerFits(i)' /\ TargetFits(i)' /\ CopyFits(i)'
    BY <1>1, <2>1 DEF Fits, FinalizationFits, Followed, Read, CheckSteps, WorkerFits, Imported,
        TargetFits, CopyFits, TakenBack, FinalStatuses, EntrySame, MachinesSame, LocksSame,
        ImportSame
  <2>5. Moved(i)
    BY <1>1, <2>1 DEF Moved, HandedOver, FinalStatuses, EntrySame, MachinesSame, LocksSame,
        ImportSame
  <2> QED
    BY <2>2, <2>3, <2>4, <2>5 DEF Keeps, Fits
<1>7. CASE i \notin entries
  <2>1. /\ fin.pc = "idle" /\ fin'.pc = "check" /\ cancel[i] = "idle" /\ fin'.step[i] = "none"
        /\ EntrySame(i) /\ MachinesSame(i) /\ LocksSame(i) /\ ImportSame(i)
    BY <1>2, <1>3, <1>4, <1>7
  <2>2. MachinesFit(i)' /\ LocksFit(i)' /\ CreationFits(i)'
    BY <1>1, <2>1 DEF Fits, MachinesFit, LocksFit, CreationFits, EntrySame, MachinesSame,
        LocksSame, ImportSame
  <2>3. FinalizationFits(i)'
    BY <1>1, <2>1 DEF Fits, FinalizationFits, Followed, Read, CheckSteps, EntrySame,
        MachinesSame, LocksSame, ImportSame
  <2>4. WorkerFits(i)' /\ TargetFits(i)' /\ CopyFits(i)'
    BY <1>1, <2>1 DEF Fits, FinalizationFits, Followed, Read, CheckSteps, WorkerFits, Imported,
        TargetFits, CopyFits, TakenBack, EntrySame, MachinesSame, LocksSame, ImportSame
  <2>5. Moved(i)
    BY <1>1, <2>1 DEF Moved, HandedOver, EntrySame, MachinesSame, LocksSame, ImportSame
  <2> QED
    BY <2>2, <2>3, <2>4, <2>5 DEF Keeps, Fits
<1> QED
  BY <1>6, <1>7

\* A run that ends.
LEMMA AbortFits ==
    ASSUME CutoverInv, fin.pc = "check", fin' = IdleFinal,
           UNCHANGED <<queue, machines, DuringFinal>>,
           NEW i \in Instance
    PROVE  Keeps(i)
<1>1. Fits(i)
  BY DEF CutoverInv
<1>2. /\ fin.pc = "check" /\ fin'.pc = "idle" /\ fin'.step[i] = "none" /\ EntrySame(i)
      /\ MachinesSame(i) /\ LocksSame(i) /\ ImportSame(i)
  BY FinalIdles, QueueSame, DuringFinalSame
<1>3. MachinesFit(i)' /\ LocksFit(i)' /\ CreationFits(i)'
  BY <1>1, <1>2 DEF Fits, MachinesFit, LocksFit, CreationFits, EntrySame, MachinesSame,
      LocksSame, ImportSame
<1>4. FinalizationFits(i)'
  BY <1>1, <1>2 DEF Fits, FinalizationFits, Followed, Read, CheckSteps, EntrySame, MachinesSame,
      LocksSame, ImportSame
<1>5. WorkerFits(i)' /\ TargetFits(i)' /\ CopyFits(i)'
  BY <1>1, <1>2 DEF Fits, FinalizationFits, Followed, Read, CheckSteps, WorkerFits, Imported,
      TargetFits, CopyFits, TakenBack, EntrySame, MachinesSame, LocksSame, ImportSame
<1>6. Moved(i)
  BY <1>1, <1>2 DEF Moved, HandedOver, EntrySame, MachinesSame, LocksSame, ImportSame
<1> QED
  BY <1>3, <1>4, <1>5, <1>6 DEF Keeps, Fits

LEMMA OutcomeFits ==
    ASSUME CutoverInv, RecordOutcome, NEW i \in Instance
    PROVE  Keeps(i)
<1>1. Fits(i)
  BY DEF CutoverInv
<1>2. \A j \in Instance : fin.step[j] # "conflict"
  BY DEF CutoverInv, Fits, FinalizationFits
<1>3. {j \in Instance : fin.step[j] = "conflict"} = {}
  BY <1>2
<1>4. queue'[i] = queue[i]
  BY <1>3, Zenon DEF RecordOutcome, Appended, database
<1>5. EntrySame(i)
  BY <1>4 DEF EntrySame, Now, Stage, Queued
<1>6. fin.step[i] \in {"none", "done", "failed"} /\ fin' = IdleFinal
  BY <1>2 DEF RecordOutcome
<1>7. MachinesSame(i) /\ LocksSame(i) /\ ImportSame(i)
  BY DuringFinalSame DEF RecordOutcome
<1>8. /\ fin.step[i] \in {"none", "done", "failed"} /\ fin'.pc = "idle"
      /\ fin'.step[i] = "none" /\ EntrySame(i) /\ MachinesSame(i) /\ LocksSame(i)
      /\ ImportSame(i)
  BY <1>5, <1>6, <1>7, FinalIdles
<1>9. MachinesFit(i)' /\ LocksFit(i)' /\ CreationFits(i)'
  BY <1>1, <1>8 DEF Fits, MachinesFit, LocksFit, CreationFits, EntrySame, MachinesSame,
      LocksSame, ImportSame
<1>10. FinalizationFits(i)'
  BY <1>1, <1>8 DEF Fits, FinalizationFits, Followed, Read, CheckSteps, EntrySame, MachinesSame,
      LocksSame, ImportSame
<1>11. WorkerFits(i)' /\ TargetFits(i)' /\ CopyFits(i)'
  BY <1>1, <1>8 DEF Fits, WorkerFits, Imported, TargetFits, CopyFits, TakenBack, EntrySame,
      MachinesSame, LocksSame, ImportSame
<1>12. Moved(i)
  BY <1>1, <1>8 DEF Moved, HandedOver, EntrySame, MachinesSame, LocksSame, ImportSame
<1> QED
  BY <1>9, <1>10, <1>11, <1>12 DEF Keeps, Fits

\* What the checks make of an entry.
LEMMA CheckedOf ==
    ASSUME TypeOK, PickedUp, NEW i \in Judged, Queued(i)
    PROVE  /\ fin.step[i] = "toError" => Checked(i).status = "ERROR"
           /\ fin.step[i] = "toConflict" => Checked(i).status = "CONFLICT"
           /\ fin.step[i] = "newNetworks" =>
                Checked(i).status = queue[i].status /\ Checked(i).stage = queue[i].stage
<1>1. i \in Instance /\ queue[i] \in Entry
  BY EntryOf DEF Judged
<1>2. fin.step[i] = "toError" =>
        Checked(i) = UpdateStatus(queue[i], "ERROR", fin.snapshot[i].stage, fin.snapshot[i].window)
  BY DEF Checked
<1>3. fin.step[i] = "toConflict" =>
        Checked(i) = UpdateStatus(queue[i], "CONFLICT", fin.snapshot[i].stage,
                                  fin.snapshot[i].window)
  BY DEF Checked
<1>4. fin.step[i] = "newNetworks" =>
        Checked(i) = [queue[i] EXCEPT !.running = fin.snapshot[i].running]
  BY DEF Checked
<1> QED
  BY <1>1, <1>2, <1>3, <1>4, UpdatedFields DEF Entry

LEMMA VerdictFits ==
    ASSUME CutoverInv, StoreVerdicts, NEW i \in Instance
    PROVE  Keeps(i)
<1>1. Fits(i) /\ TypeOK /\ PickedUp
  BY DEF CutoverInv, WindowInv
<1>2. MachinesSame(i) /\ LocksSame(i) /\ ImportSame(i) /\ fin.pc = "check" /\ fin.step[i] # "check"
  BY DuringFinalSame DEF StoreVerdicts
<1>3. CASE UNCHANGED queue /\ fin' = IdleFinal
  BY <1>3, AbortFits DEF StoreVerdicts
<1>4. CASE /\ \A j \in Judged : Queued(j)
           /\ queue' = [j \in Instance |-> IF j \in Judged THEN Checked(j) ELSE queue[j]]
           /\ fin' = [fin EXCEPT
                        !.pc = "run",
                        !.snapshot = [j \in Instance |->
                                        IF j \in Judged THEN Checked(j) ELSE fin.snapshot[j]],
                        !.step = [j \in Instance |->
                                    IF j \in InSnapshot THEN AfterChecks(j) ELSE "none"]]
  <2>1. /\ fin'.pc = "run"
        /\ fin'.snapshot[i] = IF i \in Judged THEN Checked(i) ELSE fin.snapshot[i]
        /\ fin'.step[i] = IF i \in InSnapshot THEN AfterChecks(i) ELSE "none"
    BY <1>1, <1>4 DEF TypeOK, FinalTaskState
  <2>2. queue'[i] = IF i \in Judged THEN Checked(i) ELSE queue[i]
    BY <1>4
  <2>3. i \in Judged => /\ Queued(i) /\ queue[i] \in Entry /\ queue[i].status = Now(i)
                        /\ queue[i].stage = Stage(i) /\ Checked(i) \in Entry
    BY <1>1, <1>4, EntryOf, CheckedEntryType
  <2>4. /\ i \notin Judged => EntrySame(i)
        /\ i \in Judged => Now(i)' = Checked(i).status /\ Stage(i)' = Checked(i).stage
    BY <2>2, <2>3, EntryAssumption DEF EntrySame, Now, Stage, Queued
  <2>5. Read(i)' = Checked(i).status
    <3>1. i \notin Judged => Checked(i) = fin.snapshot[i]
      BY DEF Checked, Judged
    <3> QED
      BY <2>1, <3>1 DEF Read
  <2>6. /\ i \notin Judged => Read(i)' = Read(i)
        /\ i \in Judged => Read(i)' = Now(i)'
    BY <2>1, <2>4, <2>5 DEF Read
  <2>7. CASE fin.step[i] # "none"
    <3>1. i \in InSnapshot
      BY <1>1, <2>7 DEF PickedUp, InSnapshot
    <3>2. \/ fin'.step[i] \in {"powerOn", "detach"}
          \/ fin'.step[i] = IF Read(i)' = "WORKER_DONE" THEN "configure" ELSE "done"
      BY <2>1, <2>5, <3>1 DEF AfterChecks
    <3>3. fin.step[i] \in {"unchanged", "toError", "toConflict", "newNetworks"}
      BY <1>1, <1>2, <2>7 DEF Fits, FinalizationFits, CheckSteps
    <3>4. i \in Judged <=> fin.step[i] # "unchanged"
      BY <3>3 DEF Judged
    <3>5. \/ fin.step[i] = "toError" /\ Now(i)' = "ERROR"
          \/ fin.step[i] = "toConflict" /\ Now(i)' = "CONFLICT"
          \/ /\ fin.step[i] \in {"unchanged", "newNetworks"}
             /\ Now(i)' = Now(i) /\ Stage(i)' = Stage(i)
      BY <1>1, <2>3, <2>4, <3>3, <3>4, CheckedOf DEF EntrySame
    <3>6. /\ fin.pc = "check" /\ fin'.pc = "run" /\ fin.step[i] # "check"
          /\ fin.step[i] # "none"
          /\ \/ fin.step[i] = "toError" /\ Now(i)' = "ERROR"
             \/ fin.step[i] = "toConflict" /\ Now(i)' = "CONFLICT"
             \/ /\ fin.step[i] \in {"unchanged", "newNetworks"}
                /\ Now(i)' = Now(i) /\ Stage(i)' = Stage(i)
          /\ Read(i)' = IF fin.step[i] = "unchanged" THEN Read(i) ELSE Now(i)'
          /\ \/ fin'.step[i] \in {"powerOn", "detach"}
             \/ fin'.step[i] = IF Read(i)' = "WORKER_DONE" THEN "configure" ELSE "done"
          /\ MachinesSame(i) /\ LocksSame(i) /\ ImportSame(i)
      BY <1>2, <2>1, <2>6, <2>7, <3>2, <3>4, <3>5
    <3>7. MachinesFit(i)' /\ LocksFit(i)' /\ CreationFits(i)'
      BY <1>1, <3>6 DEF Fits, MachinesFit, LocksFit, CreationFits, FinalizationFits, Followed,
          Read, CheckSteps, MachinesSame, LocksSame, ImportSame
    <3>8. FinalizationFits(i)'
      BY <1>1, <3>6 DEF Fits, FinalizationFits, Followed, Read, CheckSteps, MachinesSame,
          LocksSame, ImportSame
    <3>9. WorkerFits(i)' /\ TargetFits(i)' /\ CopyFits(i)'
      BY <1>1, <3>6 DEF Fits, FinalizationFits, Followed, Read, CheckSteps, WorkerFits,
          Imported, TargetFits, CopyFits, TakenBack, MachinesSame, LocksSame, ImportSame
    <3>10. Moved(i)
      BY <1>1, <3>6 DEF Moved, HandedOver, Fits, FinalizationFits, Followed, Read, CheckSteps,
          MachinesSame, LocksSame, ImportSame
    <3> QED
      BY <3>7, <3>8, <3>9, <3>10 DEF Keeps, Fits
  <2>8. CASE fin.step[i] = "none"
    <3>1. i \notin InSnapshot /\ i \notin Judged
      BY <1>2, <2>8 DEF CutoverInv, ReadForAStep, Judged
    <3>2. /\ fin.pc = "check" /\ fin'.pc = "run" /\ fin.step[i] = "none"
          /\ fin'.step[i] = "none" /\ EntrySame(i) /\ MachinesSame(i) /\ LocksSame(i)
          /\ ImportSame(i)
      BY <1>2, <2>1, <2>4, <2>8, <3>1
    <3>3. MachinesFit(i)' /\ LocksFit(i)' /\ CreationFits(i)'
      BY <1>1, <3>2 DEF Fits, MachinesFit, LocksFit, CreationFits, EntrySame, MachinesSame,
          LocksSame, ImportSame
    <3>4. FinalizationFits(i)'
      BY <1>1, <3>2 DEF Fits, FinalizationFits, Followed, Read, CheckSteps, EntrySame,
          MachinesSame, LocksSame, ImportSame
    <3>5. WorkerFits(i)' /\ TargetFits(i)' /\ CopyFits(i)'
      BY <1>1, <3>2 DEF Fits, WorkerFits, Imported, TargetFits, CopyFits, TakenBack, EntrySame,
          MachinesSame, LocksSame, ImportSame
    <3>6. Moved(i)
      BY <1>1, <3>2 DEF Moved, HandedOver, EntrySame, MachinesSame, LocksSame, ImportSame
    <3> QED
      BY <3>3, <3>4, <3>5, <3>6 DEF Keeps, Fits
  <2> QED
    BY <2>7, <2>8
<1> QED
  BY <1>3, <1>4, Zenon DEF StoreVerdicts

\* A step for one instance changes its entry, machines and worker only.
LEMMA FinalLocal ==
    ASSUME TypeOK, NEW i \in Instance, NEW step, FinalTo(i, step), NEW e,
           queue' = [queue EXCEPT ![i] = e] \/ UNCHANGED queue,
           UNCHANGED <<imp, cancel>>,
           \A j \in Instance \ {i} : MachinesSame(j) /\ handler'[j] = handler[j]
    PROVE  \A j \in Instance \ {i} : Same(j)
<1>1. \A j \in Instance \ {i} : EntrySame(j)
  BY OtherEntries, QueueSame
<1>2. \A j \in Instance \ {i} : ImportSame(j) /\ FinalSame(j)
  BY FinalToOf, TasksSame
<1> QED
  BY <1>1, <1>2 DEF Same, LocksSame

\* The status an entry is being worked on with.
LEMMA FollowedOf ==
    ASSUME TypeOK, NEW i \in Instance, FinalizationFits(i),
           fin.step[i] \notin {"none", "done", "failed"}
    PROVE  /\ Followed(i) /\ Queued(i)
           /\ Read(i) = "FINAL_IMPORT" => vm[i] = "worker"
           /\ InFinalImport(i) <=> Read(i) = "FINAL_IMPORT"
BY EntryOf DEF FinalizationFits, Followed, InFinalImport, Read

LEMMA CheckSourceFits ==
    ASSUME CutoverInv, NEW i \in Instance, CheckSource(i)
    PROVE  \A j \in Instance : Keeps(j)
<1>1. Fits(i) /\ TypeOK /\ PickedUp
  BY DEF CutoverInv, WindowInv
<1>2. PICK step \in {"unchanged", "toError", "toConflict", "newNetworks"} : FinalTo(i, step)
  BY DEF CheckSource
<1>3. /\ source' = [source EXCEPT ![i] = FALSE] /\ fin.step[i] = "check"
      /\ UNCHANGED <<queue, vm, disks, worker, mail, handler, cancel, imp>>
  BY DEF CheckSource, DuringFinal, database
<1>4. EntrySame(i) /\ LocksSame(i) /\ ImportSame(i)
  BY <1>3, QueueSame, TasksSame DEF LocksSame
<1>5. \A j \in Instance \ {i} : Same(j)
  BY <1>1, <1>2, <1>3, FinalLocal DEF MachinesSame, TypeOK
<1> SUFFICES Keeps(i)
  BY <1>1, <1>5, OneFits
<1>6. /\ fin.step[i] = "check"
      /\ fin'.step[i] \in {"unchanged", "toError", "toConflict", "newNetworks"} /\ ~source'[i]
      /\ vm'[i] = vm[i] /\ disks'[i] = disks[i] /\ worker'[i] = worker[i] /\ mail'[i] = mail[i]
      /\ fin'.pc = fin.pc /\ Read(i)' = Read(i) /\ EntrySame(i) /\ LocksSame(i)
      /\ ImportSame(i)
  BY <1>1, <1>2, <1>3, <1>4, FinalToOf DEF TypeOK
<1>7. MachinesFit(i)' /\ LocksFit(i)' /\ CreationFits(i)'
  BY <1>1, <1>6 DEF Fits, MachinesFit, LocksFit, CreationFits, EntrySame, LocksSame, ImportSame
<1>8. FinalizationFits(i)'
  BY <1>1, <1>6 DEF Fits, FinalizationFits, Followed, Read, CheckSteps, EntrySame, LocksSame,
      ImportSame
<1>9. WorkerFits(i)' /\ TargetFits(i)' /\ CopyFits(i)'
  BY <1>1, <1>6 DEF Fits, WorkerFits, Imported, TargetFits, CopyFits, TakenBack, EntrySame,
      LocksSame, ImportSame
<1>10. Moved(i)
  BY <1>1, <1>6 DEF Moved, HandedOver, Fits, MachinesFit, FinalizationFits,
      Followed, Read, EntrySame, LocksSame, ImportSame
<1> QED
  BY <1>7, <1>8, <1>9, <1>10 DEF Keeps, Fits

LEMMA ResetPowerOnFits ==
    ASSUME CutoverInv, NEW i \in Instance, ResetPowerOn(i)
    PROVE  \A j \in Instance : Keeps(j)
<1>1. Fits(i) /\ TypeOK /\ PickedUp
  BY DEF CutoverInv, WindowInv
<1>2. fin.step[i] = "powerOn" /\ UNCHANGED <<queue, mail, handler, cancel, imp>>
  BY DEF ResetPowerOn, database
<1>3. EntrySame(i) /\ LocksSame(i) /\ ImportSame(i)
  BY <1>2, QueueSame, TasksSame DEF LocksSame
<1>4. CASE PowerOnVM(i) /\ FinalTo(i, "detach")
  <2>1. \A j \in Instance \ {i} : Same(j)
    BY <1>1, <1>2, <1>4, PowerOnOf, FinalLocal DEF OnlyMachines, MachinesSame
  <2> SUFFICES Keeps(i)
    BY <1>1, <2>1, OneFits
  <2>2. /\ fin.step[i] = "powerOn" /\ fin'.step[i] = "detach" /\ vm'[i] = vm[i] /\ source'[i]
        /\ disks'[i] = IF ~source[i] /\ disks[i] # "empty" THEN "behind" ELSE disks[i]
        /\ worker'[i] = IF ~source[i] /\ worker[i] = "copy" THEN "dirty" ELSE worker[i]
        /\ vm'[i] = vm[i] /\ mail'[i] = mail[i] /\ fin'.pc = fin.pc /\ Read(i)' = Read(i)
        /\ EntrySame(i) /\ LocksSame(i) /\ ImportSame(i)
    BY <1>1, <1>2, <1>3, <1>4, PowerOnOf, FinalToOf
  <2>3. MachinesFit(i)' /\ LocksFit(i)' /\ CreationFits(i)'
    BY <1>1, <2>2 DEF Fits, MachinesFit, LocksFit, CreationFits, EntrySame, LocksSame,
        ImportSame
  <2>4. FinalizationFits(i)'
    BY <1>1, <2>2 DEF Fits, FinalizationFits, Followed, Read, CheckSteps, EntrySame, LocksSame,
        ImportSame
  <2>5. WorkerFits(i)' /\ TargetFits(i)' /\ CopyFits(i)'
    BY <1>1, <2>2 DEF Fits, FinalizationFits, Followed, Read, CheckSteps, WorkerFits, Imported,
        TargetFits, CopyFits, TakenBack, EntrySame, LocksSame, ImportSame
  <2>6. Moved(i)
    BY <1>1, <2>2 DEF Moved, HandedOver, EntrySame, LocksSame, ImportSame
  <2> QED
    BY <2>3, <2>4, <2>5, <2>6 DEF Keeps, Fits
<1>5. CASE UNCHANGED machines /\ FinalTo(i, "failed")
  <2>1. \A j \in Instance \ {i} : Same(j)
    BY <1>1, <1>2, <1>5, FinalLocal DEF machines, MachinesSame
  <2> SUFFICES Keeps(i)
    BY <1>1, <2>1, OneFits
  <2>2. MachinesSame(i)
    BY <1>2, <1>5 DEF machines, MachinesSame
  <2>3. /\ fin.step[i] = "powerOn" /\ fin'.step[i] = "failed" /\ fin'.pc = fin.pc
        /\ Read(i)' = Read(i) /\ EntrySame(i) /\ MachinesSame(i) /\ LocksSame(i)
        /\ ImportSame(i)
    BY <1>1, <1>2, <1>3, <1>5, <2>2, FinalToOf
  <2>4. MachinesFit(i)' /\ LocksFit(i)' /\ CreationFits(i)'
    BY <1>1, <2>3 DEF Fits, MachinesFit, LocksFit, CreationFits, EntrySame, MachinesSame,
        LocksSame, ImportSame
  <2>5. FinalizationFits(i)'
    BY <1>1, <2>3 DEF Fits, FinalizationFits, Followed, Read, CheckSteps, EntrySame,
        MachinesSame, LocksSame, ImportSame
  <2>6. WorkerFits(i)' /\ TargetFits(i)' /\ CopyFits(i)'
    BY <1>1, <2>3 DEF Fits, WorkerFits, Imported, TargetFits, CopyFits, TakenBack, EntrySame,
        MachinesSame, LocksSame, ImportSame
  <2>7. Moved(i)
    BY <1>1, <2>3 DEF Moved, HandedOver, EntrySame, MachinesSame, LocksSame, ImportSame
  <2> QED
    BY <2>4, <2>5, <2>6, <2>7 DEF Keeps, Fits
<1> QED
  BY <1>4, <1>5 DEF ResetPowerOn

LEMMA DetachFits ==
    ASSUME CutoverInv, Reliable, NEW i \in Instance, DetachTarget(i)
    PROVE  \A j \in Instance : Keeps(j)
<1>1. Fits(i) /\ TypeOK /\ PickedUp
  BY DEF CutoverInv, WindowInv
<1>2. fin.step[i] = "detach" /\ UNCHANGED <<queue, cancel, imp>>
  BY DEF DetachTarget, database
<1>3. EntrySame(i) /\ ImportSame(i) /\ cancel'[i] = cancel[i]
  BY <1>2, QueueSame, TasksSame
<1>4. /\ Read(i) = "FINAL_IMPORT" => vm[i] = "worker"
      /\ InFinalImport(i) <=> Read(i) = "FINAL_IMPORT"
  BY <1>1, <1>2, FollowedOf DEF Fits
<1>5. FinalTo(i, "rewrite")
  BY <1>4 DEF DetachTarget, Reliable
<1>6. CASE Read(i) = "FINAL_IMPORT"
  <2>1. StopWorker(i) /\ UNCHANGED <<source, vm, disks>>
    <3>1. ~FinalTo(i, "failed")
      BY <1>1, <1>5, FinalToOf
    <3> QED
      BY <1>4, <1>6, <3>1 DEF DetachTarget
  <2>2. \A j \in Instance \ {i} : Same(j)
    BY <1>1, <1>2, <1>5, <2>1, FinalLocal DEF StopWorker, MachinesSame, TypeOK
  <2> SUFFICES Keeps(i)
    BY <1>1, <2>2, OneFits
  <2>3. /\ fin.step[i] = "detach" /\ fin'.step[i] = "rewrite" /\ Read(i) = "FINAL_IMPORT"
        /\ worker'[i] = "none" /\ mail'[i] = "none" /\ ~handler'[i] /\ source'[i] = source[i]
        /\ vm'[i] = vm[i] /\ disks'[i] = disks[i] /\ cancel'[i] = cancel[i] /\ fin'.pc = fin.pc
        /\ Read(i)' = Read(i) /\ EntrySame(i) /\ ImportSame(i)
    BY <1>1, <1>2, <1>3, <1>5, <1>6, <2>1, FinalToOf DEF StopWorker, TypeOK
  <2>4. MachinesFit(i)' /\ LocksFit(i)' /\ CreationFits(i)'
    BY <1>1, <2>3 DEF Fits, MachinesFit, LocksFit, CreationFits, FinalizationFits, Followed,
        Read, CheckSteps, EntrySame, ImportSame
  <2>5. FinalizationFits(i)'
    BY <1>1, <2>3 DEF Fits, FinalizationFits, Followed, Read, CheckSteps, EntrySame, ImportSame
  <2>6. WorkerFits(i)' /\ TargetFits(i)' /\ CopyFits(i)'
    BY <1>1, <2>3 DEF Fits, WorkerFits, Imported, TargetFits, CopyFits, TakenBack, EntrySame,
        ImportSame
  <2>7. Moved(i)
    BY <1>1, <2>3 DEF Moved, HandedOver, EntrySame, ImportSame
  <2> QED
    BY <2>4, <2>5, <2>6, <2>7 DEF Keeps, Fits
<1>7. CASE Read(i) # "FINAL_IMPORT"
  <2>1. CleanupVM(i) /\ UNCHANGED <<mail, handler>>
    <3>1. ~FinalTo(i, "failed")
      BY <1>1, <1>5, FinalToOf
    <3> QED
      BY <1>4, <1>7, <3>1 DEF DetachTarget
  <2>2. \A j \in Instance \ {i} : Same(j)
    BY <1>1, <1>2, <1>5, <2>1, CleanupOf, FinalLocal DEF OnlyMachines, MachinesSame
  <2> SUFFICES Keeps(i)
    BY <1>1, <2>2, OneFits
  <2>3. /\ fin.step[i] = "detach" /\ fin'.step[i] = "rewrite" /\ Read(i) # "FINAL_IMPORT"
        /\ source'[i] = source[i] /\ vm'[i] = "none" /\ disks'[i] = "empty"
        /\ worker'[i] = "none" /\ mail'[i] = mail[i] /\ fin'.pc = fin.pc /\ Read(i)' = Read(i)
        /\ EntrySame(i) /\ LocksSame(i) /\ ImportSame(i)
    BY <1>1, <1>2, <1>3, <1>5, <1>7, <2>1, CleanupOf, FinalToOf DEF LocksSame
  <2>4. MachinesFit(i)' /\ LocksFit(i)' /\ CreationFits(i)'
    BY <1>1, <2>3 DEF Fits, MachinesFit, LocksFit, CreationFits, FinalizationFits, Followed,
        Read, CheckSteps, EntrySame, LocksSame, ImportSame
  <2>5. FinalizationFits(i)'
    BY <1>1, <2>3 DEF Fits, FinalizationFits, Followed, Read, CheckSteps, EntrySame, LocksSame,
        ImportSame
  <2>6. WorkerFits(i)' /\ TargetFits(i)' /\ CopyFits(i)'
    BY <1>1, <2>3 DEF Fits, FinalizationFits, Followed, Read, CheckSteps, WorkerFits, Imported,
        TargetFits, CopyFits, TakenBack, EntrySame, LocksSame, ImportSame
  <2>7. Moved(i)
    BY <1>1, <2>3 DEF Moved, HandedOver, Fits, TargetFits, Imported, EntrySame, LocksSame,
        ImportSame
  <2> QED
    BY <2>4, <2>5, <2>6, <2>7 DEF Keeps, Fits
<1> QED
  BY <1>6, <1>7

LEMMA ResetEntryFits ==
    ASSUME CutoverInv, NEW i \in Instance, ResetEntry(i)
    PROVE  \A j \in Instance : Keeps(j)
<1>1. Fits(i) /\ TypeOK /\ PickedUp
  BY DEF CutoverInv, WindowInv
<1>2. fin.step[i] = "rewrite" /\ UNCHANGED <<machines, DuringFinal>>
  BY DEF ResetEntry
<1>3. MachinesSame(i) /\ LocksSame(i) /\ ImportSame(i)
  BY <1>2, DuringFinalSame
<1>4. Queued(i) /\ queue[i] \in Entry /\ (InFinalImport(i) <=> Read(i) = "FINAL_IMPORT")
  BY <1>1, <1>2, EntryOf, FollowedOf DEF Fits
<1>5. CASE Read(i) = "FINAL_IMPORT"
  <2>1. SetStatus(i, "IDLE", "final", NoWindow) /\ FinalTo(i, "restart")
    BY <1>4, <1>5 DEF ResetEntry, StartFinalImportOver, SetStatus
  <2>2. Now(i)' = "IDLE" /\ Stage(i)' = "final"
    BY <1>1, <1>4, <2>1, StatusSet DEF Status, ImportStage
  <2>3. \A j \in Instance \ {i} : Same(j)
    BY <1>1, <1>2, <2>1, FinalLocal DEF SetStatus, machines, DuringFinal, MachinesSame
  <2> SUFFICES Keeps(i)
    BY <1>1, <2>3, OneFits
  <2>4. /\ fin.step[i] = "rewrite" /\ fin'.step[i] = "restart" /\ Read(i) = "FINAL_IMPORT"
        /\ Now(i)' = "IDLE" /\ Stage(i)' = "final" /\ fin'.pc = fin.pc /\ Read(i)' = Read(i)
        /\ MachinesSame(i) /\ LocksSame(i) /\ ImportSame(i)
    BY <1>1, <1>2, <1>3, <1>5, <2>1, <2>2, FinalToOf
  <2>5. MachinesFit(i)' /\ LocksFit(i)' /\ CreationFits(i)'
    BY <1>1, <2>4 DEF Fits, MachinesFit, LocksFit, CreationFits, FinalizationFits, Followed,
        Read, CheckSteps, MachinesSame, LocksSame, ImportSame
  <2>6. FinalizationFits(i)'
    BY <1>1, <2>4 DEF Fits, FinalizationFits, Followed, Read, CheckSteps, MachinesSame,
        LocksSame, ImportSame
  <2>7. WorkerFits(i)' /\ TargetFits(i)' /\ CopyFits(i)'
    BY <1>1, <2>4 DEF Fits, FinalizationFits, Followed, Read, CheckSteps, WorkerFits, Imported,
        TargetFits, CopyFits, TakenBack, MachinesSame, LocksSame, ImportSame
  <2>8. Moved(i)
    BY <1>1, <2>4 DEF Moved, HandedOver, Fits, FinalizationFits, Followed, Read, CheckSteps,
        MachinesSame, LocksSame, ImportSame
  <2> QED
    BY <2>5, <2>6, <2>7, <2>8 DEF Keeps, Fits
<1>6. CASE Read(i) # "FINAL_IMPORT"
  <2>1. SetStatus(i, "WAITING", "background", NoWindow) /\ FinalTo(i, "done")
    BY <1>4, <1>6 DEF ResetEntry
  <2>2. Now(i)' = "WAITING" /\ Stage(i)' = "background"
    BY <1>1, <1>4, <2>1, StatusSet DEF Status, ImportStage
  <2>3. \A j \in Instance \ {i} : Same(j)
    BY <1>1, <1>2, <2>1, FinalLocal DEF SetStatus, machines, DuringFinal, MachinesSame
  <2> SUFFICES Keeps(i)
    BY <1>1, <2>3, OneFits
  <2>4. /\ fin.step[i] = "rewrite" /\ fin'.step[i] = "done" /\ Read(i) # "FINAL_IMPORT"
        /\ Now(i)' = "WAITING" /\ fin'.pc = fin.pc /\ Read(i)' = Read(i) /\ MachinesSame(i)
        /\ LocksSame(i) /\ ImportSame(i)
    BY <1>1, <1>2, <1>3, <1>6, <2>1, <2>2, FinalToOf
  <2>5. MachinesFit(i)' /\ LocksFit(i)' /\ CreationFits(i)'
    BY <1>1, <2>4 DEF Fits, MachinesFit, LocksFit, CreationFits, FinalizationFits, Followed,
        Read, CheckSteps, MachinesSame, LocksSame, ImportSame
  <2>6. FinalizationFits(i)'
    BY <1>1, <2>4 DEF Fits, FinalizationFits, Followed, Read, CheckSteps, MachinesSame,
        LocksSame, ImportSame
  <2>7. WorkerFits(i)' /\ TargetFits(i)' /\ CopyFits(i)'
    BY <1>1, <2>4 DEF Fits, FinalizationFits, Followed, Read, CheckSteps, WorkerFits, Imported,
        TargetFits, CopyFits, TakenBack, MachinesSame, LocksSame, ImportSame
  <2>8. Moved(i)
    BY <1>1, <2>4 DEF Moved, HandedOver, Fits, FinalizationFits, Followed, Read, CheckSteps,
        MachinesSame, LocksSame, ImportSame
  <2> QED
    BY <2>5, <2>6, <2>7, <2>8 DEF Keeps, Fits
<1> QED
  BY <1>5, <1>6

LEMMA RestartFits ==
    ASSUME CutoverInv, Reliable, NEW i \in Instance, RestartDetached(i)
    PROVE  \A j \in Instance : Keeps(j)
<1>1. Fits(i) /\ TypeOK /\ PickedUp
  BY DEF CutoverInv, WindowInv
<1>2. fin.step[i] = "restart" /\ UNCHANGED <<queue, source, vm, disks, mail, handler, cancel, imp>>
  BY DEF RestartDetached, database, DuringFinal
<1>3. vm[i] = "worker"
  BY <1>1, <1>2, FollowedOf DEF Fits, FinalizationFits
<1>4. worker' = [worker EXCEPT ![i] = "ask"] /\ FinalTo(i, "done")
  BY <1>3 DEF RestartDetached, Reliable
<1>5. EntrySame(i) /\ LocksSame(i) /\ ImportSame(i)
  BY <1>2, QueueSame, TasksSame DEF LocksSame
<1>6. \A j \in Instance \ {i} : Same(j)
  BY <1>1, <1>2, <1>4, FinalLocal DEF MachinesSame, TypeOK
<1> SUFFICES Keeps(i)
  BY <1>1, <1>6, OneFits
<1>7. /\ fin.step[i] = "restart" /\ fin'.step[i] = "done" /\ vm[i] = "worker"
      /\ worker'[i] = "ask" /\ source'[i] = source[i] /\ vm'[i] = vm[i] /\ disks'[i] = disks[i]
      /\ mail'[i] = mail[i] /\ fin'.pc = fin.pc /\ Read(i)' = Read(i) /\ EntrySame(i)
      /\ LocksSame(i) /\ ImportSame(i)
  BY <1>1, <1>2, <1>3, <1>4, <1>5, FinalToOf DEF TypeOK
<1>8. MachinesFit(i)' /\ LocksFit(i)' /\ CreationFits(i)'
  BY <1>1, <1>7 DEF Fits, MachinesFit, LocksFit, CreationFits, FinalizationFits, Followed, Read,
      CheckSteps, EntrySame, LocksSame, ImportSame
<1>9. FinalizationFits(i)'
  BY <1>1, <1>7 DEF Fits, FinalizationFits, Followed, Read, CheckSteps, EntrySame, LocksSame,
      ImportSame
<1>10. WorkerFits(i)' /\ TargetFits(i)' /\ CopyFits(i)'
  BY <1>1, <1>7 DEF Fits, WorkerFits, Imported, TargetFits, CopyFits, TakenBack, EntrySame,
      LocksSame, ImportSame
<1>11. Moved(i)
  BY <1>1, <1>7 DEF Moved, HandedOver, EntrySame, LocksSame, ImportSame
<1> QED
  BY <1>8, <1>9, <1>10, <1>11 DEF Keeps, Fits

LEMMA ConfigureFits ==
    ASSUME CutoverInv, Reliable, NEW i \in Instance, ConfigureVM(i)
    PROVE  \A j \in Instance : Keeps(j)
<1>1. Fits(i) /\ TypeOK /\ PickedUp
  BY DEF CutoverInv, WindowInv
<1>2. fin.step[i] = "configure" /\ UNCHANGED <<queue, source, disks, mail, handler, cancel, imp>>
  BY DEF ConfigureVM, database, DuringFinal
<1>3. vm[i] # "none"
  <2>1. Followed(i) /\ Read(i) = "WORKER_DONE"
    BY <1>1, <1>2, FollowedOf DEF Fits, FinalizationFits
  <2>2. Imported(i)
    BY <2>1 DEF Followed, Imported
  <2> QED
    BY <1>1, <1>2, <2>2 DEF Fits, TargetFits
<1>4. /\ \E final \in {"running", "stopped"} : vm' = [vm EXCEPT ![i] = final]
      /\ worker' = [worker EXCEPT ![i] = "none"] /\ FinalTo(i, "finish")
  BY <1>3 DEF ConfigureVM, Reliable
<1>5. EntrySame(i) /\ LocksSame(i) /\ ImportSame(i)
  BY <1>2, QueueSame, TasksSame DEF LocksSame
<1>6. \A j \in Instance \ {i} : Same(j)
  BY <1>1, <1>2, <1>4, FinalLocal DEF MachinesSame, TypeOK
<1> SUFFICES Keeps(i)
  BY <1>1, <1>6, OneFits
<1>7. /\ fin.step[i] = "configure" /\ fin'.step[i] = "finish" /\ vm[i] # "none"
      /\ vm'[i] \in {"stopped", "running"} /\ worker'[i] = "none" /\ source'[i] = source[i]
      /\ disks'[i] = disks[i] /\ mail'[i] = mail[i] /\ fin'.pc = fin.pc /\ Read(i)' = Read(i)
      /\ EntrySame(i) /\ LocksSame(i) /\ ImportSame(i)
  BY <1>1, <1>2, <1>3, <1>4, <1>5, FinalToOf DEF TypeOK
<1>8. MachinesFit(i)' /\ LocksFit(i)' /\ CreationFits(i)'
  BY <1>1, <1>7 DEF Fits, MachinesFit, LocksFit, CreationFits, FinalizationFits, Followed, Read,
      CheckSteps, WorkerFits, Imported, EntrySame, LocksSame, ImportSame
<1>9. FinalizationFits(i)'
  BY <1>1, <1>7 DEF Fits, FinalizationFits, Followed, Read, CheckSteps, CopyFits, Imported,
      TakenBack, EntrySame, LocksSame, ImportSame
<1>10. WorkerFits(i)' /\ TargetFits(i)' /\ CopyFits(i)'
  BY <1>1, <1>7 DEF Fits, WorkerFits, Imported, TargetFits, CopyFits, TakenBack, EntrySame,
      LocksSame, ImportSame
<1>11. Moved(i)
  BY <1>1, <1>7 DEF Moved, HandedOver, Fits, MachinesFit, FinalizationFits, Followed, Read,
      CheckSteps, CopyFits, Imported, TakenBack, EntrySame, LocksSame, ImportSame
<1> QED
  BY <1>8, <1>9, <1>10, <1>11 DEF Keeps, Fits

LEMMA FinishFits ==
    ASSUME CutoverInv, NEW i \in Instance, FinishEntry(i)
    PROVE  \A j \in Instance : Keeps(j)
<1>1. Fits(i) /\ TypeOK /\ PickedUp
  BY DEF CutoverInv, WindowInv
<1>2. fin.step[i] = "finish" /\ UNCHANGED <<machines, DuringFinal>>
  BY DEF FinishEntry
<1>3. MachinesSame(i) /\ LocksSame(i) /\ ImportSame(i)
  BY <1>2, DuringFinalSame
<1>4. Queued(i) /\ fin.snapshot[i].stage \in ImportStage
  BY <1>1, <1>2, FollowedOf, SnapshotFields DEF Fits
<1>5. SetStatus(i, "FINISHED", fin.snapshot[i].stage, NoWindow) /\ FinalTo(i, "done")
  BY <1>4 DEF FinishEntry
<1>6. Now(i)' = "FINISHED"
  BY <1>1, <1>4, <1>5, StatusSet DEF Status
<1>7. \A j \in Instance \ {i} : Same(j)
  BY <1>1, <1>2, <1>5, FinalLocal DEF SetStatus, machines, DuringFinal, MachinesSame
<1> SUFFICES Keeps(i)
  BY <1>1, <1>7, OneFits
<1>8. /\ fin.step[i] = "finish" /\ fin'.step[i] = "done" /\ Now(i)' = "FINISHED"
      /\ fin'.pc = fin.pc /\ Read(i)' = Read(i) /\ MachinesSame(i) /\ LocksSame(i)
      /\ ImportSame(i)
  BY <1>1, <1>2, <1>3, <1>5, <1>6, FinalToOf
<1>9. MachinesFit(i)' /\ LocksFit(i)' /\ CreationFits(i)'
  BY <1>1, <1>8 DEF Fits, MachinesFit, LocksFit, CreationFits, FinalizationFits, Followed, Read,
      CheckSteps, MachinesSame, LocksSame, ImportSame
<1>10. FinalizationFits(i)'
  BY <1>1, <1>8 DEF Fits, FinalizationFits, Followed, Read, CheckSteps, MachinesSame, LocksSame,
      ImportSame
<1>11. WorkerFits(i)' /\ TargetFits(i)' /\ CopyFits(i)'
  BY <1>1, <1>8 DEF Fits, FinalizationFits, Followed, Read, CheckSteps, WorkerFits, Imported,
      TargetFits, CopyFits, TakenBack, MachinesSame, LocksSame, ImportSame
<1>12. Moved(i)
  BY <1>1, <1>8 DEF Moved, HandedOver, Fits, FinalizationFits, Followed, Read, CheckSteps,
      MachinesSame, LocksSame, ImportSame
<1> QED
  BY <1>9, <1>10, <1>11, <1>12 DEF Keeps, Fits

LEMMA FinalFits ==
    ASSUME CutoverInv, Reliable, FinalTask
    PROVE  \A j \in Instance : Keeps(j)
<1>1. ASSUME NEW i \in Instance
      PROVE  ~RevertConfigure(i) /\ ~PowerBack(i)
  BY DEF CutoverInv, Fits, FinalizationFits, RevertConfigure, PowerBack
<1>2. AbortChecks => /\ fin.pc = "check" /\ fin' = IdleFinal
                     /\ UNCHANGED <<queue, machines, DuringFinal>>
  BY DEF AbortChecks, database
<1> QED
  BY <1>1, <1>2, TakeSnapshotFits, AbortFits, VerdictFits, OutcomeFits, CheckSourceFits,
     ResetPowerOnFits, DetachFits, ResetEntryFits, RestartFits, ConfigureFits, FinishFits
     DEF FinalTask, FinalizeInstance

-----------------------------------------------------------------------------
(***************************************************************************)
(* The invariant holds in every state, and what it implies.                *)
(***************************************************************************)

LEMMA FinalReads ==
    ASSUME TypeOK, ReadForAStep, FinalTask
    PROVE  ReadForAStep'
<1>1. CASE fin' = IdleFinal
  BY <1>1 DEF ReadForAStep, IdleFinal
<1>2. CASE TakeSnapshot
  <2>1. fin'.pc = "check" /\ \A i \in Instance : fin'.snapshot[i] # NoEntry => fin'.step[i] # "none"
    BY <1>2 DEF TakeSnapshot
  <2> QED
    BY <2>1 DEF ReadForAStep, InSnapshot
<1>3. ASSUME NEW i \in Instance, NEW step, step # "none", FinalTo(i, step)
      PROVE  ReadForAStep'
  BY <1>3 DEF FinalTo, ReadForAStep, InSnapshot, TypeOK, FinalTaskState
<1>4. CASE StoreVerdicts /\ fin' # IdleFinal
  <2>1. fin'.pc = "run"
    BY <1>4, Zenon DEF StoreVerdicts, TypeOK, FinalTaskState
  <2> QED
    BY <2>1 DEF ReadForAStep
<1> QED
  BY <1>1, <1>2, <1>3, <1>4
  DEF FinalTask, FinalizeInstance, AbortChecks, CheckSource, ResetPowerOn, DetachTarget,
      ResetEntry, RestartDetached, ConfigureVM, FinishEntry, RevertConfigure, PowerBack,
      RecordOutcome

\* Every step keeps the invariant and moves each machine as it may.
LEMMA StepCutover ==
    ASSUME CutoverInv, Reliable, Next
    PROVE  CutoverInv' /\ \A i \in Instance : Moved(i)
<1>1. WindowInv'
  BY StepWindowInv DEF CutoverInv
<1>2. ReadForAStep'
  <2>1. CASE FinalTask
    BY <2>1, FinalReads DEF CutoverInv, WindowInv
  <2>2. CASE fin' = fin \/ fin' = IdleFinal
    BY <2>2 DEF CutoverInv, ReadForAStep, InSnapshot, IdleFinal
  <2> QED
    BY <2>1, <2>2, OthersLeaveFinal
<1>3. \A i \in Instance : Keeps(i)
  <2>1. ~RestartDaemon /\ (Tick => UNCHANGED <<queue, machines, daemon>>)
    BY DEF RestartDaemon, Reliable, Tick, database
  <2> QED
    BY <2>1, IdleFits, ImportFits, FinalFits, WorkerStepFits, WorkerRequestFits,
       EntryRequestFits, SwitchFits, BatchRequestFits DEF Next
<1> QED
  BY <1>1, <1>2, <1>3 DEF CutoverInv, Keeps

LEMMA InitCutover == Init => CutoverInv
<1> SUFFICES ASSUME Init PROVE CutoverInv
  OBVIOUS
<1>1. WindowInv
  BY InitWindowInv
<1>2. fin = IdleFinal /\ imp = IdleImport
  BY DEF Init
<1>3. ASSUME NEW i \in Instance
      PROVE  Fits(i)
  <2>1. Now(i) = "NONE" /\ Stage(i) = "NONE"
    BY DEF Init, Now, Stage, Queued
  <2>2. /\ ~Placed(i) /\ imp.step[i] = "none" /\ imp.pc = "idle"
        /\ fin.step[i] = "none" /\ fin.pc = "idle"
    BY <1>2 DEF IdleFinal, IdleImport, Placed
  <2>3. /\ vm[i] = "none" /\ disks[i] = "empty" /\ worker[i] = "none" /\ mail[i] = "none"
        /\ ~handler[i] /\ cancel[i] = "idle"
    BY DEF Init
  <2>4. MachinesFit(i) /\ LocksFit(i) /\ CreationFits(i) /\ FinalizationFits(i)
    BY <2>1, <2>2, <2>3 DEF MachinesFit, LocksFit, CreationFits, FinalizationFits
  <2>5. WorkerFits(i) /\ TargetFits(i) /\ CopyFits(i)
    BY <2>1, <2>2, <2>3 DEF WorkerFits, TargetFits, CopyFits, Imported
  <2> QED
    BY <2>4, <2>5 DEF Fits
<1> QED
  BY <1>1, <1>2, <1>3 DEF CutoverInv, ReadForAStep, IdleFinal

LEMMA CutoverHolds ==
    ASSUME Reliable
    PROVE  Spec => []CutoverInv
<1>1. CutoverInv /\ UNCHANGED vars => CutoverInv'
  <2> SUFFICES ASSUME CutoverInv, UNCHANGED vars PROVE CutoverInv'
    OBVIOUS
  <2>1. WindowInv'
    BY StepWindowInv DEF CutoverInv
  <2>2. \A i \in Instance : Keeps(i)
    BY IdleFits DEF vars, database
  <2> QED
    BY <2>1, <2>2 DEF CutoverInv, Keeps, ReadForAStep, InSnapshot, vars, daemon
<1>2. CutoverInv /\ [Next]_vars => CutoverInv'
  BY <1>1, StepCutover
<1> QED
  BY <1>2, InitCutover, PTL DEF Spec

\* What the status of an entry says of its target VM.
LEMMA MigratedIs ==
    ASSUME TypeOK, NEW i \in Instance
    PROVE  Migrated(i) <=> HandedOver(i)
BY EntryOf DEF Migrated, Is, HandedOver

LEMMA HandedOverReady ==
    ASSUME CutoverInv, NEW i \in Instance, HandedOver(i)
    PROVE  disks[i] = "ready" /\ ~source[i]
BY DEF CutoverInv, Fits, HandedOver, TargetFits, FinalizationFits, MachinesFit

(***************************************************************************)
(* A migrated VM has every write of its source VM, whatever the owners,    *)
(* the workers and their messages, the checks and the limits do, and       *)
(* however entries are canceled, retried and resolved in between.          *)
(***************************************************************************)
THEOREM WritesAreKept ==
    ASSUME Reliable
    PROVE  Spec => []NoLostWrites
<1>1. CutoverInv => NoLostWrites
  BY MigratedIs, HandedOverReady DEF NoLostWrites, CutoverInv, WindowInv
<1> QED
  BY <1>1, CutoverHolds, PTL

(***************************************************************************)
(* A source VM is off while the VM it was migrated to runs.                *)
(***************************************************************************)
THEOREM OneOfThemRuns ==
    ASSUME Reliable
    PROVE  Spec => []NeverBothRunning
<1>1. CutoverInv => NeverBothRunning
  BY HandedOverReady DEF NeverBothRunning, HandedOver
<1> QED
  BY <1>1, CutoverHolds, PTL

(***************************************************************************)
(* The stage "complete" of an entry whose migration is not taken back      *)
(* means that its source VM is off and was copied since it went down.      *)
(***************************************************************************)
THEOREM CompleteIsCopied ==
    ASSUME Reliable
    PROVE  Spec => []CompleteMeansCopied
<1>1. CutoverInv => CompleteMeansCopied
  <2> SUFFICES ASSUME CutoverInv, NEW i \in Instance, Queued(i), queue[i].stage = "complete",
                      IsCommitted(queue[i]), ~RollingBack(i)
               PROVE  ~source[i] /\ disks[i] \in {"current", "ready"}
    BY DEF CompleteMeansCopied
  <2>1. Fits(i) /\ TypeOK
    BY DEF CutoverInv, WindowInv
  <2>2. Stage(i) = "complete" /\ Now(i) = queue[i].status
    BY <2>1, EntryOf
  <2>3. Now(i) \in {"POST_IMPORT", "IDLE"} \/ Imported(i)
    BY <2>1, <2>2 DEF IsCommitted, Imported, Fits, CopyFits
  <2>4. ~TakenBack(i)
    BY DEF RollingBack, TakenBack
  <2>5. disks[i] \in {"current", "ready"}
    BY <2>1, <2>2, <2>3, <2>4 DEF Fits, CopyFits
  <2> QED
    BY <2>1, <2>5 DEF Fits, MachinesFit
<1> QED
  BY <1>1, CutoverHolds, PTL

-----------------------------------------------------------------------------
(***************************************************************************)
(* Cutover, the abstract specification: the initial states map to initial  *)
(* states, and every step to a step of every machine.                      *)
(***************************************************************************)

LEMMA PlaceIs ==
    ASSUME TypeOK, NEW i \in Instance
    PROVE  /\ HandedOver(i) => PlaceOf(i) = "target"
           /\ ~HandedOver(i) /\ source[i] => PlaceOf(i) = "source"
           /\ ~HandedOver(i) /\ ~source[i] => PlaceOf(i) = "down"
<1>1. Migrated(i) <=> HandedOver(i)
  BY MigratedIs
<1> QED
  BY <1>1 DEF PlaceOf

LEMMA PlaceWillBe ==
    ASSUME TypeOK', NEW i \in Instance
    PROVE  /\ HandedOver(i)' => PlaceOf(i)' = "target"
           /\ ~HandedOver(i)' /\ source'[i] => PlaceOf(i)' = "source"
           /\ ~HandedOver(i)' /\ ~source'[i] => PlaceOf(i)' = "down"
<1>1. Migrated(i)' <=> HandedOver(i)'
  BY EntryOf DEF Migrated, Is, HandedOver, Now, Queued, TypeOK
<1> QED
  BY <1>1 DEF PlaceOf

LEMMA MachineMoves ==
    ASSUME CutoverInv, CutoverInv', NEW i \in Instance, Moved(i)
    PROVE  Promise!Moves(PlaceOf(i), disks[i] = "ready", PlaceOf(i)', disks'[i] = "ready")
<1>1. TypeOK /\ TypeOK' /\ MachinesFit(i) /\ MachinesFit(i)'
  BY DEF CutoverInv, WindowInv, Fits
<1>2. CASE HandedOver(i)
  <2>1. PlaceOf(i) = "target" /\ PlaceOf(i)' = "target"
    BY <1>1, <1>2, PlaceIs, PlaceWillBe DEF Moved
  <2>2. disks[i] = "ready" /\ disks'[i] = "ready"
    BY <1>2, HandedOverReady DEF Moved, CutoverInv, Fits, HandedOver, TargetFits,
       FinalizationFits
  <2> QED
    BY <2>1, <2>2 DEF Promise!Moves, Promise!Rest
<1>3. CASE ~HandedOver(i) /\ HandedOver(i)'
  <2>1. PlaceOf(i) = "down" /\ PlaceOf(i)' = "target"
    BY <1>1, <1>3, PlaceIs, PlaceWillBe DEF Moved
  <2>2. disks[i] = "ready" /\ disks'[i] = "ready"
    BY <1>3 DEF Moved, CutoverInv, Fits, HandedOver, TargetFits, FinalizationFits
  <2> QED
    BY <2>1, <2>2 DEF Promise!Moves, Promise!HandOver
<1>4. CASE ~HandedOver(i)' /\ source'[i]
  <2>1. ~HandedOver(i) /\ PlaceOf(i)' = "source" /\ disks'[i] # "ready"
    BY <1>1, <1>4, PlaceWillBe DEF Moved, MachinesFit
  <2>2. PlaceOf(i) \in {"source", "down"}
    BY <1>1, <2>1, PlaceIs
  <2> QED
    BY <2>1, <2>2 DEF Promise!Moves, Promise!DropCopy, Promise!RollBack
<1>5. CASE ~HandedOver(i)' /\ ~source'[i]
  <2>1. ~HandedOver(i) /\ PlaceOf(i)' = "down"
    BY <1>1, <1>5, PlaceWillBe DEF Moved
  <2>2. CASE source[i]
    <3>1. PlaceOf(i) = "source" /\ disks'[i] # "ready"
      BY <1>1, <1>5, <2>1, <2>2, PlaceIs DEF Moved
    <3> QED
      BY <2>1, <3>1 DEF Promise!Moves, Promise!ShutDown
  <2>3. CASE ~source[i]
    <3>1. PlaceOf(i) = "down"
      BY <1>1, <2>1, <2>3, PlaceIs
    <3> QED
      BY <2>1, <3>1 DEF Promise!Moves, Promise!TakeCopy, Promise!DropCopy
  <2> QED
    BY <2>2, <2>3
<1> QED
  BY <1>2, <1>3, <1>4, <1>5

(***************************************************************************)
(* The system implements Cutover: no step of a task, a handler, a worker,  *)
(* an owner or a user takes a machine anywhere the promise to its owner    *)
(* does not allow.                                                         *)
(***************************************************************************)
THEOREM MigrationImplementsCutover ==
    ASSUME Reliable
    PROVE  Spec => ImplementsCutover
<1>1. Init => Promise!CutoverInit
  <2> SUFFICES ASSUME Init PROVE Promise!CutoverInit
    OBVIOUS
  <2>1. ASSUME NEW i \in Instance
        PROVE  PlaceOf(i) \in {"source", "down"} /\ disks[i] # "ready"
    <3>1. TypeOK /\ ~HandedOver(i)
      BY InitTypes DEF Init, HandedOver, Now, Queued
    <3> QED
      BY <3>1, PlaceIs DEF Init
  <2> QED
    BY <2>1 DEF Promise!CutoverInit
<1>2. CutoverInv /\ CutoverInv' /\ [Next]_vars
      => [Promise!CutoverNext]_<<[i \in Instance |-> PlaceOf(i)],
                                 [i \in Instance |-> disks[i] = "ready"]>>
  <2> SUFFICES ASSUME CutoverInv, CutoverInv', [Next]_vars
               PROVE  [Promise!CutoverNext]_<<[i \in Instance |-> PlaceOf(i)],
                                 [i \in Instance |-> disks[i] = "ready"]>>
    OBVIOUS
  <2>1. CASE Next
    <3>1. \A i \in Instance : Moved(i)
      BY <2>1, StepCutover
    <3>2. \A i \in Instance : Promise!Moves(PlaceOf(i), disks[i] = "ready",
                                            PlaceOf(i)', disks'[i] = "ready")
      BY <3>1, MachineMoves
    <3>3. \A i \in Instance : PlaceOf(i)' \in Promise!Place
      BY PlaceWillBe DEF Promise!Place, CutoverInv, WindowInv
    <3> QED
      BY <3>2, <3>3 DEF Promise!CutoverNext
  <2>2. CASE UNCHANGED vars
    <3>1. \A i \in Instance : PlaceOf(i)' = PlaceOf(i) /\ disks'[i] = disks[i]
      BY <2>2 DEF vars, database, machines, PlaceOf, Migrated, Is, Queued
    <3> QED
      BY <3>1
  <2> QED
    BY <2>1, <2>2
<1> QED
  BY <1>1, <1>2, CutoverHolds, PTL DEF Spec, ImplementsCutover, Promise!CutoverSpec

-----------------------------------------------------------------------------
(***************************************************************************)
(* What the invariant says of the target VMs.                              *)
(***************************************************************************)

(***************************************************************************)
(* An entry that imports, or waits to, has a target VM with a worker in    *)
(* it, and the VM of a finished entry has been handed over.                *)
(***************************************************************************)
THEOREM StatusesTellVMs ==
    ASSUME Reliable
    PROVE  Spec => []StatusTellsVM
<1>1. CutoverInv => StatusTellsVM
  <2> SUFFICES ASSUME CutoverInv, NEW i \in Instance
               PROVE  /\ Is(i, {"IDLE", "BACKGROUND_IMPORT", "FINAL_IMPORT"}) => vm[i] = "worker"
                      /\ Is(i, {"FINISHED"}) => vm[i] \in {"stopped", "running"}
    BY DEF StatusTellsVM
  <2>1. Fits(i) /\ TypeOK
    BY DEF CutoverInv, WindowInv
  <2>2. Queued(i) => Now(i) = queue[i].status
    BY <2>1, EntryOf
  <2>3. Now(i) \in {"IDLE", "BACKGROUND_IMPORT", "FINAL_IMPORT"} =>
          vm[i] = "worker" \/ fin.step[i] \in {"rewrite", "finish"}
    BY <2>1 DEF Fits, TargetFits
  <2>4. /\ fin.step[i] \in {"rewrite", "finish"}
        /\ Now(i) \in {"IDLE", "BACKGROUND_IMPORT", "FINAL_IMPORT"}
        => vm[i] = "worker"
    BY <2>1 DEF Fits, FinalizationFits, Followed
  <2>5. Now(i) = "FINISHED" => vm[i] \in {"stopped", "running"}
    BY <2>1 DEF Fits, TargetFits
  <2> QED
    BY <2>2, <2>3, <2>4, <2>5 DEF Is
<1> QED
  BY <1>1, CutoverHolds, PTL

(***************************************************************************)
(* An entry that is finished stays finished.                               *)
(***************************************************************************)
THEOREM FinishedStays ==
    ASSUME Reliable
    PROVE  Spec => FinishedForGood
<1>1. CutoverInv /\ CutoverInv' /\ [Next]_vars
      => [\A i \in Instance : Is(i, {"FINISHED"}) =>
            queue'[i] = NoEntry \/ queue'[i].status = "FINISHED"]_vars
  <2> SUFFICES ASSUME CutoverInv, Next, NEW i \in Instance, Is(i, {"FINISHED"})
               PROVE  queue'[i].status = "FINISHED"
    OBVIOUS
  <2>1. Now(i) = "FINISHED"
    BY DEF Is, Now
  <2>2. Now(i)' = "FINISHED"
    BY <2>1, StepCutover DEF Moved
  <2> QED
    BY <2>2 DEF Now
<1> QED
  BY <1>1, CutoverHolds, PTL DEF Spec, FinishedForGood

(***************************************************************************)
(* Unless an owner or a cancel comes between, only the source VM of a      *)
(* committed entry is powered off.                                         *)
(***************************************************************************)
THEOREM OnlyCommittedGoDown ==
    ASSUME Reliable, "owner" \notin Faults, "cancel" \notin Requests
    PROVE  Spec => OnlyCommittedPoweredOff
<1>1. CutoverInv /\ CutoverInv' /\ [Next]_vars
      => [\A i \in Instance :
            (source[i] /\ ~source'[i]) => Queued(i) /\ IsCommitted(queue[i])]_vars
  <2> SUFFICES ASSUME CutoverInv, Next, NEW i \in Instance, source[i], ~source'[i]
               PROVE  Queued(i) /\ IsCommitted(queue[i])
    OBVIOUS
  <2>1. Now(i) \in {"FINAL_IMPORT", "WORKER_DONE"}
    BY StepCutover DEF Moved
  <2> QED
    BY <2>1 DEF Now, IsCommitted
<1> QED
  BY <1>1, CutoverHolds, PTL DEF Spec, OnlyCommittedPoweredOff

\* A batch becomes finished only with its entries.
LEMMA BatchFinishes ==
    ASSUME TypeOK, Next, NEW b \in Batch, batch'[b] = "FINISHED", batch[b] # "FINISHED"
    PROVE  AllFinished(b) /\ RecordOutcome
<1>1. ImportTask => batch'[b] \in {batch[b], "RUNNING", "ERROR"}
  BY DEF ImportTask, ReassessBlocked, PlaceWaiting, EnsureImages, ClaimEntries, CreateTargetVM,
         CreateVM, BootWorker, ReadyForWorker, CleanupCreated, RevertCreating, EndImports,
         DuringCreate, database
<1>2. FinalTask => RecordOutcome \/ batch'[b] = batch[b]
  BY DEF FinalTask, FinalizeInstance, TakeSnapshot, AbortChecks, StoreVerdicts, CheckSource,
         ResetPowerOn, DetachTarget, ResetEntry, RestartDetached, ConfigureVM, FinishEntry,
         RevertConfigure, PowerBack, database
<1>3. ASSUME NEW i \in Instance, WorkerStep(i)
      PROVE  batch'[b] = batch[b]
  BY <1>3 DEF WorkerStep, FinishBackgroundImport, ShutDownSource, FinishFinalImport,
              FinishPostImport, FailCommand, RestartWorker, DuringPost, database
<1>4. ASSUME NEW i \in Instance, WorkerRequest(i)
      PROVE  batch'[b] = batch[b]
  BY <1>4 DEF WorkerRequest, BeginBackgroundImport, RepeatBackgroundImport, BeginFinalImport,
              BeginFinalImportUnchecked, BeginPostImport, ReissueCommand, ReportProgress,
              HandleUpdate, RestorePower, LoseUpdate, Reply, ErrorReply, DuringPost, database
<1>5. ASSUME NEW i \in Instance, EntryRequest(i)
      PROVE  batch'[b] = batch[b]
  BY <1>5 DEF EntryRequest, DeleteEntry, CancelEntry, CancelCleanup, CancelPowerOn, RetryEntry,
              ResolveEntry, database
<1>6. ASSUME NEW c \in Batch, BatchRequest(c)
      PROVE  batch'[b] \in {batch[b], "RUNNING", "STOPPED", "DEFINED"}
  BY <1>6 DEF BatchRequest, StartBatch, StopBatch, ResetBatch, ResetBatchFails, TypeOK, database
<1>7. Tick \/ RestartDaemon \/ (\E i \in Instance : SwitchSource(i)) => batch'[b] = batch[b]
  BY DEF Tick, RestartDaemon, SwitchSource, database
<1>8. RecordOutcome
  BY <1>1, <1>2, <1>3, <1>4, <1>5, <1>6, <1>7 DEF Next
<1>9. PICK batches :
        batch' = [c \in Batch |-> IF c \in batches /\ AllFinished(c) THEN "FINISHED"
                                  ELSE batch[c]]
  <2>1. batch' # batch
    OBVIOUS
  <2> QED
    BY <1>8, <2>1, Zenon DEF RecordOutcome, database
<1>10. AllFinished(b)
  BY <1>9
<1> QED
  BY <1>8, <1>10

(***************************************************************************)
(* The batch of a finished entry is finished only with its other entries:  *)
(* it becomes so with them, and none of them is taken back or added later. *)
(***************************************************************************)
THEOREM FinishedBatchesAreDone ==
    ASSUME Reliable
    PROVE  Spec => []FinishedBatchIsDone
<1>1. Init => FinishedBatchIsDone
  BY DEF Init, FinishedBatchIsDone
<1>2. CutoverInv /\ FinishedBatchIsDone /\ [Next]_vars => FinishedBatchIsDone'
  <2> SUFFICES ASSUME CutoverInv, FinishedBatchIsDone, [Next]_vars, NEW b \in Batch,
                      batch'[b] = "FINISHED", NEW i \in Entries(b)'
               PROVE  queue'[i].status = "FINISHED"
    BY DEF FinishedBatchIsDone
  <2>1. i \in Instance /\ queue'[i] # NoEntry /\ queue'[i].batch = b
    BY DEF Entries, Queued
  <2>2. CASE UNCHANGED vars
    BY <2>2 DEF vars, database, FinishedBatchIsDone, Entries, Queued
  <2>3. CASE Next
    <3>1. EntryStep(i)
      BY <2>1, <2>3, NextEntryStep DEF CutoverInv
    <3>2. i \in Entries(b)
      BY <2>1, <3>1 DEF EntryStep, Entries, Queued
    <3>3. CASE batch[b] = "FINISHED"
      <4>1. Now(i) = "FINISHED"
        BY <3>2, <3>3 DEF FinishedBatchIsDone, Entries, Now
      <4> QED
        BY <2>1, <2>3, <4>1, StepCutover DEF Moved, Now
    <3>4. CASE batch[b] # "FINISHED"
      <4>1. AllFinished(b)
        BY <2>3, <3>4, BatchFinishes DEF CutoverInv, WindowInv
      <4> QED
        BY <3>2, <4>1 DEF AllFinished
    <3> QED
      BY <3>3, <3>4
  <2> QED
    BY <2>2, <2>3
<1> QED
  BY <1>1, <1>2, CutoverHolds, PTL DEF Spec

(***************************************************************************)
(* A VM that was handed over is never deleted while its entry is there: no *)
(* reverter, no reset for an ended window and no cancel that was under way *)
(* takes it for one of theirs.                                             *)
(***************************************************************************)
THEOREM MigratedVMsAreKept ==
    ASSUME Reliable
    PROVE  Spec => MigratedVMKept
<1>1. CutoverInv /\ CutoverInv' /\ [Next]_vars
      => [\A i \in Instance : Migrated(i) /\ Known(i) => vm'[i] # "none"]_vars
  <2> SUFFICES ASSUME CutoverInv, CutoverInv', Next, NEW i \in Instance, Migrated(i)
               PROVE  vm'[i] # "none"
    OBVIOUS
  <2>1. HandedOver(i)'
    BY StepCutover, MigratedIs DEF Moved, CutoverInv, WindowInv
  <2> QED
    BY <2>1 DEF HandedOver, CutoverInv, Fits, TargetFits
<1> QED
  BY <1>1, CutoverHolds, PTL DEF Spec, MigratedVMKept

-----------------------------------------------------------------------------
(***************************************************************************)
(* The capacities of the windows.  A verdict of the finalization is stored *)
(* with the window the entry was read with: it still has that one.         *)
(***************************************************************************)
WindowAsRead == \A i \in Instance :
    fin.step[i] \in {"check", "toError", "toConflict"} =>
        queue[i].window = fin.snapshot[i].window

\* The windows of the batches have different names.
NamesDiffer == \A b, c \in Batch : b # c => DOMAIN Schedule[b] \cap DOMAIN Schedule[c] = {}

LEMMA StepWindowAsRead ==
    ASSUME CutoverInv, CutoverInv', Reliable, WindowAsRead, Next
    PROVE  WindowAsRead'
<1> SUFFICES ASSUME NEW i \in Instance, fin'.step[i] \in {"check", "toError", "toConflict"}
             PROVE  queue'[i].window = fin'.snapshot[i].window
  BY DEF WindowAsRead
<1>1. TypeOK /\ Fits(i) /\ Fits(i)'
  BY DEF CutoverInv, WindowInv
<1>2. fin'.pc = "check" /\ Now(i)' = "WORKER_DONE"
  BY <1>1 DEF Fits, FinalizationFits, CheckSteps, Followed, CutoverInv, WindowInv, TypeOK,
              FinalTaskState
<1>3. CASE TakeSnapshot
  BY <1>3 DEF TakeSnapshot, database, MigrationState
<1>4. CASE \E j \in Instance : CheckSource(j)
  <2>1. /\ fin.step[i] \in {"check", "toError", "toConflict"} /\ UNCHANGED queue
        /\ fin'.snapshot[i] = fin.snapshot[i]
    BY <1>1, <1>4 DEF CheckSource, FinalTo, TypeOK, FinalTaskState, database
  <2> QED
    BY <2>1 DEF WindowAsRead
<1>5. CASE fin' = fin
  <2>1. Now(i) = "WORKER_DONE" /\ queue[i].window = fin.snapshot[i].window
    BY <1>1, <1>5 DEF Fits, FinalizationFits, Followed, WindowAsRead
  <2>2. EntryStep(i)
    BY NextEntryStep DEF CutoverInv
  <2>3. Queued(i) /\ queue'[i] # NoEntry /\ queue'[i].status = "WORKER_DONE"
    BY <1>2, <2>1 DEF Now, Queued
  <2>4. queue[i].status = "WORKER_DONE"
    BY <2>1 DEF Now
  <2> QED
    BY <1>5, <2>1, <2>2, <2>3, <2>4 DEF EntryStep, KeepsOrGivesUp, TakesWindow, WritesBack
<1> QED
  <2>1. fin' # IdleFinal
    BY <1>2 DEF IdleFinal
  <2>2. FinalTask => TakeSnapshot \/ (\E j \in Instance : CheckSource(j))
    <3>1. StoreVerdicts => fin' = IdleFinal \/ fin'.pc = "run"
      BY <1>1 DEF StoreVerdicts, TypeOK, FinalTaskState
    <3>2. ASSUME NEW j \in Instance, FinalizeInstance(j), ~CheckSource(j)
          PROVE  fin.pc # "check" /\ fin'.pc = fin.pc
      <4>1. TypeOK /\ Fits(j)
        BY DEF CutoverInv, WindowInv
      <4>2. fin.step[j] \notin CheckSteps /\ fin.step[j] # "none"
        BY <3>2 DEF FinalizeInstance, ResetPowerOn, DetachTarget, ResetEntry, RestartDetached,
                    ConfigureVM, FinishEntry, RevertConfigure, PowerBack, CheckSteps
      <4>3. \E step : FinalTo(j, step)
        BY <3>2, Zenon DEF FinalizeInstance, ResetPowerOn, DetachTarget, ResetEntry,
             RestartDetached, ConfigureVM, FinishEntry, RevertConfigure, PowerBack
      <4> QED
        BY <4>1, <4>2, <4>3 DEF Fits, FinalizationFits, FinalTo, TypeOK, FinalTaskState
    <3>3. RecordOutcome \/ AbortChecks => fin' = IdleFinal
      BY DEF RecordOutcome, AbortChecks
    <3> QED
      BY <1>2, <2>1, <3>1, <3>2, <3>3 DEF FinalTask
  <2> QED
    BY <1>3, <1>4, <1>5, <2>1, <2>2, OthersLeaveFinal

\* The entries that hold a window.
Holders(w) == {i \in Instance : Queued(i) /\ queue[i].window = w}

\* A window gets another holder only if it has room.
LEMMA StepCapacity ==
    ASSUME CutoverInv, Reliable, WindowAsRead, CapacityRespected, Next,
           IsFiniteSet(Instance), NamesDiffer
    PROVE  CapacityRespected'
<1> SUFFICES ASSUME NEW b \in Batch, NEW w \in DOMAIN Schedule[b],
                    Schedule[b][w].capacity # 0
             PROVE  Cardinality(Holders(w)') <= Schedule[b][w].capacity
  BY DEF CapacityRespected, InUse, Holders
<1>1. w \in Window /\ w # NoWindow /\ Schedule[b][w].capacity \in Nat
  BY ConfigAssumption, EntryAssumption DEF WindowConfig
<1>2. /\ IsFiniteSet(Holders(w)) /\ Cardinality(Holders(w)) \in Nat
      /\ Cardinality(Holders(w)) <= Schedule[b][w].capacity
  BY FS_Subset, FS_CardinalityType DEF Holders, CapacityRespected, InUse
<1>3. CASE Holders(w)' \subseteq Holders(w)
  <2>1. IsFiniteSet(Holders(w)') /\ Cardinality(Holders(w)') <= Cardinality(Holders(w))
    BY <1>2, <1>3, FS_Subset
  <2>2. Cardinality(Holders(w)') \in Nat
    BY <2>1, FS_CardinalityType
  <2> QED
    BY <1>1, <1>2, <2>1, <2>2
<1>4. ASSUME NEW i \in Instance, i \in Holders(w)', i \notin Holders(w)
      PROVE  Cardinality(Holders(w)') <= Schedule[b][w].capacity
  <2>1. queue'[i] # NoEntry /\ queue'[i].window = w /\ (Queued(i) => queue[i].window # w)
    BY <1>4 DEF Holders, Queued
  <2>2. EntryStep(i)
    BY NextEntryStep DEF CutoverInv
  <2>3. ~WritesBack(i)
    BY <2>1 DEF WritesBack, CutoverInv, Fits, FinalizationFits, Followed, WindowAsRead, Now
  <2>4. Queued(i) /\ TakesWindow(i)
    BY <1>1, <2>1, <2>2, <2>3 DEF EntryStep, KeepsOrGivesUp, Queued
  <2>5. w \in NextWindows(i) /\ ~KeepsWindow(queue[i])
    BY <2>1, <2>4 DEF TakesWindow, Recorded, NextWindows
  <2>6. w \in WindowsWithRoom(queue[i])
    BY <1>1, <2>5 DEF NextWindows, Earliest
  <2>7. queue[i].batch = b
    <3>1. w \in DOMAIN Schedule[queue[i].batch] /\ queue[i].batch \in Batch
      BY <2>4, <2>6, EntryOf, EntryFields DEF WindowsWithRoom, CutoverInv, WindowInv
    <3> QED
      BY <3>1 DEF NamesDiffer
  <2>8. Cardinality(Holders(w)) < Schedule[b][w].capacity
    BY <2>1, <2>4, <2>6, <2>7 DEF WindowsWithRoom, InUse, Holders
  <2>9. Holders(w)' = Holders(w) \cup {i}
    BY <1>4, <2>1, <2>4 DEF Holders, TakesWindow, Queued
  <2>10. Cardinality(Holders(w)') = Cardinality(Holders(w)) + 1
    BY <1>2, <1>4, <2>9, FS_AddElement
  <2> QED
    BY <1>1, <1>2, <2>8, <2>10
<1> QED
  BY <1>3, <1>4 DEF Holders

(***************************************************************************)
(* No window is assigned to more instances than its capacity, though the   *)
(* finalization writes back windows it read several steps before.          *)
(***************************************************************************)
THEOREM CapacitiesRespected ==
    ASSUME Reliable, IsFiniteSet(Instance), NamesDiffer
    PROVE  Spec => []CapacityRespected
<1>1. Init => CapacityRespected /\ WindowAsRead
  <2> SUFFICES ASSUME Init PROVE CapacityRespected /\ WindowAsRead
    OBVIOUS
  <2>1. \A w : Holders(w) = {}
    BY DEF Init, Holders, Queued
  <2>2. \A w : InUse(w) = 0
    BY <2>1, FS_EmptySet DEF InUse, Holders
  <2>3. \A b \in Batch : \A w \in DOMAIN Schedule[b] : Schedule[b][w].capacity \in Nat
    BY ConfigAssumption DEF WindowConfig
  <2>4. CapacityRespected
    BY <2>2, <2>3 DEF CapacityRespected
  <2> QED
    BY <2>4 DEF Init, WindowAsRead, IdleFinal
<1>2. CutoverInv /\ CutoverInv' /\ CapacityRespected /\ WindowAsRead /\ [Next]_vars
      => CapacityRespected' /\ WindowAsRead'
  <2>1. CapacityRespected /\ WindowAsRead /\ UNCHANGED vars
        => CapacityRespected' /\ WindowAsRead'
    BY DEF vars, database, daemon, CapacityRespected, InUse, WindowAsRead, Queued
  <2> QED
    BY <2>1, StepWindowAsRead, StepCapacity
<1> QED
  BY <1>1, <1>2, CutoverHolds, PTL DEF Spec
=============================================================================
