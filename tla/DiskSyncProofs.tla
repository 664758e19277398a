--------------------------- MODULE DiskSyncProofs ---------------------------
(***************************************************************************)
(* Proofs about DiskSync, for any disks, blocks, bounds and faults: the    *)
(* change id file never promises too much, a cycle that succeeds has       *)
(* copied its snapshot, and a final import that succeeds has copied the    *)
(* source.                                                                 *)
(***************************************************************************)
EXTENDS DiskSync, TLAPS

\* The change id a is not newer than the change id b.
NotNewer(a, b) == a.uuid < b.uuid \/ (a.uuid = b.uuid /\ a.number <= b.number)

\* EnableBackgroundImport runs only where no target VM exists.
OneActor == admin.pc # "idle" => worker.pc = "none"

\* The worker's snapshot exists while it reads from it.
HasSnapshot == Reading => leftovers > 0

\* No change number is ahead of the tracking that gave it.
Numbered ==
    \A d \in Disk :
        /\ cid[d] # NoId =>
              /\ cid[d].uuid <= tracker[d].uuid
              /\ cid[d].uuid = tracker[d].uuid => cid[d].number < tracker[d].number
        /\ snap[d].id # NoId =>
              /\ snap[d].id.uuid <= tracker[d].uuid
              /\ snap[d].id.uuid = tracker[d].uuid =>
                    snap[d].id.number < tracker[d].number
              /\ \A b \in Block : snap[d].changed[b] <= snap[d].id.number
        /\ \A b \in Block : tracker[d].changed[b] <= tracker[d].number

\* What was not written after the snapshot is as the snapshot froze it.
SnapshotSound ==
    Reading => \A d \in Disk :
        snap[d].id # NoId /\ tracker[d].on /\ snap[d].id.uuid = tracker[d].uuid =>
            \A b \in Block : tracker[d].changed[b] <= snap[d].id.number =>
                content[d][b] = snap[d].data[b]

\* The change id file is as sound for the snapshot as for the source.
CopySound ==
    Reading => \A d \in Disk : cid[d] # NoId /\ snap[d].id # NoId =>
        /\ NotNewer(cid[d], snap[d].id)
        /\ cid[d].uuid = snap[d].id.uuid =>
              \A b \in Block : snap[d].changed[b] <= cid[d].number =>
                  target[d][b] = snap[d].data[b]

\* How far the cycle has got.
Progress ==
    /\ worker.pc = "copy" =>
          /\ worker.disk \in worker.todo
          /\ cid[worker.disk] = NoId \/ snap[worker.disk].id # NoId
          /\ \A b \in Block \ worker.areas :
                target[worker.disk][b] = snap[worker.disk].data[b]
    /\ worker.pc \in {"sync", "copy"} \/ (worker.pc = "stop" /\ worker.good) =>
          \A d \in Disk \ worker.todo : target[d] = snap[d].data
    /\ worker.pc = "stop" /\ worker.good => worker.todo = {}
    /\ worker.pc \in {"sync", "copy"} => worker.good

\* A final import reads from a source that is off, and from all it has written.
FinalReadsAll ==
    /\ worker.final /\ worker.pc \in {"prune", "start", "sync", "copy", "stop", "tasks"} =>
          ~running
    /\ worker.final /\ worker.pc \in {"sync", "copy", "stop", "tasks"} =>
          \A d \in Disk : snap[d].data = content[d]
    /\ imported => worker.pc = "idle"

IInv ==
    /\ TypeOK /\ OneActor /\ HasSnapshot /\ Numbered
    /\ ChangeIdSound /\ SnapshotSound /\ CopySound /\ Progress
    /\ CycleCopiesSnapshot /\ FinalReadsAll /\ FinalImportComplete

-----------------------------------------------------------------------------

USE DEF Image, Reading, guest, copies, vars

LEMMA Steps ==
  /\ "none" \in Step /\ "idle" \in Step /\ "power" \in Step /\ "prune" \in Step
  /\ "start" \in Step /\ "sync" \in Step /\ "copy" \in Step /\ "stop" \in Step
  /\ "tasks" \in Step /\ "failed" \in Step
BY DEF Step

LEMMA InitInv == Init => IInv
<1> SUFFICES ASSUME Init PROVE IInv
  OBVIOUS
<1>1. NoWorker \in WorkerState /\ NoWorker.pc = "none"
  BY DiskAssumption, Steps DEF NoWorker, WorkerState
<1>2. Blank \in Image /\ [b \in Block |-> 1] \in Image
  BY DEF Blank
<1>3. TypeOK
  <2>1. tracker \in [Disk -> Tracker]
    BY <1>2 DEF Init, Tracker
  <2>2. snap \in [Disk -> Frozen]
    BY <1>2 DEF Init, NoSnapshot, Frozen
  <2>3. admin \in AdminState
    BY DEF Init, AdminState
  <2>4. leftovers \in 0 .. MaxSnapshots
    BY DiskAssumption DEF Init
  <2>5. running \in BOOLEAN /\ imported \in BOOLEAN
    BY DEF Init
  <2>6. content \in [Disk -> Image] /\ target \in [Disk -> Image]
    BY <1>2 DEF Init
  <2>7. writes \in Nat /\ cid \in [Disk -> ChangeId \cup {NoId}] /\ worker \in WorkerState
    BY <1>1 DEF Init
  <2>8. QED
    BY <2>1, <2>2, <2>3, <2>4, <2>5, <2>6, <2>7 DEF TypeOK
<1>4. OneActor /\ HasSnapshot /\ SnapshotSound /\ CopySound /\ Progress
      /\ CycleCopiesSnapshot /\ FinalReadsAll /\ FinalImportComplete
  BY <1>1 DEF Init, OneActor, HasSnapshot, SnapshotSound, CopySound, Progress,
              CycleCopiesSnapshot, FinalReadsAll, FinalImportComplete
<1>5. Numbered /\ ChangeIdSound
  BY DEF Init, Numbered, ChangeIdSound, NoSnapshot, Blank
<1>6. QED
  BY <1>3, <1>4, <1>5 DEF IInv

LEMMA IdType ==
  ASSUME TypeOK, NEW d \in Disk
  PROVE  GetChangeID(d) \in ChangeId \cup {NoId}
BY DEF TypeOK, Tracker, GetChangeID, ChangeId

LEMMA NextAttemptType ==
  ASSUME TypeOK
  PROVE  /\ NextAttempt(worker) \in WorkerState
         /\ NextAttempt(worker).pc \in {"start", "failed"}
         /\ NextAttempt(worker).final = worker.final
<1>1. worker \in WorkerState
  BY DEF TypeOK
<1>2. NextAttempt(worker) \in WorkerState
  <2>1. [worker EXCEPT !.pc = "start", !.attempt = worker.attempt + 1] \in WorkerState
    <3>1. worker.attempt + 1 \in Nat
      BY <1>1 DEF WorkerState
    <3>2. QED
      BY <1>1, <3>1, Steps DEF WorkerState
  <2>2. [worker EXCEPT !.pc = "failed"] \in WorkerState
    BY <1>1, Steps DEF WorkerState
  <2>3. QED
    BY <2>1, <2>2 DEF NextAttempt
<1>3. QED
  BY <1>1, <1>2 DEF NextAttempt, WorkerState

LEMMA NoWorkerType == NoWorker \in WorkerState /\ NoWorker.pc = "none" /\ ~NoWorker.final
BY DiskAssumption, Steps DEF NoWorker, WorkerState

LEMMA IdleWorkerType ==
  [NoWorker EXCEPT !.pc = "idle"] \in WorkerState
<1>1. NoWorker \in WorkerState
  BY NoWorkerType
<1>2. QED
  BY <1>1, Steps DEF WorkerState

LEMMA BlankType == Blank \in Image /\ NoSnapshot \in [Disk -> Frozen]
BY DEF Blank, NoSnapshot, Frozen

LEMMA TypeStep == TypeOK /\ HasSnapshot /\ [Next]_vars => TypeOK'
<1> SUFFICES ASSUME TypeOK, HasSnapshot, [Next]_vars PROVE TypeOK'
  OBVIOUS
<1> USE DiskAssumption, Steps
<1>1. ASSUME NEW d \in Disk, NEW b \in Block, GuestWrite(d, b) PROVE TypeOK'
  <2>1. content' \in [Disk -> Image]
    BY <1>1 DEF GuestWrite, TypeOK
  <2>2. tracker' \in [Disk -> Tracker]
    <3>1. /\ tracker[d] \in Tracker /\ tracker[d].changed \in [Block -> Nat]
          /\ tracker[d].number \in Nat
      BY DEF TypeOK, Tracker
    <3>2. PICK n \in Nat : tracker' = [tracker EXCEPT ![d].changed[b] = n]
      <4>1. (IF tracker[d].on THEN tracker[d].number ELSE tracker[d].changed[b]) \in Nat
        BY <3>1
      <4>2. QED
        BY <1>1, <4>1 DEF GuestWrite
    <3>3. [tracker[d].changed EXCEPT ![b] = n] \in Image
      BY <3>1
    <3>4. [tracker[d] EXCEPT !.changed = [tracker[d].changed EXCEPT ![b] = n]] \in Tracker
      BY <3>1, <3>3 DEF Tracker
    <3>5. QED
      BY <3>2, <3>4 DEF TypeOK
  <2>3. QED
    BY <1>1, <2>1, <2>2 DEF GuestWrite, TypeOK
<1>2. CASE Retrack \/ EnableTracking
  <2>1. \A d \in Disk : Retracked(d) \in Tracker
    BY BlankType DEF Retracked, TypeOK, Tracker
  <2>2. tracker' \in [Disk -> Tracker] /\ admin' \in AdminState
    <3>1. tracker' \in [Disk -> Tracker]
      BY <1>2, <2>1 DEF Retrack, EnableTracking
    <3>2. admin \in AdminState /\ [admin EXCEPT !.pc = "tracked"] \in AdminState
      BY DEF TypeOK, AdminState
    <3>3. QED
      BY <1>2, <3>1, <3>2 DEF Retrack, EnableTracking
  <2>3. QED
    BY <1>2, <2>2 DEF Retrack, EnableTracking, TypeOK
<1>3. CASE Untrack \/ DisableTracking
  <2>1. \A d \in Disk : [tracker[d] EXCEPT !.on = FALSE] \in Tracker
    BY DEF TypeOK, Tracker
  <2>2. tracker' \in [Disk -> Tracker]
    BY <1>3, <2>1 DEF Untrack, DisableTracking
  <2>3. admin' \in AdminState
    BY <1>3 DEF Untrack, DisableTracking, TypeOK, AdminState
  <2>4. QED
    BY <1>3, <2>2, <2>3 DEF Untrack, DisableTracking, TypeOK
<1>4. CASE CreateWorker
  <2>1. target' \in [Disk -> Image] /\ cid' \in [Disk -> ChangeId \cup {NoId}]
    BY <1>4, BlankType DEF CreateWorker
  <2>2. QED
    BY <1>4, <2>1, IdleWorkerType DEF CreateWorker, TypeOK
<1>5. CASE DeleteWorker
  BY <1>5, BlankType, NoWorkerType DEF DeleteWorker, TypeOK
<1>6. CASE StartServers \/ StartServersFails
  <2>1. ASSUME TakeSnapshot
        PROVE  /\ leftovers' \in 0 .. MaxSnapshots
               /\ snap' \in [Disk -> Frozen]
               /\ tracker' \in [Disk -> Tracker]
    <3>1. leftovers' \in 0 .. MaxSnapshots
      BY <2>1 DEF TakeSnapshot, TypeOK
    <3>2. \A d \in Disk : tracker[d].changed \in Image /\ content[d] \in Image
      BY DEF TypeOK, Tracker
    <3>3. snap' \in [Disk -> Frozen]
      BY <2>1, <3>2, IdType DEF TakeSnapshot, Frozen
    <3>4. \A d \in Disk : [tracker[d] EXCEPT !.number = @ + 1] \in Tracker
      <4>1. \A d \in Disk : tracker[d] \in Tracker /\ tracker[d].number + 1 \in Nat
        BY DEF TypeOK, Tracker
      <4>2. QED
        BY <4>1 DEF Tracker
    <3>5. tracker' \in [Disk -> Tracker]
      BY <2>1, <3>4 DEF TakeSnapshot
    <3>6. QED
      BY <3>1, <3>3, <3>5
  <2>2. worker' \in WorkerState
    <3>1. [worker EXCEPT !.pc = "sync", !.todo = Disk, !.good = TRUE] \in WorkerState
      BY DEF TypeOK, WorkerState
    <3>2. QED
      BY <1>6, <3>1, NextAttemptType DEF StartServers, StartServersFails
  <2>3. QED
    BY <1>6, <2>1, <2>2 DEF StartServers, StartServersFails, TypeOK
<1>7. ASSUME NEW d \in Disk, SyncToTarget(d) PROVE TypeOK'
  <2>1. ChangedAreas(d, cid[d].number) \in SUBSET Block
    BY DEF ChangedAreas
  <2>2. worker' \in WorkerState
    BY <1>7, <2>1 DEF SyncToTarget, TypeOK, WorkerState
  <2>3. QED
    BY <1>7, <2>2 DEF SyncToTarget, TypeOK
<1>8. ASSUME NEW b \in Block, CopyBlock(b) PROVE TypeOK'
  <2>1. worker' \in WorkerState
    BY <1>8 DEF CopyBlock, TypeOK, WorkerState
  <2>2. target' \in [Disk -> Image]
    BY <1>8 DEF CopyBlock, TypeOK, WorkerState, Frozen
  <2>3. QED
    BY <1>8, <2>1, <2>2 DEF CopyBlock, TypeOK
<1>9. CASE WriteChangeID
  <2>1. worker' \in WorkerState
    BY <1>9 DEF WriteChangeID, TypeOK, WorkerState
  <2>2. snap[worker.disk].id \in ChangeId \cup {NoId}
    BY DEF TypeOK, WorkerState, Frozen
  <2>3. QED
    BY <1>9, <2>1, <2>2 DEF WriteChangeID, TypeOK
<1>10. CASE StopServers
  <2>1. worker' \in WorkerState
    BY <1>10, NextAttemptType DEF StopServers, TypeOK, WorkerState
  <2>2. leftovers' \in 0 .. MaxSnapshots
    BY <1>10 DEF StopServers, TypeOK, HasSnapshot
  <2>3. QED
    BY <1>10, <2>1, <2>2 DEF StopServers, TypeOK
<1>11. CASE DryRun
  <2>1. imported' \in BOOLEAN
    BY <1>11 DEF DryRun, TypeOK, WorkerState
  <2>2. QED
    BY <1>11, <2>1, BlankType, IdleWorkerType DEF DryRun, TypeOK
<1>12. CASE ReportFailure
  BY <1>12, BlankType, IdleWorkerType DEF ReportFailure, TypeOK
<1>13. CASE RebootWorkerVM
  BY <1>13, BlankType, IdleWorkerType DEF RebootWorkerVM, TypeOK
<1>14. CASE RestartWorker
  <2>1. leftovers' \in 0 .. MaxSnapshots
    BY <1>14 DEF RestartWorker, TypeOK, HasSnapshot
  <2>2. QED
    BY <1>14, <2>1, BlankType, IdleWorkerType DEF RestartWorker, TypeOK
<1>15. ASSUME NEW f \in BOOLEAN, ImportDisks(f) PROVE TypeOK'
  <2>1. worker' \in WorkerState
    BY <1>15 DEF ImportDisks, TypeOK, WorkerState
  <2>2. QED
    BY <1>15, <2>1 DEF ImportDisks, TypeOK
<1>16. CASE PowerOffVM
  <2>1. worker' \in WorkerState
    BY <1>16 DEF PowerOffVM, TypeOK, WorkerState
  <2>2. QED
    BY <1>16, <2>1 DEF PowerOffVM, TypeOK
<1>17. CASE DeleteVMSnapshot
  <2>1. worker' \in WorkerState
    BY <1>17 DEF DeleteVMSnapshot, TypeOK, WorkerState
  <2>2. QED
    BY <1>17, <2>1 DEF DeleteVMSnapshot, TypeOK
<1>18. CASE PrepareFails
  <2>1. worker' \in WorkerState
    BY <1>18 DEF PrepareFails, TypeOK, WorkerState
  <2>2. QED
    BY <1>18, <2>1 DEF PrepareFails, TypeOK
<1>19. CASE AllSynced
  <2>1. worker' \in WorkerState
    BY <1>19 DEF AllSynced, TypeOK, WorkerState
  <2>2. QED
    BY <1>19, <2>1 DEF AllSynced, TypeOK
<1>20. CASE DryRunFails
  <2>1. worker' \in WorkerState
    BY <1>20 DEF DryRunFails, TypeOK, WorkerState
  <2>2. QED
    BY <1>20, <2>1 DEF DryRunFails, TypeOK
<1>21. CASE CopyFails
  <2>1. worker' \in WorkerState
    BY <1>21 DEF CopyFails, TypeOK, WorkerState
  <2>2. QED
    BY <1>21, <2>1 DEF CopyFails, TypeOK
<1>22. CASE BeginEnable
  <2>1. admin' \in AdminState
    BY <1>22 DEF BeginEnable, TypeOK, AdminState
  <2>2. QED
    BY <1>22, <2>1 DEF BeginEnable, TypeOK, AdminState
<1>23. CASE NothingEligible
  <2>1. admin' \in AdminState
    BY <1>23 DEF NothingEligible, TypeOK, AdminState
  <2>2. QED
    BY <1>23, <2>1 DEF NothingEligible, TypeOK, AdminState
<1>24. CASE RemoveAllSnapshots
  <2>1. admin' \in AdminState
    BY <1>24 DEF RemoveAllSnapshots, TypeOK, AdminState
  <2>2. QED
    BY <1>24, <2>1 DEF RemoveAllSnapshots, TypeOK, AdminState
<1>25. CASE PowerOnAgain
  <2>1. admin' \in AdminState
    BY <1>25 DEF PowerOnAgain, TypeOK, AdminState
  <2>2. QED
    BY <1>25, <2>1 DEF PowerOnAgain, TypeOK, AdminState
<1>26. CASE EnableFails
  <2>1. admin' \in AdminState
    BY <1>26 DEF EnableFails, TypeOK, AdminState
  <2>2. QED
    BY <1>26, <2>1 DEF EnableFails, TypeOK, AdminState
<1>27. CASE UNCHANGED vars
  BY <1>27 DEF TypeOK
<1>28. QED
  BY <1>1, <1>2, <1>3, <1>4, <1>5, <1>6, <1>7, <1>8, <1>9, <1>10, <1>11, <1>12, <1>13, <1>14,
     <1>15, <1>16, <1>17, <1>18, <1>19, <1>20, <1>21, <1>22, <1>23, <1>24, <1>25, <1>26, <1>27 DEF Next, Import, Enable
-----------------------------------------------------------------------------
(* What every disk's records hold, and what leaves them alone *)

LEMMA Types ==
  ASSUME TypeOK, NEW d \in Disk
  PROVE  /\ tracker[d].on \in BOOLEAN
         /\ tracker[d].uuid \in Nat /\ tracker[d].number \in Nat
         /\ tracker[d].changed \in [Block -> Nat]
         /\ content[d] \in [Block -> Nat] /\ target[d] \in [Block -> Nat]
         /\ cid[d] # NoId => cid[d].uuid \in Nat /\ cid[d].number \in Nat
         /\ snap[d].data \in [Block -> Nat] /\ snap[d].changed \in [Block -> Nat]
         /\ snap[d].id # NoId =>
               /\ snap[d].id \in ChangeId
               /\ snap[d].id.uuid \in Nat /\ snap[d].id.number \in Nat
BY DEF TypeOK, Tracker, Frozen, ChangeId

LEMMA WorkerFields ==
  ASSUME TypeOK
  PROVE  worker.disk \in Disk /\ worker.todo \in SUBSET Disk /\ worker.areas \in SUBSET Block
BY DEF TypeOK, WorkerState

\* The change ids, and what they promise of the source and of the snapshot.
IdsSound == Numbered /\ ChangeIdSound /\ SnapshotSound /\ CopySound

data == <<content, tracker, target, cid, snap>>

\* An action that only moves the worker and the request.
LEMMA IdsSoundFrame ==
  ASSUME IdsSound, UNCHANGED data, Reading' => Reading
  PROVE  IdsSound'
<1>1. Numbered'
  BY DEF IdsSound, data, Numbered
<1>2. ChangeIdSound'
  BY DEF IdsSound, data, ChangeIdSound
<1>3. SnapshotSound'
  BY DEF IdsSound, data, SnapshotSound
<1>4. CopySound'
  BY DEF IdsSound, data, CopySound, NotNewer
<1>5. QED
  BY <1>1, <1>2, <1>3, <1>4 DEF IdsSound

\* An action that ends a cycle: nothing reads from the snapshot any more.
LEMMA IdsSoundEnd ==
  ASSUME IdsSound, UNCHANGED <<content, tracker, target, cid>>, ~Reading', snap' = NoSnapshot
  PROVE  IdsSound'
<1>1. \A d \in Disk : snap'[d].id = NoId
  BY DEF NoSnapshot
<1>2. Numbered'
  BY <1>1 DEF IdsSound, Numbered
<1>3. ChangeIdSound'
  BY DEF IdsSound, ChangeIdSound
<1>4. QED
  BY <1>2, <1>3 DEF IdsSound, SnapshotSound, CopySound

LEMMA IdsSoundGuestWrite ==
  ASSUME TypeOK, IdsSound, NEW e \in Disk, NEW a \in Block, GuestWrite(e, a)
  PROVE  IdsSound'
<1> USE DEF IdsSound
<1>1. UNCHANGED <<cid, snap, target, worker>>
  BY DEF GuestWrite
<1>2. ASSUME NEW d \in Disk
      PROVE  /\ tracker'[d].on = tracker[d].on
             /\ tracker'[d].uuid = tracker[d].uuid
             /\ tracker'[d].number = tracker[d].number
  BY DEF GuestWrite, TypeOK, Tracker
<1>3. ASSUME NEW d \in Disk, NEW b \in Block
      PROVE  \/ /\ d = e /\ b = a /\ tracker[d].on
                /\ tracker'[d].changed[b] = tracker[d].number
             \/ d = e /\ b = a /\ ~tracker[d].on /\ tracker'[d].changed[b] = tracker[d].changed[b]
             \/ ~(d = e /\ b = a) /\ tracker'[d].changed[b] = tracker[d].changed[b]
  BY DEF GuestWrite, TypeOK, Tracker
<1>4. ASSUME NEW d \in Disk, NEW b \in Block, ~(d = e /\ b = a)
      PROVE  content'[d][b] = content[d][b]
  BY <1>4 DEF GuestWrite, TypeOK
<1>5. Numbered'
  <2>1. ASSUME NEW d \in Disk, NEW b \in Block
        PROVE  tracker'[d].changed[b] <= tracker'[d].number
    BY <1>2, <1>3, Types DEF Numbered
  <2>2. QED
    BY <1>1, <1>2, <2>1 DEF Numbered
<1>6. ChangeIdSound'
  <2>1. SUFFICES ASSUME NEW d \in Disk, cid[d] # NoId, tracker[d].on, cid[d].uuid = tracker[d].uuid,
                        NEW b \in Block, tracker'[d].changed[b] <= cid[d].number
                 PROVE  target[d][b] = content'[d][b]
    BY <1>1, <1>2 DEF ChangeIdSound
  <2>2. cid[d].number < tracker[d].number
    BY <2>1 DEF Numbered
  <2>3. ~(d = e /\ b = a)
    BY <2>1, <2>2, <1>3, Types
  <2>4. QED
    BY <2>1, <2>3, <1>3, <1>4 DEF ChangeIdSound
<1>7. SnapshotSound'
  <2>1. SUFFICES ASSUME Reading, NEW d \in Disk, snap[d].id # NoId, tracker[d].on,
                        snap[d].id.uuid = tracker[d].uuid,
                        NEW b \in Block, tracker'[d].changed[b] <= snap[d].id.number
                 PROVE  content'[d][b] = snap[d].data[b]
    BY <1>1, <1>2 DEF SnapshotSound
  <2>2. snap[d].id.number < tracker[d].number
    BY <2>1 DEF Numbered
  <2>3. ~(d = e /\ b = a)
    BY <2>1, <2>2, <1>3, Types
  <2>4. QED
    BY <2>1, <2>3, <1>3, <1>4 DEF SnapshotSound
<1>8. CopySound'
  BY <1>1 DEF CopySound, NotNewer
<1>9. QED
  BY <1>5, <1>6, <1>7, <1>8

\* Change tracking that is set up anew gives ids that nobody has seen.
LEMMA IdsSoundRetracked ==
  ASSUME TypeOK, IdsSound, UNCHANGED <<content, target, cid, snap, worker>>,
         tracker' = [d \in Disk |-> Retracked(d)]
  PROVE  IdsSound'
<1> USE DEF IdsSound
<1>1. ASSUME NEW d \in Disk
      PROVE  /\ tracker'[d].uuid = tracker[d].uuid + 1
             /\ tracker'[d].number = 1
             /\ \A b \in Block : tracker'[d].changed[b] = 0
             /\ cid[d] # NoId => cid[d].uuid < tracker'[d].uuid
             /\ snap[d].id # NoId => snap[d].id.uuid < tracker'[d].uuid
  BY Types DEF Retracked, Blank, Numbered
<1>2. Numbered'
  BY <1>1, Types DEF Numbered
<1>3. ChangeIdSound'
  BY <1>1, Types DEF ChangeIdSound
<1>4. SnapshotSound'
  BY <1>1, Types DEF SnapshotSound
<1>5. CopySound'
  BY DEF CopySound, NotNewer
<1>6. QED
  BY <1>2, <1>3, <1>4, <1>5

LEMMA IdsSoundUntracked ==
  ASSUME TypeOK, IdsSound, UNCHANGED <<content, target, cid, snap, worker>>,
         tracker' = [d \in Disk |-> [tracker[d] EXCEPT !.on = FALSE]]
  PROVE  IdsSound'
<1> USE DEF IdsSound
<1>1. ASSUME NEW d \in Disk
      PROVE  /\ ~tracker'[d].on
             /\ tracker'[d].uuid = tracker[d].uuid /\ tracker'[d].number = tracker[d].number
             /\ tracker'[d].changed = tracker[d].changed
  BY DEF TypeOK, Tracker
<1>2. Numbered'
  BY <1>1 DEF Numbered
<1>3. ChangeIdSound' /\ SnapshotSound'
  BY <1>1 DEF ChangeIdSound, SnapshotSound
<1>4. CopySound'
  BY DEF CopySound, NotNewer
<1>5. QED
  BY <1>2, <1>3, <1>4

\* What a snapshot takes from the source and its tracking.
LEMMA SnapshotTaken ==
  ASSUME TypeOK, TakeSnapshot, NEW d \in Disk
  PROVE  /\ tracker'[d].on = tracker[d].on
         /\ tracker'[d].uuid = tracker[d].uuid
         /\ tracker'[d].number = tracker[d].number + 1
         /\ tracker'[d].changed = tracker[d].changed
         /\ snap'[d].data = content[d]
         /\ snap'[d].changed = tracker[d].changed
         /\ snap'[d].id # NoId =>
               /\ tracker[d].on
               /\ snap'[d].id.uuid = tracker[d].uuid
               /\ snap'[d].id.number = tracker[d].number
BY DEF TakeSnapshot, GetChangeID, TypeOK, Tracker

LEMMA IdsSoundTaken ==
  ASSUME TypeOK, IdsSound, TakeSnapshot, UNCHANGED <<content, target, cid>>
  PROVE  IdsSound'
<1> USE DEF IdsSound
<1>1. Numbered'
  BY Types, SnapshotTaken DEF Numbered
<1>2. ChangeIdSound'
  BY SnapshotTaken DEF ChangeIdSound
<1>3. SnapshotSound'
  BY SnapshotTaken DEF SnapshotSound
<1>4. CopySound'
  <2>1. ASSUME NEW d \in Disk, cid[d] # NoId, snap'[d].id # NoId
        PROVE  /\ NotNewer(cid[d], snap'[d].id)
               /\ cid[d].uuid = snap'[d].id.uuid =>
                     \A b \in Block : snap'[d].changed[b] <= cid[d].number =>
                         target[d][b] = snap'[d].data[b]
    <3>1. NotNewer(cid[d], snap'[d].id)
      BY <2>1, Types, SnapshotTaken DEF Numbered, NotNewer
    <3>2. QED
      BY <2>1, <3>1, SnapshotTaken DEF ChangeIdSound
  <2>2. QED
    BY <2>1 DEF CopySound
<1>5. QED
  BY <1>1, <1>2, <1>3, <1>4

LEMMA IdsSoundCopyBlock ==
  ASSUME TypeOK, IdsSound, Progress, NEW a \in Block, CopyBlock(a)
  PROVE  IdsSound'
<1> USE DEF IdsSound
<1> DEFINE e == worker.disk
<1>1. Reading /\ e \in Disk /\ (cid[e] = NoId \/ snap[e].id # NoId)
  BY WorkerFields DEF CopyBlock, Progress
<1>2. UNCHANGED <<content, tracker, cid, snap>>
  BY DEF CopyBlock
<1>3. ASSUME NEW d \in Disk, NEW b \in Block
      PROVE  \/ d = e /\ b = a /\ target'[d][b] = snap[d].data[b]
             \/ ~(d = e /\ b = a) /\ target'[d][b] = target[d][b]
  BY <1>1 DEF CopyBlock, TypeOK
<1>4. Numbered'
  BY <1>2 DEF Numbered
<1>5. ChangeIdSound'
  <2>1. SUFFICES ASSUME NEW d \in Disk, cid[d] # NoId, tracker[d].on, cid[d].uuid = tracker[d].uuid,
                        NEW b \in Block, tracker[d].changed[b] <= cid[d].number
                 PROVE  target'[d][b] = content[d][b]
    BY <1>2 DEF ChangeIdSound
  <2>2. CASE d = e /\ b = a
    <3>1. snap[d].id # NoId
      BY <1>1, <2>1, <2>2
    <3>2. snap[d].id.uuid = tracker[d].uuid /\ cid[d].number <= snap[d].id.number
      BY <1>1, <2>1, <3>1, Types DEF CopySound, Numbered, NotNewer
    <3>3. content[d][b] = snap[d].data[b]
      BY <1>1, <2>1, <3>1, <3>2, Types DEF SnapshotSound
    <3>4. QED
      BY <1>3, <2>2, <3>3
  <2>3. CASE ~(d = e /\ b = a)
    BY <1>3, <2>1, <2>3 DEF ChangeIdSound
  <2>4. QED
    BY <2>2, <2>3
<1>6. SnapshotSound'
  BY <1>1, <1>2 DEF SnapshotSound
<1>7. CopySound'
  <2>1. SUFFICES ASSUME NEW d \in Disk, cid[d] # NoId, snap[d].id # NoId
                 PROVE  /\ NotNewer(cid[d], snap[d].id)
                        /\ cid[d].uuid = snap[d].id.uuid =>
                              \A b \in Block : snap[d].changed[b] <= cid[d].number =>
                                  target'[d][b] = snap[d].data[b]
    BY <1>2 DEF CopySound, NotNewer
  <2>2. QED
    BY <1>1, <1>3, <2>1 DEF CopySound
<1>8. QED
  BY <1>4, <1>5, <1>6, <1>7

LEMMA IdsSoundWriteChangeID ==
  ASSUME TypeOK, IdsSound, Progress, WriteChangeID
  PROVE  IdsSound'
<1> USE DEF IdsSound
<1> DEFINE e == worker.disk
<1>1. Reading /\ e \in Disk /\ \A b \in Block : target[e][b] = snap[e].data[b]
  BY WorkerFields DEF WriteChangeID, Progress
<1>2. UNCHANGED <<content, tracker, target, snap>>
  BY DEF WriteChangeID
<1>3. cid'[e] = snap[e].id /\ \A d \in Disk : d # e => cid'[d] = cid[d]
  BY <1>1 DEF WriteChangeID, TypeOK
<1>4. Numbered'
  BY <1>2, <1>3 DEF Numbered
<1>5. ChangeIdSound'
  <2>1. SUFFICES ASSUME NEW d \in Disk, cid'[d] # NoId, tracker[d].on,
                        cid'[d].uuid = tracker[d].uuid,
                        NEW b \in Block, tracker[d].changed[b] <= cid'[d].number
                 PROVE  target[d][b] = content[d][b]
    BY <1>2 DEF ChangeIdSound
  <2>2. CASE d = e
    BY <1>1, <1>3, <2>1, <2>2 DEF SnapshotSound
  <2>3. CASE d # e
    BY <1>3, <2>1, <2>3 DEF ChangeIdSound
  <2>4. QED
    BY <2>2, <2>3
<1>6. SnapshotSound'
  BY <1>1, <1>2 DEF SnapshotSound
<1>7. CopySound'
  <2>1. SUFFICES ASSUME NEW d \in Disk, cid'[d] # NoId, snap[d].id # NoId
                 PROVE  /\ NotNewer(cid'[d], snap[d].id)
                        /\ cid'[d].uuid = snap[d].id.uuid =>
                              \A b \in Block : snap[d].changed[b] <= cid'[d].number =>
                                  target[d][b] = snap[d].data[b]
    BY <1>2 DEF CopySound, NotNewer
  <2>2. CASE d = e
    BY <1>1, <1>3, <2>1, <2>2, Types DEF NotNewer
  <2>3. CASE d # e
    BY <1>1, <1>3, <2>1, <2>3 DEF CopySound
  <2>4. QED
    BY <2>2, <2>3
<1>8. QED
  BY <1>4, <1>5, <1>6, <1>7

\* A target VM that is created, or rebooted, has no change ids.
LEMMA IdsSoundNoIds ==
  ASSUME IdsSound, UNCHANGED <<content, tracker>>, cid' = [d \in Disk |-> NoId], ~Reading',
         UNCHANGED snap \/ snap' = NoSnapshot
  PROVE  IdsSound'
<1>1. \A d \in Disk : cid'[d] = NoId /\ (UNCHANGED snap \/ snap'[d].id = NoId)
  BY DEF NoSnapshot
<1>2. Numbered'
  BY <1>1 DEF IdsSound, Numbered
<1>3. QED
  BY <1>1, <1>2 DEF IdsSound, ChangeIdSound, SnapshotSound, CopySound
LEMMA IdsSoundStep ==
  ASSUME TypeOK, IdsSound, Progress, [Next]_vars
  PROVE  IdsSound'
<1>1. ASSUME NEW d \in Disk, NEW b \in Block, GuestWrite(d, b) PROVE IdsSound'
  BY <1>1, IdsSoundGuestWrite
<1>2. CASE Retrack \/ EnableTracking
  BY <1>2, IdsSoundRetracked DEF Retrack, EnableTracking
<1>3. CASE Untrack \/ DisableTracking
  BY <1>3, IdsSoundUntracked DEF Untrack, DisableTracking
<1>4. CASE CreateWorker
  <2>1. worker'.pc = "idle"
    BY <1>4, NoWorkerType DEF CreateWorker, WorkerState
  <2>2. QED
    BY <1>4, <2>1, IdsSoundNoIds DEF CreateWorker
<1>5. CASE RebootWorkerVM
  <2>1. worker'.pc = "idle"
    BY <1>5, NoWorkerType DEF RebootWorkerVM, WorkerState
  <2>2. QED
    BY <1>5, <2>1, IdsSoundNoIds DEF RebootWorkerVM
<1>6. CASE DeleteWorker \/ DryRun \/ ReportFailure \/ RestartWorker
  <2>1. worker'.pc \in {"none", "idle"}
    BY <1>6, NoWorkerType DEF DeleteWorker, DryRun, ReportFailure, RestartWorker, WorkerState
  <2>2. QED
    BY <1>6, <2>1, IdsSoundEnd DEF DeleteWorker, DryRun, ReportFailure, RestartWorker
<1>7. CASE StartServers
  BY <1>7, IdsSoundTaken DEF StartServers
<1>8. CASE StartServersFails
  <2>1. CASE TakeSnapshot
    BY <1>8, <2>1, IdsSoundTaken DEF StartServersFails
  <2>2. CASE UNCHANGED <<leftovers, snap, tracker>>
    <3>1. ~Reading'
      BY <1>8, NextAttemptType DEF StartServersFails
    <3>2. QED
      BY <1>8, <2>2, <3>1, IdsSoundFrame DEF StartServersFails, data
  <2>3. QED
    BY <1>8, <2>1, <2>2 DEF StartServersFails
<1>9. ASSUME NEW b \in Block, CopyBlock(b) PROVE IdsSound'
  BY <1>9, IdsSoundCopyBlock
<1>10. CASE WriteChangeID
  BY <1>10, IdsSoundWriteChangeID
<1>11. ASSUME NEW d \in Disk, SyncToTarget(d) PROVE IdsSound'
  BY <1>11, IdsSoundFrame DEF SyncToTarget, data
<1>12. CASE CopyFails \/ AllSynced
  BY <1>12, IdsSoundFrame DEF CopyFails, AllSynced, data
<1>13. CASE StopServers
  BY <1>13, IdsSoundFrame DEF StopServers, data
<1>14. ASSUME NEW f \in BOOLEAN, ImportDisks(f) PROVE IdsSound'
  <2>1. worker'.pc \in {"power", "prune"}
    BY <1>14 DEF ImportDisks, TypeOK, WorkerState
  <2>2. QED
    BY <1>14, <2>1, IdsSoundFrame DEF ImportDisks, data
<1>15. CASE PowerOffVM
  <2>1. worker'.pc \in {"prune", "failed"}
    BY <1>15 DEF PowerOffVM, TypeOK, WorkerState
  <2>2. QED
    BY <1>15, <2>1, IdsSoundFrame DEF PowerOffVM, data
<1>16. CASE DeleteVMSnapshot \/ PrepareFails \/ DryRunFails
  <2>1. worker'.pc \in {"start", "failed"}
    BY <1>16 DEF DeleteVMSnapshot, PrepareFails, DryRunFails, TypeOK, WorkerState
  <2>2. QED
    BY <1>16, <2>1, IdsSoundFrame DEF DeleteVMSnapshot, PrepareFails, DryRunFails, data
<1>17. CASE BeginEnable \/ NothingEligible \/ RemoveAllSnapshots \/ PowerOnAgain \/ EnableFails
  BY <1>17, IdsSoundFrame DEF BeginEnable, NothingEligible, RemoveAllSnapshots, PowerOnAgain,
                              EnableFails, data
<1>18. CASE UNCHANGED vars
  BY <1>18, IdsSoundFrame DEF data
<1>19. QED
  BY <1>1, <1>2, <1>3, <1>4, <1>5, <1>6, <1>7, <1>8, <1>9, <1>10, <1>11, <1>12, <1>13,
     <1>14, <1>15, <1>16, <1>17, <1>18 DEF Next, Import, Enable

-----------------------------------------------------------------------------
(* The snapshot the worker reads, the progress of its cycle, and the source  *)

CycleInv ==
    OneActor /\ HasSnapshot /\ Progress /\ CycleCopiesSnapshot
    /\ FinalReadsAll /\ FinalImportComplete

\* The worker has not moved, nor has what it works on.
LEMMA CycleInvFrame ==
  ASSUME CycleInv, UNCHANGED <<worker, leftovers, target, cid, snap, content, imported, admin>>,
         running' => running
  PROVE  CycleInv'
<1>1. OneActor' /\ HasSnapshot'
  BY DEF CycleInv, OneActor, HasSnapshot
<1>2. Progress' /\ CycleCopiesSnapshot'
  BY DEF CycleInv, Progress, CycleCopiesSnapshot
<1>3. FinalReadsAll' /\ FinalImportComplete'
  BY DEF CycleInv, FinalReadsAll, FinalImportComplete
<1>4. QED
  BY <1>1, <1>2, <1>3 DEF CycleInv

\* The worker is between two imports.
LEMMA CycleInvIdle ==
  ASSUME CycleInv, worker' = [NoWorker EXCEPT !.pc = "idle"], UNCHANGED <<running, content, admin>>,
         admin.pc = "idle",
         imported' => ~running' /\ target' = content'
  PROVE  CycleInv'
<1>1. worker'.pc = "idle" /\ ~worker'.final
  BY NoWorkerType DEF WorkerState
<1>2. QED
  BY <1>1 DEF CycleInv, OneActor, HasSnapshot, Progress, CycleCopiesSnapshot, FinalReadsAll,
              FinalImportComplete

\* The worker imports, but reads from no snapshot.
LEMMA CycleInvOutside ==
  ASSUME TypeOK, CycleInv, worker'.pc \in {"power", "prune", "start", "failed"}, 
         UNCHANGED <<content, imported, admin>>, ~imported, worker.pc # "none",
         worker'.pc \in {"prune", "start"} /\ worker'.final => ~running'
  PROVE  CycleInv'
BY DEF CycleInv, OneActor, HasSnapshot, Progress, CycleCopiesSnapshot, FinalReadsAll,
       FinalImportComplete

LEMMA CycleInvStep ==
  ASSUME TypeOK, CycleInv, IdsSound, [Next]_vars
  PROVE  CycleInv'
<1> USE DEF CycleInv
<1>0. worker.pc \notin {"none", "idle"} => ~imported /\ admin.pc = "idle"
  BY DEF OneActor, FinalReadsAll
<1>1. ASSUME NEW d \in Disk, NEW b \in Block, GuestWrite(d, b) PROVE CycleInv'
  <2>1. OneActor' /\ HasSnapshot' /\ Progress' /\ CycleCopiesSnapshot'
    BY <1>1 DEF GuestWrite, OneActor, HasSnapshot, Progress, CycleCopiesSnapshot
  <2>2. running /\ UNCHANGED <<worker, running, imported>>
    BY <1>1 DEF GuestWrite
  <2>3. FinalReadsAll' /\ FinalImportComplete'
    BY <2>2 DEF FinalReadsAll, FinalImportComplete
  <2>4. QED
    BY <2>1, <2>3
<1>2. CASE Retrack \/ Untrack \/ UNCHANGED vars
  BY <1>2, CycleInvFrame DEF Retrack, Untrack
<1>3. CASE CreateWorker
  BY <1>3, CycleInvIdle DEF CreateWorker, FinalReadsAll
<1>4. CASE DeleteWorker
  BY <1>4, NoWorkerType DEF DeleteWorker, OneActor, HasSnapshot, Progress, CycleCopiesSnapshot,
                            FinalReadsAll, FinalImportComplete
<1>5. CASE ReportFailure
  BY <1>0, <1>5, CycleInvIdle DEF ReportFailure
<1>6. CASE RestartWorker
  BY <1>0, <1>6, CycleInvIdle DEF RestartWorker
<1>7. CASE RebootWorkerVM
  <2>1. admin.pc = "idle"
    BY <1>7 DEF RebootWorkerVM, OneActor
  <2>2. QED
    BY <1>7, <2>1, CycleInvIdle DEF RebootWorkerVM, FinalImportComplete
<1>8. CASE DryRun
  <2>1. worker.final => ~running /\ target = content
    <3>1. worker.pc = "tasks" /\ target \in [Disk -> Image] /\ content \in [Disk -> Image]
      BY <1>8 DEF DryRun, TypeOK
    <3>2. worker.final => ~running /\ \A d \in Disk : target[d] = content[d]
      BY <3>1 DEF CycleCopiesSnapshot, FinalReadsAll
    <3>3. QED
      BY <3>1, <3>2
  <2>2. QED
    BY <1>0, <1>8, <2>1, CycleInvIdle DEF DryRun
<1>9. ASSUME NEW f \in BOOLEAN, ImportDisks(f) PROVE CycleInv'
  <2>1. worker'.pc = (IF f THEN "power" ELSE "prune") /\ worker'.final = f
    BY <1>9 DEF ImportDisks, TypeOK, WorkerState
  <2>2. QED
    BY <1>9, <2>1, CycleInvOutside DEF ImportDisks
<1>10. CASE PowerOffVM
  <2>1. \/ worker'.pc = "prune" /\ ~running'
        \/ worker'.pc = "failed"
    BY <1>10 DEF PowerOffVM, TypeOK, WorkerState
  <2>2. QED
    BY <1>0, <1>10, <2>1, CycleInvOutside DEF PowerOffVM
<1>11. CASE DeleteVMSnapshot \/ PrepareFails \/ DryRunFails
  <2>1. /\ worker'.pc \in {"start", "failed"} /\ worker'.final = worker.final
        /\ worker'.pc = "start" => worker.pc = "prune"
    BY <1>11 DEF DeleteVMSnapshot, PrepareFails, DryRunFails, TypeOK, WorkerState
  <2>2. worker.pc \in {"prune", "tasks"} /\ UNCHANGED <<running, content, imported, admin>>
    BY <1>11 DEF DeleteVMSnapshot, PrepareFails, DryRunFails
  <2>3. QED
    BY <1>0, <2>1, <2>2, CycleInvOutside DEF FinalReadsAll
<1>12. CASE StartServers
  <2>1. /\ worker'.pc = "sync" /\ worker'.todo = Disk /\ worker'.good
        /\ worker'.final = worker.final
    BY <1>12 DEF StartServers, TypeOK, WorkerState
  <2>2. leftovers' > 0
    BY <1>12, DiskAssumption DEF StartServers, TakeSnapshot, TypeOK
  <2>3. \A d \in Disk : snap'[d].data = content'[d]
    BY <1>12, SnapshotTaken DEF StartServers
  <2>4. worker.pc = "start" /\ UNCHANGED <<running, content, imported, admin>>
    BY <1>12 DEF StartServers
  <2>5. FinalReadsAll'
    BY <1>0, <2>1, <2>3, <2>4 DEF FinalReadsAll
  <2>6. OneActor' /\ HasSnapshot' /\ Progress' /\ CycleCopiesSnapshot' /\ FinalImportComplete'
    BY <1>0, <2>1, <2>2, <2>4 DEF OneActor, HasSnapshot, Progress, CycleCopiesSnapshot, FinalImportComplete
  <2>7. QED
    BY <2>5, <2>6
<1>13. CASE StartServersFails
  <2>1. worker'.pc \in {"start", "failed"} /\ worker'.final = worker.final /\ worker.pc = "start"
    BY <1>13, NextAttemptType DEF StartServersFails
  <2>2. QED
    BY <1>0, <1>13, <2>1, CycleInvOutside DEF StartServersFails, FinalReadsAll
<1>14. ASSUME NEW e \in Disk, SyncToTarget(e) PROVE CycleInv'
  <2>1. worker.pc = "sync" /\ UNCHANGED <<running, content, target, cid, snap, leftovers, imported, admin>>
    BY <1>14 DEF SyncToTarget
  <2>2. \/ /\ worker'.pc = "stop" /\ ~worker'.good
        \/ /\ worker'.pc = "copy" /\ worker'.disk = e /\ worker'.good = worker.good /\ ~CannotCompare(e)
           /\ worker'.areas = IF NeedsFullCopy(e) THEN Block ELSE ChangedAreas(e, cid[e].number)
    BY <1>14 DEF SyncToTarget, TypeOK, WorkerState
  <2>3. worker'.todo = worker.todo /\ worker'.final = worker.final /\ e \in worker.todo
    BY <1>14 DEF SyncToTarget, TypeOK, WorkerState
  <2>4. ASSUME worker'.pc = "copy", NEW b \in Block \ worker'.areas
        PROVE  target[e][b] = snap[e].data[b]
    <3>1. ~CannotCompare(e) /\ ~NeedsFullCopy(e) /\ b \notin ChangedAreas(e, cid[e].number)
      BY <2>2, <2>4
    <3>2. cid[e] # NoId /\ snap[e].id # NoId /\ cid[e].uuid = snap[e].id.uuid
      BY <3>1 DEF CannotCompare, NeedsFullCopy
    <3>3. snap[e].changed[b] <= cid[e].number
      BY <3>1, <3>2, Types DEF ChangedAreas
    <3>4. QED
      BY <2>1, <3>2, <3>3 DEF IdsSound, CopySound
  <2>5. Progress'
    BY <2>1, <2>2, <2>3, <2>4 DEF Progress, CannotCompare
  <2>6. FinalReadsAll'
    BY <1>0, <2>1, <2>2, <2>3 DEF FinalReadsAll
  <2>7. OneActor' /\ HasSnapshot' /\ CycleCopiesSnapshot' /\ FinalImportComplete'
    BY <1>0, <2>1, <2>2 DEF OneActor, HasSnapshot, CycleCopiesSnapshot, FinalImportComplete
  <2>8. QED
    BY <2>5, <2>6, <2>7
<1>15. ASSUME NEW b \in Block, CopyBlock(b) PROVE CycleInv'
  <2>1. /\ worker.pc = "copy" /\ worker'.pc = "copy" /\ worker'.todo = worker.todo
        /\ worker'.disk = worker.disk /\ worker'.final = worker.final
        /\ worker'.good = worker.good /\ worker'.areas = worker.areas \ {b}
    BY <1>15 DEF CopyBlock, TypeOK, WorkerState
  <2>2. UNCHANGED <<running, content, cid, snap, leftovers, imported, admin>>
    BY <1>15 DEF CopyBlock
  <2>3. /\ \A d \in Disk : d # worker.disk => target'[d] = target[d]
        /\ target'[worker.disk][b] = snap[worker.disk].data[b]
        /\ \A c \in Block : c # b => target'[worker.disk][c] = target[worker.disk][c]
    BY <1>15, WorkerFields DEF CopyBlock, TypeOK
  <2>4. Progress'
    <3>1. \A c \in Block \ worker'.areas : target'[worker.disk][c] = snap[worker.disk].data[c]
      BY <2>1, <2>3 DEF Progress
    <3>2. \A d \in Disk \ worker.todo : target'[d] = snap[d].data
      BY <2>1, <2>3 DEF Progress
    <3>3. QED
      BY <2>1, <2>2, <3>1, <3>2 DEF Progress
  <2>5. FinalReadsAll'
    BY <1>0, <2>1, <2>2 DEF FinalReadsAll
  <2>6. OneActor' /\ HasSnapshot' /\ CycleCopiesSnapshot' /\ FinalImportComplete'
    BY <1>0, <2>1, <2>2 DEF OneActor, HasSnapshot, CycleCopiesSnapshot, FinalImportComplete
  <2>7. QED
    BY <2>4, <2>5, <2>6
<1>16. CASE WriteChangeID
  <2>1. /\ worker.pc = "copy" /\ worker.areas = {} /\ worker'.pc = "sync"
        /\ worker'.todo = worker.todo \ {worker.disk} /\ worker'.final = worker.final
        /\ worker'.good = worker.good
    BY <1>16 DEF WriteChangeID, TypeOK, WorkerState
  <2>2. UNCHANGED <<running, content, target, snap, leftovers, imported, admin>>
    BY <1>16 DEF WriteChangeID
  <2>3. target[worker.disk] = snap[worker.disk].data
    <3>1. \A b \in Block : target[worker.disk][b] = snap[worker.disk].data[b]
      BY <2>1 DEF Progress
    <3>2. target[worker.disk] \in [Block -> Nat] /\ snap[worker.disk].data \in [Block -> Nat]
      BY WorkerFields, Types
    <3>3. QED
      BY <3>1, <3>2
  <2>4. Progress'
    BY <2>1, <2>2, <2>3 DEF Progress
  <2>5. FinalReadsAll'
    BY <1>0, <2>1, <2>2 DEF FinalReadsAll
  <2>6. OneActor' /\ HasSnapshot' /\ CycleCopiesSnapshot' /\ FinalImportComplete'
    BY <1>0, <2>1, <2>2 DEF OneActor, HasSnapshot, CycleCopiesSnapshot, FinalImportComplete
  <2>7. QED
    BY <2>4, <2>5, <2>6
<1>17. CASE CopyFails \/ AllSynced
  <2>1. /\ worker.pc \in {"sync", "copy"} /\ worker'.pc = "stop" /\ worker'.final = worker.final
        /\ worker'.todo = worker.todo
        /\ worker'.good => worker.todo = {} /\ worker.pc = "sync"
    BY <1>17 DEF CopyFails, AllSynced, TypeOK, WorkerState
  <2>2. UNCHANGED <<running, content, target, snap, leftovers, imported, admin>>
    BY <1>17 DEF CopyFails, AllSynced
  <2>3. Progress' /\ FinalReadsAll'
    BY <1>0, <2>1, <2>2 DEF Progress, FinalReadsAll
  <2>4. OneActor' /\ HasSnapshot' /\ CycleCopiesSnapshot' /\ FinalImportComplete'
    BY <1>0, <2>1, <2>2 DEF OneActor, HasSnapshot, CycleCopiesSnapshot, FinalImportComplete
  <2>5. QED
    BY <2>3, <2>4
<1>18. CASE StopServers
  <2>1. worker.pc = "stop" /\ UNCHANGED <<running, content, target, snap, imported, admin>>
    BY <1>18 DEF StopServers
  <2>2. CASE worker.good
    <3>1. worker'.pc = "tasks" /\ worker'.final = worker.final
      BY <1>18, <2>2 DEF StopServers, TypeOK, WorkerState
    <3>2. CycleCopiesSnapshot'
      BY <2>1, <2>2, <3>1 DEF CycleCopiesSnapshot, Progress
    <3>3. FinalReadsAll'
      BY <1>0, <2>1, <3>1 DEF FinalReadsAll
    <3>4. OneActor' /\ HasSnapshot' /\ Progress' /\ FinalImportComplete'
      BY <1>0, <2>1, <3>1 DEF OneActor, HasSnapshot, Progress, FinalImportComplete
    <3>5. QED
      BY <3>2, <3>3, <3>4
  <2>3. CASE ~worker.good
    <3>1. worker'.pc \in {"start", "failed"} /\ worker'.final = worker.final
      BY <1>18, <2>3, NextAttemptType DEF StopServers
    <3>2. QED
      BY <1>0, <2>1, <3>1, CycleInvOutside DEF FinalReadsAll
  <2>4. QED
    BY <2>2, <2>3
<1>19. CASE BeginEnable \/ NothingEligible \/ RemoveAllSnapshots \/ DisableTracking
            \/ EnableTracking \/ PowerOnAgain \/ EnableFails
  <2>1. worker.pc = "none" /\ UNCHANGED <<worker, content, imported>>
    BY <1>19 DEF BeginEnable, NothingEligible, RemoveAllSnapshots, DisableTracking,
                 EnableTracking, PowerOnAgain, EnableFails, OneActor
  <2>2. QED
    BY <2>1 DEF OneActor, HasSnapshot, Progress, CycleCopiesSnapshot, FinalReadsAll,
                FinalImportComplete
<1>20. QED
  BY <1>1, <1>2, <1>3, <1>4, <1>5, <1>6, <1>7, <1>8, <1>9, <1>10, <1>11, <1>12, <1>13,
     <1>14, <1>15, <1>16, <1>17, <1>18, <1>19 DEF Next, Import, Enable

-----------------------------------------------------------------------------

LEMMA Inductive == Spec => []IInv
<1>1. Init => IInv
  BY InitInv
<1>2. IInv /\ [Next]_vars => IInv'
  <2> SUFFICES ASSUME IInv, [Next]_vars PROVE IInv'
    OBVIOUS
  <2>1. TypeOK /\ IdsSound /\ CycleInv
    BY DEF IInv, IdsSound, CycleInv
  <2>2. TypeOK'
    BY <2>1, TypeStep DEF CycleInv
  <2>3. IdsSound'
    BY <2>1, IdsSoundStep DEF CycleInv
  <2>4. CycleInv'
    BY <2>1, CycleInvStep
  <2>5. QED
    BY <2>2, <2>3, <2>4 DEF IInv, IdsSound, CycleInv
<1>3. QED
  BY <1>1, <1>2, PTL DEF Spec

\* Type correctness of the data path, for any number of disks and blocks.
THEOREM DiskTypes == Spec => []TypeOK
<1>1. IInv => TypeOK
  BY DEF IInv
<1>2. QED
  BY <1>1, Inductive, PTL

\* The change id file never promises too much, whatever fails and whoever else
\* handles the tracking of the VM's disks (GetChangeID, SyncToTarget).
THEOREM ChangeIds == Spec => []ChangeIdSound
<1>1. IInv => ChangeIdSound
  BY DEF IInv
<1>2. QED
  BY <1>1, Inductive, PTL

\* A migration cycle without an error leaves the target as one snapshot of all
\* the disks (MigrationCycle).
THEOREM CyclesCopy == Spec => []CycleCopiesSnapshot
<1>1. IInv => CycleCopiesSnapshot
  BY DEF IInv
<1>2. QED
  BY <1>1, Inductive, PTL

\* A final import that succeeds has copied the last write to every block of a
\* source that is off (importDisks).
THEOREM FinalImports == Spec => []FinalImportComplete
<1>1. IInv => FinalImportComplete
  BY DEF IInv
<1>2. QED
  BY <1>1, Inductive, PTL

\* The VM is off while its tracking is being set up.
OffDuringEnable == admin.pc # "idle" => ~running

LEMMA OffInductive == Spec => []OffDuringEnable
<1>1. Init => OffDuringEnable
  BY DEF Init, OffDuringEnable
<1>2. ASSUME TypeOK, OffDuringEnable, [Next]_vars
      PROVE  OffDuringEnable'
  <2>1. admin \in AdminState /\ running \in BOOLEAN
    BY <1>2 DEF TypeOK
  <2>2. CASE UNCHANGED admin /\ (UNCHANGED running \/ ~running')
    BY <1>2, <2>1, <2>2 DEF OffDuringEnable
  <2>3. CASE Enable \/ EnableFails \/ BeginEnable
    BY <1>2, <2>1, <2>3 DEF OffDuringEnable, AdminState, Enable, EnableFails, BeginEnable,
       NothingEligible, RemoveAllSnapshots, DisableTracking, EnableTracking, PowerOnAgain,
       guest
  <2>4. CASE UNCHANGED vars
    BY <1>2, <2>4 DEF vars, guest, OffDuringEnable
  <2>5. CASE Import
    BY <2>5, <2>2 DEF Import, PowerOffVM, DeleteVMSnapshot, StartServers, StartServersFails,
       SyncToTarget, CopyBlock, WriteChangeID, AllSynced, StopServers, DryRun, ReportFailure,
       guest
  <2> QED
    BY <1>2, <2>2, <2>3, <2>4, <2>5 DEF Next, GuestWrite, Retrack, Untrack, CreateWorker,
       DeleteWorker, ImportDisks, PrepareFails, CopyFails, DryRunFails, RestartWorker,
       RebootWorkerVM, guest
<1> QED
  BY <1>1, <1>2, DiskTypes, PTL DEF Spec

\* A request that has set up the tracking of the disks leaves the VM powered as it found
\* it: nobody else powers it on meanwhile, and the request does only if it was
\* (EnableBackgroundImport).
THEOREM EnablesKeepPower == Spec => EnableKeepsPower
<1>1. ASSUME TypeOK, OffDuringEnable, admin.pc = "tracked", Enable
      PROVE  running' = admin.was
  <2>1. PowerOnAgain
    BY <1>1 DEF Enable, NothingEligible, RemoveAllSnapshots, DisableTracking, EnableTracking
  <2>2. running = FALSE /\ admin.was \in BOOLEAN
    BY <1>1 DEF TypeOK, OffDuringEnable, AdminState
  <2>3. running' = (running \/ admin.was)
    BY <2>1 DEF PowerOnAgain
  <2> QED
    BY <2>2, <2>3, Zenon
<1>2. TypeOK /\ OffDuringEnable /\ [Next]_vars =>
        [admin.pc = "tracked" /\ Enable => running' = admin.was]_vars
  BY <1>1
<1> QED
  BY <1>2, OffInductive, DiskTypes, PTL DEF Spec, EnableKeepsPower
=============================================================================
