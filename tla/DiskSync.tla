------------------------------ MODULE DiskSync ------------------------------
(***************************************************************************)
(* The data path of a migration: the worker inside the target VM copies    *)
(* the disks of a VMware VM, block by block, from an ephemeral snapshot.   *)
(* VMware tracks the blocks that were written since a change id, so that   *)
(* an import after the first copies only those; the change id a disk was   *)
(* copied at is kept in a file of the worker.  The guest writes on all the *)
(* while, until the final import powers it off.                            *)
(*                                                                         *)
(* The module looks at one VM.  Its power and its change tracking may also *)
(* be handled by EnableBackgroundImport, before the migration has begun.   *)
(***************************************************************************)
EXTENDS Integers, FiniteSets

CONSTANTS
    Disk,          \* the supported disks of the VM
    Block,         \* the blocks of a disk
    NoId,          \* no change id: CBT is off, or no valid file
    Attempts,      \* how often ImportDisks runs the migration cycle
    MaxSnapshots,  \* the snapshots VMware keeps of a VM
    MaxWrites,     \* bound on the writes of the guest
    MaxTrackers,   \* bound on the times change tracking is set up
    MaxNumber,     \* bound on the change numbers at which an import begins
    Faults         \* what may go wrong

ASSUME DiskAssumption ==
    /\ Disk # {}
    /\ Attempts \in Nat \ {0}
    /\ MaxSnapshots \in Nat \ {0}
    /\ MaxWrites \in Nat
    /\ MaxTrackers \in Nat \ {0}
    /\ MaxNumber \in Nat \ {0}
    /\ NoId \notin [uuid : Nat, number : Nat]

VARIABLES
    running,    \* the source VM is powered on
    content,    \* the last write to each block of the source's disks
    writes,     \* the number of writes
    tracker,    \* VMware's change tracking of each disk
    leftovers,  \* the snapshots with the worker's name that exist
    target,     \* the write each block of the target's disks holds
    cid,        \* the change id file of each disk
    worker,     \* the import of the worker
    snap,       \* the snapshot the worker reads from
    imported,   \* a final import has succeeded
    admin       \* the EnableBackgroundImport request

guest   == <<running, content, writes>>
copies  == <<target, cid>>
vars    == <<guest, tracker, leftovers, copies, worker, snap, imported, admin>>

Image    == [Block -> Nat]
ChangeId == [uuid : Nat, number : Nat]
\* changed[b] is the change number at which block b was last written.
Tracker  == [on : BOOLEAN, uuid : Nat, number : Nat, changed : Image]

\* What a snapshot freezes of a disk.
Frozen == [data : Image, id : ChangeId \cup {NoId}, changed : Image]

Step == {"none", "idle", "power", "prune", "start", "sync", "copy", "stop",
         "tasks", "failed"}

\* "todo" are the disks the cycle has still to sync, "disk" the one being
\* copied, "areas" its blocks still to be copied, "good" the cycle's outcome.
WorkerState == [pc : Step, final : BOOLEAN, attempt : Nat, todo : SUBSET Disk,
                disk : Disk, areas : SUBSET Block, good : BOOLEAN]

AdminState == [pc : {"idle", "off", "bare", "untracked", "tracked"},
               was : BOOLEAN]

TypeOK ==
    /\ running \in BOOLEAN
    /\ content \in [Disk -> Image]
    /\ writes \in Nat
    /\ tracker \in [Disk -> Tracker]
    /\ leftovers \in 0 .. MaxSnapshots
    /\ target \in [Disk -> Image]
    /\ cid \in [Disk -> ChangeId \cup {NoId}]
    /\ worker \in WorkerState
    /\ snap \in [Disk -> Frozen]
    /\ imported \in BOOLEAN
    /\ admin \in AdminState

Blank == [b \in Block |-> 0]
NoWorker == [pc |-> "none", final |-> FALSE, attempt |-> 0, todo |-> {},
             disk |-> CHOOSE d \in Disk : TRUE, areas |-> {}, good |-> TRUE]

NoSnapshot == [d \in Disk |-> [data |-> Blank, id |-> NoId, changed |-> Blank]]

Init ==
    /\ running \in BOOLEAN
    /\ content = [d \in Disk |-> [b \in Block |-> 1]]
    /\ writes = 0
    /\ \E on \in BOOLEAN :
          tracker = [d \in Disk |-> [on |-> on, uuid |-> 1, number |-> 1,
                                     changed |-> Blank]]
    /\ leftovers = 0
    /\ target = [d \in Disk |-> Blank]
    /\ cid = [d \in Disk |-> NoId]
    /\ worker = NoWorker
    /\ snap = NoSnapshot
    /\ imported = FALSE
    /\ admin = [pc |-> "idle", was |-> FALSE]

-----------------------------------------------------------------------------
(* VMware *)

\* The guest writes to a block; a tracked disk records the change number.
GuestWrite(d, b) ==
    /\ running
    /\ writes < MaxWrites
    /\ writes' = writes + 1
    /\ content' = [content EXCEPT ![d][b] = writes + 2]
    /\ tracker' = [tracker EXCEPT ![d].changed[b] =
                       IF tracker[d].on THEN tracker[d].number ELSE @]
    /\ UNCHANGED <<running, leftovers, copies, worker, snap, imported, admin>>

\* Change tracking set up anew forgets every earlier change, under a new id.
Retracked(d) == [on |-> TRUE, uuid |-> tracker[d].uuid + 1, number |-> 1,
                 changed |-> Blank]

MayRetrack == \A d \in Disk : tracker[d].uuid < MaxTrackers

\* Somebody sets up the VM's tracking anew, or turns it off.
Retrack ==
    /\ "tracking" \in Faults
    /\ MayRetrack
    /\ tracker' = [d \in Disk |-> Retracked(d)]
    /\ UNCHANGED <<guest, leftovers, copies, worker, snap, imported, admin>>

Untrack ==
    /\ "tracking" \in Faults
    /\ tracker' = [d \in Disk |-> [tracker[d] EXCEPT !.on = FALSE]]
    /\ UNCHANGED <<guest, leftovers, copies, worker, snap, imported, admin>>

\* GetChangeID of the disk in a snapshot taken now.
GetChangeID(d) ==
    IF tracker[d].on THEN [uuid |-> tracker[d].uuid, number |-> tracker[d].number]
                     ELSE NoId

\* Mutant: off by one at the change number.
ChangedAreasAfter(d, number) == {b \in Block : snap[d].changed[b] > number + 1}

\* QueryChangedDiskAreas: what was written after the change number.
ChangedAreas(d, number) == {b \in Block : snap[d].changed[b] > number}

-----------------------------------------------------------------------------
(* The worker's import *)

\* The target VM is created with empty disks, and its worker started.
CreateWorker ==
    /\ worker.pc = "none"
    /\ admin.pc = "idle"
    /\ worker' = [NoWorker EXCEPT !.pc = "idle"]
    /\ target' = [d \in Disk |-> Blank]
    /\ cid' = [d \in Disk |-> NoId]
    /\ UNCHANGED <<guest, tracker, leftovers, snap, imported, admin>>

\* Cancelling the migration deletes the target VM, whatever the worker does.
DeleteWorker ==
    /\ "cancel" \in Faults
    /\ worker.pc # "none" /\ ~imported
    /\ worker' = NoWorker
    /\ snap' = NoSnapshot
    /\ UNCHANGED <<guest, tracker, leftovers, copies, imported, admin>>

\* IMPORT_DISKS or FINALIZE_IMPORT arrives.
ImportDisks(final) ==
    /\ worker.pc = "idle" /\ ~imported
    /\ \A d \in Disk : tracker[d].number < MaxNumber
    /\ worker' = [worker EXCEPT !.pc = IF final THEN "power" ELSE "prune",
                                !.final = final]
    /\ UNCHANGED <<guest, tracker, leftovers, copies, snap, imported, admin>>

\* Mutant: the import goes on when the source could not be powered off.
TryPowerOffVM ==
    /\ worker.pc = "power"
    /\ running' \in (IF "power" \in Faults THEN {FALSE, running} ELSE {FALSE})
    /\ worker' = [worker EXCEPT !.pc = "prune"]
    /\ UNCHANGED <<content, writes, tracker, leftovers, copies, snap, imported, admin>>

PowerOffVM ==
    /\ worker.pc = "power"
    /\ \/ /\ running' = FALSE
          /\ worker' = [worker EXCEPT !.pc = "prune"]
       \/ /\ "power" \in Faults
          /\ worker' = [worker EXCEPT !.pc = "failed"]
          /\ UNCHANGED running
    /\ UNCHANGED <<content, writes, tracker, leftovers, copies, snap, imported, admin>>

\* DeleteVMSnapshot, then the worker fetches the SDK and the instance.  The
\* snapshot is looked up by name: two of that name are an error, which is
\* ignored as if there were none.
DeleteVMSnapshot ==
    /\ worker.pc = "prune"
    /\ leftovers' = IF leftovers = 1 THEN 0 ELSE leftovers
    /\ worker' = [worker EXCEPT !.pc = "start", !.attempt = 1]
    /\ UNCHANGED <<guest, tracker, copies, snap, imported, admin>>

PrepareFails ==
    /\ "prepare" \in Faults
    /\ worker.pc = "prune"
    /\ \/ leftovers' = leftovers
       \/ leftovers = 1 /\ leftovers' = 0
    /\ worker' = [worker EXCEPT !.pc = "failed"]
    /\ UNCHANGED <<guest, tracker, copies, snap, imported, admin>>

\* Mutant: the attempts are not counted.
AnotherAttempt(w) == [w EXCEPT !.pc = "start"]

\* A cycle has ended with an error: ImportDisks runs another one, or gives up.
NextAttempt(w) ==
    IF w.attempt < Attempts THEN [w EXCEPT !.pc = "start", !.attempt = @ + 1]
                            ELSE [w EXCEPT !.pc = "failed"]

TakeSnapshot ==
    /\ leftovers < MaxSnapshots
    /\ leftovers' = leftovers + 1
    /\ snap' = [d \in Disk |-> [data |-> content[d], id |-> GetChangeID(d),
                                changed |-> tracker[d].changed]]
    /\ tracker' = [d \in Disk |-> [tracker[d] EXCEPT !.number = @ + 1]]

\* NbdkitServers.Start takes the snapshot and serves its disks.
StartServers ==
    /\ worker.pc = "start"
    /\ TakeSnapshot
    /\ worker' = [worker EXCEPT !.pc = "sync", !.todo = Disk, !.good = TRUE]
    /\ UNCHANGED <<guest, copies, imported, admin>>

\* The disks are not those expected, or nbdkit does not start: the snapshot
\* has been taken, and nobody removes it.
StartServersFails ==
    /\ worker.pc = "start"
    /\ \/ "start" \in Faults /\ TakeSnapshot
       \/ leftovers = MaxSnapshots /\ UNCHANGED <<leftovers, snap, tracker>>
    /\ worker' = NextAttempt(worker)
    /\ UNCHANGED <<guest, copies, imported, admin>>

\* Mutant: the id of the tracking is not compared.
NeedsFirstCopy(d) == cid[d] = NoId

\* NeedsFullCopy: no file, or one of another tracking.
NeedsFullCopy(d) == cid[d] = NoId \/ (snap[d].id # NoId /\ cid[d].uuid # snap[d].id.uuid)

\* The disk is tracked no more and has a change id: NeedsFullCopy fails.
CannotCompare(d) == cid[d] # NoId /\ snap[d].id = NoId

SyncToTarget(d) ==
    /\ worker.pc = "sync"
    /\ d \in worker.todo
    /\ worker' = IF CannotCompare(d)
                 THEN [worker EXCEPT !.pc = "stop", !.good = FALSE]
                 ELSE [worker EXCEPT
                         !.pc = "copy", !.disk = d,
                         !.areas = IF NeedsFullCopy(d) THEN Block
                                   ELSE ChangedAreas(d, cid[d].number)]
    /\ UNCHANGED <<guest, tracker, leftovers, copies, snap, imported, admin>>

\* FullCopyToTarget and IncrementalCopyToTarget write one block.
CopyBlock(b) ==
    /\ worker.pc = "copy"
    /\ b \in worker.areas
    /\ target' = [target EXCEPT ![worker.disk][b] = snap[worker.disk].data[b]]
    /\ worker' = [worker EXCEPT !.areas = @ \ {b}]
    /\ UNCHANGED <<guest, tracker, leftovers, cid, snap, imported, admin>>

WriteChangeID ==
    /\ worker.pc = "copy"
    /\ worker.areas = {}
    /\ cid' = [cid EXCEPT ![worker.disk] = snap[worker.disk].id]
    /\ worker' = [worker EXCEPT !.pc = "sync", !.todo = @ \ {worker.disk}]
    /\ UNCHANGED <<guest, tracker, leftovers, target, snap, imported, admin>>

\* Reading the snapshot or writing the disk fails.
CopyFails ==
    /\ "copy" \in Faults
    /\ worker.pc = "copy"
    /\ worker' = [worker EXCEPT !.pc = "stop", !.good = FALSE]
    /\ UNCHANGED <<guest, tracker, leftovers, copies, snap, imported, admin>>

AllSynced ==
    /\ worker.pc = "sync"
    /\ worker.todo = {}
    /\ worker' = [worker EXCEPT !.pc = "stop"]
    /\ UNCHANGED <<guest, tracker, leftovers, copies, snap, imported, admin>>

\* NbdkitServers.Stop: its failure is only logged, the snapshot stays.
StopServers ==
    /\ worker.pc = "stop"
    /\ \/ leftovers' = leftovers - 1
       \/ "stop" \in Faults /\ UNCHANGED leftovers
    /\ worker' = IF worker.good THEN [worker EXCEPT !.pc = "tasks"]
                                ELSE NextAttempt(worker)
    /\ UNCHANGED <<guest, tracker, copies, snap, imported, admin>>

\* The dry run of the post-import tasks ends well.
DryRun ==
    /\ worker.pc = "tasks"
    /\ imported' = worker.final
    /\ worker' = [NoWorker EXCEPT !.pc = "idle"]
    /\ snap' = NoSnapshot
    /\ UNCHANGED <<guest, tracker, leftovers, copies, admin>>

DryRunFails ==
    /\ "tasks" \in Faults
    /\ worker.pc = "tasks"
    /\ worker' = [worker EXCEPT !.pc = "failed"]
    /\ UNCHANGED <<guest, tracker, leftovers, copies, snap, imported, admin>>

\* sendErrorResponse: the import ends, and may be asked for again.
ReportFailure ==
    /\ worker.pc = "failed"
    /\ worker' = [NoWorker EXCEPT !.pc = "idle"]
    /\ snap' = NoSnapshot
    /\ UNCHANGED <<guest, tracker, leftovers, copies, imported, admin>>

\* The worker process restarts; on SIGTERM it first stops its servers.
RestartWorker ==
    /\ "restart" \in Faults
    /\ worker.pc \notin {"none", "idle"}
    /\ \/ UNCHANGED leftovers
       \/ /\ worker.pc \in {"sync", "copy", "stop"}
          /\ leftovers' = leftovers - 1
    /\ worker' = [NoWorker EXCEPT !.pc = "idle"]
    /\ snap' = NoSnapshot
    /\ UNCHANGED <<guest, tracker, copies, imported, admin>>

\* The worker VM reboots, and its /tmp, a tmpfs, is empty.
RebootWorkerVM ==
    /\ "reboot" \in Faults
    /\ worker.pc # "none"
    /\ worker' = [NoWorker EXCEPT !.pc = "idle"]
    /\ snap' = NoSnapshot
    /\ cid' = [d \in Disk |-> NoId]
    /\ UNCHANGED <<guest, tracker, leftovers, target, imported, admin>>

-----------------------------------------------------------------------------
(* EnableBackgroundImport, refused for an instance that is in the queue *)

BeginEnable ==
    /\ admin.pc = "idle"
    /\ worker.pc = "none"
    /\ MayRetrack
    /\ admin' = [pc |-> "off", was |-> running]
    /\ running' = FALSE
    /\ UNCHANGED <<content, writes, tracker, leftovers, copies, worker, snap, imported>>

\* No disk is on a controller it can track: the request succeeds right away.
NothingEligible ==
    /\ admin.pc = "off"
    /\ admin' = [admin EXCEPT !.pc = "idle"]
    /\ UNCHANGED <<guest, tracker, leftovers, copies, worker, snap, imported>>

RemoveAllSnapshots ==
    /\ admin.pc = "off"
    /\ leftovers' = 0
    /\ admin' = [admin EXCEPT !.pc = "bare"]
    /\ UNCHANGED <<guest, tracker, copies, worker, snap, imported>>

DisableTracking ==
    /\ admin.pc = "bare"
    /\ tracker' = [d \in Disk |-> [tracker[d] EXCEPT !.on = FALSE]]
    /\ admin' = [admin EXCEPT !.pc = "untracked"]
    /\ UNCHANGED <<guest, leftovers, copies, worker, snap, imported>>

EnableTracking ==
    /\ admin.pc = "untracked"
    /\ tracker' = [d \in Disk |-> Retracked(d)]
    /\ admin' = [admin EXCEPT !.pc = "tracked"]
    /\ UNCHANGED <<guest, leftovers, copies, worker, snap, imported>>

\* Mutant: the VM is powered on whatever it was.
PowerOnAlways ==
    /\ admin.pc = "tracked"
    /\ running' = TRUE
    /\ admin' = [admin EXCEPT !.pc = "idle"]
    /\ UNCHANGED <<content, writes, tracker, leftovers, copies, worker, snap, imported>>

PowerOnAgain ==
    /\ admin.pc = "tracked"
    /\ running' = (running \/ admin.was)
    /\ admin' = [admin EXCEPT !.pc = "idle"]
    /\ UNCHANGED <<content, writes, tracker, leftovers, copies, worker, snap, imported>>

\* One of its calls fails: the request ends where it is.
EnableFails ==
    /\ "enable" \in Faults
    /\ admin.pc # "idle"
    /\ admin' = [admin EXCEPT !.pc = "idle"]
    /\ UNCHANGED <<guest, tracker, leftovers, copies, worker, snap, imported>>

-----------------------------------------------------------------------------

Import ==
    \/ PowerOffVM \/ DeleteVMSnapshot \/ StartServers \/ StartServersFails
    \/ \E d \in Disk : SyncToTarget(d)
    \/ \E b \in Block : CopyBlock(b)
    \/ WriteChangeID \/ AllSynced \/ StopServers \/ DryRun \/ ReportFailure

Enable ==
    \/ NothingEligible \/ RemoveAllSnapshots \/ DisableTracking
    \/ EnableTracking \/ PowerOnAgain

Next ==
    \/ \E d \in Disk, b \in Block : GuestWrite(d, b)
    \/ Retrack \/ Untrack \/ CreateWorker \/ DeleteWorker
    \/ \E final \in BOOLEAN : ImportDisks(final)
    \/ Import \/ PrepareFails \/ CopyFails \/ DryRunFails
    \/ RestartWorker \/ RebootWorkerVM
    \/ BeginEnable \/ Enable \/ EnableFails

Spec == Init /\ [][Next]_vars

\* The worker's loop and the request's handler go on.
FairSpec == Spec /\ WF_vars(Import) /\ WF_vars(Enable)

-----------------------------------------------------------------------------
(* Properties *)

Reading == worker.pc \in {"sync", "copy", "stop"}

\* The change id file never promises too much: as long as a disk is tracked
\* under the id in its file, the target holds every block that was not written
\* after it.  An import that only copies what was written since (SyncToTarget)
\* rests on it, also after copies that stopped halfway, restarts of the worker
\* and a tracking that was set up anew.
ChangeIdSound ==
    \A d \in Disk :
        cid[d] # NoId /\ tracker[d].on /\ cid[d].uuid = tracker[d].uuid =>
            \A b \in Block : tracker[d].changed[b] <= cid[d].number =>
                target[d][b] = content[d][b]

\* A cycle that ends without an error has made every disk of the target what
\* the snapshot froze, all at one instant (MigrationCycle).
CycleCopiesSnapshot ==
    worker.pc = "tasks" => \A d \in Disk : target[d] = snap[d].data

\* Once a final import has succeeded, the target holds the last write to every
\* block, and the source, which it powered off, writes no more (importDisks).
FinalImportComplete == imported => ~running /\ target = content

\* Every command is answered, however often a cycle fails (ImportDisks gives
\* up after its last attempt).
EveryCommandAnswered ==
    worker.pc \notin {"none", "idle"} ~> worker.pc \in {"none", "idle"}

\* A request that has set up the tracking of the disks leaves the VM powered
\* as the request found it (EnableBackgroundImport).
EnableKeepsPower ==
    [][admin.pc = "tracked" /\ Enable => running' = admin.was]_vars
=============================================================================
