------------------------------ MODULE TargetVMs ------------------------------
(***************************************************************************)
(* The VMs and volumes of one project of a target, as rounds of            *)
(* beginImports create them, the finalization configures them, and failed  *)
(* creations, ended windows and canceled entries delete them again.  Every *)
(* call to the target may fail, also after it has taken effect, the daemon *)
(* may restart in between, and the target has other users, who may take an *)
(* instance's name first; only Migration Manager deletes VMs.              *)
(*                                                                         *)
(* The names of the instances are distinct.  A VM's root disk comes and    *)
(* goes with the VM; the other disks are volumes that are made first and   *)
(* attached together.                                                      *)
(***************************************************************************)
EXTENDS Integers, FiniteSets, FiniteSetsExt

CONSTANTS
    Instance,   \* the queued instances; each names a VM
    Disk,       \* the numbers of the disks after the root disk
    NoVM,       \* no VM has the name
    Events,     \* what failures and users do
    MaxEvents   \* bound on how often they do it

ASSUME TargetVMsAssumption ==
    /\ IsFiniteSet(Disk) /\ Disk \subseteq Nat
    /\ NoVM \notin [maker : {"migration", "user"}, worker : BOOLEAN, attached : SUBSET Disk]
    /\ MaxEvents \in Nat

VARIABLES
    status,  \* the migration status of an entry
    round,   \* the round of beginImports
    step,    \* how far createTargetVM is with an instance
    tried,   \* the volumes SetupVM has tried to create
    vm,      \* the VM with the name of an instance
    volume,  \* its volumes: made by this creation, or left from an earlier one
    late,    \* the target still creates a VM whose creation has timed out
    spoilt,  \* a call that was to undo a creation failed, or was not made
    events   \* the events so far

target == <<vm, volume, late, spoilt>>
daemon == <<round, step, tried>>
vars   == <<status, daemon, target, events>>

TargetVM == [maker : {"migration", "user"}, worker : BOOLEAN, attached : SUBSET Disk]

TypeOK ==
    /\ status \in [Instance -> {"BLOCKED", "WAITING", "CREATING", "IDLE", "WORKER_DONE",
                                "FINISHED", "CANCELED", "CONFLICT"}]
    /\ round \in [pc : {"idle", "place", "claim", "create"}, seen : SUBSET Instance]
    /\ step \in [Instance -> {"none", "create", "setup", "undo", "agent", "cleanup", "revert"}]
    /\ tried \in [Instance -> SUBSET Disk]
    /\ vm \in [Instance -> TargetVM \cup {NoVM}]
    /\ volume \in [Instance -> [Disk -> {"none", "new", "old"}]]
    /\ late \in [Instance -> BOOLEAN]
    /\ spoilt \in [Instance -> BOOLEAN]
    /\ events \in 0 .. MaxEvents

Init ==
    /\ status = [i \in Instance |-> "WAITING"]
    /\ round = [pc |-> "idle", seen |-> {}]
    /\ step = [i \in Instance |-> "none"]
    /\ tried = [i \in Instance |-> {}]
    /\ vm = [i \in Instance |-> NoVM]
    /\ volume = [i \in Instance |-> [d \in Disk |-> "none"]]
    /\ late = [i \in Instance |-> FALSE]
    /\ spoilt = [i \in Instance |-> FALSE]
    /\ events = 0

Event(e) ==
    /\ e \in Events
    /\ events < MaxEvents
    /\ events' = events + 1

SetStatus(i, s) == status' = [status EXCEPT ![i] = s]
StepTo(i, s) == step' = [step EXCEPT ![i] = s]

-----------------------------------------------------------------------------
(* The VM of an instance *)

NewVM == [maker |-> "migration", worker |-> TRUE, attached |-> {}]

Exists(i) == vm[i] # NoVM
Has(i, d) == volume[i][d] # "none"

\* What the volumes are once those of a set are gone.
Without(volumes, S) == [d \in Disk |-> IF d \in S THEN "none" ELSE volumes[d]]

\* Mutant: whoever made the VM.
CleanableByName(i, requireWorkerVolume) ==
    /\ Exists(i)
    /\ requireWorkerVolume => vm[i].worker

\* Migration Manager's mark is on the VM, and the worker volume if required.
Cleanable(i, requireWorkerVolume) ==
    /\ Exists(i)
    /\ vm[i].maker = "migration"
    /\ requireWorkerVolume => vm[i].worker

\* Mutant: the disks are looked up once the VM is gone.
DeleteVMOnly(i) ==
    /\ vm' = [vm EXCEPT ![i] = NoVM]
    /\ UNCHANGED <<volume, late, spoilt>>

\* The VM goes, and then the volumes its devices named.
DeleteVMAndDisks(i) ==
    /\ vm' = [vm EXCEPT ![i] = NoVM]
    /\ volume' = [volume EXCEPT ![i] = Without(@, vm[i].attached)]
    /\ UNCHANGED <<late, spoilt>>

CleanupVM(i, requireWorkerVolume) ==
    IF Cleanable(i, requireWorkerVolume)
    THEN DeleteVMAndDisks(i)
    ELSE UNCHANGED target

\* A call of CleanupVM fails: the VM stays, or some of its volumes do.
CleanupFails(i, requireWorkerVolume) ==
    /\ Event("cleanup")
    /\ Cleanable(i, requireWorkerVolume)
    /\ spoilt' = [spoilt EXCEPT ![i] = TRUE]
    /\ UNCHANGED late
    /\ \/ UNCHANGED <<vm, volume>>
       \/ \E gone \in SUBSET vm[i].attached :
            /\ vm' = [vm EXCEPT ![i] = NoVM]
            /\ volume' = [volume EXCEPT ![i] = Without(@, gone)]

-----------------------------------------------------------------------------
(* beginImports *)

Pending == {i \in Instance : status[i] \in {"WAITING", "BLOCKED"}}

\* reassessBlockedInstances, which does not look at the target.
Reassess ==
    /\ round.pc = "idle"
    /\ Pending # {}
    /\ status' = [i \in Instance |-> IF i \in Pending THEN "WAITING" ELSE status[i]]
    /\ round' = [pc |-> "place", seen |-> {}]
    /\ UNCHANGED <<step, tried, target, events>>

\* CanPlaceInstance of an entry that waits: its name must be free.  The project,
\* the networks and the pools of its placement are taken to exist.
CanPlace(i) == ~Exists(i)

\* The round goes on with the entries whose names it has seen to be free.
Place ==
    /\ round.pc = "place"
    /\ LET waiting == {i \in Instance : status[i] = "WAITING"}
           seen    == {i \in waiting : CanPlace(i)}
       IN  /\ status' = [i \in Instance |->
                            IF i \in waiting \ seen THEN "BLOCKED" ELSE status[i]]
           /\ round' = [pc |-> IF seen = {} THEN "idle" ELSE "claim", seen |-> seen]
    /\ UNCHANGED <<step, tried, target, events>>

Claim ==
    /\ round.pc = "claim"
    /\ status' = [i \in Instance |-> IF i \in round.seen THEN "CREATING" ELSE status[i]]
    /\ step' = [i \in Instance |-> IF i \in round.seen THEN "create" ELSE "none"]
    /\ round' = [pc |-> "create", seen |-> {}]
    /\ UNCHANGED <<tried, target, events>>

EndRound ==
    /\ round.pc = "create"
    /\ \A i \in Instance : step[i] = "none"
    /\ round' = [pc |-> "idle", seen |-> {}]
    /\ UNCHANGED <<status, step, tried, target, events>>

-----------------------------------------------------------------------------
(* createTargetVM *)

\* CreateNewVM: volumes of an earlier creation may still be there.
CreateVM(i) ==
    /\ step[i] = "create"
    /\ IF Exists(i)
         THEN StepTo(i, "cleanup") /\ UNCHANGED <<vm, volume>>
         ELSE /\ StepTo(i, "setup")
              /\ vm' = [vm EXCEPT ![i] = NewVM]
              /\ volume' = [volume EXCEPT ![i] =
                              [d \in Disk |-> IF Has(i, d) THEN "old" ELSE "none"]]
    /\ tried' = [tried EXCEPT ![i] = {}]
    /\ UNCHANGED <<status, round, late, spoilt, events>>

\* The target refuses, or its operation has not ended in time.
CreateVMFails(i) ==
    /\ Event("create")
    /\ step[i] = "create"
    /\ \/ StepTo(i, "revert") /\ UNCHANGED <<late, spoilt>>
       \/ /\ StepTo(i, "cleanup")
          /\ late' = [late EXCEPT ![i] = TRUE]
          /\ spoilt' = [spoilt EXCEPT ![i] = TRUE]
    /\ UNCHANGED <<status, round, tried, vm, volume>>

\* The operation ends after all.
CreatedLate(i) ==
    /\ late[i]
    /\ late' = [late EXCEPT ![i] = FALSE]
    /\ vm' = [vm EXCEPT ![i] = IF @ = NoVM THEN NewVM ELSE @]
    /\ UNCHANGED <<status, daemon, volume, spoilt, events>>

ToMake(i) == Disk \ tried[i]

\* Mutant: a volume that exists already is taken for the disk.
CreateAnyVolume(i) ==
    /\ step[i] = "setup" /\ ToMake(i) # {}
    /\ LET d == Min(ToMake(i))
       IN  /\ tried' = [tried EXCEPT ![i] = @ \cup {d}]
           /\ volume' = [volume EXCEPT ![i][d] = IF Has(i, d) THEN @ ELSE "new"]
           /\ UNCHANGED step
    /\ UNCHANGED <<status, round, vm, late, spoilt, events>>

\* SetupVM makes the volumes one by one; the reverter that deletes a volume is
\* there before the volume is.
CreateVolume(i) ==
    /\ step[i] = "setup" /\ ToMake(i) # {}
    /\ LET d == Min(ToMake(i))
       IN  /\ tried' = [tried EXCEPT ![i] = @ \cup {d}]
           /\ IF Has(i, d)
                THEN StepTo(i, "undo") /\ UNCHANGED volume
                ELSE /\ UNCHANGED step
                     /\ volume' = [volume EXCEPT ![i][d] = "new"]
    /\ UNCHANGED <<status, round, vm, late, spoilt, events>>

AttachVolumes(i) ==
    /\ step[i] = "setup" /\ ToMake(i) = {}
    /\ vm' = [vm EXCEPT ![i].attached = Disk]
    /\ StepTo(i, "agent")
    /\ UNCHANGED <<status, round, tried, volume, late, spoilt, events>>

\* A call of SetupVM fails, the last one perhaps with the volumes attached.
SetupFails(i) ==
    /\ Event("setup")
    /\ step[i] = "setup"
    /\ StepTo(i, "undo")
    /\ \/ UNCHANGED vm
       \/ /\ ToMake(i) = {}
          /\ vm' = [vm EXCEPT ![i].attached = Disk]
    /\ UNCHANGED <<status, round, tried, volume, late, spoilt>>

Unattached(i, S) == S \ vm[i].attached

\* Mutant: the reverter of a volume is added once the volume is made.
UndoMade(i) ==
    /\ step[i] = "undo"
    /\ volume' = [volume EXCEPT ![i] =
                    Without(@, {d \in Unattached(i, tried[i]) : volume[i][d] = "new"})]
    /\ StepTo(i, "cleanup")
    /\ UNCHANGED <<status, round, tried, vm, late, spoilt, events>>

\* SetupVM's reverter; the target does not delete a volume that is in use.
UndoVolumes(i) ==
    /\ step[i] = "undo"
    /\ volume' = [volume EXCEPT ![i] = Without(@, Unattached(i, tried[i]))]
    /\ StepTo(i, "cleanup")
    /\ UNCHANGED <<status, round, tried, vm, late, spoilt, events>>

UndoFails(i) ==
    /\ Event("cleanup")
    /\ step[i] = "undo"
    /\ \E kept \in SUBSET Unattached(i, tried[i]) :
        volume' = [volume EXCEPT ![i] = Without(@, Unattached(i, tried[i]) \ kept)]
    /\ spoilt' = [spoilt EXCEPT ![i] = TRUE]
    /\ StepTo(i, "cleanup")
    /\ UNCHANGED <<status, round, tried, vm, late>>

\* CheckIncusAgent, after which the worker's calls are expected.
AgentUp(i) ==
    /\ step[i] = "agent"
    /\ SetStatus(i, "IDLE")
    /\ StepTo(i, "none")
    /\ UNCHANGED <<round, tried, target, events>>

AgentFails(i) ==
    /\ Event("agent")
    /\ step[i] = "agent"
    /\ StepTo(i, "cleanup")
    /\ UNCHANGED <<status, round, tried, target>>

\* The reverter of createTargetVM: the VM, then the status.
CleanupCreated(i) ==
    /\ step[i] = "cleanup"
    /\ StepTo(i, "revert")
    /\ \/ CleanupVM(i, TRUE) /\ UNCHANGED events
       \/ CleanupFails(i, TRUE)
    /\ UNCHANGED <<status, round, tried>>

RevertCreating(i) ==
    /\ step[i] = "revert"
    /\ StepTo(i, "none")
    /\ SetStatus(i, "WAITING")
    /\ UNCHANGED <<round, tried, target, events>>

-----------------------------------------------------------------------------
(* After the creation *)

ImportDone(i) ==
    /\ status[i] = "IDLE"
    /\ SetStatus(i, "WORKER_DONE")
    /\ UNCHANGED <<daemon, target, events>>

Configured(i) == vm' = [vm EXCEPT ![i].worker = FALSE]

\* configureMigratedInstances: SetPostMigrationVMConfig takes the worker volume
\* away.  An entry whose VM is gone is put into CONFLICT.
Configure(i) ==
    /\ status[i] = "WORKER_DONE"
    /\ IF Exists(i)
         THEN SetStatus(i, "FINISHED") /\ Configured(i)
         ELSE SetStatus(i, "CONFLICT") /\ UNCHANGED vm
    /\ UNCHANGED <<daemon, volume, late, spoilt, events>>

\* A failure before or after the update; there may be a retry left.
ConfigureFails(i) ==
    /\ Event("configure")
    /\ status[i] = "WORKER_DONE" /\ Exists(i)
    /\ \E s \in {"WORKER_DONE", "CONFLICT"} : SetStatus(i, s)
    /\ Configured(i) \/ UNCHANGED vm
    /\ UNCHANGED <<daemon, volume, late, spoilt>>

\* resetQueueEntry once the window has ended.
ResetEntry(i) ==
    /\ status[i] = "WORKER_DONE"
    /\ \/ Event("deadline") /\ CleanupVM(i, FALSE) /\ SetStatus(i, "WAITING")
       \/ CleanupFails(i, FALSE) /\ UNCHANGED status
    /\ UNCHANGED daemon

\* queueCancel, which waits for the round to end.
CancelEntry(i, cleanup) ==
    /\ round.pc = "idle"
    /\ status[i] \notin {"FINISHED", "CANCELED"}
    /\ SetStatus(i, "CANCELED")
    /\ \/ /\ Event("cancel")
          /\ IF cleanup THEN CleanupVM(i, FALSE)
             ELSE /\ spoilt' = [spoilt EXCEPT ![i] = TRUE]
                  /\ UNCHANGED <<vm, volume, late>>
       \/ cleanup /\ CleanupFails(i, FALSE)
    /\ UNCHANGED daemon

RetryEntry(i) ==
    /\ round.pc = "idle"
    /\ status[i] = "CANCELED"
    /\ SetStatus(i, "WAITING")
    /\ UNCHANGED <<daemon, target, events>>

\* Nothing picks up what the round was at.
RestartDaemon ==
    /\ Event("restart")
    /\ round.pc # "idle"
    /\ round' = [pc |-> "idle", seen |-> {}]
    /\ step' = [i \in Instance |-> "none"]
    /\ spoilt' = [i \in Instance |-> spoilt[i] \/ step[i] # "none"]
    /\ UNCHANGED <<status, tried, vm, volume, late>>

\* Another user of the target creates a VM of the instance's name.
UserCreates(i) ==
    /\ Event("user")
    /\ ~Exists(i)
    /\ \E looksAlike \in BOOLEAN :
        vm' = [vm EXCEPT ![i] = [maker |-> "user", worker |-> looksAlike, attached |-> {}]]
    /\ UNCHANGED <<status, daemon, volume, late, spoilt>>

-----------------------------------------------------------------------------

Round == Reassess \/ Place \/ Claim \/ EndRound

Create(i) ==
    \/ CreateVM(i) \/ CreateVolume(i) \/ AttachVolumes(i) \/ UndoVolumes(i)
    \/ AgentUp(i) \/ CleanupCreated(i) \/ RevertCreating(i)

Next ==
    \/ Round
    \/ \E i \in Instance :
        \/ Create(i)
        \/ CreateVMFails(i) \/ SetupFails(i) \/ UndoFails(i) \/ AgentFails(i)
        \/ CreatedLate(i) \/ ImportDone(i) \/ Configure(i) \/ ConfigureFails(i)
        \/ ResetEntry(i) \/ RetryEntry(i) \/ UserCreates(i)
        \/ \E cleanup \in BOOLEAN : CancelEntry(i, cleanup)
    \/ RestartDaemon

\* The round runs again and again, and every creation goes on.
Spec ==
    /\ Init /\ [][Next]_vars
    /\ WF_vars(Round)
    /\ \A i \in Instance : WF_vars(Create(i))

-----------------------------------------------------------------------------
(* Properties *)

\* A worker is expected only in a VM that Migration Manager made, with every
\* disk attached, none of them left by an earlier creation (createTargetVM).
CreatedVMComplete ==
    \A i \in Instance : status[i] = "IDLE" =>
        /\ Exists(i) /\ vm[i].maker = "migration"
        /\ vm[i].attached = Disk
        /\ \A d \in Disk : volume[i][d] = "new"

\* The VM of another user is never deleted, whoever came first to the name
\* (CleanupVM).
ForeignVMKept ==
    [][\A i \in Instance : Exists(i) /\ vm[i].maker = "user" =>
            vm'[i] # NoVM /\ vm'[i].maker = "user"]_vars

\* An entry that waits to be created has nothing on the target, unless a call
\* that was to undo an earlier creation failed, a restart came first, or the
\* entry was canceled without cleanup.
NothingLeftBehind ==
    \A i \in Instance : status[i] = "WAITING" /\ ~spoilt[i] =>
        /\ Exists(i) => vm[i].maker = "user"
        /\ \A d \in Disk : ~Has(i, d)

\* Nothing picks up a creation that a restart has cut short.
CutShort(i) == status[i] = "CREATING" /\ step[i] = "none"

\* Whatever earlier creations left behind, a waiting entry's VM is created in
\* the end, unless its name is taken; leftover volumes are no obstacle.
CreatedInTheEnd ==
    \A i \in Instance :
        status[i] = "WAITING" ~> status[i] \in {"IDLE", "BLOCKED", "CANCELED"} \/ CutShort(i)
=============================================================================
