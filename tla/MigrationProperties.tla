------------------------ MODULE MigrationProperties ------------------------
(***************************************************************************)
(* What the migration promises.  Some of it holds whatever happens, some   *)
(* only in an environment the runs state, and some of it, though the       *)
(* documentation says it, not at all: the README tells which is which.     *)
(***************************************************************************)
EXTENDS Migration

Is(i, statuses) == Queued(i) /\ queue[i].status \in statuses

\* The target VM has left the hands of the migration.
Migrated(i) == vm[i] \in {"stopped", "running"} \/ Is(i, {"FINISHED"})

-----------------------------------------------------------------------------
(* Source and target machines *)

\* A migrated VM holds every write of its source: its disks were copied after
\* the source went down, the source has not come up since, and the
\* post-import tasks ran on that copy.  (resetQueueEntry, workerUpdatePost and
\* queueCancel power sources on while workers copy and tasks run.)
NoLostWrites == \A i \in Instance : Migrated(i) => disks[i] = "ready"

\* A source VM never runs next to the VM it was migrated to.
NeverBothRunning == \A i \in Instance : ~(source[i] /\ vm[i] = "running")

\* A VM that its entry's migration has handed over is never deleted while the
\* entry is there: no reverter, no reset for an ended window and no cancel that
\* was under way takes it for one of theirs.
MigratedVMKept == [][\A i \in Instance : Migrated(i) /\ Known(i) => vm'[i] # "none"]_vars

\* The task is taking back the migration of i, whose entry does not say so yet.
RollingBack(i) ==
    \/ fin.step[i] \in {"detach", "rewrite"}
    \/ fin.step[i] = "conflict" /\ source[i]

\* While an entry's stage is complete and nothing takes the migration back,
\* the source VM is off and the target's disks hold its last write: what the
\* post-import tasks and the configuration of the VM rely on.
CompleteMeansCopied == \A i \in Instance :
    /\ Queued(i) /\ queue[i].stage = "complete" /\ IsCommitted(queue[i])
    /\ ~RollingBack(i)
    => ~source[i] /\ disks[i] \in {"current", "ready"}

\* The migration only powers off the source VM of a committed entry.
\* (IsCommitted decides whether a cancel powers the source VM on again, and
\* whether a batch may be reset.)
OnlyCommittedPoweredOff == [][\A i \in Instance :
    (source[i] /\ ~source'[i]) => Queued(i) /\ IsCommitted(queue[i])]_vars

\* What an entry's status says of its VM holds: one that imports, or waits to,
\* has a target VM with a worker in it, and the migration of a finished one "is
\* complete" (doc/reference/queue.md), so that its VM has been handed over.
StatusTellsVM == \A i \in Instance :
    /\ Is(i, {"IDLE", "BACKGROUND_IMPORT", "FINAL_IMPORT"}) => vm[i] = "worker"
    /\ Is(i, {"FINISHED"}) => vm[i] \in {"stopped", "running"}

-----------------------------------------------------------------------------
(* Windows and batches *)

\* A window is held only from the final import on, and given up with it: no
\* entry that starts over or is canceled keeps one occupied.
WindowHeldByCommitted == \A i \in Instance :
    Queued(i) /\ queue[i].window # NoWindow =>
        IsCommitted(queue[i]) \/ queue[i].status = "ERROR"

\* No window is assigned to more instances than its capacity.
CapacityRespected == \A b \in Batch : \A w \in DOMAIN Schedule[b] :
    Schedule[b][w].capacity # 0 => InUse(w) <= Schedule[b][w].capacity

\* Only an instance whose window is open, or whose batch has no window that
\* it could wait for, starts its final import.
StartsInOpenWindow == [][\A i \in Instance :
    /\ Queued(i) /\ queue'[i] # NoEntry
    /\ queue[i].status = "IDLE" /\ queue'[i].status = "FINAL_IMPORT"
    => LET w == queue'[i].window
       IN  w # NoWindow => ~Locked(Schedule[queue[i].batch][w], now)
                           /\ Begun(Schedule[queue[i].batch][w], now)]_vars

\* The batch of a finished entry is finished with it only when every other
\* entry of the batch is.
FinishedBatchIsDone == \A b \in Batch :
    batch[b] = "FINISHED" => \A i \in Entries(b) : queue[i].status = "FINISHED"

\* An entry that is finished stays finished until it is deleted: no task that
\* read it earlier, no late response and no request takes it back.
FinishedForGood == [][\A i \in Instance :
    Is(i, {"FINISHED"}) => queue'[i] = NoEntry \/ queue'[i].status = "FINISHED"]_vars

-----------------------------------------------------------------------------
(* The promise to the owners of the machines *)

PlaceOf(i) == IF Migrated(i) THEN "target" ELSE IF source[i] THEN "source" ELSE "down"

Promise == INSTANCE Cutover WITH
    Machine <- Instance,
    place <- [i \in Instance |-> PlaceOf(i)],
    copy <- [i \in Instance |-> disks[i] = "ready"]

\* The system implements Cutover: each of its steps, of whatever task or
\* handler, moves every machine as the promise allows or leaves it alone.
ImplementsCutover == Promise!CutoverSpec

-----------------------------------------------------------------------------
(* Progress *)

\* The daemon's tickers run both tasks again and again, every worker goes on
\* with its command and asks for another, and time passes.
Fairness ==
    /\ WF_vars(ImportTask) /\ WF_vars(FinalTask) /\ WF_vars(Tick)
    /\ \A i \in Instance : WF_vars(WorkerStep(i)) /\ WF_vars(WorkerRequest(i))

FairSpec == Spec /\ Fairness

\* A command fails, a worker dies, or a message is lost on either way.
Failure == \E i \in Instance :
    \/ FailCommand(i) \/ RestartWorker(i) \/ LoseUpdate(i)
    \/ worker[i] = "ask" /\ worker'[i] = "ask" /\ queue'[i] # queue[i]

\* What no task repairs before the window ends: an entry that failed for good,
\* and a command that nobody is at and whose worker never reported to be.
Stuck(i) ==
    \/ Is(i, {"ERROR"})
    \/ /\ Is(i, {"BACKGROUND_IMPORT", "FINAL_IMPORT", "POST_IMPORT"})
       /\ \/ worker[i] = "exited"
          \/ worker[i] = "ask" /\ queue[i].lastWorker # "RUNNING"

\* Every queued instance is migrated in the end, once failures cease and no
\* instance is stuck: though their workers died, or their windows passed
\* unused, no entry waits for another for ever.
EveryInstanceMigrates ==
    <>[][~Failure]_vars /\ <>[](\A j \in Instance : ~Stuck(j)) =>
        \A i \in Instance : []<>(Queued(i) => Is(i, {"FINISHED"}))

EndedWindow(i) == /\ Is(i, {"FINAL_IMPORT", "POST_IMPORT", "WORKER_DONE"})
                  /\ WindowEnded(queue[i])

\* Once the window of an entry in its final steps has ended, the entry is not
\* left with it, whatever the workers do and whatever message is lost: it
\* starts over, goes on in another window, is finished or has failed.
EndedWindowGivenUp == \A i \in Instance :
    []<>~EndedWindow(i)
=============================================================================
