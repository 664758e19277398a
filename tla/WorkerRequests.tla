--------------------------- MODULE WorkerRequests ---------------------------
(***************************************************************************)
(* The worker inside a target VM and the daemon's side of its requests:    *)
(* POST :command (workerCommandPost, NewWorkerCommandByInstanceUUID) and   *)
(* POST :update (workerUpdatePost, ProcessWorkerUpdate).                   *)
(***************************************************************************)
EXTENDS MigrationState

(* The migration window of an entry: GetNextWindow *)

InUse(w) == Cardinality({i \in Instance : Queued(i) /\ queue[i].window = w})

\* Mutant: off by one at the capacity.
WindowsWithRoomForOneMore(e) ==
    {w \in DOMAIN Schedule[e.batch] :
        LET capacity == Schedule[e.batch][w].capacity
        IN  capacity = 0 \/ InUse(w) <= capacity \/ e.window = w}

\* The windows of an entry's batch that are not at capacity, and its own.
WindowsWithRoom(e) ==
    {w \in DOMAIN Schedule[e.batch] :
        LET capacity == Schedule[e.batch][w].capacity
        IN  capacity = 0 \/ InUse(w) < capacity \/ e.window = w}

KeepsWindow(e) ==
    /\ e.window \in WindowsWithRoom(e)
    /\ ~Ended(Schedule[e.batch][e.window], now)

\* Mutant: idle instances count.
ConcurrentOrIdle(i) == Entries(queue[i].batch)

\* The instances of i's batch the constraint counts: idle ones other than i
\* are skipped, whatever their import stage.
Concurrent(i) ==
    {j \in Entries(queue[i].batch) :
        \/ j = i
        \/ queue[j].status \in {"FINAL_IMPORT", "POST_IMPORT", "WORKER_DONE"}}

WithinConstraint(i) ==
    LET limit == MaxConcurrent[queue[i].batch]
    IN  limit = 0 \/ Cardinality(Concurrent(i)) <= limit

\* The windows GetNextWindow may return for an idle entry.  NoWindow is the
\* zero window it returns when no window is left, which has always begun.
NextWindows(i) ==
    LET e == queue[i]
    IN  IF KeepsWindow(e) THEN {e.window}
        ELSE IF ~WithinConstraint(i) THEN {}
        ELSE IF WindowsWithRoom(e) = {} THEN {NoWindow}
        ELSE Earliest(Schedule[e.batch], WindowsWithRoom(e), MinBootTime[e.batch], now)

\* Mutant: a window is used as soon as it is found.
HasBeenFound(i, w) == TRUE

HasBegun(i, w) == w # NoWindow => Begun(Schedule[queue[i].batch][w], now)

\* The window recorded with an entry: the empty window is not.
Recorded(i, w) ==
    IF w = NoWindow \/ IsEmpty(Schedule[queue[i].batch][w]) THEN queue[i].window ELSE w

-----------------------------------------------------------------------------
(* POST :command *)

\* The worker of a queued instance asks, and no user request is served.
Asks(i) == worker[i] = "ask" /\ Known(i) /\ ~WriteLocked

Copies(i) == i \in BackgroundImport

\* The worker gets the command, or the reply is lost and it will ask again.
Reply(i, pc) ==
    /\ \/ worker' = [worker EXCEPT ![i] = pc]
       \/ "reply" \in Faults /\ UNCHANGED worker
    /\ disks' = IF worker'[i] = "sync" THEN [disks EXCEPT ![i] = "behind"] ELSE disks
    /\ UNCHANGED <<now, batch, source, vm, token, daemon>>

\* The reply carries an error instead of the command already recorded.
ErrorReply == UNCHANGED <<now, batch, machines, daemon>>

BeginBackgroundImport(i) ==
    /\ Asks(i)
    /\ queue[i].status = "IDLE" /\ queue[i].stage = "background" /\ Copies(i)
    /\ SetStatus(i, "BACKGROUND_IMPORT", "background", queue[i].window)
    /\ Reply(i, "sync")

\* A top-up of a finished background import while no window has begun.
RepeatBackgroundImport(i) ==
    /\ Asks(i)
    /\ queue[i].status = "IDLE" /\ queue[i].stage = "final" /\ Copies(i)
    /\ queue[i].synced
    /\ \A w \in NextWindows(i) : ~HasBegun(i, w)
    /\ SetStatus(i, "BACKGROUND_IMPORT", "background", queue[i].window)
    /\ Reply(i, "sync")

\* Before a final import the daemon asks the source for the power state one
\* last time, unless the state after migration is overridden.
CheckedEntry(i, e) ==
    IF PowerOverride[i] = "none" THEN [e EXCEPT !.running = @ \/ source[i]] ELSE e

FinalImportEntry(i, w) == UpdateStatus(queue[i], "FINAL_IMPORT", queue[i].stage, Recorded(i, w))

MayBeginFinalImport(i) ==
    /\ Asks(i)
    /\ queue[i].status = "IDLE"
    /\ queue[i].stage = "final" \/ (queue[i].stage = "background" /\ ~Copies(i))

BeginFinalImport(i) ==
    /\ MayBeginFinalImport(i)
    /\ \E w \in NextWindows(i) :
        /\ HasBegun(i, w)
        /\ queue' = [queue EXCEPT ![i] = CheckedEntry(i, FinalImportEntry(i, w))]
    /\ Reply(i, "shutdown")

\* The source does not answer the power check: the status is already stored.
BeginFinalImportUnchecked(i) ==
    /\ "source" \in Faults /\ PowerOverride[i] = "none"
    /\ MayBeginFinalImport(i)
    /\ \E w \in NextWindows(i) :
        /\ HasBegun(i, w)
        /\ queue' = [queue EXCEPT ![i] = FinalImportEntry(i, w)]
    /\ ErrorReply

BeginPostImport(i) ==
    /\ Asks(i)
    /\ queue[i].status = "IDLE" /\ queue[i].stage = "complete"
    /\ \E w \in NextWindows(i) :
        /\ HasBegun(i, w)
        /\ SetStatus(i, "POST_IMPORT", "complete", Recorded(i, w))
    /\ Reply(i, "tasks")

\* A worker that last reported RUNNING and asks again, having restarted.
ReissueCommand(i) ==
    /\ Asks(i)
    /\ queue[i].status # "IDLE" /\ queue[i].lastWorker = "RUNNING"
    /\ CASE ReissuedCommand(queue[i]) = "IMPORT_DISKS" ->
              /\ UNCHANGED queue
              /\ Reply(i, "sync")
         [] ReissuedCommand(queue[i]) = "FINALIZE_IMPORT" ->
              /\ queue' = [queue EXCEPT ![i] = CheckedEntry(i, @)]
              /\ Reply(i, "shutdown")
         [] ReissuedCommand(queue[i]) = "POST_IMPORT" ->
              /\ UNCHANGED queue
              /\ Reply(i, "tasks")
         [] OTHER -> FALSE

-----------------------------------------------------------------------------
(* The worker: importDisks, doPostImportTasks *)

\* The worker posts a response and waits for the reply; at most one response
\* of an instance is on its way (a bound of the model).
Post(i, response, pc) ==
    /\ mail[i] = "none"
    /\ mail' = [mail EXCEPT ![i] = response]
    /\ worker' = [worker EXCEPT ![i] = pc]

DuringPost == <<now, database, vm, token, handler, cancel, imp, fin, retries>>

FinishBackgroundImport(i) ==
    /\ worker[i] = "sync"
    /\ Post(i, "SUCCESS", "sent")
    /\ UNCHANGED <<DuringPost, source, disks>>

ShutDownSource(i) ==
    /\ worker[i] = "shutdown"
    /\ source' = [source EXCEPT ![i] = FALSE]
    /\ worker' = [worker EXCEPT ![i] = "copy"]
    /\ disks' = [disks EXCEPT ![i] = "behind"]
    /\ UNCHANGED <<now, database, vm, token, daemon>>

FinishFinalImport(i) ==
    /\ worker[i] \in {"copy", "dirty"}
    /\ disks' = [disks EXCEPT ![i] = IF worker[i] = "copy" THEN "current" ELSE "behind"]
    /\ Post(i, "SUCCESS", "sent")
    /\ UNCHANGED <<DuringPost, source>>

\* Its last response sent, the worker exits whether or not it arrives.
FinishPostImport(i) ==
    /\ worker[i] = "tasks"
    /\ disks' = [disks EXCEPT ![i] = IF @ = "current" THEN "ready" ELSE @]
    /\ Post(i, "SUCCESS", "exiting")
    /\ UNCHANGED <<DuringPost, source>>

\* A command fails; a source VM that is to shut down may do so even then.
FailCommand(i) ==
    /\ "worker" \in Faults
    /\ worker[i] \in {"sync", "shutdown", "copy", "dirty", "tasks"}
    /\ \/ UNCHANGED source
       \/ worker[i] = "shutdown" /\ source' = [source EXCEPT ![i] = FALSE]
    /\ Post(i, "FAILED", "sent")
    /\ UNCHANGED <<DuringPost, disks>>

\* The worker dies, and with it the request it waits for; the init system of
\* its VM starts it again.
RestartWorker(i) ==
    /\ "worker" \in Faults
    /\ worker[i] \in Worker \ {"none", "ask", "exited"}
    /\ worker' = [worker EXCEPT ![i] = "ask"]
    /\ mail' = [mail EXCEPT ![i] = "none"]
    /\ handler' = [handler EXCEPT ![i] = FALSE]
    /\ UNCHANGED <<now, database, source, vm, disks, token, cancel, imp, fin, retries>>

-----------------------------------------------------------------------------
(* POST :update *)

Answered(i) == CASE worker[i] = "sent" -> "ask"
                 [] worker[i] = "exiting" -> "exited"
                 [] OTHER -> worker[i]

Accepts(i) == Known(i) /\ IsMigrating(queue[i])

\* A progress report: handled at once, it only records that a worker runs.
ReportProgress(i) ==
    /\ worker[i] \in {"sync", "copy", "dirty", "tasks"}
    /\ ~WriteLocked
    /\ Accepts(i) /\ queue[i].lastWorker # "RUNNING"
    /\ queue' = [queue EXCEPT ![i] = ProcessWorkerUpdate(@, "RUNNING")]
    /\ UNCHANGED <<now, batch, machines, daemon>>

\* The daemon handles a response.  One for an entry that is not migrating is
\* rejected; after an error the source VM is to be powered on again.
HandleUpdate(i) ==
    /\ mail[i] # "none" /\ ~handler[i] /\ ~WriteLocked
    /\ IF Accepts(i)
         THEN /\ queue' = [queue EXCEPT ![i] = ProcessWorkerUpdate(@, mail[i])]
              /\ handler' = [handler EXCEPT ![i] = queue'[i].status = "ERROR" /\ queue[i].running]
         ELSE UNCHANGED <<queue, handler>>
    /\ mail' = [mail EXCEPT ![i] = "none"]
    /\ worker' = [worker EXCEPT ![i] = Answered(i)]
    /\ UNCHANGED <<now, batch, source, vm, disks, token, cancel, imp, fin, retries>>

\* The rest of the handler of an update that put the entry into ERROR.
RestorePower(i) ==
    /\ handler[i]
    /\ handler' = [handler EXCEPT ![i] = FALSE]
    /\ \/ PowerOnVM(i)
       \/ "source" \in Faults /\ UNCHANGED machines
    /\ UNCHANGED <<now, database, mail, cancel, imp, fin, retries>>

\* A response never reaches the daemon; the worker does not send it again.
LoseUpdate(i) ==
    /\ "update" \in Faults
    /\ mail[i] # "none"
    /\ mail' = [mail EXCEPT ![i] = "none"]
    /\ worker' = [worker EXCEPT ![i] = Answered(i)]
    /\ UNCHANGED <<DuringPost, source, disks>>

WorkerStep(i) ==
    \/ FinishBackgroundImport(i) \/ ShutDownSource(i) \/ FinishFinalImport(i)
    \/ FinishPostImport(i) \/ FailCommand(i) \/ RestartWorker(i)

WorkerRequest(i) ==
    \/ BeginBackgroundImport(i) \/ RepeatBackgroundImport(i)
    \/ BeginFinalImport(i) \/ BeginFinalImportUnchecked(i)
    \/ BeginPostImport(i) \/ ReissueCommand(i)
    \/ ReportProgress(i) \/ HandleUpdate(i) \/ RestorePower(i) \/ LoseUpdate(i)
=============================================================================
