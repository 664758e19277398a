----------------------------- MODULE QueueEntry -----------------------------
(***************************************************************************)
(* The queue entry of an instance, the record that says how far its        *)
(* migration is, and the updates the queue service makes to it.            *)
(***************************************************************************)
EXTENDS Naturals, FiniteSets

CONSTANTS
    Batch,     \* the batches
    Window,    \* the names of the migration windows
    NoWindow,  \* a window name that is not set
    NoEntry    \* an instance that is not queued

Status ==
    {"BLOCKED", "WAITING", "CREATING", "BACKGROUND_IMPORT", "IDLE",
     "FINAL_IMPORT", "POST_IMPORT", "WORKER_DONE", "FINISHED", "ERROR",
     "CANCELED", "CONFLICT"}

ImportStage == {"background", "final", "complete"}

\* The worker's responses; "none" is a response not given yet.
Response == {"none", "RUNNING", "SUCCESS", "FAILED"}

\* Secret tokens: of a worker's request only whether its token is that of the
\* entry matters, so three are enough for a new one to differ from any that
\* a worker or the daemon still holds.
Secret == 0 .. 2

Entry ==
    [batch      : Batch,
     secret     : Secret,
     status     : Status,
     stage      : ImportStage,
     lastWorker : Response,
     synced     : BOOLEAN,     \* LastBackgroundSync is set
     window     : Window \cup {NoWindow},
     running    : BOOLEAN]     \* Placement.Running

ASSUME EntryAssumption == NoEntry \notin Entry /\ NoWindow \notin Window

Migrating ==
    {"CREATING", "BACKGROUND_IMPORT", "IDLE", "FINAL_IMPORT", "POST_IMPORT",
     "WORKER_DONE"}

IsMigrating(e) == e.status \in Migrating

\* Past the point of no return: the source VM is off, or about to be.
IsCommitted(e) ==
    \/ e.status \in {"FINAL_IMPORT", "POST_IMPORT", "WORKER_DONE"}
    \/ e.status \in {"IDLE", "CONFLICT"} /\ e.stage = "complete"

-----------------------------------------------------------------------------

\* A queue entry made when batch b starts, with secret s; r is the power state
\* to restore.
NewEntry(b, s, status, r) ==
    [batch |-> b, secret |-> s, status |-> status, stage |-> "background",
     lastWorker |-> "none", synced |-> FALSE, window |-> NoWindow,
     running |-> r]

UpdateStatus(e, status, stage, window) ==
    [e EXCEPT !.status = status, !.stage = stage, !.window = window]

\* What a worker's SUCCESS makes of an entry: only the three import statuses
\* move on.
Succeeded(e) ==
    CASE e.status = "BACKGROUND_IMPORT" ->
            [e EXCEPT !.status = "IDLE", !.stage = "final", !.synced = TRUE]
      [] e.status = "FINAL_IMPORT" ->
            [e EXCEPT !.status = "IDLE", !.stage = "complete"]
      [] e.status = "POST_IMPORT" ->
            [e EXCEPT !.status = "WORKER_DONE"]
      [] OTHER -> e

\* The entry after a response of the worker, in any status that is migrating.
ProcessWorkerUpdate(e, response) ==
    LET moved == CASE response = "SUCCESS" -> Succeeded(e)
                   [] response = "FAILED"  -> [e EXCEPT !.status = "ERROR"]
                   [] OTHER -> e
    IN  [moved EXCEPT !.lastWorker = response]

Cancel(e) == UpdateStatus(e, "CANCELED", "background", NoWindow)

\* Retrying recomputes the placement and keeps what the worker last reported.
Retry(e, status, r) ==
    [UpdateStatus(e, status, "background", NoWindow) EXCEPT !.running = r]

\* Mutant: an entry that had not reached its worker goes to it all the same.
ResolveToIdle(e) ==
    [e EXCEPT !.status = IF e.stage = "complete" THEN "WORKER_DONE" ELSE "IDLE"]

Resolve(e) ==
    [e EXCEPT !.status = IF e.stage = "complete" THEN "WORKER_DONE" ELSE "WAITING"]

\* The command a worker that last reported RUNNING gets again.
ReissuedCommand(e) ==
    CASE e.status = "BACKGROUND_IMPORT" -> "IMPORT_DISKS"
      [] e.status = "FINAL_IMPORT"      -> "FINALIZE_IMPORT"
      [] e.status = "POST_IMPORT"       -> "POST_IMPORT"
      [] OTHER -> "none"
=============================================================================
