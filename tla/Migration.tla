----------------------------- MODULE Migration -----------------------------
(***************************************************************************)
(* The whole system: the two periodic tasks of the daemon, the requests of *)
(* users and workers, the workers, the owners of the source VMs, the clock *)
(* and the restart of the daemon, interleaved.                             *)
(***************************************************************************)
EXTENDS BeginImports, FinalizeInstances, WorkerRequests, UserRequests

Init ==
    /\ now = 1
    /\ queue = [i \in Instance |-> NoEntry]
    /\ batch = [b \in Batch |-> "DEFINED"]
    /\ source \in [Instance -> IF "owner" \in Faults THEN BOOLEAN ELSE {TRUE}]
    /\ vm = [i \in Instance |-> "none"]
    /\ disks = [i \in Instance |-> "empty"]
    /\ worker = [i \in Instance |-> "none"]
    /\ token = [i \in Instance |-> 0]
    /\ mail = [i \in Instance |-> "none"]
    /\ handler = [i \in Instance |-> FALSE]
    /\ cancel = [i \in Instance |-> "idle"]
    /\ imp = IdleImport
    /\ fin = IdleFinal
    /\ retries = [i \in Instance |-> 0]

Tick ==
    /\ now < MaxTime
    /\ now' = now + 1
    /\ UNCHANGED <<database, machines, daemon>>

\* The owner of a source VM starts or stops it before its final import.
SwitchSource(i) ==
    /\ "owner" \in Faults
    /\ Queued(i) /\ ~IsCommitted(queue[i])
    /\ queue[i].status \notin {"FINISHED", "ERROR", "CANCELED"}
    /\ \/ ~source[i] /\ PowerOnVM(i)
       \/ source[i] /\ source' = [source EXCEPT ![i] = FALSE] /\ UNCHANGED <<vm, disks, worker, token>>
    /\ UNCHANGED <<now, database, daemon>>

\* The daemon stops and starts again: its tasks, the requests it was serving
\* and its caches are gone, and a worker's request fails.
RestartDaemon ==
    /\ "restart" \in Faults
    /\ imp' = IdleImport /\ fin' = IdleFinal
    /\ cancel' = [i \in Instance |-> "idle"]
    /\ handler' = [i \in Instance |-> FALSE]
    /\ mail' = [i \in Instance |-> "none"]
    /\ retries' = [i \in Instance |-> 0]
    /\ worker' = [i \in Instance |-> Answered(i)]
    /\ UNCHANGED <<now, database, source, vm, disks, token>>

Next ==
    \/ Tick \/ RestartDaemon
    \/ ImportTask \/ FinalTask
    \/ \E i \in Instance : WorkerStep(i) \/ WorkerRequest(i) \/ EntryRequest(i) \/ SwitchSource(i)
    \/ \E b \in Batch : BatchRequest(b)

Spec == Init /\ [][Next]_vars
=============================================================================
