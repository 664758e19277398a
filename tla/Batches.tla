------------------------------- MODULE Batches -------------------------------
(***************************************************************************)
(* The life of batches, their migration windows and their constraints,     *)
(* while users change them and queue entries rely on them: an entry is put *)
(* into a window by GetNextWindow when its final import begins, and keeps  *)
(* it until it has finished, is canceled or starts over.                   *)
(*                                                                         *)
(* Of an entry only the phase is kept that decides whether it is committed *)
(* and whether the constraints count it.                                   *)
(***************************************************************************)
EXTENDS Windows, Sequences, FiniteSets

CONSTANTS
    Batch, Instance,
    WindowName,
    Schedules,       \* the windows a user may give a batch
    ConstraintLists, \* the constraints
    Expressions,     \* the include expressions, as the instances they match
    NoBatch, NoEntry, NoWindow,
    MaxTime          \* bound on the clock

Constraint == [expr : SUBSET Instance, max : Nat, boot : Nat]

Schedule == [WindowName -> WindowConfig \cup {NoWindow}]

BatchStatus == {"DEFINED", "RUNNING", "STOPPED", "FINISHED", "ERROR"}

BatchRecord == [status : BatchStatus, expr : SUBSET Instance, constraints : Seq(Constraint),
                windows : Schedule, assigned : SUBSET Instance]

ASSUME BatchesAssumption ==
    /\ IsFiniteSet(Instance)
    /\ Schedules \subseteq Schedule
    /\ ConstraintLists \subseteq Seq(Constraint)
    /\ Expressions \subseteq SUBSET Instance
    /\ NoBatch \notin BatchRecord
    /\ NoWindow \notin WindowName /\ NoWindow \notin WindowConfig
    /\ MaxTime \in Nat \ {0}

VARIABLES
    now,    \* the time
    batch,  \* the batches, with their windows and assigned instances
    queue   \* the queue entries

vars == <<now, batch, queue>>

\* "queued": before the final import; "final": FINAL_IMPORT; "complete": IDLE or
\* CONFLICT once it is done; "post": POST_IMPORT and WORKER_DONE; "failed": ERROR;
\* "over": FINISHED or CANCELED.
Phase == {"queued", "final", "complete", "post", "failed", "finished", "canceled"}

Entry == [batch : Batch, phase : Phase, window : WindowName \cup {NoWindow}]

TypeOK ==
    /\ now \in 1 .. MaxTime
    /\ batch \in [Batch -> BatchRecord \cup {NoBatch}]
    /\ queue \in [Instance -> Entry \cup {NoEntry}]

Init ==
    /\ now = 1
    /\ batch = [b \in Batch |-> NoBatch]
    /\ queue = [i \in Instance |-> NoEntry]

Exists(b) == batch[b] # NoBatch
Queued(i) == queue[i] # NoEntry
Entries(b) == {i \in Instance : Queued(i) /\ queue[i].batch = b}
InPhase(i, phases) == Queued(i) /\ queue[i].phase \in phases

IsCommitted(i) == InPhase(i, {"final", "complete", "post"})

HasWindow(b, w) == Exists(b) /\ w \in WindowName /\ batch[b].windows[w] # NoWindow
Window(b, w) == batch[b].windows[w]

NamesOf(schedule) == {w \in WindowName : schedule[w] # NoWindow}

Holders(b, w) == {i \in Entries(b) : queue[i].window = w}

-----------------------------------------------------------------------------
(* Windows and constraints: GetNextWindow *)

\* The entries that hold a window of this name, of whichever batch.
WindowsInUse(w) == Cardinality({i \in Instance : Queued(i) /\ queue[i].window = w})

Available(i) ==
    LET b == queue[i].batch
    IN  {w \in NamesOf(batch[b].windows) :
            \/ Window(b, w).capacity = 0
            \/ WindowsInUse(w) < Window(b, w).capacity
            \/ queue[i].window = w}

Matching(constraints, i) == {k \in DOMAIN constraints : i \in constraints[k].expr}

\* The entries a constraint counts: those that wait are not, but the one that asks.
Concurrent(c, i) ==
    {j \in Entries(queue[i].batch) : j \in c.expr /\ (j = i \/ InPhase(j, {"final", "post"}))}

\* Every constraint is satisfied by "no constraint".
Unconstrained == [expr |-> {}, max |-> 0, boot |-> 0]

ConstraintOf(i) ==
    LET constraints == batch[queue[i].batch].constraints
        matching    == Matching(constraints, i)
    IN  IF matching = {} THEN Unconstrained
        ELSE constraints[CHOOSE k \in matching : \A m \in matching : m <= k]

\* The windows i may be given; NoWindow stands for the zero window, which
\* GetEarliest returns if it is asked to choose from no windows at all.
NextWindows(i) ==
    LET b == queue[i].batch
        c == ConstraintOf(i)
        available == Available(i)
        held == {w \in available : queue[i].window = w /\ ~Ended(Window(b, w), now)}
    IN  IF held # {} THEN held
        ELSE IF c.max # 0 /\ Cardinality(Concurrent(c, i)) > c.max THEN {}
        ELSE IF available = {} THEN {NoWindow}
        ELSE Earliest(batch[b].windows, available, c.boot, now)

\* NewWorkerCommandByInstanceUUID: an entry goes on in a window that has begun.
\* One without any times is empty, and is not assigned.
Assigned(i, w) == IF w = NoWindow \/ IsEmpty(Window(queue[i].batch, w)) THEN queue[i].window ELSE w

BegunWindows(i) ==
    {w \in NextWindows(i) : w = NoWindow \/ Begun(Window(queue[i].batch, w), now)}

GoOn(i, from, to) ==
    /\ InPhase(i, {from})
    /\ \E w \in BegunWindows(i) :
        queue' = [queue EXCEPT ![i].phase = to, ![i].window = Assigned(i, w)]
    /\ UNCHANGED <<now, batch>>

BeginFinalImport(i) == GoOn(i, "queued", "final")
BeginPostImport(i) == GoOn(i, "complete", "post")

-----------------------------------------------------------------------------
(* What else becomes of an entry *)

SetPhase(i, phase, window) ==
    /\ queue' = [queue EXCEPT ![i].phase = phase, ![i].window = window]
    /\ UNCHANGED <<now, batch>>

FinalImportDone(i) == InPhase(i, {"final"}) /\ SetPhase(i, "complete", queue[i].window)

\* The window of a committed entry has ended: resetQueueEntry.
ResetEntry(i) ==
    /\ IsCommitted(i)
    /\ LET b == queue[i].batch
       IN  HasWindow(b, queue[i].window) /\ Ended(Window(b, queue[i].window), now)
    /\ SetPhase(i, "queued", NoWindow)

FinishEntry(i) == InPhase(i, {"post"}) /\ SetPhase(i, "finished", NoWindow)

\* An entry in ERROR keeps its window.
FailEntry(i) == IsCommitted(i) /\ SetPhase(i, "failed", queue[i].window)

CancelEntry(i) ==
    /\ Queued(i) /\ ~InPhase(i, {"finished", "canceled"})
    /\ SetPhase(i, "canceled", NoWindow)

RetryEntry(i) == InPhase(i, {"canceled"}) /\ SetPhase(i, "queued", NoWindow)

DeleteEntry(i) ==
    /\ InPhase(i, {"queued", "failed", "finished", "canceled"})
    /\ queue' = [queue EXCEPT ![i] = NoEntry]
    /\ UNCHANGED <<now, batch>>

-----------------------------------------------------------------------------
(* Requests for a batch *)

\* Every window must be valid by now.
ValidSchedule(schedule) == \A w \in NamesOf(schedule) : Valid(schedule[w], now)

\* Create: the instances that match are assigned to the batch.
NewBatch(expr, constraints, schedule) ==
    [status |-> "DEFINED", expr |-> expr, constraints |-> constraints, windows |-> schedule,
     assigned |-> expr]

\* batchesPost: Create, and the windows.
CreateBatch(b, expr, constraints, schedule) ==
    /\ ~Exists(b)
    /\ ValidSchedule(schedule)
    /\ batch' = [batch EXCEPT ![b] = NewBatch(expr, constraints, schedule)]
    /\ UNCHANGED <<now, queue>>

Elements(s) == {s[k] : k \in DOMAIN s}

\* Mutant: the old constraints are looked for among the new ones.
ConstraintsGone(old, new) == Elements(old) \ Elements(new)

\* The constraints of a running batch that are compared with its entries: each
\* old one is found at its own place again, so only the new ones are left.
ConstraintsToCheck(old, new) == Elements(new) \ Elements(old)

CanUpdateRunningBatch(b, expr, constraints) ==
    /\ \A c \in ConstraintsToCheck(batch[b].constraints, constraints) :
        \A i \in c.expr \cap batch[b].assigned \cap Entries(b) : ~IsCommitted(i)
    /\ expr = batch[b].expr

\* The times are compared as durations, where no end is the earliest time there is.
NotNarrowed(old, new) ==
    /\ new.start <= old.start
    /\ new.end = NoTime \/ new.end >= old.end
    /\ new.capacity = 0 \/ (old.capacity # 0 /\ new.capacity >= old.capacity)

\* Mutant: a capacity is compared, although zero means unlimited.
CapacityCompared(b, schedule) ==
    \A w \in WindowName : HasWindow(b, w) /\ Holders(b, w) # {} =>
        /\ schedule[w] # NoWindow
        /\ schedule[w].start <= Window(b, w).start
        /\ schedule[w].end = NoTime \/ schedule[w].end >= Window(b, w).end
        /\ schedule[w].capacity = 0 \/ schedule[w].capacity >= Window(b, w).capacity

\* Mutant: only the windows of committed entries are looked at.
CommittedMayStay(b, schedule) ==
    \A w \in WindowName :
        HasWindow(b, w) /\ (\E i \in Holders(b, w) : IsCommitted(i)) =>
            schedule[w] # NoWindow /\ NotNarrowed(Window(b, w), schedule[w])

\* ReplaceByBatch: what becomes of the windows that entries hold.
MayReplace(b, schedule) ==
    \A w \in WindowName : HasWindow(b, w) /\ Holders(b, w) # {} =>
        schedule[w] # NoWindow /\ NotNarrowed(Window(b, w), schedule[w])

\* Update, and the windows: instances are assigned anew to a batch that is defined.
UpdatedBatch(b, expr, constraints, schedule) ==
    [batch EXCEPT ![b].expr = expr, ![b].constraints = constraints, ![b].windows = schedule,
                  ![b].assigned = IF batch[b].status = "DEFINED" THEN expr ELSE @]

\* batchPut: Update and ReplaceByBatch in a transaction.
UpdateBatch(b, expr, constraints, schedule) ==
    /\ Exists(b)
    /\ batch[b].status # "DEFINED" => CanUpdateRunningBatch(b, expr, constraints)
    /\ ValidSchedule(schedule)
    /\ MayReplace(b, schedule)
    /\ batch' = UpdatedBatch(b, expr, constraints, schedule)
    /\ UNCHANGED <<now, queue>>

\* Mutant: the entries of committed instances are kept.
UncommittedRemoved(b) ==
    [i \in Instance |-> IF i \in Entries(b) /\ ~IsCommitted(i) THEN NoEntry ELSE queue[i]]

EntriesRemoved(b) == [i \in Instance |-> IF i \in Entries(b) THEN NoEntry ELSE queue[i]]

\* The windows, the assignments and the entries go with the batch.
DeleteBatch(b) ==
    /\ Exists(b) /\ batch[b].status # "RUNNING"
    /\ batch' = [batch EXCEPT ![b] = NoBatch]
    /\ queue' = EntriesRemoved(b)
    /\ UNCHANGED now

\* Mutant: the entries of other batches are not looked at.
UnqueuedByBatch(b) == batch[b].assigned \ Entries(b)

\* An instance that another batch has queued stays with that one.
Unqueued(b) == {i \in batch[b].assigned : ~Queued(i)}

Windows(b) == [w \in NamesOf(batch[b].windows) |-> Window(b, w)]

StartBatch(b) ==
    /\ Exists(b) /\ batch[b].status \in {"DEFINED", "ERROR", "STOPPED"}
    /\ HasValidWindow(Windows(b), now)
    /\ Unqueued(b) # {}
    /\ queue' = [i \in Instance |->
                    IF i \in Unqueued(b)
                    THEN [batch |-> b, phase |-> "queued", window |-> NoWindow]
                    ELSE queue[i]]
    /\ batch' = [batch EXCEPT ![b].status = "RUNNING"]
    /\ UNCHANGED now

BatchBecomes(b, from, to) ==
    /\ Exists(b) /\ batch[b].status = from
    /\ batch' = [batch EXCEPT ![b].status = to]
    /\ UNCHANGED <<now, queue>>

StopBatch(b) == BatchBecomes(b, "RUNNING", "STOPPED")

\* beginImports fails to upload the worker image; finalizeCompleteInstances.
BatchFails(b) == BatchBecomes(b, "RUNNING", "ERROR")
FinishBatch(b) ==
    /\ \A i \in Entries(b) : InPhase(i, {"finished"})
    /\ BatchBecomes(b, "RUNNING", "FINISHED")

ResetBatch(b, force) ==
    /\ Exists(b) /\ batch[b].status # "DEFINED"
    /\ force \/ \A i \in Entries(b) : ~IsCommitted(i)
    /\ queue' = EntriesRemoved(b)
    /\ batch' = [batch EXCEPT ![b].status = "DEFINED"]
    /\ UNCHANGED now

Tick ==
    /\ now < MaxTime
    /\ now' = now + 1
    /\ UNCHANGED <<batch, queue>>

-----------------------------------------------------------------------------

EntryStep(i) ==
    \/ BeginFinalImport(i) \/ FinalImportDone(i) \/ BeginPostImport(i)
    \/ ResetEntry(i) \/ FinishEntry(i) \/ FailEntry(i)
    \/ CancelEntry(i) \/ RetryEntry(i) \/ DeleteEntry(i)

BatchStep(b) ==
    \/ DeleteBatch(b) \/ StartBatch(b) \/ StopBatch(b)
    \/ BatchFails(b) \/ FinishBatch(b)
    \/ \E force \in BOOLEAN : ResetBatch(b, force)
    \/ \E expr \in Expressions, constraints \in ConstraintLists, schedule \in Schedules :
        CreateBatch(b, expr, constraints, schedule) \/ UpdateBatch(b, expr, constraints, schedule)

Next ==
    \/ Tick
    \/ \E i \in Instance : EntryStep(i)
    \/ \E b \in Batch : BatchStep(b)

Spec == Init /\ [][Next]_vars

-----------------------------------------------------------------------------
(* Properties *)

\* The window an entry holds is there for as long as the entry holds it, through
\* all updates, resets and deletions of batches (ReplaceByBatch).
HeldWindowExists ==
    \A i \in Instance : Queued(i) /\ queue[i].window # NoWindow =>
        HasWindow(queue[i].batch, queue[i].window)

\* No window is held by more entries than its capacity, not even one that was
\* unlimited when they were assigned to it (GetNextWindow, ReplaceByBatch).
CapacityKept ==
    \A b \in Batch : \A w \in WindowName :
        HasWindow(b, w) /\ Window(b, w).capacity # 0 =>
            Cardinality(Holders(b, w)) <= Window(b, w).capacity

\* An entry belongs to a batch that has been started and that its instance is
\* assigned to, although the assignments of a batch follow its expression.
EntryOfStartedBatch ==
    \A i \in Instance : Queued(i) =>
        /\ Exists(queue[i].batch)
        /\ batch[queue[i].batch].status # "DEFINED"
        /\ i \in batch[queue[i].batch].assigned

\* doc/reference/batches.md: "the first batch that starts will have exclusive
\* control of that instance", until its entry is deleted.
ExclusiveControl ==
    [][\A i \in Instance : Queued(i) /\ queue'[i] # NoEntry =>
            queue'[i].batch = queue[i].batch]_vars

\* While the final import of an instance is under way or done, no constraint
\* that it did not have before comes to match it (canUpdateRunningBatch).
ConstraintsNotAdded ==
    [][\A i \in Instance :
        IsCommitted(i) /\ IsCommitted(i)' /\ queue'[i].batch = queue[i].batch =>
            LET b == queue[i].batch
            IN  \A c \in Elements(batch'[b].constraints) :
                    i \in c.expr => c \in Elements(batch[b].constraints)]_vars
=============================================================================
