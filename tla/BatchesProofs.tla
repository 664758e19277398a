--------------------------- MODULE BatchesProofs ---------------------------
(***************************************************************************)
(* Proofs about Batches, for any batches, instances, windows, constraints  *)
(* and expressions: what an entry holds and belongs to outlives every      *)
(* update, reset and deletion of a batch.                                  *)
(***************************************************************************)
EXTENDS Batches, FiniteSetTheorems, TLAPS

\* The windows an entry goes on in are windows of its batch with a place left.
MayHold(i, w) == w = NoWindow \/ w = queue[i].window \/ w \in Available(i)

\* What a step of an entry does to it: it goes, or changes phase and window.
EntryChanges(i) ==
    /\ UNCHANGED <<now, batch>>
    /\ Queued(i)
    /\ queue' \in [Instance -> Entry \cup {NoEntry}]
    /\ \A j \in Instance \ {i} : queue'[j] = queue[j]
    /\ queue'[i] # NoEntry =>
            /\ queue'[i].batch = queue[i].batch
            /\ MayHold(i, queue'[i].window)

BatchesInv == TypeOK /\ EntryOfStartedBatch /\ HeldWindowExists /\ CapacityKept

LEMMA SetPhaseChanges ==
    ASSUME TypeOK, NEW i \in Instance, Queued(i),
           NEW p \in Phase, NEW w \in WindowName \cup {NoWindow},
           SetPhase(i, p, w), MayHold(i, w)
    PROVE  EntryChanges(i)
<1>1. queue[i] \in Entry
    BY DEF TypeOK, Queued
<1> DEFINE e == [queue[i] EXCEPT !.phase = p, !.window = w]
<1>2. e \in Entry /\ e.batch = queue[i].batch /\ e.window = w
    BY <1>1 DEF Entry
<1>3. queue' = [queue EXCEPT ![i] = e]
    BY DEF SetPhase, TypeOK
<1> QED
    BY <1>2, <1>3 DEF SetPhase, EntryChanges, TypeOK

LEMMA GoOnChanges ==
    ASSUME TypeOK, NEW i \in Instance, NEW from, NEW to \in Phase, GoOn(i, from, to)
    PROVE  EntryChanges(i)
<1>1. Queued(i) /\ queue[i] \in Entry
    BY DEF TypeOK, GoOn, InPhase, Queued
<1>2. PICK w \in BegunWindows(i) :
        queue' = [queue EXCEPT ![i].phase = to, ![i].window = Assigned(i, w)]
    BY DEF GoOn
<1>3. w \in NextWindows(i)
    BY <1>2 DEF BegunWindows
<1>4. w = NoWindow \/ w \in Available(i)
    BY <1>3 DEF NextWindows, Earliest
<1>5. Available(i) \subseteq WindowName
    BY DEF Available, NamesOf
<1>6. MayHold(i, Assigned(i, w)) /\ Assigned(i, w) \in WindowName \cup {NoWindow}
    BY <1>1, <1>4, <1>5 DEF MayHold, Assigned, Entry
<1>7. SetPhase(i, to, Assigned(i, w))
    BY <1>2 DEF SetPhase, GoOn
<1> QED
    BY <1>1, <1>6, <1>7, SetPhaseChanges

LEMMA EntryStepChanges ==
    ASSUME TypeOK, NEW i \in Instance, EntryStep(i)
    PROVE  EntryChanges(i)
<1>1. CASE BeginFinalImport(i) \/ BeginPostImport(i)
    BY <1>1, GoOnChanges DEF BeginFinalImport, BeginPostImport, Phase
<1>2. CASE \E p \in Phase, w \in {NoWindow, queue[i].window} : Queued(i) /\ SetPhase(i, p, w)
  <2>1. PICK p \in Phase, w \in {NoWindow, queue[i].window} : Queued(i) /\ SetPhase(i, p, w)
    BY <1>2
  <2>2. w \in WindowName \cup {NoWindow}
    BY <2>1 DEF TypeOK, Queued, Entry
  <2> QED
    BY <2>1, <2>2, SetPhaseChanges DEF MayHold
<1>3. CASE FinalImportDone(i)
    BY <1>2, <1>3 DEF FinalImportDone, InPhase, Phase
<1>4. CASE ResetEntry(i)
    BY <1>2, <1>4 DEF ResetEntry, IsCommitted, InPhase, Phase
<1>5. CASE FinishEntry(i)
    BY <1>2, <1>5 DEF FinishEntry, InPhase, Phase
<1>6. CASE FailEntry(i)
    BY <1>2, <1>6 DEF FailEntry, IsCommitted, InPhase, Phase
<1>7. CASE CancelEntry(i)
    BY <1>2, <1>7 DEF CancelEntry, Phase
<1>8. CASE RetryEntry(i)
    BY <1>2, <1>8 DEF RetryEntry, InPhase, Phase
<1>9. CASE DeleteEntry(i)
    BY <1>9 DEF DeleteEntry, InPhase, EntryChanges, TypeOK
<1> QED
    BY <1>1, <1>3, <1>4, <1>5, <1>6, <1>7, <1>8, <1>9 DEF EntryStep

-----------------------------------------------------------------------------
(* Types *)

LEMMA EntryTypes ==
    ASSUME TypeOK, NEW i \in Instance, EntryChanges(i)
    PROVE  TypeOK'
BY DEF TypeOK, EntryChanges

LEMMA RemovedTypes ==
    ASSUME TypeOK, NEW b \in Batch
    PROVE  EntriesRemoved(b) \in [Instance -> Entry \cup {NoEntry}]
BY DEF TypeOK, EntriesRemoved

\* Only the status of a batch changes.
StatusChanges(b, st) ==
    /\ batch' \in [Batch -> BatchRecord \cup {NoBatch}]
    /\ \A c \in Batch \ {b} : batch'[c] = batch[c]
    /\ batch'[b] \in BatchRecord
    /\ batch'[b].status = st
    /\ batch'[b].windows = batch[b].windows
    /\ batch'[b].constraints = batch[b].constraints
    /\ batch'[b].assigned = batch[b].assigned

LEMMA StatusStep ==
    ASSUME TypeOK, NEW b \in Batch, Exists(b), NEW st \in BatchStatus,
           batch' = [batch EXCEPT ![b].status = st]
    PROVE  StatusChanges(b, st)
<1> DEFINE new == [batch[b] EXCEPT !.status = st]
<1>1. batch[b] \in BatchRecord
    BY DEF TypeOK, Exists
<1>2. /\ new \in BatchRecord
      /\ new.status = st
      /\ new.windows = batch[b].windows
      /\ new.constraints = batch[b].constraints
      /\ new.assigned = batch[b].assigned
    BY <1>1 DEF BatchRecord
<1>3. batch' = [batch EXCEPT ![b] = new]
    BY DEF TypeOK
<1> QED
    BY <1>2, <1>3 DEF TypeOK, StatusChanges

LEMMA UpdateTypes ==
    ASSUME TypeOK, NEW b \in Batch, NEW expr \in Expressions, NEW constraints \in ConstraintLists,
           NEW schedule \in Schedules, UpdateBatch(b, expr, constraints, schedule)
    PROVE  /\ batch'[b] \in BatchRecord
           /\ batch' \in [Batch -> BatchRecord \cup {NoBatch}]
           /\ \A c \in Batch \ {b} : batch'[c] = batch[c]
           /\ batch'[b].status = batch[b].status
           /\ batch'[b].constraints = constraints
           /\ batch'[b].windows = schedule
           /\ batch'[b].assigned = IF batch[b].status = "DEFINED" THEN expr ELSE batch[b].assigned
<1> DEFINE new == [batch[b] EXCEPT !.expr = expr, !.constraints = constraints, !.windows = schedule,
                      !.assigned = IF batch[b].status = "DEFINED" THEN expr ELSE @]
<1>1. batch[b] \in BatchRecord
    BY DEF TypeOK, Exists, UpdateBatch, UpdatedBatch
<1>2. schedule \in Schedule /\ constraints \in Seq(Constraint) /\ expr \in SUBSET Instance
    BY BatchesAssumption
<1>3. /\ new \in BatchRecord
      /\ new.status = batch[b].status
      /\ new.constraints = constraints
      /\ new.windows = schedule
      /\ new.assigned = IF batch[b].status = "DEFINED" THEN expr ELSE batch[b].assigned
    BY <1>1, <1>2 DEF BatchRecord
<1>4. batch' = [batch EXCEPT ![b] = new]
    BY DEF UpdateBatch, UpdatedBatch, TypeOK
<1> QED
    BY <1>3, <1>4 DEF TypeOK

\* The steps of a batch that change no more than its status.
StatusSteps(b) == StopBatch(b) \/ BatchFails(b) \/ FinishBatch(b)

LEMMA StatusStepsChange ==
    ASSUME TypeOK, NEW b \in Batch, StatusSteps(b)
    PROVE  /\ Exists(b) /\ UNCHANGED <<now, queue>>
           /\ batch[b].status = "RUNNING"
           /\ \E st \in BatchStatus \ {"DEFINED"} : StatusChanges(b, st)
<1>1. PICK st \in {"STOPPED", "ERROR", "FINISHED"} : BatchBecomes(b, "RUNNING", st)
    BY DEF StatusSteps, StopBatch, BatchFails, FinishBatch
<1> QED
    BY <1>1, StatusStep DEF BatchBecomes, BatchStatus

LEMMA StartBatchChanges ==
    ASSUME TypeOK, NEW b \in Batch, StartBatch(b)
    PROVE  /\ Exists(b) /\ UNCHANGED now
           /\ StatusChanges(b, "RUNNING")
           /\ queue' \in [Instance -> Entry \cup {NoEntry}]
           /\ \A i \in Instance \ Unqueued(b) : queue'[i] = queue[i]
           /\ \A i \in Unqueued(b) : queue'[i].batch = b /\ queue'[i].window = NoWindow
           /\ Unqueued(b) \subseteq batch[b].assigned
<1>1. StatusChanges(b, "RUNNING")
    BY StatusStep DEF StartBatch, BatchStatus
<1>2. \A i \in Unqueued(b) : i \in batch[b].assigned
    BY DEF Unqueued
<1>3. [batch |-> b, phase |-> "queued", window |-> NoWindow] \in Entry
    BY DEF Entry, Phase
<1>4. batch[b].assigned \subseteq Instance
    BY DEF StartBatch, Exists, TypeOK, BatchRecord
<1> QED
    BY <1>1, <1>2, <1>3, <1>4 DEF StartBatch, TypeOK

LEMMA ResetBatchChanges ==
    ASSUME TypeOK, NEW b \in Batch, NEW force, ResetBatch(b, force)
    PROVE  /\ Exists(b) /\ UNCHANGED now
           /\ StatusChanges(b, "DEFINED") /\ queue' = EntriesRemoved(b)
BY StatusStep DEF ResetBatch, BatchStatus

LEMMA CreateBatchChanges ==
    ASSUME TypeOK, NEW b \in Batch, NEW expr \in Expressions, NEW constraints \in ConstraintLists,
           NEW schedule \in Schedules, CreateBatch(b, expr, constraints, schedule)
    PROVE  /\ ~Exists(b) /\ UNCHANGED <<now, queue>>
           /\ batch' \in [Batch -> BatchRecord \cup {NoBatch}]
           /\ \A c \in Batch \ {b} : batch'[c] = batch[c]
<1>1. schedule \in Schedule /\ constraints \in Seq(Constraint) /\ expr \in SUBSET Instance
    BY BatchesAssumption
<1>2. [status |-> "DEFINED", expr |-> expr, constraints |-> constraints,
       windows |-> schedule, assigned |-> expr] \in BatchRecord
    BY <1>1 DEF BatchRecord, BatchStatus
<1> QED
    BY <1>2 DEF CreateBatch, NewBatch, TypeOK

\* The actions of Next, one by one.
LEMMA TypesKept ==
    ASSUME TypeOK, [Next]_vars
    PROVE  TypeOK'
<1>1. CASE Tick
    BY <1>1, BatchesAssumption DEF Tick, TypeOK
<1>2. ASSUME NEW i \in Instance, EntryStep(i) PROVE TypeOK'
    BY <1>2, EntryStepChanges, EntryTypes
<1>3. ASSUME NEW b \in Batch, BatchStep(b) PROVE TypeOK'
  <2>1. CASE DeleteBatch(b)
    BY <2>1, RemovedTypes DEF DeleteBatch, TypeOK
  <2>2. CASE StartBatch(b)
    BY <2>2, StartBatchChanges DEF StatusChanges, TypeOK
  <2>3. CASE StatusSteps(b)
    BY <2>3, StatusStepsChange DEF StatusChanges, TypeOK
  <2>4. ASSUME NEW force \in BOOLEAN, ResetBatch(b, force) PROVE TypeOK'
    BY <2>4, ResetBatchChanges, RemovedTypes DEF StatusChanges, TypeOK
  <2>5. ASSUME NEW expr \in Expressions, NEW constraints \in ConstraintLists,
               NEW schedule \in Schedules, CreateBatch(b, expr, constraints, schedule)
        PROVE  TypeOK'
    BY <2>5, CreateBatchChanges DEF TypeOK
  <2>6. ASSUME NEW expr \in Expressions, NEW constraints \in ConstraintLists,
               NEW schedule \in Schedules, UpdateBatch(b, expr, constraints, schedule)
        PROVE  TypeOK'
    <3>1. UNCHANGED <<now, queue>>
        BY <2>6 DEF UpdateBatch, UpdatedBatch
    <3> QED
        BY <2>6, <3>1, UpdateTypes DEF TypeOK
  <2> QED
    BY <1>3, <2>1, <2>2, <2>3, <2>4, <2>5, <2>6 DEF BatchStep, StatusSteps
<1>4. CASE UNCHANGED vars
    BY <1>4 DEF vars, TypeOK
<1> QED
    BY <1>1, <1>2, <1>3, <1>4 DEF Next

-----------------------------------------------------------------------------
(* Entries belong to batches that have been started *)

LEMMA StartedKept ==
    ASSUME TypeOK, TypeOK', EntryOfStartedBatch, [Next]_vars
    PROVE  EntryOfStartedBatch'
<1>1. CASE Tick
    BY <1>1 DEF Tick, EntryOfStartedBatch, Queued, Exists
<1>2. ASSUME NEW i \in Instance, EntryStep(i) PROVE EntryOfStartedBatch'
    BY <1>2, EntryStepChanges DEF EntryChanges, EntryOfStartedBatch, Queued, Exists
<1>3. ASSUME NEW b \in Batch, BatchStep(b) PROVE EntryOfStartedBatch'
  <2>0. \A i \in Instance : Queued(i) => queue[i].batch \in Batch
    BY DEF TypeOK, Queued, Entry
  <2>1. CASE DeleteBatch(b)
    BY <2>0, <2>1 DEF DeleteBatch, EntriesRemoved, Entries, EntryOfStartedBatch, Queued, Exists, TypeOK
  <2>2. CASE StartBatch(b)
    BY <2>0, <2>2, StartBatchChanges, BatchesAssumption
       DEF StatusChanges, EntryOfStartedBatch, Queued, Exists, Unqueued
  <2>3. CASE StatusSteps(b)
    BY <2>0, <2>3, StatusStepsChange, BatchesAssumption
       DEF StatusChanges, EntryOfStartedBatch, Queued, Exists
  <2>4. ASSUME NEW force \in BOOLEAN, ResetBatch(b, force) PROVE EntryOfStartedBatch'
    BY <2>0, <2>4, ResetBatchChanges
       DEF StatusChanges, EntriesRemoved, Entries, EntryOfStartedBatch, Queued, Exists
  <2>5. ASSUME NEW expr \in Expressions, NEW constraints \in ConstraintLists,
               NEW schedule \in Schedules, CreateBatch(b, expr, constraints, schedule)
        PROVE  EntryOfStartedBatch'
    BY <2>0, <2>5, CreateBatchChanges DEF EntryOfStartedBatch, Queued, Exists
  <2>6. ASSUME NEW expr \in Expressions, NEW constraints \in ConstraintLists,
               NEW schedule \in Schedules, UpdateBatch(b, expr, constraints, schedule)
        PROVE  EntryOfStartedBatch'
    <3>1. UNCHANGED <<now, queue>>
        BY <2>6 DEF UpdateBatch, UpdatedBatch
    <3> QED
        BY <2>0, <2>6, <3>1, UpdateTypes, BatchesAssumption DEF EntryOfStartedBatch, Queued, Exists
  <2> QED
    BY <1>3, <2>1, <2>2, <2>3, <2>4, <2>5, <2>6 DEF BatchStep, StatusSteps
<1>4. CASE UNCHANGED vars
    BY <1>4 DEF vars, EntryOfStartedBatch, Queued, Exists
<1> QED
    BY <1>1, <1>2, <1>3, <1>4 DEF Next

-----------------------------------------------------------------------------
(* Held windows exist *)

LEMMA HeldKept ==
    ASSUME TypeOK, TypeOK', EntryOfStartedBatch, EntryOfStartedBatch', HeldWindowExists, [Next]_vars
    PROVE  HeldWindowExists'
<1>0. \A i \in Instance : Queued(i) => queue[i].batch \in Batch
    BY DEF TypeOK, Queued, Entry
<1>1. CASE Tick
    BY <1>1 DEF Tick, HeldWindowExists, HasWindow, Queued, Exists
<1>2. ASSUME NEW i \in Instance, EntryStep(i) PROVE HeldWindowExists'
  <2>1. EntryChanges(i)
    BY <1>2, EntryStepChanges
  <2>2. \A w \in Available(i) : w \in WindowName /\ batch[queue[i].batch].windows[w] # NoWindow
    BY DEF Available, NamesOf
  <2>3. ASSUME Queued(i)', queue'[i].window # NoWindow
        PROVE  HasWindow(queue[i].batch, queue[i].window)'
    <3>1. MayHold(i, queue'[i].window) /\ queue'[i].batch = queue[i].batch
        BY <2>1, <2>3 DEF EntryChanges, Queued
    <3>2. Queued(i) /\ batch' = batch
        BY <2>1 DEF EntryChanges
    <3> QED
        BY <2>2, <2>3, <3>1, <3>2 DEF MayHold, HeldWindowExists, HasWindow, EntryOfStartedBatch, Exists
  <2>4. ASSUME NEW j \in Instance \ {i}, Queued(j)', queue'[j].window # NoWindow
        PROVE  HasWindow(queue[j].batch, queue[j].window)'
    BY <2>1, <2>4 DEF EntryChanges, Queued, HeldWindowExists, HasWindow, Exists
  <2> QED
    BY <2>3, <2>4 DEF HeldWindowExists
<1>3. ASSUME NEW b \in Batch, BatchStep(b) PROVE HeldWindowExists'
  <2>1. CASE DeleteBatch(b)
    BY <1>0, <2>1 DEF DeleteBatch, EntriesRemoved, Entries, HeldWindowExists, HasWindow, Queued, Exists, TypeOK
  <2>2. CASE StartBatch(b)
    BY <1>0, <2>2, StartBatchChanges, BatchesAssumption
       DEF StatusChanges, HeldWindowExists, HasWindow, Queued, Exists
  <2>3. CASE StatusSteps(b)
    BY <1>0, <2>3, StatusStepsChange, BatchesAssumption
       DEF StatusChanges, HeldWindowExists, HasWindow, Queued, Exists
  <2>4. ASSUME NEW force \in BOOLEAN, ResetBatch(b, force) PROVE HeldWindowExists'
    BY <1>0, <2>4, ResetBatchChanges
       DEF StatusChanges, EntriesRemoved, Entries, HeldWindowExists, HasWindow, Queued, Exists
  <2>5. ASSUME NEW expr \in Expressions, NEW constraints \in ConstraintLists,
               NEW schedule \in Schedules, CreateBatch(b, expr, constraints, schedule)
        PROVE  HeldWindowExists'
    BY <1>0, <2>5, CreateBatchChanges DEF HeldWindowExists, HasWindow, Queued, Exists
  <2>6. ASSUME NEW expr \in Expressions, NEW constraints \in ConstraintLists,
               NEW schedule \in Schedules, UpdateBatch(b, expr, constraints, schedule)
        PROVE  HeldWindowExists'
    <3>1. UNCHANGED <<now, queue>> /\ MayReplace(b, schedule)
        BY <2>6 DEF UpdateBatch, UpdatedBatch
    <3>2. ASSUME NEW i \in Instance, Queued(i), queue[i].batch = b, queue[i].window # NoWindow
          PROVE  schedule[queue[i].window] # NoWindow /\ queue[i].window \in WindowName
        BY <3>1, <3>2 DEF MayReplace, Holders, Entries, HeldWindowExists, HasWindow
    <3> QED
        BY <1>0, <2>6, <3>1, <3>2, UpdateTypes, BatchesAssumption
           DEF HeldWindowExists, HasWindow, Queued, Exists
  <2> QED
    BY <1>3, <2>1, <2>2, <2>3, <2>4, <2>5, <2>6 DEF BatchStep, StatusSteps
<1>4. CASE UNCHANGED vars
    BY <1>4 DEF vars, HeldWindowExists, HasWindow, Queued, Exists
<1> QED
    BY <1>1, <1>2, <1>3, <1>4 DEF Next

-----------------------------------------------------------------------------
(* Capacities *)

LEMMA HoldersFinite ==
    ASSUME NEW S \in SUBSET Instance
    PROVE  IsFiniteSet(S) /\ Cardinality(S) \in Nat
BY FS_Subset, FS_CardinalityType, BatchesAssumption

LEMMA FewerHolders ==
    ASSUME NEW T \in SUBSET Instance, NEW S \in SUBSET T, NEW n \in Nat, Cardinality(T) <= n
    PROVE  Cardinality(S) <= n
<1>1. IsFiniteSet(T) /\ Cardinality(T) \in Nat /\ Cardinality(S) \in Nat
    BY HoldersFinite
<1>2. Cardinality(S) <= Cardinality(T)
    BY <1>1, FS_Subset
<1> QED
    BY <1>1, <1>2

\* A window that i may hold has room for it.
LEMMA RoomForOne ==
    ASSUME TypeOK, NEW i \in Instance, Queued(i), NEW w \in Available(i), queue[i].window # w,
           Window(queue[i].batch, w).capacity \in Nat \ {0}
    PROVE  Cardinality(Holders(queue[i].batch, w) \cup {i}) <= Window(queue[i].batch, w).capacity
<1> DEFINE b == queue[i].batch
           inUse == {j \in Instance : Queued(j) /\ queue[j].window = w}
<1>1. Cardinality(inUse) < Window(b, w).capacity
    BY DEF Available, WindowsInUse
<1>2. i \notin inUse
    OBVIOUS
<1>3. IsFiniteSet(inUse) /\ Cardinality(inUse) \in Nat
    BY HoldersFinite
<1>4. Cardinality(inUse \cup {i}) = Cardinality(inUse) + 1
    BY <1>2, <1>3, FS_AddElement
<1>5. Cardinality(inUse \cup {i}) <= Window(b, w).capacity
    BY <1>1, <1>3, <1>4
<1>6. Holders(b, w) \cup {i} \subseteq inUse \cup {i} /\ inUse \cup {i} \subseteq Instance
    BY DEF Holders, Entries
<1> QED
    BY <1>5, <1>6, FewerHolders

LEMMA CapacityIsKept ==
    ASSUME TypeOK, TypeOK', HeldWindowExists, EntryOfStartedBatch, CapacityKept, [Next]_vars
    PROVE  CapacityKept'
<1>0. SUFFICES ASSUME NEW c \in Batch, NEW w \in WindowName,
                      HasWindow(c, w)', Window(c, w)'.capacity # 0
               PROVE  Cardinality(Holders(c, w)') <= Window(c, w)'.capacity
    BY DEF CapacityKept
<1>a. Window(c, w)'.capacity \in Nat
    BY <1>0 DEF TypeOK, HasWindow, Window, Exists, BatchRecord, Schedule, WindowConfig
<1>b. Holders(c, w) \in SUBSET Instance /\ Holders(c, w)' \in SUBSET Instance
    BY DEF Holders, Entries
<1>c. HasWindow(c, w) /\ Window(c, w).capacity # 0 => Cardinality(Holders(c, w)) <= Window(c, w).capacity
    BY DEF CapacityKept
\* A step that keeps the window and adds no holder.
<1>d. ASSUME HasWindow(c, w), Window(c, w) = Window(c, w)', Holders(c, w)' \subseteq Holders(c, w)
      PROVE  Cardinality(Holders(c, w)') <= Window(c, w)'.capacity
    BY <1>0, <1>a, <1>b, <1>c, <1>d, FewerHolders
<1>e. ASSUME Holders(c, w)' = {}
      PROVE  Cardinality(Holders(c, w)') <= Window(c, w)'.capacity
    BY <1>a, <1>e, FS_EmptySet
<1>f. ASSUME UNCHANGED queue PROVE Holders(c, w)' = Holders(c, w)
    BY <1>f DEF Holders, Entries, Queued
<1>g. ~HasWindow(c, w) => Holders(c, w) = {}
    BY BatchesAssumption DEF Holders, Entries, HeldWindowExists
<1>h. ASSUME NEW b \in Batch, queue' = EntriesRemoved(b)
      PROVE  Holders(c, w)' \subseteq Holders(c, w)
    BY <1>h DEF EntriesRemoved, Holders, Entries, Queued
<1>i. ASSUME NEW b \in Batch, NEW st \in BatchStatus, Exists(b), StatusChanges(b, st)
      PROVE  HasWindow(c, w) /\ Window(c, w) = Window(c, w)'
    BY <1>0, <1>i DEF StatusChanges, HasWindow, Exists, Window
<1>1. CASE Tick
    BY <1>0, <1>1, <1>d, <1>f DEF Tick, HasWindow, Exists, Window
<1>2. ASSUME NEW i \in Instance, EntryStep(i)
      PROVE  Cardinality(Holders(c, w)') <= Window(c, w)'.capacity
  <2>1. EntryChanges(i)
    BY <1>2, EntryStepChanges
  <2>2. HasWindow(c, w) /\ Window(c, w) = Window(c, w)'
    BY <1>0, <2>1 DEF EntryChanges, HasWindow, Exists, Window
  <2>3. CASE Holders(c, w)' \subseteq Holders(c, w)
    BY <1>d, <2>2, <2>3
  <2>4. CASE ~(Holders(c, w)' \subseteq Holders(c, w))
    <3>1. \A j \in Instance \ {i} : j \in Holders(c, w)' => j \in Holders(c, w)
        BY <2>1 DEF EntryChanges, Holders, Entries, Queued
    <3>2. i \in Holders(c, w)' /\ i \notin Holders(c, w) /\ Holders(c, w)' \subseteq Holders(c, w) \cup {i}
        BY <1>b, <2>4, <3>1
    <3>3. Queued(i) /\ queue[i].batch = c /\ queue'[i].window = w /\ MayHold(i, w)
        BY <2>1, <3>2 DEF EntryChanges, Holders, Entries, Queued
    <3>4. queue[i].window # w /\ w # NoWindow
        BY <3>2, <3>3, BatchesAssumption DEF Holders, Entries
    <3>5. w \in Available(i)
        BY <3>3, <3>4 DEF MayHold
    <3>6. Cardinality(Holders(c, w) \cup {i}) <= Window(c, w).capacity
        BY <1>0, <1>a, <2>2, <3>3, <3>4, <3>5, RoomForOne
    <3>7. Holders(c, w) \cup {i} \in SUBSET Instance
        BY <1>b
    <3> QED
        BY <1>a, <2>2, <3>2, <3>6, <3>7, FewerHolders
  <2> QED
    BY <2>3, <2>4
<1>3. ASSUME NEW b \in Batch, BatchStep(b)
      PROVE  Cardinality(Holders(c, w)') <= Window(c, w)'.capacity
  <2>1. CASE DeleteBatch(b)
    BY <1>0, <1>d, <1>h, <2>1 DEF DeleteBatch, HasWindow, Exists, Window, TypeOK
  <2>2. CASE StartBatch(b)
    <3>1. Holders(c, w)' \subseteq Holders(c, w)
        BY <2>2, StartBatchChanges, BatchesAssumption DEF Holders, Entries, Queued, Unqueued
    <3> QED
        BY <1>d, <1>i, <2>2, <3>1, StartBatchChanges DEF BatchStatus
  <2>3. CASE StatusSteps(b)
    BY <1>d, <1>f, <1>i, <2>3, StatusStepsChange
  <2>4. ASSUME NEW force \in BOOLEAN, ResetBatch(b, force)
        PROVE  Cardinality(Holders(c, w)') <= Window(c, w)'.capacity
    BY <1>d, <1>h, <1>i, <2>4, ResetBatchChanges DEF BatchStatus
  <2>5. ASSUME NEW expr \in Expressions, NEW constraints \in ConstraintLists,
               NEW schedule \in Schedules, CreateBatch(b, expr, constraints, schedule)
        PROVE  Cardinality(Holders(c, w)') <= Window(c, w)'.capacity
    <3>1. CASE c = b
        BY <1>e, <1>f, <1>g, <2>5, <3>1, CreateBatchChanges DEF HasWindow
    <3>2. CASE c # b
        BY <1>0, <1>d, <1>f, <2>5, <3>2, CreateBatchChanges DEF HasWindow, Exists, Window
    <3> QED
        BY <3>1, <3>2
  <2>6. ASSUME NEW expr \in Expressions, NEW constraints \in ConstraintLists,
               NEW schedule \in Schedules, UpdateBatch(b, expr, constraints, schedule)
        PROVE  Cardinality(Holders(c, w)') <= Window(c, w)'.capacity
    <3>1. UNCHANGED <<now, queue>> /\ MayReplace(b, schedule)
        BY <2>6 DEF UpdateBatch, UpdatedBatch
    <3>2. CASE c # b
        BY <1>0, <1>d, <1>f, <2>6, <3>1, <3>2, UpdateTypes DEF HasWindow, Exists, Window
    <3>3. CASE c = b /\ Holders(c, w) = {}
        BY <1>e, <1>f, <3>1, <3>3
    <3>4. CASE c = b /\ Holders(c, w) # {}
      <4>1. HasWindow(c, w) /\ NotNarrowed(Window(c, w), Window(c, w)')
        BY <1>g, <2>6, <3>1, <3>4, UpdateTypes DEF MayReplace, Window
      <4>2. Window(c, w).capacity \in Nat
        BY <4>1 DEF TypeOK, HasWindow, Window, Exists, BatchRecord, Schedule, WindowConfig
      <4>3. Window(c, w).capacity # 0 /\ Window(c, w).capacity <= Window(c, w)'.capacity
        BY <1>0, <4>1 DEF NotNarrowed
      <4>4. Cardinality(Holders(c, w)) <= Window(c, w)'.capacity
        BY <1>a, <1>b, <1>c, <4>1, <4>2, <4>3, HoldersFinite
      <4> QED
        BY <1>f, <3>1, <4>4
    <3> QED
        BY <3>2, <3>3, <3>4
  <2> QED
    BY <1>3, <2>1, <2>2, <2>3, <2>4, <2>5, <2>6 DEF BatchStep, StatusSteps
<1>4. CASE UNCHANGED vars
    BY <1>0, <1>4, <1>d, <1>f DEF vars, HasWindow, Exists, Window
<1> QED
    BY <1>1, <1>2, <1>3, <1>4 DEF Next
----------------------------------------------------------------
-----------------------------------------------------------------------------
(* The theorems *)

LEMMA BatchesInvariant ==
    Spec => []BatchesInv
<1>1. Init => BatchesInv
    BY BatchesAssumption DEF Init, BatchesInv, TypeOK, EntryOfStartedBatch, HeldWindowExists,
                             CapacityKept, Queued, HasWindow, Exists
<1>2. BatchesInv /\ [Next]_vars => BatchesInv'
    BY TypesKept, StartedKept, HeldKept, CapacityIsKept DEF BatchesInv
<1> QED
    BY <1>1, <1>2, PTL DEF Spec

\* Batches, their windows and the queue keep their types.
THEOREM BatchTypes == Spec => []TypeOK
BY BatchesInvariant, PTL DEF BatchesInv

\* An entry belongs to a batch that has been started and that its instance is
\* assigned to, whatever is updated, reset and deleted (StartBatchByName).
THEOREM EntriesOfStartedBatches == Spec => []EntryOfStartedBatch
BY BatchesInvariant, PTL DEF BatchesInv

\* The window an entry holds is there for as long as the entry holds it
\* (ReplaceByBatch, DeleteByName).
THEOREM HeldWindowsExist == Spec => []HeldWindowExists
BY BatchesInvariant, PTL DEF BatchesInv

\* No window is held by more entries than its capacity, not even after an
\* update has lowered an unlimited one (GetNextWindow, ReplaceByBatch).
THEOREM CapacitiesKept == Spec => []CapacityKept
BY BatchesInvariant, PTL DEF BatchesInv

\* What a step may do to the batch of an entry.
SameBatches == \A i \in Instance : Queued(i) /\ queue'[i] # NoEntry =>
                    queue'[i].batch = queue[i].batch

\* The batch that has queued an instance keeps it until its entry is deleted
\* (StartBatchByName).
THEOREM BatchesKeepTheirInstances == Spec => ExclusiveControl
<1>1. ASSUME BatchesInv, [Next]_vars PROVE SameBatches
  <2>1. CASE Tick \/ UNCHANGED vars
    BY <2>1 DEF Tick, vars, SameBatches
  <2>2. ASSUME NEW i \in Instance, EntryStep(i) PROVE SameBatches
    BY <1>1, <2>2, EntryStepChanges DEF BatchesInv, EntryChanges, SameBatches
  <2>3. ASSUME NEW b \in Batch, StartBatch(b) PROVE SameBatches
    BY <1>1, <2>3, StartBatchChanges DEF BatchesInv, SameBatches, Unqueued
  <2>4. ASSUME NEW b \in Batch, BatchStep(b), ~StartBatch(b) PROVE SameBatches
    <3>1. UNCHANGED queue \/ queue' = EntriesRemoved(b)
        BY <2>4 DEF BatchStep, DeleteBatch, StopBatch, BatchFails, FinishBatch, BatchBecomes,
                    ResetBatch, CreateBatch, NewBatch, UpdateBatch, UpdatedBatch
    <3> QED
        BY <3>1 DEF SameBatches, EntriesRemoved
  <2> QED
    BY <1>1, <2>1, <2>2, <2>3, <2>4 DEF Next
<1>2. BatchesInv /\ [Next]_vars => [SameBatches]_vars
    BY <1>1
<1>3. [SameBatches]_vars =>
        [\A i \in Instance : Queued(i) /\ queue'[i] # NoEntry =>
            queue'[i].batch = queue[i].batch]_vars
    BY DEF SameBatches
<1> QED
    BY <1>2, <1>3, BatchesInvariant, PTL DEF Spec, ExclusiveControl

\* What a step may do to the constraints of a committed instance.
NoneAdded == \A i \in Instance :
    IsCommitted(i) /\ IsCommitted(i)' /\ queue'[i].batch = queue[i].batch =>
        LET b == queue[i].batch
        IN  \A c \in Elements(batch'[b].constraints) :
                i \in c.expr => c \in Elements(batch[b].constraints)

\* No constraint that an instance did not have before comes to match it once
\* its final import has begun (canUpdateRunningBatch).
THEOREM ConstraintsAreNotAdded == Spec => ConstraintsNotAdded
<1>1. ASSUME BatchesInv, [Next]_vars PROVE NoneAdded
  <2>1. CASE UNCHANGED batch
    BY <2>1 DEF NoneAdded
  <2>2. ASSUME NEW b \in Batch, BatchStep(b) PROVE NoneAdded
    <3>0. SUFFICES ASSUME NEW i \in Instance, IsCommitted(i), IsCommitted(i)',
                          queue'[i].batch = queue[i].batch,
                          NEW c \in Elements(batch'[queue[i].batch].constraints), i \in c.expr
                   PROVE  c \in Elements(batch[queue[i].batch].constraints)
        BY DEF NoneAdded
    <3>a. /\ Queued(i) /\ queue[i].batch \in Batch
          /\ Exists(queue[i].batch)
          /\ batch[queue[i].batch].status # "DEFINED"
          /\ i \in batch[queue[i].batch].assigned
          /\ Queued(i)'
        BY <1>1, <3>0 DEF BatchesInv, TypeOK, EntryOfStartedBatch, IsCommitted, InPhase, Queued, Entry
    <3>1. CASE queue[i].batch # b
        <4>1. batch'[queue[i].batch] = batch[queue[i].batch]
            BY <1>1, <2>2, <3>1, <3>a
               DEF BatchesInv, TypeOK, BatchStep, DeleteBatch, StartBatch, StopBatch, BatchFails,
                   FinishBatch, BatchBecomes, ResetBatch, CreateBatch, NewBatch, UpdateBatch, UpdatedBatch
        <4> QED
            BY <3>0, <4>1
    <3>2. CASE queue[i].batch = b /\ (StartBatch(b) \/ StatusSteps(b))
        BY <1>1, <3>0, <3>2, StartBatchChanges, StatusStepsChange DEF BatchesInv, StatusChanges
    <3>3. CASE queue[i].batch = b /\ queue' = EntriesRemoved(b)
        BY <3>a, <3>3 DEF EntriesRemoved, Entries, Queued
    <3>4. ASSUME queue[i].batch = b, NEW expr \in Expressions, NEW constraints \in ConstraintLists,
                 NEW schedule \in Schedules, UpdateBatch(b, expr, constraints, schedule)
          PROVE  c \in Elements(batch[queue[i].batch].constraints)
        <4>1. batch'[b].constraints = constraints
            BY <1>1, <3>4, UpdateTypes DEF BatchesInv
        <4>2. CanUpdateRunningBatch(b, expr, constraints)
            BY <3>4, <3>a DEF UpdateBatch, UpdatedBatch
        <4>3. i \in c.expr \cap batch[b].assigned \cap Entries(b)
            BY <3>0, <3>4, <3>a DEF Entries
        <4> QED
            BY <3>0, <3>4, <4>1, <4>2, <4>3 DEF CanUpdateRunningBatch, ConstraintsToCheck
    <3> QED
        BY <2>2, <3>1, <3>2, <3>3, <3>4, <3>a
           DEF BatchStep, StatusSteps, DeleteBatch, ResetBatch, CreateBatch, NewBatch
  <2> QED
    BY <1>1, <2>1, <2>2, EntryStepChanges DEF Next, vars, Tick, BatchesInv, EntryChanges
<1>2. BatchesInv /\ [Next]_vars => [NoneAdded]_vars
    BY <1>1
<1>3. [NoneAdded]_vars =>
        [\A i \in Instance :
            IsCommitted(i) /\ IsCommitted(i)' /\ queue'[i].batch = queue[i].batch =>
                LET b == queue[i].batch
                IN  \A c \in Elements(batch'[b].constraints) :
                        i \in c.expr => c \in Elements(batch[b].constraints)]_vars
    BY DEF NoneAdded
<1> QED
    BY <1>2, <1>3, BatchesInvariant, PTL DEF Spec, ConstraintsNotAdded
=============================================================================
