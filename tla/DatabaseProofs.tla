--------------------------- MODULE DatabaseProofs ---------------------------
(***************************************************************************)
(* Proofs about starts of the daemon, whatever the tables, the updates,    *)
(* the versions and the requests are.                                      *)
(***************************************************************************)
EXTENDS DatabaseProperties, TLAPS

\* No patch is run twice: those the file has had, and the one that is still
\* to be run, have all been placed (execFromFile removes a patch before its
\* statements are committed).
PatchRunsAtMostOnce == file.patches + (IF patch THEN 1 ELSE 0) <= placed

-----------------------------------------------------------------------------
(* The inductive invariant *)

\* A file, or what a start makes of it.
IsFile(f) == /\ f = [version |-> f.version, tables |-> f.tables, patches |-> f.patches]
             /\ f.version \in Nat /\ f.patches \in Nat

Phases == {"patch", "remove", "update", "enable", "serving"}

IsStarted(d) == /\ d = [phase |-> d.phase, backupDone |-> d.backupDone,
                        work |-> d.work, foreign |-> d.foreign]
                /\ d.phase \in Phases /\ d.backupDone \in BOOLEAN /\ d.foreign \in BOOLEAN
                /\ IsFile(d.work)

Typed == /\ IsFile(file) /\ patch \in BOOLEAN /\ placed \in Nat /\ release \in Nat
         /\ daemon = Off \/ IsStarted(daemon)

Uncommitted == daemon.phase \in {"patch", "remove", "update"}

\* What a start has not committed yet: it differs from the file only after
\* the backup, ...
WorkBackedUp == Uncommitted =>
    /\ daemon.backupDone => backup = file
    /\ file.version # 0 => daemon.work.version # 0
    /\ file.version # 0 /\ ~daemon.backupDone => daemon.work = file

\* ... and a patch that it has run is removed in the next step.
WorkPatched ==
    /\ In("patch") => daemon.work.patches = file.patches
    /\ In("remove") => daemon.work.patches = file.patches + 1 /\ patch
    /\ In("update") => \/ daemon.work.patches = file.patches
                       \/ /\ daemon.work.patches = file.patches + 1
                          /\ ~patch /\ daemon.work.patches <= placed

IInv == Typed /\ WorkBackedUp /\ WorkPatched /\ PatchRunsAtMostOnce

-----------------------------------------------------------------------------
(* Steps *)

LEMMA InvInit == Init => IInv
<1> SUFFICES ASSUME Init PROVE IInv
    OBVIOUS
<1>1. PICK v \in StoredVersions : file = [version |-> v, tables |-> Stored(v), patches |-> 0]
    BY DEF Init
<1>2. IsFile(file)
    BY <1>1, VersionsAssumption DEF IsFile
<1>3. Typed
    BY <1>2, VersionsAssumption DEF Init, Typed
<1>4. ~Uncommitted /\ ~In("patch") /\ ~In("remove") /\ ~In("update")
    BY DEF Init, Uncommitted, In, Off
<1>5. PatchRunsAtMostOnce
    BY <1>1 DEF Init, PatchRunsAtMostOnce
<1> QED
    BY <1>3, <1>4, <1>5 DEF IInv, WorkBackedUp, WorkPatched

LEMMA InvStart == IInv /\ Start => IInv'
<1> SUFFICES ASSUME IInv, Start PROVE IInv'
    OBVIOUS
<1> USE DEF IInv, Start
<1>1. IsStarted(daemon') /\ daemon'.phase = "patch" /\ daemon'.work = file /\ ~daemon'.backupDone
    BY DEF Typed, IsStarted, Phases
<1> QED
    BY <1>1 DEF Typed, WorkBackedUp, WorkPatched, Uncommitted, In, PatchRunsAtMostOnce

LEMMA InvRunPatch == IInv /\ RunPatch => IInv'
<1> SUFFICES ASSUME IInv, RunPatch PROVE IInv'
    OBVIOUS
<1> USE DEF IInv, RunPatch
<1>1. IsStarted(daemon) /\ Uncommitted
    BY DEF Typed, In, Off, Uncommitted
<1>2. /\ daemon'.phase = "remove" /\ daemon'.backupDone
      /\ daemon'.work = [daemon.work EXCEPT !.patches = @ + 1]
    BY <1>1 DEF IsStarted
<1>3. /\ IsFile(daemon'.work) /\ daemon'.work.version = daemon.work.version
      /\ daemon'.work.patches = daemon.work.patches + 1
    BY <1>1, <1>2 DEF IsStarted, IsFile
<1>5. IsStarted(daemon')
    BY <1>1, <1>2, <1>3 DEF IsStarted, Phases
<1>4. backup' = file
    BY <1>1 DEF MakeBackup, WorkBackedUp
<1> QED
    BY <1>1, <1>2, <1>3, <1>4, <1>5
    DEF Typed, WorkBackedUp, WorkPatched, Uncommitted, In, PatchRunsAtMostOnce

\* The steps that only change the phase.
LEMMA InvRemovePatch == IInv /\ (RemovePatch \/ SkipPatch) => IInv'
<1> SUFFICES ASSUME IInv, RemovePatch \/ SkipPatch PROVE IInv'
    OBVIOUS
<1> USE DEF IInv, RemovePatch, SkipPatch
<1>1. IsStarted(daemon) /\ Uncommitted
    BY DEF Typed, In, Off, Uncommitted
<1>2. /\ IsStarted(daemon') /\ daemon'.phase = "update"
      /\ daemon'.backupDone = daemon.backupDone /\ daemon'.work = daemon.work
    BY <1>1 DEF IsStarted, Phases
<1>3. IsFile(file) /\ IsFile(daemon.work) /\ placed \in Nat
    BY <1>1 DEF Typed, IsStarted
<1>4. WorkBackedUp'
    BY <1>1, <1>2 DEF WorkBackedUp, Uncommitted
<1>5. CASE RemovePatch
  <2>1. /\ ~patch' /\ In("update")' /\ UNCHANGED <<file, placed, release>>
        /\ patch /\ daemon.work.patches = file.patches + 1
    BY <1>2, <1>5 DEF WorkPatched, In
  <2>2. file.patches + 1 <= placed
    BY <2>1 DEF PatchRunsAtMostOnce
  <2>3. PatchRunsAtMostOnce'
    BY <1>3, <2>1, <2>2 DEF PatchRunsAtMostOnce, IsFile
  <2>4. WorkPatched'
    BY <1>2, <2>1, <2>2 DEF WorkPatched, In
  <2> QED
    BY <1>2, <1>4, <2>1, <2>3, <2>4 DEF Typed
<1>6. CASE SkipPatch
  <2>1. WorkPatched'
    BY <1>2, <1>6 DEF WorkPatched, In
  <2> QED
    BY <1>2, <1>4, <1>6, <2>1 DEF Typed, PatchRunsAtMostOnce
<1> QED
    BY <1>5, <1>6

LEMMA InvCreateSchema == IInv /\ CreateSchema => IInv'
<1> SUFFICES ASSUME IInv, CreateSchema PROVE IInv'
    OBVIOUS
<1> USE DEF IInv, CreateSchema
<1>1. IsStarted(daemon) /\ Uncommitted
    BY DEF Typed, In, Off, Uncommitted
<1>2. daemon'.work = [daemon.work EXCEPT !.version = release, !.tables = FreshTables(release)]
    BY <1>1 DEF IsStarted
<1>3. daemon'.phase = "update" /\ daemon'.backupDone = daemon.backupDone
    BY <1>1 DEF IsStarted, In
<1>4. IsFile(daemon'.work) /\ daemon'.work.patches = daemon.work.patches
    BY <1>1, <1>2 DEF IsStarted, IsFile, Typed
<1>5. IsStarted(daemon')
    BY <1>1, <1>3, <1>4 DEF IsStarted, Phases
<1>6. file.version = 0
    BY <1>1 DEF WorkBackedUp
<1> QED
    BY <1>1, <1>3, <1>4, <1>5, <1>6
    DEF Typed, WorkBackedUp, WorkPatched, Uncommitted, In, PatchRunsAtMostOnce

LEMMA InvApplyUpdate == IInv /\ ApplyUpdate => IInv'
<1> SUFFICES ASSUME IInv, ApplyUpdate PROVE IInv'
    OBVIOUS
<1> USE DEF IInv, ApplyUpdate
<1>1. IsStarted(daemon) /\ Uncommitted
    BY DEF Typed, In, Off, Uncommitted
<1>2. daemon'.work = [daemon.work EXCEPT !.version = @ + 1,
                          !.tables = Update(daemon.work.version + 1, @)]
    BY <1>1 DEF IsStarted
<1>3. daemon'.phase = "update" /\ daemon'.backupDone
    BY <1>1 DEF IsStarted, In
<1>4. /\ IsFile(daemon'.work) /\ daemon'.work.patches = daemon.work.patches
      /\ daemon'.work.version = daemon.work.version + 1
  <2> DEFINE w == daemon.work
             t == Update(w.version + 1, w.tables)
  <2>1. IsFile(w)
    BY <1>1 DEF IsStarted
  <2>2. daemon'.work = [w EXCEPT !.version = @ + 1, !.tables = t]
    BY <1>2
  <2> HIDE DEF t
  <2>3. daemon'.work = [version |-> w.version + 1, tables |-> t, patches |-> w.patches]
    BY <2>1, <2>2, Zenon DEF IsFile
  <2> QED
    BY <2>1, <2>3 DEF IsFile
<1>5. IsStarted(daemon')
    BY <1>1, <1>3, <1>4 DEF IsStarted, Phases
<1>6. backup' = file
    BY <1>1 DEF MakeBackup, WorkBackedUp
<1>7. daemon'.work.version # 0
    BY <1>1, <1>4 DEF IsStarted, IsFile
<1> QED
    BY <1>1, <1>3, <1>4, <1>5, <1>6, <1>7
    DEF Typed, WorkBackedUp, WorkPatched, Uncommitted, In, PatchRunsAtMostOnce

LEMMA InvCommitUpdates == IInv /\ CommitUpdates => IInv'
<1> SUFFICES ASSUME IInv, CommitUpdates PROVE IInv'
    OBVIOUS
<1> USE DEF IInv, CommitUpdates
<1>1. IsStarted(daemon)
    BY DEF Typed, In, Off
<1>2. IsStarted(daemon') /\ daemon'.phase = "enable"
    BY <1>1 DEF IsStarted, Phases
<1>3. IsFile(file') /\ IsFile(file)
    BY <1>1 DEF IsStarted, Typed
<1>4. PatchRunsAtMostOnce'
    BY <1>1, <1>3 DEF PatchRunsAtMostOnce, WorkPatched, In, IsFile, Typed
<1> QED
    BY <1>2, <1>3, <1>4 DEF Typed, WorkBackedUp, WorkPatched, Uncommitted, In

LEMMA InvEnableForeignKeys == IInv /\ EnableForeignKeys => IInv'
<1> SUFFICES ASSUME IInv, EnableForeignKeys PROVE IInv'
    OBVIOUS
<1> USE DEF IInv, EnableForeignKeys
<1>1. IsStarted(daemon)
    BY DEF Typed, In, Off
<1>2. IsStarted(daemon') /\ daemon'.phase = "serving"
    BY <1>1 DEF IsStarted, Phases
<1> QED
    BY <1>2 DEF Typed, WorkBackedUp, WorkPatched, Uncommitted, In, PatchRunsAtMostOnce

\* A request changes the tables alone.
LEMMA RequestCommits == Request => \E c : Commit(c)
BY Zenon DEF Request, SourceRequest, TargetRequest, InstanceRequest, NetworkRequest, BatchRequest,
    MemberRequest, WindowRequest, QueueRequest, WarningRequest, ArtifactRequest

LEMMA InvRequest == IInv /\ Request => IInv'
<1> SUFFICES ASSUME IInv, Request PROVE IInv'
    OBVIOUS
<1>1. PICK c : Commit(c)
    BY RequestCommits
<1>2. In("serving")
    BY DEF Request
<1>3. /\ file' = [file EXCEPT !.tables = c.tables]
      /\ UNCHANGED <<backup, patch, placed, release, daemon>>
    BY <1>1 DEF Commit
<1>4. IsFile(file') /\ file'.patches = file.patches
    BY <1>3 DEF IInv, Typed, IsFile
<1> QED
    BY <1>2, <1>3, <1>4
    DEF IInv, Typed, WorkBackedUp, WorkPatched, Uncommitted, In, PatchRunsAtMostOnce

\* The operator acts and the daemon stops without touching the file.
LEMMA InvOff == IInv /\ ((\E r \in Releases : Install(r)) \/ PlacePatch \/ Stop) => IInv'
<1>1. ASSUME IInv, NEW r \in Releases, Install(r) PROVE IInv'
    BY <1>1, VersionsAssumption
    DEF IInv, Install, Typed, WorkBackedUp, WorkPatched, Uncommitted, In, PatchRunsAtMostOnce
<1>2. ASSUME IInv, PlacePatch PROVE IInv'
    BY <1>2 DEF IInv, PlacePatch, Typed, IsFile, WorkBackedUp, WorkPatched, Uncommitted, In,
                PatchRunsAtMostOnce
<1>3. ASSUME IInv, Stop PROVE IInv'
    BY <1>3 DEF IInv, Stop, Off, Typed, WorkBackedUp, WorkPatched, Uncommitted, In, PatchRunsAtMostOnce
<1> QED
    BY <1>1, <1>2, <1>3

LEMMA InvStutter == IInv /\ UNCHANGED vars => IInv'
BY DEF IInv, vars, Typed, WorkBackedUp, WorkPatched, Uncommitted, In, PatchRunsAtMostOnce

LEMMA InvNext == IInv /\ [Next]_vars => IInv'
BY InvStart, InvRunPatch, InvRemovePatch, InvCreateSchema, InvApplyUpdate, InvCommitUpdates,
   InvEnableForeignKeys, InvRequest, InvOff, InvStutter DEF Next

LEMMA Invariant == Spec => []IInv
BY InvInit, InvNext, PTL DEF Spec

-----------------------------------------------------------------------------
\* Whatever patches, releases and versions there are, and wherever starts
\* fail, no patch is run twice.
THEOREM PatchesOnce == Spec => []PatchRunsAtMostOnce
<1>1. IInv => PatchRunsAtMostOnce
    BY DEF IInv
<1> QED
    BY <1>1, Invariant, PTL

\* Only a commit changes the file outside of requests, and what it commits
\* is backed up, of the version that is expected, and with no patch to come.
LEMMA SafeStep ==
    ASSUME IInv, Next, file' # file, ~In("serving")
    PROVE  /\ file'.version = release
           /\ file.version # 0 => backup = file
           /\ file'.patches > file.patches => ~patch
<1>1. CommitUpdates
    BY DEF Next, Install, PlacePatch, Start, RunPatch, RemovePatch, SkipPatch, CreateSchema,
           ApplyUpdate, EnableForeignKeys, Stop, Request
<1>2. Uncommitted /\ In("update") /\ daemon.work.version = release /\ file' = daemon.work
    BY <1>1 DEF CommitUpdates, Uncommitted, In
<1>3. IsFile(file)
    BY DEF IInv, Typed
<1> QED
    BY <1>2, <1>3 DEF IInv, WorkBackedUp, WorkPatched, IsFile

\* Every start, of any release on a file of any version, with or without a
\* patch, is safe.
THEOREM StartsAreSafe == Spec => StartIsSafe
<1>1. IInv /\ [Next]_vars => [file' # file /\ ~In("serving") =>
          /\ file'.version = release
          /\ file.version # 0 => backup = file
          /\ file'.patches > file.patches => ~patch]_vars
    BY SafeStep
<1> QED
    BY <1>1, Invariant, PTL DEF Spec, StartIsSafe
=============================================================================
