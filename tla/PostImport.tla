----------------------------- MODULE PostImport -----------------------------
(***************************************************************************)
(* What the worker does to the guest on the target's disks: the dry run    *)
(* that ends every import and the post-import tasks that end a migration,  *)
(* with the mounts, the volume group and the device-mapper clones they     *)
(* make (internal/worker).  The steps of a task are a program, its         *)
(* deferred calls a stack; a step may fail, which runs the whole stack,    *)
(* and the worker may be killed at any step, which leaves everything as it *)
(* is to the task that it begins when the init system has restarted it.    *)
(*                                                                         *)
(* A guest has a root and at most one additional file system, each on a    *)
(* partition or in the one volume group; the main and the recovery         *)
(* partition of a Windows guest are its root and additional ones.  The     *)
(* bind mounts below the root, btrfs subvolumes and the single scripts are *)
(* abstracted, and an unmount succeeds within its retries.  Linux guests of *)
(* an unknown distribution, which get no tasks at all, are left out.       *)
(***************************************************************************)
EXTENDS Naturals, Sequences, FiniteSets

CONSTANTS
    Guest,     \* the guests considered
    MaxKills   \* bound on how often the worker is killed

VARIABLES
    guest,     \* the guest of this worker's VM
    command,   \* what the worker does
    todo,      \* the steps left of it
    deferred,  \* the deferred calls, and a mark for each function entered
    mode,      \* running steps, leaving a function, or giving up
    mounts,    \* the mounts, in the order they were made
    vg,        \* the volume group is not active, or active on the disks or clones
    clones,    \* the file systems on the disks that are cloned
    plan,      \* the file systems that the dry run has planned to mount
    rootAt,    \* the worker's variable rootPart: a partition or its clone
    written,   \* by which command scripts have written where
    faulty,    \* some step of the command failed for no reason of the guest
    foretold,  \* a dry run has succeeded
    kills

task    == <<command, todo, deferred, mode, plan, rootAt, faulty>>
devices == <<mounts, vg, clones>>
vars    == <<guest, task, devices, written, foretold, kills>>

FileSystem == {"root", "extra"}
Path == {"target", "target/extra", "win_main", "win_recovery", "dislocker", "drivers", "backup"}
Side == {"disk", "clone"}

\* Windows is looked for on partitions only (DetermineWindowsPartitions).
GuestOS ==
    {g \in [os : {"linux", "windows", "fortigate"}, root : {"none", "plain", "lvm"},
            extra : {"none", "plain", "lvm", "unknown"},
            bitlocker : {"off", "clearkey", "locked"}] :
        g.os = "windows" => g.root # "lvm" /\ g.extra \in {"none", "plain"}}

ASSUME PostImportAssumption == Guest \subseteq GuestOS /\ MaxKills \in Nat

Mount == [at : Path, fs : FileSystem \cup {"none"}, on : Side]

TypeOK ==
    /\ guest \in Guest
    /\ command \in {"none", "import", "post", "failed", "done"}
    /\ mode \in {"run", "leave", "fail"}
    /\ \A n \in DOMAIN mounts : mounts[n] \in Mount
    /\ vg \in Side \cup {"off"}
    /\ clones \subseteq FileSystem /\ plan \subseteq FileSystem
    /\ rootAt \in Side
    /\ written \subseteq {"import", "post"} \X FileSystem \X Side
    /\ faulty \in BOOLEAN /\ foretold \in BOOLEAN
    /\ kills \in 0 .. MaxKills

-----------------------------------------------------------------------------
(* The programs of the tasks *)

When(condition, steps) == IF condition THEN steps ELSE <<>>

Has(g, f) == g[f] \in {"plain", "lvm"}
InVG(g) == {f \in FileSystem : g[f] = "lvm"}

\* looksLikeLinuxRootPartition and its like for one file system
Probe(f) == <<<<"enter">>, <<"mount", "target", f>>, <<"leave">>>>

\* determineRootPartition looks at the logical volumes first; the root file
\* system is the last of its kind to be looked at.
DetermineRootPartition(g) ==
    <<<<"enter">>>>
    \o When(InVG(g) # {}, <<<<"activate">>>>)
    \o When(g.extra = "lvm", Probe("extra"))
    \o When(g.root = "lvm", Probe("root"))
    \o When(g.root # "lvm" /\ g.extra = "plain", Probe("extra"))
    \o When(g.root = "plain", Probe("root"))
    \o <<<<"found">>, <<"leave">>>>

GetRequiredMounts(g) ==
    <<<<"enter">>>> \o DetermineRootPartition(g)
    \o When(InVG(g) # {}, <<<<"activate">>>>)
    \o <<<<"mount", "target", "root">>, <<"fstab">>, <<"leave">>>>

SetupDiskClone == <<<<"clone">>, <<"match">>, <<"ensure">>>>

\* Mutant: the volume group is activated for the dry run only.
LinuxDoConfigInactive(g, dryRun) ==
    <<<<"clean">>>> \o DetermineRootPartition(g)
    \o When(dryRun, GetRequiredMounts(g) \o SetupDiskClone)
    \o <<<<"mount", "target", "root">>>>
    \o When(g.extra # "none", <<<<"mount", "target/extra", "extra">>>>)
    \o <<<<"scripts">>>>

LinuxDoPostMigrationConfig(g, dryRun) ==
    <<<<"clean">>>> \o DetermineRootPartition(g)
    \o (IF dryRun THEN GetRequiredMounts(g) \o SetupDiskClone
        ELSE When(g.root = "lvm", <<<<"activate">>>>))
    \o <<<<"mount", "target", "root">>>>
    \o When(g.extra # "none", <<<<"mount", "target/extra", "extra">>>>)
    \o <<<<"scripts">>>>

WindowsInjectDrivers(g, dryRun) ==
    <<<<"clean">>, <<"found">>>>
    \o When(dryRun, SetupDiskClone)
    \o <<<<"mount", "drivers", "none">>, <<"unlock">>>>
    \o When(g.bitlocker = "clearkey", <<<<"mount", "dislocker", "root">>>>)
    \o <<<<"mount", "win_main", "root">>>>
    \o When(g.extra # "none", <<<<"mount", "win_recovery", "extra">>>>)
    \o <<<<"scripts">>>>

DetermineFortigateVersion(g) ==
    <<<<"enter">>>> \o DetermineRootPartition(g)
    \o When(g.root = "lvm", <<<<"activate">>>>)
    \o <<<<"mount", "target", "root">>, <<"leave">>>>

ReplaceFortigateBoot(g, dryRun) ==
    <<<<"clean">>>> \o DetermineRootPartition(g)
    \o (IF dryRun THEN SetupDiskClone ELSE When(g.root = "lvm", <<<<"activate">>>>))
    \o <<<<"replace">>>>

PostImportTasks(g, dryRun) ==
    CASE g.os = "linux"     -> LinuxDoPostMigrationConfig(g, dryRun)
      [] g.os = "windows"   -> WindowsInjectDrivers(g, dryRun)
      [] g.os = "fortigate" -> DetermineFortigateVersion(g) \o ReplaceFortigateBoot(g, dryRun)

Init ==
    /\ guest \in Guest
    /\ command = "none" /\ todo = <<>> /\ deferred = <<>> /\ mode = "run"
    /\ mounts = <<>> /\ vg = "off" /\ clones = {}
    /\ plan = {} /\ rootAt = "disk"
    /\ written = {} /\ faulty = FALSE /\ foretold = FALSE
    /\ kills = 0

-----------------------------------------------------------------------------
(* Commands *)

DryRun == command = "import"

Command(c) ==
    /\ command' = c
    /\ todo' = PostImportTasks(guest, c = "import")
    /\ deferred' = <<>> /\ mode' = "run"
    /\ plan' = {"root"} /\ rootAt' = "disk" /\ faulty' = FALSE
    /\ UNCHANGED <<guest, written, foretold>>

\* The dry run after an import; a success may be followed by another import.
ImportDisks ==
    command = "none" /\ Command("import") /\ UNCHANGED <<devices, kills>>

\* Only an entry whose import has succeeded is given its post-import tasks.
DoPostImportTasks ==
    command = "none" /\ foretold /\ Command("post") /\ UNCHANGED <<devices, kills>>

-----------------------------------------------------------------------------
(* Mounts and devices *)

MountsAt(p) == {n \in DOMAIN mounts : mounts[n].at = p}
Uppermost(p) == CHOOSE n \in MountsAt(p) : \A m \in MountsAt(p) : m <= n

\* What is mounted, in the same order, once some of it is unmounted.
Unmounted(gone) ==
    LET left == DOMAIN mounts \ gone
    IN  [n \in 1 .. Cardinality(left) |->
            mounts[CHOOSE k \in left : Cardinality({m \in left : m < k}) = n - 1]]

DoUnmount(p) ==
    mounts' = IF MountsAt(p) = {} THEN mounts ELSE Unmounted({Uppermost(p)})

OnVG(ms) == \E n \in DOMAIN ms : ms[n].fs # "none" /\ guest[ms[n].fs] = "lvm"
OnClone(ms) == \E n \in DOMAIN ms : ms[n].on = "clone"

\* vgchange -a n leaves what is mounted.
Deactivated(ms) == IF OnVG(ms) THEN vg ELSE "off"

\* umount --recursive /run/mount/target
TargetUnmounted ==
    IF MountsAt("target") = {} THEN mounts
    ELSE Unmounted({Uppermost("target")} \cup MountsAt("target/extra"))

\* Mutant: what a killed task has mounted stays mounted.
ClonesClosed ==
    /\ mounts' = mounts
    /\ vg' = Deactivated(mounts')
    /\ clones' = IF OnClone(mounts') THEN clones ELSE {}

\* setup-root-disk-clone.sh cleanup: what is still in use stays.
CleanupClones ==
    /\ mounts' = TargetUnmounted
    /\ vg' = Deactivated(mounts')
    /\ clones' = IF OnClone(mounts') THEN clones ELSE {}

\* Mutant: the device that fstab names is mounted also in a dry run.
DeviceInFstab(f) ==
    IF f = "none" THEN "disk"
    ELSE IF guest[f] = "lvm" THEN vg
    ELSE IF f = "root" THEN rootAt
    ELSE "disk"

\* Where the device is that a task mounts a file system from.
DeviceOf(f) ==
    IF f = "none" THEN "disk"
    ELSE IF guest[f] = "lvm" THEN vg
    ELSE IF f = "root" THEN rootAt
    ELSE IF f \in clones THEN "clone"
    ELSE "disk"

MountExists(p, f) == f # "none" => Has(guest, f) /\ DeviceOf(f) \in Side

-----------------------------------------------------------------------------
(* Steps: each takes the first step of the program *)

Step(s) ==
    /\ mode = "run" /\ todo # <<>> /\ Head(todo) = s
    /\ todo' = Tail(todo)
    /\ UNCHANGED <<guest, command, foretold, kills>>

Defer(call) == deferred' = <<call>> \o deferred

Enter ==
    /\ Step(<<"enter">>)
    /\ Defer(<<"mark">>)
    /\ UNCHANGED <<mode, devices, plan, rootAt, written, faulty>>

Leave ==
    /\ Step(<<"leave">>)
    /\ mode' = "leave"
    /\ UNCHANGED <<deferred, devices, plan, rootAt, written, faulty>>

CleanUp ==
    /\ Step(<<"clean">>)
    /\ CleanupClones
    /\ Defer(<<"clean">>)
    /\ UNCHANGED <<mode, plan, rootAt, written, faulty>>

FindRoot ==
    /\ Step(<<"found">>)
    /\ Has(guest, "root")
    /\ UNCHANGED <<mode, deferred, devices, plan, rootAt, written, faulty>>

\* An active volume group stays where it is; LVM refuses duplicate volumes.
ActivateVG ==
    /\ Step(<<"activate">>)
    /\ vg = "off" => clones = {}
    /\ vg' = IF vg = "off" THEN "disk" ELSE vg
    /\ Defer(<<"deactivate">>)
    /\ UNCHANGED <<mode, mounts, clones, plan, rootAt, written, faulty>>

DoMount ==
    \E p \in Path, f \in FileSystem \cup {"none"} :
        /\ Step(<<"mount", p, f>>)
        /\ MountExists(p, f)
        /\ mounts' = Append(mounts, [at |-> p, fs |-> f, on |-> DeviceOf(f)])
        /\ Defer(<<"unmount", p>>)
        /\ UNCHANGED <<mode, vg, clones, plan, rootAt, written, faulty>>

ReadFstab ==
    /\ Step(<<"fstab">>)
    /\ guest.extra # "unknown"
    /\ plan' = {f \in FileSystem : Has(guest, f)}
    /\ UNCHANGED <<mode, deferred, devices, rootAt, written, faulty>>

\* The disks of a plan; both partitions of Windows are on one disk.
DisksOf(fs) == IF guest.os = "windows" THEN {f \in FileSystem : Has(guest, f)} ELSE fs

\* The script that clones the disks cleans up first; then the volume groups
\* are activated with a filter that hides everything but the clones.
SetUpClones ==
    /\ Step(<<"clone">>)
    /\ ~OnClone(TargetUnmounted) /\ ~OnVG(TargetUnmounted)
    /\ mounts' = TargetUnmounted
    /\ clones' = DisksOf(plan)
    /\ vg' = IF InVG(guest) \cap plan = {} THEN "off" ELSE "clone"
    /\ IF guest.os = "windows" THEN UNCHANGED deferred ELSE Defer(<<"deactivate">>)
    /\ UNCHANGED <<mode, plan, rootAt, written, faulty>>

GetMatchingPartition == rootAt' = IF guest.root = "plain" THEN "clone" ELSE rootAt

MatchPartition ==
    /\ Step(<<"match">>)
    /\ GetMatchingPartition
    /\ UNCHANGED <<mode, deferred, devices, plan, written, faulty>>

EnsureMountIsLoop ==
    /\ Step(<<"ensure">>)
    /\ IF guest.root = "lvm" THEN vg = "clone" ELSE rootAt = "clone"
    /\ UNCHANGED <<mode, deferred, devices, plan, rootAt, written, faulty>>

DetectBitLocker ==
    /\ Step(<<"unlock">>)
    /\ guest.bitlocker # "locked"
    /\ UNCHANGED <<mode, deferred, devices, plan, rootAt, written, faulty>>

WrittenAt(paths) ==
    written' = written \cup
        {<<command, mounts[n].fs, mounts[n].on>> : n \in {k \in DOMAIN mounts : mounts[k].at \in paths}}

RunScriptsInChroot ==
    /\ Step(<<"scripts">>) /\ guest.os = "linux"
    /\ WrittenAt({"target", "target/extra"})
    /\ UNCHANGED <<mode, deferred, devices, plan, rootAt, faulty>>

InjectDrivers ==
    /\ Step(<<"scripts">>) /\ guest.os = "windows"
    /\ WrittenAt({"win_main", "win_recovery"})
    /\ UNCHANGED <<mode, deferred, devices, plan, rootAt, faulty>>

\* fortigate-replace-boot.sh needs the network block device it disconnects in
\* the end, as it unmounts the backup.
ReplaceBoot ==
    /\ Step(<<"replace">>)
    /\ MountsAt("backup") = {}
    /\ written' = written \cup {<<command, "root", DeviceOf("root")>>}
    /\ UNCHANGED <<mode, deferred, devices, plan, rootAt, faulty>>

-----------------------------------------------------------------------------
(* Failures, deferred calls and the end of a command *)

\* A step that the guest or what was left behind does not let succeed.
Impossible ==
    LET s == Head(todo)
    IN  \/ s = <<"found">> /\ ~Has(guest, "root")
        \/ s = <<"fstab">> /\ guest.extra = "unknown"
        \/ s = <<"unlock">> /\ guest.bitlocker = "locked"
        \/ s = <<"activate">> /\ vg = "off" /\ clones # {}
        \/ s = <<"clone">> /\ (OnClone(TargetUnmounted) \/ OnVG(TargetUnmounted))
        \/ s = <<"ensure">> /\ (IF guest.root = "lvm" THEN vg ELSE rootAt) # "clone"
        \/ s = <<"replace">> /\ MountsAt("backup") # {}
        \/ /\ s[1] = "mount"
           /\ ~MountExists(s[2], s[3]) \/ (s[2] = "win_main" /\ MountsAt("win_main") # {})

\* What a step leaves that ends halfway.
LeftHalfway ==
    \/ UNCHANGED devices
    \/ /\ Head(todo) = <<"replace">> /\ MountsAt("backup") = {}
       /\ mounts' = mounts \o <<[at |-> "target", fs |-> "root", on |-> DeviceOf("root")],
                                [at |-> "backup", fs |-> "none", on |-> "disk"]>>
       /\ UNCHANGED <<vg, clones>>
    \/ /\ Head(todo) = <<"clone">> /\ ~OnClone(TargetUnmounted)
       /\ mounts' = TargetUnmounted
       /\ vg' = Deactivated(mounts')
       /\ clones' \in SUBSET DisksOf(plan)

\* A file system that cannot be probed is not the root.
Fail ==
    /\ mode = "run" /\ todo # <<>>
    /\ Head(todo)[1] \notin {"enter", "leave", "clean"}
    /\ Head(todo) # <<"mount", "target", "extra">>
    /\ IF Impossible THEN UNCHANGED <<devices, faulty>> ELSE faulty' = TRUE /\ LeftHalfway
    /\ mode' = "fail"
    /\ todo' = <<>>
    /\ UNCHANGED <<guest, command, deferred, plan, rootAt, written, foretold, kills>>

\* The worker is killed, and given the same command when it asks again.
Kill ==
    /\ command \in {"import", "post"}
    /\ kills < MaxKills
    /\ kills' = kills + 1
    /\ IF mode = "run" /\ todo # <<>> THEN LeftHalfway ELSE UNCHANGED devices
    /\ Command(command)

Unwinds == mode \in {"leave", "fail"} \/ todo = <<>>

\* The last deferred call runs; its error is ignored.
RunDeferred ==
    /\ command \in {"import", "post"} /\ Unwinds /\ deferred # <<>>
    /\ deferred' = Tail(deferred)
    /\ LET call == Head(deferred)
       IN  /\ mode' = IF mode = "leave" /\ call = <<"mark">> THEN "run" ELSE mode
           /\ CASE call = <<"clean">>      -> CleanupClones
                [] call = <<"deactivate">> -> vg' = Deactivated(mounts) /\ UNCHANGED <<mounts, clones>>
                [] call[1] = "unmount"     -> DoUnmount(call[2]) /\ UNCHANGED <<vg, clones>>
                [] OTHER                   -> UNCHANGED devices
    /\ UNCHANGED <<guest, command, todo, plan, rootAt, written, faulty, foretold, kills>>

\* The worker answers: an error ends the migration on this VM.
Respond ==
    /\ command \in {"import", "post"} /\ todo = <<>> /\ deferred = <<>>
    /\ command' = IF mode = "fail" THEN "failed" ELSE IF DryRun THEN "none" ELSE "done"
    /\ foretold' = (foretold \/ (mode = "run" /\ DryRun))
    /\ UNCHANGED <<guest, todo, deferred, mode, plan, rootAt, faulty, devices, written, kills>>

Steps ==
    \/ Enter \/ Leave \/ CleanUp \/ FindRoot \/ ActivateVG \/ DoMount \/ ReadFstab
    \/ SetUpClones \/ MatchPartition \/ EnsureMountIsLoop \/ DetectBitLocker
    \/ RunScriptsInChroot \/ InjectDrivers \/ ReplaceBoot

Next == ImportDisks \/ DoPostImportTasks \/ Steps \/ Fail \/ RunDeferred \/ Respond \/ Kill

Spec == Init /\ [][Next]_vars

-----------------------------------------------------------------------------
(* Properties *)

\* Whatever the layout of the guest, and whatever an earlier task has left
\* behind, the scripts of a dry run never write to the target's disks: the
\* partitions are replaced by those of the clones, and the volume group is
\* active on the clones (LinuxDoPostMigrationConfig, ensureMountIsLoop).
DryRunSparesDisk == \A f \in FileSystem : <<"import", f, "disk">> \notin written

\* A worker that answers its post-import tasks with success has run the scripts
\* on the disks, on every file system of the guest and not on some clone.
DoneMeansPrepared ==
    command = "done" =>
        \A f \in FileSystem :
            Has(guest, f) /\ (guest.os = "fortigate" => f = "root")
                => <<"post", f, "disk">> \in written

\* Scripts write where they are meant to: those of a dry run to the clones, and
\* those of the post-import tasks to every file system on the disks, also when
\* clones, an active volume group or mounts were left to them.
ScriptsHitTheirDisks == DryRunSparesDisk /\ DoneMeansPrepared

\* The guest itself makes every task fail.
Unsupported == ~Has(guest, "root") \/ guest.extra = "unknown"

\* The real run activates volume groups only for a root on one of them.
OnlyExtraInVG == guest.root = "plain" /\ guest.extra = "lvm"

\* However often the worker was killed, and wherever, what it left does not
\* make a later task of a Linux guest fail (cleanupClones).
LinuxRetriesSucceed ==
    command = "failed" /\ guest.os = "linux" /\ ~faulty
        => Unsupported \/ (OnlyExtraInVG /\ foretold)

\* Between commands nothing is mounted, active or cloned: for Linux whatever
\* failed or was killed, for Windows if no task was killed.
CleanAtEnd ==
    (/\ command \in {"none", "failed", "done"}
     /\ guest.os = "linux" \/ (guest.os = "windows" /\ kills = 0))
        => mounts = <<>> /\ vg = "off" /\ clones = {}

\* Nothing that a failure or a kill leaves outlives the next task of a Linux
\* guest or keeps it from succeeding (setup-root-disk-clone.sh, cleanup).
LeftoversHarmless == LinuxRetriesSucceed /\ CleanAtEnd

\* What a dry run has let pass does not fail for the guest's layout when the
\* source VM is off: that is what the dry run is for (importDisks).
DryRunTells ==
    command = "failed" /\ ~faulty /\ foretold /\ kills = 0 => OnlyExtraInVG
=============================================================================
