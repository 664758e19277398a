-------------------------- MODULE TargetVMsProofs --------------------------
(***************************************************************************)
(* Proofs about TargetVMs, for any instances, disks, events and bound: a   *)
(* worker is expected only in a complete VM, what a failed or canceled     *)
(* creation has made is gone again, and the VMs of others are left alone.  *)
(***************************************************************************)
EXTENDS TargetVMs, WellFoundedInduction, TLAPS

\* A VM of this name, if there is one, is another user's, and no volume is left.
Clear(i) ==
    /\ Exists(i) => vm[i].maker = "user"
    /\ \A d \in Disk : ~Has(i, d)

Mine(i) == Exists(i) /\ vm[i].maker = "migration"

\* The VM has every disk, each made by this creation.
Whole(i) ==
    /\ Mine(i)
    /\ vm[i].attached = Disk
    /\ \A d \in Disk : volume[i][d] = "new"

\* CleanupVM, once it has found the VM to be Migration Manager's, leaves nothing.
Removable(i) ==
    \/ Clear(i)
    \/ Mine(i) /\ \A d \in Disk : Has(i, d) => d \in vm[i].attached

\* What createTargetVM has come to, and what its next steps may rely on.
CreationFits(i) ==
    /\ step[i] # "none" => status[i] = "CREATING"
    /\ status[i] = "CREATING" /\ step[i] = "none" => spoilt[i]
    /\ step[i] \in {"create", "revert"} /\ ~spoilt[i] => Clear(i)
    /\ step[i] = "setup" =>
            /\ Mine(i) /\ vm[i].worker /\ vm[i].attached = {}
            /\ \A d \in Disk \cap tried[i] : volume[i][d] = "new"
            /\ ~spoilt[i] => \A d \in ToMake(i) : ~Has(i, d)
    /\ step[i] = "undo" =>
            /\ Mine(i) /\ vm[i].worker
            /\ ~spoilt[i] => \A d \in Disk : Has(i, d) => d \in tried[i]
    /\ step[i] = "agent" => Whole(i) /\ vm[i].worker
    /\ step[i] = "cleanup" /\ ~spoilt[i] => Removable(i) /\ (Mine(i) => vm[i].worker)

\* What is on the target of an entry no creation is at work on.
TargetFits(i) ==
    /\ late[i] => spoilt[i]
    /\ status[i] \in {"WAITING", "BLOCKED", "CANCELED"} /\ ~spoilt[i] => Clear(i)
    /\ status[i] = "IDLE" => Whole(i)
    /\ status[i] \in {"WORKER_DONE", "CONFLICT"} /\ ~spoilt[i] => Removable(i)

\* A round has seen free names only of entries that still wait, and it creates
\* nothing before it has claimed them.
RoundFits ==
    /\ round.pc # "claim" => round.seen = {}
    /\ \A i \in round.seen : status[i] = "WAITING"
    /\ round.pc # "create" => \A i \in Instance : step[i] = "none"

TargetInv ==
    /\ TypeOK
    /\ RoundFits
    /\ \A i \in Instance : CreationFits(i) /\ TargetFits(i)

-----------------------------------------------------------------------------
(* Lemmas about the disks *)

LEMMA MinIsMember ==
    ASSUME NEW S \in SUBSET Nat, S # {}
    PROVE  Min(S) \in S
<1>1. \E R : IsWellFoundedOn(R, Nat) /\ \A m, n \in Nat : m < n => <<m, n>> \in R
  <2>1. \A m, n \in Nat : m < n => <<m, n>> \in OpToRel(<, Nat)
      BY DEF OpToRel
  <2> QED
      BY <2>1, NatLessThanWellFounded, Zenon
<1>2. PICK R : IsWellFoundedOn(R, Nat) /\ \A m, n \in Nat : m < n => <<m, n>> \in R
    BY <1>1, Zenon
<1>3. S \subseteq Nat /\ S # {} /\ IsWellFoundedOn(R, Nat)
    BY <1>2
<1>4. \E n \in S : \A m \in S : ~ (<<m, n>> \in R)
    BY <1>3, WFMin
<1>5. PICK n \in S : \A m \in S : ~ (<<m, n>> \in R)
    BY <1>4
<1>6. ASSUME NEW m \in S
      PROVE  n <= m
  <2>1. m \in Nat /\ n \in Nat /\ ~ (m < n)
      BY <1>2, <1>3, <1>5, Zenon
  <2> QED
      BY <2>1
<1> QED
    BY <1>6 DEF Min

LEMMA NextDisk ==
    ASSUME NEW i \in Instance, ToMake(i) # {}
    PROVE  Min(ToMake(i)) \in ToMake(i)
<1>1. ToMake(i) \in SUBSET Nat
    BY TargetVMsAssumption DEF ToMake
<1> QED
    BY <1>1, MinIsMember

-----------------------------------------------------------------------------
(* Lemmas about VMs *)

LEMMA VMsExist ==
    NewVM \in TargetVM /\ \A v \in TargetVM : v # NoVM
<1>1. NewVM \in TargetVM
    BY DEF NewVM, TargetVM
<1> QED
    BY <1>1, TargetVMsAssumption, Zenon DEF TargetVM

LEMMA EventsCounted ==
    ASSUME TypeOK, NEW e, Event(e)
    PROVE  events' \in 0 .. MaxEvents
BY TargetVMsAssumption DEF TypeOK, Event

-----------------------------------------------------------------------------
(* What an action about one instance leaves alone *)

\* The rest of the target and of the round, but for the number of events.
OthersKept(i) ==
    /\ \A j \in Instance \ {i} :
        /\ status'[j] = status[j] /\ step'[j] = step[j] /\ tried'[j] = tried[j]
        /\ vm'[j] = vm[j] /\ volume'[j] = volume[j]
        /\ late'[j] = late[j] /\ spoilt'[j] = spoilt[j]
    /\ round' = round

\* A round relies on the entries that it has seen, and on no other creation.
RoundKept(i) ==
    /\ status[i] = "WAITING" => status'[i] = "WAITING" \/ round.pc = "idle"
    /\ step[i] = "none" => step'[i] = "none"

InstanceFits(i) == CreationFits(i) /\ TargetFits(i)

LEMMA OneFits ==
    ASSUME TargetInv, NEW i \in Instance, OthersKept(i), RoundKept(i),
           TypeOK', InstanceFits(i)'
    PROVE  TargetInv'
<1>1. RoundFits'
  <2>1. round.pc # "claim" => round'.seen = {}
      BY DEF TargetInv, RoundFits, OthersKept
  <2>2. ASSUME NEW j \in round.seen
        PROVE  status'[j] = "WAITING"
    <3>1. round.pc = "claim" /\ status[j] = "WAITING" /\ j \in Instance
        BY <2>2 DEF TargetInv, RoundFits, TypeOK
    <3> QED
        BY <3>1 DEF OthersKept, RoundKept
  <2>3. ASSUME round.pc # "create", NEW j \in Instance
        PROVE  step'[j] = "none"
      BY <2>3 DEF TargetInv, RoundFits, OthersKept, RoundKept
  <2> QED
      BY <2>1, <2>2, <2>3 DEF RoundFits, OthersKept
<1>2. ASSUME NEW j \in Instance, j # i
      PROVE  InstanceFits(j)'
  <2>1. /\ status'[j] = status[j] /\ step'[j] = step[j] /\ tried'[j] = tried[j]
        /\ vm'[j] = vm[j] /\ volume'[j] = volume[j]
        /\ late'[j] = late[j] /\ spoilt'[j] = spoilt[j]
      BY <1>2 DEF OthersKept
  <2>2. InstanceFits(j)
      BY DEF TargetInv, InstanceFits
  <2>3. CreationFits(j)'
      BY <2>1, <2>2 DEF InstanceFits, CreationFits, Clear, Mine, Whole, Removable, Exists, Has,
                        ToMake
  <2>4. TargetFits(j)'
      BY <2>1, <2>2 DEF InstanceFits, TargetFits, Clear, Mine, Whole, Removable, Exists, Has
  <2> QED
      BY <2>3, <2>4 DEF InstanceFits
<1> QED
    BY <1>1, <1>2 DEF TargetInv, InstanceFits

-----------------------------------------------------------------------------
(* The steps of createTargetVM *)

LEMMA CreateVMFits ==
    ASSUME TargetInv, NEW i \in Instance, CreateVM(i)
    PROVE  TargetInv'
<1>1. OthersKept(i) /\ RoundKept(i)
    BY DEF CreateVM, StepTo, OthersKept, RoundKept, TargetInv, TypeOK
<1>2. TypeOK'
  <2>1. vm' \in [Instance -> TargetVM \cup {NoVM}]
      BY VMsExist DEF CreateVM, TargetInv, TypeOK
  <2>2. [d \in Disk |-> IF Has(i, d) THEN "old" ELSE "none"] \in [Disk -> {"none", "new", "old"}]
      OBVIOUS
  <2>3. volume' \in [Instance -> [Disk -> {"none", "new", "old"}]]
      BY <2>2 DEF CreateVM, TargetInv, TypeOK
  <2> QED
      BY <2>1, <2>3 DEF CreateVM, StepTo, TargetInv, TypeOK
<1>3. /\ status'[i] = "CREATING" /\ tried'[i] = {} /\ late'[i] = late[i]
      /\ spoilt'[i] = spoilt[i] /\ (late[i] => spoilt[i])
      /\ ~spoilt[i] => Clear(i)
    BY DEF CreateVM, TargetInv, TypeOK, CreationFits, TargetFits
<1>4. CASE Exists(i)
  <2>1. step'[i] = "cleanup" /\ vm'[i] = vm[i] /\ volume'[i] = volume[i]
      BY <1>4 DEF CreateVM, StepTo, TargetInv, TypeOK
  <2>2. ~spoilt[i] => vm[i].maker = "user" /\ \A d \in Disk : ~Has(i, d)
      BY <1>3, <1>4 DEF Clear
  <2> QED
      BY <1>1, <1>2, <1>3, <2>1, <2>2, OneFits
      DEF InstanceFits, CreationFits, TargetFits, Mine, Removable, Clear, Exists, Has
<1>5. CASE ~Exists(i)
  <2>1. /\ step'[i] = "setup" /\ vm'[i] = NewVM
        /\ \A d \in Disk : volume'[i][d] = IF Has(i, d) THEN "old" ELSE "none"
      BY <1>5 DEF CreateVM, StepTo, TargetInv, TypeOK
  <2>2. Exists(i)'
      BY <2>1, VMsExist DEF Exists
  <2>3. vm'[i].maker = "migration" /\ vm'[i].worker /\ vm'[i].attached = {}
      BY <2>1 DEF NewVM
  <2> QED
      BY <1>1, <1>2, <1>3, <2>1, <2>2, <2>3, OneFits
      DEF InstanceFits, CreationFits, TargetFits, Mine, Clear, Has, ToMake
<1> QED
    BY <1>4, <1>5

LEMMA CreateVMFailsFits ==
    ASSUME TargetInv, NEW i \in Instance, CreateVMFails(i)
    PROVE  TargetInv'
<1>1. OthersKept(i) /\ RoundKept(i)
    BY DEF CreateVMFails, StepTo, OthersKept, RoundKept, TargetInv, TypeOK
<1>2. TypeOK'
    BY EventsCounted DEF CreateVMFails, StepTo, TargetInv, TypeOK
<1>3. /\ status'[i] = "CREATING" /\ vm'[i] = vm[i] /\ volume'[i] = volume[i]
      /\ late[i] => spoilt[i]
      /\ ~spoilt[i] => Clear(i)
    BY DEF CreateVMFails, TargetInv, TypeOK, CreationFits, TargetFits
<1>4. \/ step'[i] = "revert" /\ late'[i] = late[i] /\ spoilt'[i] = spoilt[i]
      \/ step'[i] = "cleanup" /\ spoilt'[i]
    BY DEF CreateVMFails, StepTo, TargetInv, TypeOK
<1> QED
    BY <1>1, <1>2, <1>3, <1>4, OneFits
    DEF InstanceFits, CreationFits, TargetFits, Clear, Exists, Has

LEMMA CreatedLateFits ==
    ASSUME TargetInv, NEW i \in Instance, CreatedLate(i)
    PROVE  TargetInv'
<1>1. OthersKept(i) /\ RoundKept(i)
    BY DEF CreatedLate, daemon, OthersKept, RoundKept, TargetInv, TypeOK
<1>2. TypeOK'
    BY VMsExist DEF CreatedLate, daemon, TargetInv, TypeOK
<1>3. /\ status'[i] = status[i] /\ step'[i] = step[i] /\ tried'[i] = tried[i]
      /\ spoilt[i] /\ spoilt'[i]
      /\ volume'[i] = volume[i]
      /\ Exists(i) => vm'[i] = vm[i]
    BY DEF CreatedLate, daemon, TargetInv, TypeOK, TargetFits, Exists
<1> QED
    BY <1>1, <1>2, <1>3, OneFits
    DEF TargetInv, InstanceFits, CreationFits, TargetFits, Mine, Whole, Exists, Has

LEMMA CreateVolumeFits ==
    ASSUME TargetInv, NEW i \in Instance, CreateVolume(i)
    PROVE  TargetInv'
<1> DEFINE d == Min(ToMake(i))
<1>1. d \in Disk /\ d \notin tried[i]
    BY NextDisk DEF CreateVolume, ToMake
<1> HIDE DEF d
<1>2. OthersKept(i) /\ RoundKept(i)
    BY <1>1 DEF CreateVolume, StepTo, OthersKept, RoundKept, TargetInv, TypeOK, d
<1>3. TypeOK'
  <2>1. [volume[i] EXCEPT ![d] = "new"] \in [Disk -> {"none", "new", "old"}]
      BY <1>1 DEF TargetInv, TypeOK
  <2>2. volume' = volume \/ volume' = [volume EXCEPT ![i] = [volume[i] EXCEPT ![d] = "new"]]
      BY DEF CreateVolume, TargetInv, TypeOK, d
  <2>3. volume' \in [Instance -> [Disk -> {"none", "new", "old"}]]
      BY <2>1, <2>2 DEF TargetInv, TypeOK
  <2>4. tried' \in [Instance -> SUBSET Disk]
      BY <1>1 DEF CreateVolume, TargetInv, TypeOK, d
  <2> QED
      BY <2>3, <2>4 DEF CreateVolume, StepTo, TargetInv, TypeOK
<1>4. /\ status'[i] = "CREATING" /\ vm'[i] = vm[i] /\ late'[i] = late[i]
      /\ spoilt'[i] = spoilt[i] /\ tried'[i] = tried[i] \cup {d}
      /\ late[i] => spoilt[i]
      /\ Mine(i) /\ vm[i].worker /\ vm[i].attached = {}
      /\ \A c \in Disk \cap tried[i] : volume[i][c] = "new"
      /\ ~spoilt[i] => \A c \in ToMake(i) : ~Has(i, c)
    BY DEF CreateVolume, TargetInv, TypeOK, CreationFits, TargetFits, d
<1>5. Mine(i)'
    BY <1>4 DEF Mine, Exists
<1>6. CASE Has(i, d)
  <2>1. step'[i] = "undo" /\ spoilt'[i]
      BY <1>1, <1>4, <1>6 DEF CreateVolume, StepTo, TargetInv, TypeOK, ToMake, d
  <2> QED
      BY <1>2, <1>3, <1>4, <1>5, <2>1, OneFits DEF InstanceFits, CreationFits, TargetFits
<1>7. CASE ~Has(i, d)
  <2>1. /\ step'[i] = "setup" /\ volume'[i][d] = "new"
        /\ \A c \in Disk \ {d} : volume'[i][c] = volume[i][c]
      BY <1>1, <1>7 DEF CreateVolume, TargetInv, TypeOK, d
  <2> QED
      BY <1>2, <1>3, <1>4, <1>5, <2>1, OneFits
      DEF InstanceFits, CreationFits, TargetFits, Has, ToMake
<1> QED
    BY <1>6, <1>7

\* With the worker volume on it and every disk made, the VM is whole.
LEMMA AttachedIsWhole ==
    ASSUME TargetInv, NEW i \in Instance, step[i] = "setup", ToMake(i) = {},
           vm' = [vm EXCEPT ![i].attached = Disk], volume' = volume
    PROVE  Whole(i)' /\ vm'[i].worker
<1>1. /\ Mine(i) /\ vm[i].worker
      /\ \A d \in Disk \cap tried[i] : volume[i][d] = "new"
    BY DEF TargetInv, CreationFits
<1>2. vm[i] \in TargetVM
    BY <1>1 DEF Mine, Exists, TargetInv, TypeOK
<1>3. vm'[i] = [vm[i] EXCEPT !.attached = Disk]
    BY DEF TargetInv, TypeOK
<1>4. vm'[i] \in TargetVM /\ vm'[i].maker = "migration" /\ vm'[i].worker
      /\ vm'[i].attached = Disk
    BY <1>1, <1>2, <1>3 DEF TargetVM, Mine
<1>5. \A d \in Disk : d \in tried[i]
    BY DEF ToMake
<1> QED
    BY <1>1, <1>4, <1>5, VMsExist DEF Whole, Mine, Exists

LEMMA AttachVolumesFits ==
    ASSUME TargetInv, NEW i \in Instance, AttachVolumes(i)
    PROVE  TargetInv'
<1>1. OthersKept(i) /\ RoundKept(i)
    BY DEF AttachVolumes, StepTo, OthersKept, RoundKept, TargetInv, TypeOK
<1>2. Whole(i)' /\ vm'[i].worker
    BY AttachedIsWhole DEF AttachVolumes
<1>3. [vm[i] EXCEPT !.attached = Disk] \in TargetVM
    BY DEF AttachVolumes, TargetInv, TypeOK, CreationFits, Mine, Exists, TargetVM
<1>4. TypeOK'
    BY <1>3 DEF AttachVolumes, StepTo, TargetInv, TypeOK
<1>5. /\ status'[i] = "CREATING" /\ step'[i] = "agent"
      /\ late'[i] = late[i] /\ spoilt'[i] = spoilt[i] /\ (late[i] => spoilt[i])
    BY DEF AttachVolumes, StepTo, TargetInv, TypeOK, CreationFits, TargetFits
<1> QED
    BY <1>1, <1>2, <1>4, <1>5, OneFits DEF InstanceFits, CreationFits, TargetFits

LEMMA SetupFailsFits ==
    ASSUME TargetInv, NEW i \in Instance, SetupFails(i)
    PROVE  TargetInv'
<1>1. OthersKept(i) /\ RoundKept(i)
    BY DEF SetupFails, StepTo, OthersKept, RoundKept, TargetInv, TypeOK
<1>2. /\ status'[i] = "CREATING" /\ step'[i] = "undo" /\ tried'[i] = tried[i]
      /\ late'[i] = late[i] /\ spoilt'[i] = spoilt[i] /\ (late[i] => spoilt[i])
      /\ volume' = volume
      /\ ~spoilt[i] => \A d \in Disk : Has(i, d) => d \in tried[i]
      /\ Mine(i) /\ vm[i].worker
    BY DEF SetupFails, StepTo, TargetInv, TypeOK, CreationFits, TargetFits, ToMake
<1>3. [vm[i] EXCEPT !.attached = Disk] \in TargetVM
  <2>1. vm[i] \in TargetVM
      BY <1>2 DEF TargetInv, TypeOK, Mine, Exists
  <2> QED
      BY <2>1 DEF TargetVM
<1>4. TypeOK'
  <2>1. vm' \in [Instance -> TargetVM \cup {NoVM}]
      BY <1>3 DEF SetupFails, TargetInv, TypeOK
  <2>2. step' \in [Instance -> {"none", "create", "setup", "undo", "agent", "cleanup", "revert"}]
      BY DEF SetupFails, StepTo, TargetInv, TypeOK
  <2>3. events' \in 0 .. MaxEvents
      BY EventsCounted DEF SetupFails, TargetInv
  <2> QED
      BY <2>1, <2>2, <2>3 DEF SetupFails, TargetInv, TypeOK
<1>5. Mine(i)' /\ vm'[i].worker
  <2>1. CASE UNCHANGED vm
      BY <1>2, <2>1 DEF Mine, Exists
  <2>2. CASE ToMake(i) = {} /\ vm' = [vm EXCEPT ![i].attached = Disk]
      BY <1>2, <2>2, AttachedIsWhole DEF SetupFails, Whole
  <2> QED
      BY <2>1, <2>2 DEF SetupFails
<1> QED
    BY <1>1, <1>2, <1>4, <1>5, OneFits DEF InstanceFits, CreationFits, TargetFits, Has

LEMMA WithoutVolumes ==
    ASSUME NEW volumes \in [Disk -> {"none", "new", "old"}], NEW S
    PROVE  /\ Without(volumes, S) \in [Disk -> {"none", "new", "old"}]
           /\ \A d \in Disk : Without(volumes, S)[d] = IF d \in S THEN "none" ELSE volumes[d]
BY DEF Without

LEMMA UndoVolumesFits ==
    ASSUME TargetInv, NEW i \in Instance, UndoVolumes(i)
    PROVE  TargetInv'
<1> DEFINE S == Unattached(i, tried[i])
<1>1. /\ Without(volume[i], S) \in [Disk -> {"none", "new", "old"}]
      /\ \A d \in Disk : Without(volume[i], S)[d] = IF d \in S THEN "none" ELSE volume[i][d]
    BY WithoutVolumes DEF TargetInv, TypeOK
<1>2. volume' = [volume EXCEPT ![i] = Without(volume[i], S)]
    BY DEF UndoVolumes
<1>3. OthersKept(i) /\ RoundKept(i)
    BY <1>2 DEF UndoVolumes, StepTo, OthersKept, RoundKept, TargetInv, TypeOK
<1>4. TypeOK'
    BY <1>1, <1>2 DEF UndoVolumes, StepTo, TargetInv, TypeOK
<1>5. /\ status'[i] = "CREATING" /\ step'[i] = "cleanup" /\ vm'[i] = vm[i]
      /\ late'[i] = late[i] /\ spoilt'[i] = spoilt[i] /\ (late[i] => spoilt[i])
      /\ Mine(i) /\ vm[i].worker
      /\ ~spoilt[i] => \A d \in Disk : Has(i, d) => d \in tried[i]
    BY DEF UndoVolumes, StepTo, TargetInv, TypeOK, CreationFits, TargetFits
<1>6. \A d \in Disk : volume'[i][d] = IF d \in S THEN "none" ELSE volume[i][d]
    BY <1>1, <1>2 DEF TargetInv, TypeOK
<1>7. ~spoilt'[i] => Removable(i)'
    BY <1>5, <1>6 DEF Removable, Mine, Exists, Has, Unattached
<1> QED
    BY <1>3, <1>4, <1>5, <1>7, OneFits DEF InstanceFits, CreationFits, TargetFits

LEMMA UndoFailsFits ==
    ASSUME TargetInv, NEW i \in Instance, UndoFails(i)
    PROVE  TargetInv'
<1>1. PICK kept \in SUBSET Unattached(i, tried[i]) :
        volume' = [volume EXCEPT ![i] = Without(volume[i], Unattached(i, tried[i]) \ kept)]
    BY DEF UndoFails
<1>2. Without(volume[i], Unattached(i, tried[i]) \ kept) \in [Disk -> {"none", "new", "old"}]
    BY WithoutVolumes DEF TargetInv, TypeOK
<1>3. OthersKept(i) /\ RoundKept(i)
    BY <1>1 DEF UndoFails, StepTo, OthersKept, RoundKept, TargetInv, TypeOK
<1>4. TypeOK'
    BY <1>1, <1>2, EventsCounted DEF UndoFails, StepTo, TargetInv, TypeOK
<1>5. status'[i] = "CREATING" /\ step'[i] = "cleanup" /\ spoilt'[i]
    BY DEF UndoFails, StepTo, TargetInv, TypeOK, CreationFits
<1> QED
    BY <1>3, <1>4, <1>5, OneFits DEF InstanceFits, CreationFits, TargetFits

LEMMA AgentFits ==
    ASSUME TargetInv, NEW i \in Instance, AgentUp(i) \/ AgentFails(i)
    PROVE  TargetInv'
<1>1. OthersKept(i) /\ RoundKept(i)
    BY DEF AgentUp, AgentFails, SetStatus, StepTo, target, OthersKept, RoundKept, TargetInv,
           TypeOK, CreationFits
<1>2. TypeOK'
    BY EventsCounted DEF AgentUp, AgentFails, SetStatus, StepTo, target, TargetInv, TypeOK
<1>3. /\ vm'[i] = vm[i] /\ volume'[i] = volume[i]
      /\ late'[i] = late[i] /\ spoilt'[i] = spoilt[i] /\ (late[i] => spoilt[i])
      /\ Whole(i) /\ vm[i].worker
      /\ \/ status'[i] = "IDLE" /\ step'[i] = "none"
         \/ status'[i] = "CREATING" /\ step'[i] = "cleanup"
    BY DEF AgentUp, AgentFails, SetStatus, StepTo, target, TargetInv, TypeOK, CreationFits,
           TargetFits
<1> QED
    BY <1>1, <1>2, <1>3, OneFits
    DEF InstanceFits, CreationFits, TargetFits, Whole, Removable, Mine, Exists

-----------------------------------------------------------------------------
(* CleanupVM *)

\* What a call of CleanupVM may do, be it for a failed creation, an ended
\* window or a canceled entry: nothing to the VMs of other entries.
LEMMA CleanupTyped ==
    ASSUME TypeOK, NEW i \in Instance, NEW req \in BOOLEAN,
           CleanupVM(i, req) \/ CleanupFails(i, req)
    PROVE  /\ vm' \in [Instance -> TargetVM \cup {NoVM}]
           /\ volume' \in [Instance -> [Disk -> {"none", "new", "old"}]]
           /\ late' = late /\ spoilt' \in [Instance -> BOOLEAN]
           /\ \A j \in Instance \ {i} :
                vm'[j] = vm[j] /\ volume'[j] = volume[j] /\ spoilt'[j] = spoilt[j]
           /\ spoilt[i] => spoilt'[i]
           /\ CleanupFails(i, req) => spoilt'[i] /\ events' \in 0 .. MaxEvents
<1>1. ASSUME NEW S, vm' = [vm EXCEPT ![i] = NoVM],
             volume' = [volume EXCEPT ![i] = Without(volume[i], S)]
      PROVE  /\ vm' \in [Instance -> TargetVM \cup {NoVM}]
             /\ volume' \in [Instance -> [Disk -> {"none", "new", "old"}]]
             /\ \A j \in Instance \ {i} : vm'[j] = vm[j] /\ volume'[j] = volume[j]
  <2>1. Without(volume[i], S) \in [Disk -> {"none", "new", "old"}]
      BY WithoutVolumes DEF TypeOK
  <2> QED
      BY <1>1, <2>1 DEF TypeOK
<1>2. CASE CleanupFails(i, req)
  <2>1. late' = late /\ spoilt' = [spoilt EXCEPT ![i] = TRUE] /\ events' \in 0 .. MaxEvents
      BY <1>2, EventsCounted DEF CleanupFails
  <2>2. CASE UNCHANGED <<vm, volume>>
      BY <2>1, <2>2 DEF TypeOK
  <2>3. CASE \E gone \in SUBSET vm[i].attached :
                /\ vm' = [vm EXCEPT ![i] = NoVM]
                /\ volume' = [volume EXCEPT ![i] = Without(@, gone)]
      BY <1>1, <2>1, <2>3 DEF TypeOK
  <2> QED
      BY <1>2, <2>2, <2>3 DEF CleanupFails
<1>3. CASE ~CleanupFails(i, req) /\ CleanupVM(i, req)
  <2>1. CASE Cleanable(i, req)
      BY <1>1, <1>3, <2>1 DEF CleanupVM, DeleteVMAndDisks, TypeOK
  <2>2. CASE ~Cleanable(i, req)
      BY <1>3, <2>2 DEF CleanupVM, target, TypeOK
  <2> QED
      BY <2>1, <2>2
<1> QED
    BY <1>2, <1>3

\* CleanupVM leaves nothing of a VM it may remove.
LEMMA CleanupClears ==
    ASSUME TypeOK, NEW i \in Instance, NEW req \in BOOLEAN, CleanupVM(i, req),
           Removable(i), req /\ Mine(i) => vm[i].worker
    PROVE  Clear(i)' /\ spoilt' = spoilt
<1>1. CASE Mine(i)
  <2>1. Cleanable(i, req) /\ DeleteVMAndDisks(i)
      BY <1>1 DEF CleanupVM, Cleanable, Mine
  <2>2. ~Exists(i)'
      BY <2>1 DEF DeleteVMAndDisks, Exists, TypeOK
  <2>3. \A d \in Disk : Has(i, d) => d \in vm[i].attached
      BY <1>1 DEF Removable, Clear, Mine
  <2>4. \A d \in Disk : volume'[i][d] = IF d \in vm[i].attached THEN "none" ELSE volume[i][d]
      BY <2>1, WithoutVolumes DEF DeleteVMAndDisks, TypeOK
  <2> QED
      BY <2>1, <2>2, <2>3, <2>4 DEF DeleteVMAndDisks, Clear, Has
<1>2. CASE ~Mine(i)
  <2>1. ~Cleanable(i, req) /\ Clear(i)
      BY <1>2 DEF Cleanable, Mine, Removable
  <2> QED
      BY <2>1 DEF CleanupVM, target, Clear, Exists, Has
<1> QED
    BY <1>1, <1>2

LEMMA CleanupCreatedFits ==
    ASSUME TargetInv, NEW i \in Instance, CleanupCreated(i)
    PROVE  TargetInv'
<1>1. CleanupVM(i, TRUE) \/ CleanupFails(i, TRUE)
    BY DEF CleanupCreated
<1>2. /\ vm' \in [Instance -> TargetVM \cup {NoVM}]
      /\ volume' \in [Instance -> [Disk -> {"none", "new", "old"}]]
      /\ late' = late /\ spoilt' \in [Instance -> BOOLEAN]
      /\ \A j \in Instance \ {i} :
            vm'[j] = vm[j] /\ volume'[j] = volume[j] /\ spoilt'[j] = spoilt[j]
      /\ spoilt[i] => spoilt'[i]
      /\ CleanupFails(i, TRUE) => spoilt'[i] /\ events' \in 0 .. MaxEvents
    BY <1>1, CleanupTyped DEF TargetInv
<1>3. OthersKept(i) /\ RoundKept(i)
    BY <1>2 DEF CleanupCreated, StepTo, OthersKept, RoundKept, TargetInv, TypeOK
<1>4. TypeOK'
    BY <1>2 DEF CleanupCreated, StepTo, TargetInv, TypeOK
<1>5. /\ status'[i] = "CREATING" /\ step'[i] = "revert" /\ (late[i] => spoilt[i])
      /\ ~spoilt[i] => Removable(i) /\ (Mine(i) => vm[i].worker)
    BY DEF CleanupCreated, StepTo, TargetInv, TypeOK, CreationFits, TargetFits
<1>6. ASSUME ~spoilt'[i]
      PROVE  Clear(i)'
  <2>1. CleanupVM(i, TRUE) /\ ~spoilt[i]
      BY <1>1, <1>2, <1>6
  <2> QED
      BY <1>5, <2>1, CleanupClears DEF TargetInv
<1> QED
    BY <1>2, <1>3, <1>4, <1>5, <1>6, OneFits DEF InstanceFits, CreationFits, TargetFits

LEMMA RevertCreatingFits ==
    ASSUME TargetInv, NEW i \in Instance, RevertCreating(i)
    PROVE  TargetInv'
<1>1. OthersKept(i) /\ RoundKept(i)
    BY DEF RevertCreating, SetStatus, StepTo, target, OthersKept, RoundKept, TargetInv, TypeOK,
           CreationFits
<1>2. TypeOK'
    BY DEF RevertCreating, SetStatus, StepTo, target, TargetInv, TypeOK
<1>3. /\ status'[i] = "WAITING" /\ step'[i] = "none" /\ vm'[i] = vm[i] /\ volume'[i] = volume[i]
      /\ late'[i] = late[i] /\ spoilt'[i] = spoilt[i] /\ (late[i] => spoilt[i])
      /\ ~spoilt[i] => Clear(i)
    BY DEF RevertCreating, SetStatus, StepTo, target, TargetInv, TypeOK, CreationFits, TargetFits
<1> QED
    BY <1>1, <1>2, <1>3, OneFits
    DEF InstanceFits, CreationFits, TargetFits, Clear, Exists, Has

-----------------------------------------------------------------------------
(* The steps after the creation, and what users do *)

LEMMA ImportDoneFits ==
    ASSUME TargetInv, NEW i \in Instance, ImportDone(i)
    PROVE  TargetInv'
<1>1. OthersKept(i) /\ RoundKept(i)
    BY DEF ImportDone, SetStatus, daemon, target, OthersKept, RoundKept, TargetInv, TypeOK
<1>2. TypeOK'
    BY DEF ImportDone, SetStatus, daemon, target, TargetInv, TypeOK
<1>3. /\ status'[i] = "WORKER_DONE" /\ step'[i] = "none" /\ vm'[i] = vm[i]
      /\ volume'[i] = volume[i] /\ late'[i] = late[i] /\ spoilt'[i] = spoilt[i]
      /\ (late[i] => spoilt[i]) /\ Whole(i)
    BY DEF ImportDone, SetStatus, daemon, target, TargetInv, TypeOK, CreationFits, TargetFits
<1> QED
    BY <1>1, <1>2, <1>3, OneFits
    DEF InstanceFits, CreationFits, TargetFits, Whole, Removable, Mine, Exists

\* Taking the worker volume away leaves the rest of the VM as it is.
LEMMA ConfiguredVM ==
    ASSUME TypeOK, NEW i \in Instance, Exists(i), Configured(i) \/ UNCHANGED vm
    PROVE  /\ vm' \in [Instance -> TargetVM \cup {NoVM}] /\ Exists(i)'
           /\ vm'[i].maker = vm[i].maker /\ vm'[i].attached = vm[i].attached
           /\ \A j \in Instance \ {i} : vm'[j] = vm[j]
<1>1. vm[i] \in TargetVM
    BY DEF TypeOK, Exists
<1>2. CASE Configured(i)
  <2>1. vm'[i] = [vm[i] EXCEPT !.worker = FALSE] /\ vm' = [vm EXCEPT ![i] = vm'[i]]
      BY <1>2 DEF Configured, TypeOK
  <2>2. vm'[i] \in TargetVM /\ vm'[i].maker = vm[i].maker /\ vm'[i].attached = vm[i].attached
      BY <1>1, <2>1 DEF TargetVM
  <2> QED
      BY <2>1, <2>2, VMsExist DEF Exists, TypeOK
<1>3. CASE UNCHANGED vm
    BY <1>3 DEF Exists, TypeOK
<1> QED
    BY <1>2, <1>3

LEMMA ConfigureFits ==
    ASSUME TargetInv, NEW i \in Instance, Configure(i) \/ ConfigureFails(i)
    PROVE  TargetInv'
<1>1. /\ \/ ~Exists(i) /\ vm' = vm
         \/ Exists(i) /\ (Configured(i) \/ UNCHANGED vm)
      /\ status[i] = "WORKER_DONE"
    BY DEF Configure, ConfigureFails
<1>2. /\ vm' \in [Instance -> TargetVM \cup {NoVM}]
      /\ \A j \in Instance \ {i} : vm'[j] = vm[j]
      /\ Exists(i)' <=> Exists(i)
      /\ Exists(i) => vm'[i].maker = vm[i].maker /\ vm'[i].attached = vm[i].attached
    BY <1>1, ConfiguredVM DEF TargetInv, TypeOK, Exists
<1>3. OthersKept(i) /\ RoundKept(i)
    BY <1>2 DEF Configure, ConfigureFails, SetStatus, daemon, OthersKept, RoundKept, TargetInv,
                TypeOK
<1>4. TypeOK'
    BY <1>2, EventsCounted DEF Configure, ConfigureFails, SetStatus, daemon, TargetInv, TypeOK
<1>5. /\ status'[i] \in {"WORKER_DONE", "FINISHED", "CONFLICT"} /\ step'[i] = "none"
      /\ volume'[i] = volume[i] /\ late'[i] = late[i] /\ spoilt'[i] = spoilt[i]
      /\ (late[i] => spoilt[i])
      /\ ~spoilt[i] => Removable(i)
    BY DEF Configure, ConfigureFails, SetStatus, daemon, TargetInv, TypeOK, CreationFits,
           TargetFits
<1>6. ~spoilt'[i] => Removable(i)'
    BY <1>2, <1>5 DEF Removable, Clear, Mine, Has
<1> QED
    BY <1>3, <1>4, <1>5, <1>6, OneFits DEF InstanceFits, CreationFits, TargetFits

\* The entry of an ended window and the canceled one are cleaned up alike.
LEMMA GivenUpFits ==
    ASSUME TargetInv, NEW i \in Instance, step[i] = "none", UNCHANGED daemon,
           CleanupVM(i, FALSE) \/ CleanupFails(i, FALSE),
           events' \in 0 .. MaxEvents,
           status[i] = "WAITING" => round.pc = "idle",
           status[i] = "CREATING" => spoilt[i],
           ~spoilt[i] => Removable(i),
           NEW s \in {"WAITING", "CANCELED", "WORKER_DONE"}, SetStatus(i, s),
           s = "WORKER_DONE" => CleanupFails(i, FALSE)
    PROVE  TargetInv'
<1>1. /\ vm' \in [Instance -> TargetVM \cup {NoVM}]
      /\ volume' \in [Instance -> [Disk -> {"none", "new", "old"}]]
      /\ late' = late /\ spoilt' \in [Instance -> BOOLEAN]
      /\ \A j \in Instance \ {i} :
            vm'[j] = vm[j] /\ volume'[j] = volume[j] /\ spoilt'[j] = spoilt[j]
      /\ spoilt[i] => spoilt'[i]
      /\ CleanupFails(i, FALSE) => spoilt'[i]
    BY CleanupTyped DEF TargetInv
<1>2. OthersKept(i) /\ RoundKept(i)
    BY <1>1 DEF SetStatus, daemon, OthersKept, RoundKept, TargetInv, TypeOK
<1>3. TypeOK'
    BY <1>1 DEF SetStatus, daemon, TargetInv, TypeOK
<1>4. status'[i] = s /\ step'[i] = "none" /\ (late[i] => spoilt[i])
    BY DEF SetStatus, daemon, TargetInv, TypeOK, TargetFits
<1>5. ASSUME ~spoilt'[i]
      PROVE  Clear(i)' /\ s # "WORKER_DONE"
  <2>1. CleanupVM(i, FALSE) /\ ~spoilt[i] /\ s # "WORKER_DONE"
      BY <1>1, <1>5
  <2> QED
      BY <2>1, CleanupClears DEF TargetInv
<1> QED
    BY <1>1, <1>2, <1>3, <1>4, <1>5, OneFits DEF InstanceFits, CreationFits, TargetFits

LEMMA ResetEntryFits ==
    ASSUME TargetInv, NEW i \in Instance, ResetEntry(i)
    PROVE  TargetInv'
<1>1. /\ status[i] = "WORKER_DONE" /\ step[i] = "none" /\ UNCHANGED daemon
      /\ ~spoilt[i] => Removable(i)
    BY DEF ResetEntry, TargetInv, CreationFits, TargetFits
<1>2. CASE Event("deadline") /\ CleanupVM(i, FALSE) /\ SetStatus(i, "WAITING")
    BY <1>1, <1>2, EventsCounted, GivenUpFits DEF TargetInv
<1>3. CASE CleanupFails(i, FALSE) /\ UNCHANGED status
  <2>1. SetStatus(i, "WORKER_DONE")
      BY <1>1, <1>3 DEF SetStatus, TargetInv, TypeOK
  <2>2. events' \in 0 .. MaxEvents
      BY <1>3, EventsCounted DEF CleanupFails, TargetInv
  <2> QED
      BY <1>1, <1>3, <2>1, <2>2, GivenUpFits
<1> QED
    BY <1>2, <1>3 DEF ResetEntry

LEMMA CancelEntryFits ==
    ASSUME TargetInv, NEW i \in Instance, NEW cleanup \in BOOLEAN, CancelEntry(i, cleanup)
    PROVE  TargetInv'
<1>1. /\ round.pc = "idle" /\ step[i] = "none" /\ UNCHANGED daemon
      /\ status[i] \in {"BLOCKED", "WAITING", "CREATING", "IDLE", "WORKER_DONE", "CONFLICT"}
      /\ SetStatus(i, "CANCELED")
      /\ status[i] = "CREATING" => spoilt[i]
    BY DEF CancelEntry, TargetInv, TypeOK, RoundFits, CreationFits
<1>2. ~spoilt[i] => Removable(i)
    BY <1>1 DEF TargetInv, TargetFits, Whole, Removable
<1>3. CASE Event("cancel") /\ cleanup /\ CleanupVM(i, FALSE)
    BY <1>1, <1>2, <1>3, EventsCounted, GivenUpFits DEF TargetInv
<1>4. CASE CleanupFails(i, FALSE)
  <2>1. events' \in 0 .. MaxEvents
      BY <1>4, CleanupTyped DEF TargetInv
  <2> QED
      BY <1>1, <1>2, <1>4, <2>1, GivenUpFits
<1>5. CASE /\ Event("cancel") /\ spoilt' = [spoilt EXCEPT ![i] = TRUE]
           /\ UNCHANGED <<vm, volume, late>>
  <2>1. OthersKept(i) /\ RoundKept(i)
      BY <1>1, <1>5 DEF SetStatus, daemon, OthersKept, RoundKept, TargetInv, TypeOK
  <2>2. TypeOK'
      BY <1>1, <1>5, EventsCounted DEF SetStatus, daemon, TargetInv, TypeOK
  <2>3. status'[i] = "CANCELED" /\ step'[i] = "none" /\ spoilt'[i]
      BY <1>1, <1>5 DEF SetStatus, daemon, TargetInv, TypeOK
  <2> QED
      BY <2>1, <2>2, <2>3, OneFits DEF InstanceFits, CreationFits, TargetFits
<1> QED
    BY <1>3, <1>4, <1>5 DEF CancelEntry

LEMMA RetryEntryFits ==
    ASSUME TargetInv, NEW i \in Instance, RetryEntry(i)
    PROVE  TargetInv'
<1>1. OthersKept(i) /\ RoundKept(i)
    BY DEF RetryEntry, SetStatus, daemon, target, OthersKept, RoundKept, TargetInv, TypeOK
<1>2. TypeOK'
    BY DEF RetryEntry, SetStatus, daemon, target, TargetInv, TypeOK
<1>3. /\ status'[i] = "WAITING" /\ step'[i] = "none" /\ vm'[i] = vm[i] /\ volume'[i] = volume[i]
      /\ late'[i] = late[i] /\ spoilt'[i] = spoilt[i] /\ (late[i] => spoilt[i])
      /\ ~spoilt[i] => Clear(i)
    BY DEF RetryEntry, SetStatus, daemon, target, TargetInv, TypeOK, CreationFits, TargetFits
<1> QED
    BY <1>1, <1>2, <1>3, OneFits
    DEF InstanceFits, CreationFits, TargetFits, Clear, Exists, Has

LEMMA UserCreatesFits ==
    ASSUME TargetInv, NEW i \in Instance, UserCreates(i)
    PROVE  TargetInv'
<1>1. PICK looksAlike \in BOOLEAN :
        vm' = [vm EXCEPT ![i] = [maker |-> "user", worker |-> looksAlike, attached |-> {}]]
    BY DEF UserCreates
<1>2. [maker |-> "user", worker |-> looksAlike, attached |-> {}] \in TargetVM
    BY DEF TargetVM
<1>3. OthersKept(i) /\ RoundKept(i)
    BY <1>1 DEF UserCreates, daemon, OthersKept, RoundKept, TargetInv, TypeOK
<1>4. TypeOK'
    BY <1>1, <1>2, EventsCounted DEF UserCreates, daemon, TargetInv, TypeOK
<1>5. /\ vm'[i].maker = "user" /\ ~Exists(i)
      /\ status'[i] = status[i] /\ step'[i] = step[i] /\ tried'[i] = tried[i]
      /\ volume'[i] = volume[i] /\ late'[i] = late[i] /\ spoilt'[i] = spoilt[i]
    BY <1>1 DEF UserCreates, daemon, TargetInv, TypeOK
<1>6. (Clear(i) => Clear(i)') /\ (Removable(i) => Removable(i)') /\ ~Mine(i) /\ ~Mine(i)'
    BY <1>5 DEF Clear, Removable, Mine, Has
<1> QED
    BY <1>3, <1>4, <1>5, <1>6, OneFits
    DEF TargetInv, InstanceFits, CreationFits, TargetFits, Whole

-----------------------------------------------------------------------------
(* The round, and its restart *)

\* The round and the daemon touch nothing on the target.
LEMMA TargetUntouched ==
    ASSUME NEW i \in Instance, UNCHANGED <<vm, volume>>
    PROVE  /\ Clear(i)' <=> Clear(i)
           /\ Mine(i)' <=> Mine(i)
           /\ Whole(i)' <=> Whole(i)
           /\ Removable(i)' <=> Removable(i)
BY DEF Clear, Mine, Whole, Removable, Exists, Has

LEMMA ReassessFits ==
    ASSUME TargetInv, Reassess
    PROVE  TargetInv'
<1>1. TypeOK' /\ RoundFits'
    BY DEF Reassess, target, TargetInv, TypeOK, RoundFits
<1>2. ASSUME NEW i \in Instance
      PROVE  CreationFits(i)' /\ TargetFits(i)'
  <2>1. status'[i] = status[i] \/ (status[i] = "BLOCKED" /\ status'[i] = "WAITING")
      BY DEF Reassess, Pending
  <2>2. step'[i] = step[i] /\ step[i] = "none"
      BY DEF Reassess, TargetInv, RoundFits
  <2>3. /\ status'[i] = status[i] \/ (status[i] = "BLOCKED" /\ status'[i] = "WAITING")
        /\ step'[i] = step[i] /\ step[i] = "none"
        /\ UNCHANGED <<vm, volume, late, spoilt>>
      BY <2>1, <2>2 DEF Reassess, target
  <2>4. CreationFits(i) /\ TargetFits(i) /\ step'[i] = "none"
      BY <2>3 DEF TargetInv
  <2>5. /\ Clear(i)' <=> Clear(i)
        /\ Whole(i)' <=> Whole(i)
        /\ Removable(i)' <=> Removable(i)
        /\ late'[i] = late[i] /\ spoilt'[i] = spoilt[i]
      BY <2>3, TargetUntouched
  <2>6. CreationFits(i)'
      BY <2>3, <2>4, <2>5 DEF CreationFits
  <2>7. TargetFits(i)'
      BY <2>3, <2>4, <2>5 DEF TargetFits
  <2> QED
      BY <2>6, <2>7
<1> QED
    BY <1>1, <1>2 DEF TargetInv

LEMMA PlaceFits ==
    ASSUME TargetInv, Place
    PROVE  TargetInv'
<1> DEFINE waiting == {i \in Instance : status[i] = "WAITING"}
           seen    == {i \in waiting : CanPlace(i)}
<1>1. /\ round.pc = "place"
      /\ status' = [i \in Instance |-> IF i \in waiting \ seen THEN "BLOCKED" ELSE status[i]]
      /\ round' = [pc |-> IF seen = {} THEN "idle" ELSE "claim", seen |-> seen]
      /\ UNCHANGED <<step, tried, target, events>>
    BY DEF Place
<1>2. seen \in SUBSET Instance /\ \A i \in seen : status[i] = "WAITING"
    OBVIOUS
<1>3. TypeOK'
    BY <1>1, <1>2 DEF target, TargetInv, TypeOK
<1>4. RoundFits'
    BY <1>1, <1>2 DEF TargetInv, TypeOK, RoundFits
<1>5. ASSUME NEW i \in Instance
      PROVE  CreationFits(i)' /\ TargetFits(i)'
  <2>1. status'[i] = status[i] \/ (status[i] = "WAITING" /\ status'[i] = "BLOCKED")
      BY <1>1
  <2>2. step'[i] = step[i] /\ step[i] = "none"
      BY <1>1 DEF TargetInv, RoundFits
  <2>3. /\ status'[i] = status[i] \/ (status[i] = "WAITING" /\ status'[i] = "BLOCKED")
        /\ step'[i] = step[i] /\ step[i] = "none"
        /\ UNCHANGED <<vm, volume, late, spoilt>>
      BY <1>1, <2>1, <2>2 DEF target
  <2>4. CreationFits(i) /\ TargetFits(i) /\ step'[i] = "none"
      BY <2>3 DEF TargetInv
  <2>5. /\ Clear(i)' <=> Clear(i)
        /\ Whole(i)' <=> Whole(i)
        /\ Removable(i)' <=> Removable(i)
        /\ late'[i] = late[i] /\ spoilt'[i] = spoilt[i]
      BY <2>3, TargetUntouched
  <2>6. CreationFits(i)'
      BY <2>3, <2>4, <2>5 DEF CreationFits
  <2>7. TargetFits(i)'
      BY <2>3, <2>4, <2>5 DEF TargetFits
  <2> QED
      BY <2>6, <2>7
<1> QED
    BY <1>3, <1>4, <1>5 DEF TargetInv

LEMMA ClaimFits ==
    ASSUME TargetInv, Claim
    PROVE  TargetInv'
<1>1. TypeOK' /\ RoundFits'
    BY DEF Claim, target, TargetInv, TypeOK, RoundFits
<1>2. ASSUME NEW i \in Instance
      PROVE  CreationFits(i)' /\ TargetFits(i)'
  <2>1. step[i] = "none" /\ UNCHANGED <<vm, volume, late, spoilt>>
      BY DEF Claim, target, TargetInv, RoundFits
  <2>2. CASE i \in round.seen
    <3>1. status[i] = "WAITING" /\ status'[i] = "CREATING" /\ step'[i] = "create"
        BY <2>2 DEF Claim, TargetInv, RoundFits
    <3> QED
        BY <2>1, <3>1, TargetUntouched DEF TargetInv, CreationFits, TargetFits
  <2>3. CASE i \notin round.seen
    <3>1. status'[i] = status[i] /\ step'[i] = "none"
        BY <2>3 DEF Claim
    <3> QED
        BY <2>1, <3>1, TargetUntouched DEF TargetInv, CreationFits, TargetFits
  <2> QED
      BY <2>2, <2>3
<1> QED
    BY <1>1, <1>2 DEF TargetInv

LEMMA EndRoundFits ==
    ASSUME TargetInv, EndRound
    PROVE  TargetInv'
<1>1. TypeOK' /\ RoundFits'
    BY DEF EndRound, target, TargetInv, TypeOK, RoundFits
<1>2. ASSUME NEW i \in Instance
      PROVE  CreationFits(i)' /\ TargetFits(i)'
    BY TargetUntouched DEF EndRound, target, TargetInv, CreationFits, TargetFits, ToMake, Has
<1> QED
    BY <1>1, <1>2 DEF TargetInv

LEMMA RestartDaemonFits ==
    ASSUME TargetInv, RestartDaemon
    PROVE  TargetInv'
<1>1. TypeOK' /\ RoundFits'
  <2>1. spoilt' \in [Instance -> BOOLEAN]
      BY DEF RestartDaemon, TargetInv, TypeOK
  <2> QED
      BY <2>1, EventsCounted DEF RestartDaemon, TargetInv, TypeOK, RoundFits
<1>2. ASSUME NEW i \in Instance
      PROVE  CreationFits(i)' /\ TargetFits(i)'
  <2>1. /\ status' = status /\ step'[i] = "none" /\ UNCHANGED <<vm, volume, late>>
        /\ spoilt'[i] <=> spoilt[i] \/ step[i] # "none"
      BY DEF RestartDaemon
  <2> QED
      BY <2>1, TargetUntouched DEF TargetInv, CreationFits, TargetFits
<1> QED
    BY <1>1, <1>2 DEF TargetInv

-----------------------------------------------------------------------------
(* The theorems *)

LEMMA InitFits ==
    ASSUME Init
    PROVE  TargetInv
<1>1. TypeOK
    BY TargetVMsAssumption DEF Init, TypeOK
<1>2. RoundFits
    BY DEF Init, RoundFits
<1>3. ASSUME NEW i \in Instance
      PROVE  CreationFits(i) /\ TargetFits(i)
    BY DEF Init, CreationFits, TargetFits, Clear, Exists, Has
<1> QED
    BY <1>1, <1>2, <1>3 DEF TargetInv

LEMMA StutterFits ==
    ASSUME TargetInv, UNCHANGED vars
    PROVE  TargetInv'
BY DEF vars, daemon, target, TargetInv, TypeOK, RoundFits, CreationFits, TargetFits, Clear,
       Mine, Whole, Removable, Exists, Has, ToMake

LEMMA NextFits ==
    ASSUME TargetInv, Next
    PROVE  TargetInv'
<1>1. CASE Round
    BY <1>1, ReassessFits, PlaceFits, ClaimFits, EndRoundFits DEF Round
<1>2. ASSUME NEW i \in Instance, Create(i)
      PROVE  TargetInv'
    BY <1>2, CreateVMFits, CreateVolumeFits, AttachVolumesFits, UndoVolumesFits, AgentFits,
       CleanupCreatedFits, RevertCreatingFits DEF Create
<1>3. ASSUME NEW i \in Instance,
             CreateVMFails(i) \/ SetupFails(i) \/ UndoFails(i) \/ AgentFails(i)
      PROVE  TargetInv'
    BY <1>3, CreateVMFailsFits, SetupFailsFits, UndoFailsFits, AgentFits
<1>4. ASSUME NEW i \in Instance,
             \/ CreatedLate(i) \/ ImportDone(i) \/ Configure(i) \/ ConfigureFails(i)
             \/ ResetEntry(i) \/ RetryEntry(i) \/ UserCreates(i)
      PROVE  TargetInv'
    BY <1>4, CreatedLateFits, ImportDoneFits, ConfigureFits, ResetEntryFits, RetryEntryFits,
       UserCreatesFits
<1>5. ASSUME NEW i \in Instance, NEW cleanup \in BOOLEAN, CancelEntry(i, cleanup)
      PROVE  TargetInv'
    BY <1>5, CancelEntryFits
<1>6. CASE RestartDaemon
    BY <1>6, RestartDaemonFits
<1> QED
    BY <1>1, <1>2, <1>3, <1>4, <1>5, <1>6 DEF Next

\* Whatever fails, restarts, comes late or is done by others, the round, the
\* entries and what is on the target fit together.
THEOREM TargetInvariant == Spec => []TargetInv
<1>1. TargetInv /\ [Next]_vars => TargetInv'
    BY NextFits, StutterFits
<1> QED
    BY InitFits, <1>1, PTL DEF Spec

\* Every variable keeps its type.
THEOREM TypesKept == Spec => []TypeOK
<1>1. TargetInv => TypeOK
    BY DEF TargetInv
<1> QED
    BY TargetInvariant, <1>1, PTL

\* Any number of instances and disks, and any failures: a worker is expected
\* only in a VM of Migration Manager's with every disk attached, each made by
\* this creation (createTargetVM, SetupVM).
THEOREM CreatedVMsAreComplete == Spec => []CreatedVMComplete
<1>1. TargetInv => CreatedVMComplete
    BY DEF TargetInv, TargetFits, Whole, Mine, CreatedVMComplete
<1> QED
    BY TargetInvariant, <1>1, PTL

\* Any number of failed creations, ended windows and canceled entries leave
\* nothing on the target, as long as every call that undoes them is made and
\* succeeds (createTargetVM's reverter, resetQueueEntry, queueCancel).
THEOREM FailuresLeaveNothing == Spec => []NothingLeftBehind
<1>1. TargetInv => NothingLeftBehind
    BY DEF TargetInv, TargetFits, Clear, NothingLeftBehind
<1> QED
    BY TargetInvariant, <1>1, PTL

\* No step removes a VM that is another user's, or takes it for its own.
LEMMA MakersKept ==
    ASSUME TargetInv, NEW i \in Instance, Exists(i), vm[i].maker = "user", [Next]_vars
    PROVE  vm'[i] # NoVM /\ vm'[i].maker = "user"
<1>1. ASSUME NEW j \in Instance, NEW req \in BOOLEAN,
             CleanupVM(j, req) \/ CleanupFails(j, req)
      PROVE  vm'[i] = vm[i]
  <2>1. CASE j = i
    <3>1. ~Cleanable(i, req)
        BY DEF Cleanable
    <3> QED
        BY <1>1, <2>1, <3>1 DEF CleanupVM, CleanupFails, target
  <2>2. CASE j # i
      BY <1>1, <2>2, CleanupTyped DEF TargetInv
  <2> QED
      BY <2>1, <2>2
<1>2. ASSUME vm'[i] = vm[i]
      PROVE  vm'[i] # NoVM /\ vm'[i].maker = "user"
    BY <1>2 DEF Exists
<1>3. CASE UNCHANGED vars \/ Round \/ RestartDaemon
    BY <1>2, <1>3 DEF vars, target, Round, Reassess, Place, Claim, EndRound, RestartDaemon
<1>4. ASSUME NEW j \in Instance,
             \/ CreateVM(j) \/ CreateVMFails(j) \/ CreatedLate(j) \/ CreateVolume(j)
             \/ UndoVolumes(j) \/ UndoFails(j) \/ AgentUp(j) \/ AgentFails(j)
             \/ RevertCreating(j) \/ ImportDone(j) \/ RetryEntry(j) \/ UserCreates(j)
      PROVE  vm'[i] = vm[i]
    BY <1>4 DEF CreateVM, CreateVMFails, CreatedLate, CreateVolume, UndoVolumes, UndoFails,
                AgentUp, AgentFails, RevertCreating, ImportDone, RetryEntry, UserCreates,
                target, Exists, TargetInv, TypeOK
<1>5. ASSUME NEW j \in Instance, AttachVolumes(j) \/ SetupFails(j)
      PROVE  vm'[i] = vm[i]
  <2>1. Mine(j)
      BY <1>5 DEF AttachVolumes, SetupFails, TargetInv, CreationFits
  <2>2. j # i
      BY <2>1 DEF Mine
  <2> QED
      BY <1>5, <2>2 DEF AttachVolumes, SetupFails, TargetInv, TypeOK
<1>6. ASSUME NEW j \in Instance, Configure(j) \/ ConfigureFails(j)
      PROVE  vm'[i] # NoVM /\ vm'[i].maker = "user"
  <2>1. vm' = vm \/ (Exists(j) /\ (Configured(j) \/ UNCHANGED vm))
      BY <1>6 DEF Configure, ConfigureFails
  <2>2. CASE Exists(j) /\ (Configured(j) \/ UNCHANGED vm)
    <3>1. CASE j = i
        BY <2>2, <3>1, ConfiguredVM DEF TargetInv, Exists
    <3>2. CASE j # i
        BY <1>2, <2>2, <3>2, ConfiguredVM DEF TargetInv
    <3> QED
        BY <3>1, <3>2
  <2> QED
      BY <1>2, <2>1, <2>2
<1>7. ASSUME NEW j \in Instance,
             \/ CleanupCreated(j) \/ ResetEntry(j)
             \/ \E cleanup \in BOOLEAN : CancelEntry(j, cleanup)
      PROVE  vm'[i] = vm[i]
  <2>1. \/ UNCHANGED vm
        \/ \E req \in BOOLEAN : CleanupVM(j, req) \/ CleanupFails(j, req)
      BY <1>7 DEF CleanupCreated, ResetEntry, CancelEntry
  <2> QED
      BY <1>1, <2>1
<1> QED
    BY <1>2, <1>3, <1>4, <1>5, <1>6, <1>7 DEF Next, Create

\* No failure, late answer or cleanup of Migration Manager's removes the VM of
\* another user of the target, whoever came first to the name (CleanupVM).
THEOREM ForeignVMsAreKept == Spec => ForeignVMKept
<1>1. TargetInv /\ [Next]_vars =>
        [\A i \in Instance : Exists(i) /\ vm[i].maker = "user" =>
            vm'[i] # NoVM /\ vm'[i].maker = "user"]_vars
    BY MakersKept
<1> QED
    BY TargetInvariant, <1>1, PTL DEF Spec, ForeignVMKept
=============================================================================
